---------------------------- MODULE UipTcpProofs ----------------------------
(* Theorems about UipTcp, for any number of bytes, retransmissions and     *)
(* segments under way.                                                     *)
EXTENDS UipTcp, TLAPS

(* A count set back to 0.                                                  *)
LEMMA Zero == 0 \in 0 .. UIP_MAXRTX
BY TcpAssumption

(* Sequence numbers stay in their space (uip_add32).                       *)
LEMMA AddType ==
  ASSUME NEW a \in Nat, NEW n \in Nat
  PROVE  uip_add32(a, n) \in SeqNo
<1>1. \A x \in Nat, m \in Nat \ {0} : x % m \in 0 .. m - 1
  OBVIOUS
<1>2. a + n \in Nat
  OBVIOUS
<1> QED BY <1>1, <1>2, TcpAssumption DEF uip_add32, SeqNo

(* tcp_send fills in a segment.                                            *)
LEMMA SegType ==
  ASSUME NEW e \in Host, NEW c \in Conn, NEW flags \in SUBSET Flag,
         NEW data \in Seq(Int)
  PROVE  Seg(e, c, flags, data) \in Segment
BY DEF Seg, Segment, Conn

(* So does reset.                                                          *)
LEMMA ResetType ==
  ASSUME NEW e \in Host, NEW s \in Segment
  PROVE  Reset(e, s) \subseteq Segment
<1>1. s.seq \in Nat /\ s.ack \in SeqNo
  BY DEF Segment, SeqNo
<1>2. uip_add32(s.seq, 1) \in SeqNo
  BY <1>1, AddType
<1>3. <<>> \in Seq(Int)
  OBVIOUS
<1>4. {"RST", "ACK"} \in SUBSET Flag
  BY DEF Flag
<1>5. [from |-> e, seq |-> s.ack, ack |-> uip_add32(s.seq, 1),
       flags |-> {"RST", "ACK"}, data |-> <<>>] \in Segment
  BY <1>1, <1>2, <1>3, <1>4 DEF Segment
<1> QED BY <1>5 DEF Reset

LEMMA SendType ==
  ASSUME net \subseteq Segment, NEW segments \in SUBSET Segment, Send(segments)
  PROVE  net' \subseteq Segment
BY DEF Send

LEMMA BecomeType ==
  ASSUME conn \in [Host -> Conn], NEW e \in Host, NEW c \in Conn, Become(e, c)
  PROVE  conn' \in [Host -> Conn]
BY DEF Become

LEMMA TellType ==
  ASSUME TypeOK, NEW e \in Host, NEW event \in {"closed", "aborted", "timedout"},
         Tell(e, event)
  PROVE  told' \in [Host -> SUBSET {"closed", "aborted", "timedout"}]
BY DEF TypeOK, Tell

LEMMA GiveType ==
  ASSUME TypeOK, NEW e \in Host, NEW s \in Segment, Give(e, s)
  PROVE  got' \in [Host -> Seq(Int)]
<1>1. s.data \in Seq(Int) /\ got[e] \in Seq(Int)
  BY DEF TypeOK, Segment
<1>2. got[e] \o s.data \in Seq(Int)
  BY <1>1
<1> QED BY <1>2 DEF TypeOK, Give

LEMMA LesserType ==
  ASSUME NEW a \in Nat, NEW b \in Nat
  PROVE  Lesser(a, b) \in Nat /\ Lesser(a, b) <= a /\ Lesser(a, b) <= b
BY DEF Lesser

(* The acknowledgement leaves a connection a connection.                   *)
LEMMA AfterAckType ==
  ASSUME NEW c \in Conn, NEW s, NEW d \in AfterAck(c, s)
  PROVE  d \in Conn
<1>1. c.snd_nxt \in Nat /\ c.len \in Nat /\ c.rto \in Nat
  BY DEF Conn, SeqNo
<1>2. uip_add32(c.snd_nxt, c.len) \in SeqNo
  BY <1>1, AddType
<1>3. ASSUME NEW rto \in Nat PROVE Acked(c, rto) \in Conn
  BY <1>2, <1>3 DEF Acked, Conn
<1> QED BY <1>1, <1>3, TcpAssumption DEF AfterAck

LEMMA RcvNxtType ==
  ASSUME NEW c \in Conn, NEW n \in Nat
  PROVE  uip_add_rcv_nxt(c, n) \in Conn
<1>1. uip_add32(c.rcv_nxt, n) \in SeqNo
  <2>1. c.rcv_nxt \in Nat
    BY DEF Conn, SeqNo
  <2> QED BY <2>1, AddType
<1> QED BY <1>1 DEF uip_add_rcv_nxt, Conn

(* What appsend writes.                                                    *)
AppVarsType == /\ conn' \in [Host -> Conn] /\ net' \subseteq Segment
               /\ sent' \in [Host -> Nat] /\ closing' \subseteq Host

Bytes(e, n) == [i \in 1 .. n |-> sent[e] + i]

LEMMA AppSendType ==
  ASSUME TypeOK, NEW e \in Host, NEW c \in Conn, NEW events, AppSend(e, c, events)
  PROVE  AppVarsType
<1> USE DEF AppVarsType
<1>0. /\ conn \in [Host -> Conn] /\ net \subseteq Segment
      /\ sent \in [Host -> Nat] /\ closing \subseteq Host /\ <<>> \in Seq(Int)
      /\ {"RST", "ACK"} \in SUBSET Flag /\ {"FIN", "ACK"} \in SUBSET Flag
      /\ {"ACK"} \in SUBSET Flag
  BY DEF TypeOK, Flag
<1>1. CASE AppAborts(e, c)
  <2>1. [c EXCEPT !.state = "CLOSED"] \in Conn
    BY DEF Conn, State
  <2>2. Seg(e, c, {"RST", "ACK"}, <<>>) \in Segment
    BY <1>0, SegType
  <2>3. conn' \in [Host -> Conn]
    BY <1>0, <1>1, <2>1, BecomeType DEF AppAborts
  <2>4. net' \subseteq Segment
    BY <1>0, <1>1, <2>2, SendType DEF AppAborts
  <2> QED BY <1>0, <1>1, <2>3, <2>4 DEF AppAborts
<1>2. CASE AppCloses(e, c)
  <2>1. [c EXCEPT !.len = 1, !.state = "FIN_WAIT_1", !.nrtx = 0] \in Conn
    BY Zero DEF Conn, State
  <2>2. Seg(e, c, {"FIN", "ACK"}, <<>>) \in Segment
    BY <1>0, SegType
  <2>3. conn' \in [Host -> Conn]
    BY <1>0, <1>2, <2>1, BecomeType DEF AppCloses
  <2>4. net' \subseteq Segment
    BY <1>0, <1>2, <2>2, SendType DEF AppCloses
  <2> QED BY <1>0, <1>2, <2>3, <2>4 DEF AppCloses
<1>3. CASE AppSendsNew(e, c)
  <2>1. PICK offer \in 1 .. MaxOffer :
          LET n == Lesser(offer, UIP_TCP_MSS)
          IN  /\ Become(e, [c EXCEPT !.len = n, !.nrtx = 0])
              /\ Send({Seg(e, c, {"ACK"}, Bytes(e, n))})
              /\ sent' = [sent EXCEPT ![e] = @ + n]
    BY <1>3 DEF AppSendsNew, Bytes
  <2> DEFINE n == Lesser(offer, UIP_TCP_MSS)
  <2>2. n \in Nat
    BY LesserType, TcpAssumption
  <2>3. Become(e, [c EXCEPT !.len = n, !.nrtx = 0])
        /\ Send({Seg(e, c, {"ACK"}, Bytes(e, n))})
        /\ sent' = [sent EXCEPT ![e] = @ + n]
    BY <2>1
  <2> HIDE DEF n
  <2>4. [c EXCEPT !.len = n, !.nrtx = 0] \in Conn
    BY <2>2, Zero DEF Conn
  <2>5. Bytes(e, n) \in Seq(Int)
    BY <1>0, <2>2 DEF Bytes
  <2>6. Seg(e, c, {"ACK"}, Bytes(e, n)) \in Segment
    BY <1>0, <2>5, SegType
  <2>7. conn' \in [Host -> Conn]
    BY <1>0, <2>3, <2>4, BecomeType
  <2>8. net' \subseteq Segment
    BY <1>0, <2>3, <2>6, SendType
  <2>9. sent' \in [Host -> Nat]
    BY <1>0, <2>2, <2>3
  <2> QED BY <1>0, <1>3, <2>7, <2>8, <2>9 DEF AppSendsNew
<1>4. CASE AppSendsAgain(e, c)
  <2>1. [c EXCEPT !.nrtx = 0] \in Conn
    BY Zero DEF Conn
  <2>2. Outstanding(e, c) \in Seq(Int)
    <3>1. c.len \in Nat /\ sent[e] \in Int
      BY <1>0 DEF Conn
    <3>2. \A i \in 1 .. c.len : sent[e] - c.len + i \in Int
      BY <3>1
    <3> QED BY <3>1, <3>2 DEF Outstanding
  <2>3. Seg(e, c, {"ACK"}, Outstanding(e, c)) \in Segment
    BY <1>0, <2>2, SegType
  <2>4. conn' \in [Host -> Conn]
    BY <1>0, <1>4, <2>1, BecomeType DEF AppSendsAgain
  <2>5. net' \subseteq Segment
    BY <1>0, <1>4, <2>3, SendType DEF AppSendsAgain
  <2> QED BY <1>0, <1>4, <2>4, <2>5 DEF AppSendsAgain
<1>5. CASE AppSendsNothing(e, c, events)
  <2>1. [c EXCEPT !.nrtx = 0] \in Conn
    BY Zero DEF Conn
  <2>2. Seg(e, c, {"ACK"}, <<>>) \in Segment
    BY <1>0, SegType
  <2>3. conn' \in [Host -> Conn]
    BY <1>0, <1>5, <2>1, BecomeType DEF AppSendsNothing
  <2>4. net' \subseteq Segment
    BY <1>0, <1>5, <2>2, SendType DEF AppSendsNothing, Drop
  <2> QED BY <1>0, <1>5, <2>3, <2>4 DEF AppSendsNothing
<1> QED BY <1>1, <1>2, <1>3, <1>4, <1>5 DEF AppSend

-----------------------------------------------------------------------------
LEMMA InitType == uip_init => TypeOK
<1> SUFFICES ASSUME uip_init PROVE TypeOK
  OBVIOUS
<1> QED BY Zero, TcpAssumption DEF uip_init, TypeOK, Conn, State, SeqNo

(* A tick of the periodic timer.                                           *)
LEMMA PeriodicType ==
  ASSUME TypeOK, NEW e \in Host, uip_periodic(e)
  PROVE  TypeOK'
<1>0. /\ conn \in [Host -> Conn] /\ conn[e] \in Conn /\ net \subseteq Segment
      /\ <<>> \in Seq(Int) /\ {"RST", "ACK"} \in SUBSET Flag
  BY DEF TypeOK, Flag
<1>1. CASE TimerWait(e)
  <2> DEFINE t == (conn[e].timer + 1) % 256
             c == [conn[e] EXCEPT !.timer = t,
                     !.state = IF t = UIP_TIME_WAIT_TIMEOUT THEN "CLOSED" ELSE @]
  <2>1. t \in Nat
    <3>1. conn[e].timer + 1 \in Nat
      BY <1>0 DEF Conn
    <3> QED BY <3>1
  <2>2. Become(e, c)
    BY <1>1 DEF TimerWait
  <2>3. c \in Conn
    <3> HIDE DEF t
    <3> QED BY <1>0, <2>1 DEF Conn, State
  <2> HIDE DEF c
  <2>4. conn' \in [Host -> Conn]
    BY <1>0, <2>2, <2>3, BecomeType
  <2> QED BY <1>1, <2>4 DEF TimerWait, TypeOK, appVars
<1>2. CASE TimerCount(e)
  <2>1. [conn[e] EXCEPT !.timer = @ - 1] \in Conn
    <3>1. conn[e].timer - 1 \in Nat
      BY <1>0, <1>2 DEF TimerCount, Conn
    <3> QED BY <1>0, <3>1 DEF Conn
  <2>2. conn' \in [Host -> Conn]
    BY <1>0, <1>2, <2>1, BecomeType DEF TimerCount
  <2> QED BY <1>2, <2>2 DEF TimerCount, TypeOK, appVars
<1>3. CASE TimerGiveUp(e)
  <2>1. [conn[e] EXCEPT !.state = "CLOSED", !.timer = 255] \in Conn
    <3> DEFINE wrapped == 255
    <3>1. wrapped \in Nat
      OBVIOUS
    <3> HIDE DEF wrapped
    <3>2. [conn[e] EXCEPT !.state = "CLOSED", !.timer = wrapped] \in Conn
      BY <1>0, <3>1 DEF Conn, State
    <3> QED BY <3>2 DEF wrapped
  <2>2. Seg(e, conn[e], {"RST", "ACK"}, <<>>) \in Segment
    BY <1>0, SegType
  <2>3. conn' \in [Host -> Conn]
    BY <1>0, <1>3, <2>1, BecomeType DEF TimerGiveUp
  <2>4. net' \subseteq Segment
    BY <1>0, <1>3, <2>2, SendType DEF TimerGiveUp
  <2>5. told' \in [Host -> SUBSET {"closed", "aborted", "timedout"}]
    BY <1>3, TellType DEF TimerGiveUp
  <2> QED BY <1>3, <2>3, <2>4, <2>5 DEF TimerGiveUp, TypeOK
<1>4. CASE TimerRexmit(e)
  <2>1. Backoff(conn[e]) \in Conn
    <3>1. Lesser(conn[e].nrtx, 4) \in 0 .. 4
      <4>1. conn[e].nrtx \in Nat
        BY <1>0 DEF Conn
      <4>2. Lesser(conn[e].nrtx, 4) \in Nat /\ Lesser(conn[e].nrtx, 4) <= 4
        BY <4>1, LesserType
      <4> QED BY <4>2
    <3>2. Shifted(conn[e].nrtx) \in Nat
      <4>1. \A n \in 0 .. 4 : <<1, 2, 4, 8, 16>>[n + 1] \in Nat
        OBVIOUS
      <4>2. \A a, b \in Nat : a * b \in Nat
        OBVIOUS
      <4> QED BY <3>1, <4>1, <4>2, TcpAssumption DEF Shifted
    <3>3. conn[e].nrtx + 1 \in 0 .. UIP_MAXRTX
      BY SMTT(20), <1>0, <1>4, TcpAssumption DEF TimerRexmit, Exhausted, Conn
    <3> QED BY <1>0, <3>2, <3>3 DEF Backoff, Conn
  <2>2. Again(e, conn[e]) \in Segment
    <3>1. {"SYN", "ACK"} \in SUBSET Flag /\ {"SYN"} \in SUBSET Flag
          /\ {"ACK"} \in SUBSET Flag /\ {"FIN", "ACK"} \in SUBSET Flag
      BY DEF Flag
    <3>2. Outstanding(e, conn[e]) \in Seq(Int)
      <4>1. conn[e].len \in Nat /\ sent[e] \in Int
        BY <1>0 DEF Conn, TypeOK
      <4>2. \A i \in 1 .. conn[e].len : sent[e] - conn[e].len + i \in Int
        BY <4>1
      <4> QED BY <4>1, <4>2 DEF Outstanding
    <3> QED BY <1>0, <3>1, <3>2, SegType DEF Again
  <2>3. conn' \in [Host -> Conn]
    BY <1>0, <1>4, <2>1, BecomeType DEF TimerRexmit
  <2>4. net' \subseteq Segment
    BY <1>0, <1>4, <2>2, SendType DEF TimerRexmit
  <2> QED BY <1>4, <2>3, <2>4 DEF TimerRexmit, TypeOK, appVars
<1>5. CASE TimerPoll(e)
  <2>1. AppVarsType
    BY <1>0, <1>5, AppSendType DEF TimerPoll
  <2> QED BY <1>5, <2>1 DEF TimerPoll, TypeOK, AppVarsType
<1> QED BY <1>1, <1>2, <1>3, <1>4, <1>5 DEF uip_periodic

(* A segment is handed over.                                               *)
LEMMA InputType ==
  ASSUME TypeOK, NEW e \in Host, NEW s \in net, uip_input(e, s)
  PROVE  TypeOK'
<1>0. /\ conn \in [Host -> Conn] /\ conn[e] \in Conn /\ net \subseteq Segment
      /\ s \in Segment /\ Len(s.data) \in Nat /\ s.seq \in Nat
      /\ <<>> \in Seq(Int) /\ {"ACK"} \in SUBSET Flag
      /\ {"SYN", "ACK"} \in SUBSET Flag /\ {"FIN", "ACK"} \in SUBSET Flag
  BY DEF TypeOK, Flag, Segment, SeqNo
<1>1. CASE NoConnection(e, s)
  <2>1. net' \subseteq Segment
    BY <1>0, <1>1, ResetType, SendType DEF NoConnection
  <2> QED BY <1>1, <2>1 DEF NoConnection, TypeOK, appVars
<1>2. CASE Listen(e, s)
  <2> DEFINE c == [state |-> "SYN_RCVD", snd_nxt |-> Iss[e],
               rcv_nxt |-> uip_add32(s.seq, 1), len |-> 1, nrtx |-> 0,
               timer |-> UIP_RTO, rto |-> UIP_RTO]
  <2>1. uip_add32(s.seq, 1) \in SeqNo
    BY <1>0, AddType
  <2>2. c \in Conn
    BY <2>1, Zero, TcpAssumption DEF Conn, State
  <2>3. Become(e, c) /\ Send({Seg(e, c, {"SYN", "ACK"}, <<>>)})
    BY <1>2 DEF Listen
  <2> HIDE DEF c
  <2>4. Seg(e, c, {"SYN", "ACK"}, <<>>) \in Segment
    BY <1>0, <2>2, SegType
  <2>5. conn' \in [Host -> Conn]
    BY <1>0, <2>2, <2>3, BecomeType
  <2>6. net' \subseteq Segment
    BY <1>0, <2>3, <2>4, SendType
  <2> QED BY <1>2, <2>5, <2>6 DEF Listen, TypeOK, appVars
<1>3. CASE InReset(e, s)
  <2>1. [conn[e] EXCEPT !.state = "CLOSED"] \in Conn
    BY <1>0 DEF Conn, State
  <2>2. conn' \in [Host -> Conn]
    BY <1>0, <1>3, <2>1, BecomeType DEF InReset
  <2>3. told' \in [Host -> SUBSET {"closed", "aborted", "timedout"}]
    BY <1>3, TellType DEF InReset
  <2> QED BY <1>3, <2>2, <2>3 DEF InReset, TypeOK
<1>4. CASE InUnexpected(e, s)
  <2>1. Seg(e, conn[e], {"ACK"}, <<>>) \in Segment
    BY <1>0, SegType
  <2>2. net' \subseteq Segment
    BY <1>0, <1>4, <2>1, SendType DEF InUnexpected
  <2> QED BY <1>4, <2>2 DEF InUnexpected, TypeOK, appVars
<1>5. CASE InSynRcvd(e, s)
  <2>1. PICK c \in AfterAck(conn[e], s) :
       IF Acks(conn[e], s)
       THEN /\ AppSend(e, uip_add_rcv_nxt([c EXCEPT !.state = "ESTABLISHED"], Len(s.data)),
                       {"CONNECTED"} \cup NewData(s))
            /\ Give(e, s)
       ELSE Become(e, c) /\ Drop /\ UNCHANGED <<sent, got, closing>>
    BY <1>5 DEF InSynRcvd
  <2>2. c \in Conn
    BY <1>0, AfterAckType
  <2>3. CASE Acks(conn[e], s)
    <3>1. [c EXCEPT !.state = "ESTABLISHED"] \in Conn
      BY <2>2 DEF Conn, State
    <3>2. uip_add_rcv_nxt([c EXCEPT !.state = "ESTABLISHED"], Len(s.data)) \in Conn
      BY <1>0, <3>1, RcvNxtType
    <3>3. AppVarsType
      BY <2>1, <2>3, <3>2, AppSendType
    <3>4. got' \in [Host -> Seq(Int)]
      BY <1>0, <2>1, <2>3, GiveType
    <3> QED BY <1>5, <3>3, <3>4 DEF InSynRcvd, TypeOK, AppVarsType
  <2>4. CASE ~Acks(conn[e], s)
    <3>1. conn' \in [Host -> Conn]
      BY <1>0, <2>1, <2>2, <2>4, BecomeType
    <3> QED BY <1>5, <2>1, <2>4, <3>1 DEF InSynRcvd, TypeOK, Drop
  <2> QED BY <2>3, <2>4
<1>6. CASE InSynSent(e, s)
  <2>1. PICK c \in AfterAck(conn[e], s) :
       IF Synchronizes(conn[e], s)
       THEN /\ AppSend(e, [c EXCEPT !.state = "ESTABLISHED",
                                    !.rcv_nxt = uip_add32(s.seq, 1)],
                       {"CONNECTED", "NEWDATA"})
            /\ UNCHANGED told
       ELSE /\ Become(e, [c EXCEPT !.state = "CLOSED"])
            /\ Tell(e, "aborted")
            /\ Send(Reset(e, s))
            /\ UNCHANGED <<sent, closing>>
    BY <1>6 DEF InSynSent
  <2>2. c \in Conn
    BY <1>0, AfterAckType
  <2>3. CASE Synchronizes(conn[e], s)
    <3>1. uip_add32(s.seq, 1) \in SeqNo
      BY <1>0, AddType
    <3>2. [c EXCEPT !.state = "ESTABLISHED", !.rcv_nxt = uip_add32(s.seq, 1)] \in Conn
      BY <2>2, <3>1 DEF Conn, State
    <3>3. AppVarsType
      BY <2>1, <2>3, <3>2, AppSendType
    <3> QED BY <1>6, <2>1, <2>3, <3>3 DEF InSynSent, TypeOK, AppVarsType
  <2>4. CASE ~Synchronizes(conn[e], s)
    <3>1. [c EXCEPT !.state = "CLOSED"] \in Conn
      BY <2>2 DEF Conn, State
    <3>2. conn' \in [Host -> Conn]
      BY <1>0, <2>1, <2>4, <3>1, BecomeType
    <3>3. net' \subseteq Segment
      BY <1>0, <2>1, <2>4, ResetType, SendType
    <3>4. told' \in [Host -> SUBSET {"closed", "aborted", "timedout"}]
      BY <2>1, <2>4, TellType
    <3> QED BY <1>6, <2>1, <2>4, <3>2, <3>3, <3>4 DEF InSynSent, TypeOK
  <2> QED BY <2>3, <2>4
<1>7. CASE InEstablishedFin(e, s)
  <2> DEFINE Closed(c) == [uip_add_rcv_nxt(c, 1 + Len(s.data)) EXCEPT
                             !.len = 1, !.state = "LAST_ACK", !.nrtx = 0]
  <2>1. PICK c \in AfterAck(conn[e], s) :
       IF uip_outstanding(c)
       THEN Become(e, c) /\ Drop /\ UNCHANGED <<got, told, acked>>
       ELSE /\ Become(e, Closed(c))
            /\ Send({Seg(e, Closed(c), {"FIN", "ACK"}, <<>>)})
            /\ Give(e, s)
            /\ Tell(e, "closed")
            /\ acked' = [acked EXCEPT ![e] = sent[e]]
    BY <1>7 DEF InEstablishedFin
  <2>2. c \in Conn
    BY <1>0, AfterAckType
  <2>3. CASE uip_outstanding(c)
    <3>1. conn' \in [Host -> Conn]
      BY <1>0, <2>1, <2>2, <2>3, BecomeType
    <3> QED BY <1>7, <2>1, <2>3, <3>1 DEF InEstablishedFin, TypeOK, Drop
  <2>4. CASE ~uip_outstanding(c)
    <3>1. uip_add_rcv_nxt(c, 1 + Len(s.data)) \in Conn
      BY <1>0, <2>2, RcvNxtType
    <3>2. Closed(c) \in Conn
      <4> DEFINE d == uip_add_rcv_nxt(c, 1 + Len(s.data))
      <4>1. d \in Conn
        BY <3>1
      <4> HIDE DEF d
      <4>2. [d EXCEPT !.len = 1, !.state = "LAST_ACK", !.nrtx = 0] \in Conn
        BY <4>1, Zero DEF Conn, State
      <4> QED BY <4>2 DEF d
    <3>3. /\ Become(e, Closed(c))
          /\ Send({Seg(e, Closed(c), {"FIN", "ACK"}, <<>>)})
          /\ Give(e, s) /\ Tell(e, "closed")
          /\ acked' = [acked EXCEPT ![e] = sent[e]]
      BY <2>1, <2>4
    <3> HIDE DEF Closed
    <3>4. Seg(e, Closed(c), {"FIN", "ACK"}, <<>>) \in Segment
      BY <1>0, <3>2, SegType
    <3>5. conn' \in [Host -> Conn]
      BY <1>0, <3>2, <3>3, BecomeType
    <3>6. net' \subseteq Segment
      BY <1>0, <3>3, <3>4, SendType
    <3>7. got' \in [Host -> Seq(Int)]
      BY <1>0, <3>3, GiveType
    <3>8. told' \in [Host -> SUBSET {"closed", "aborted", "timedout"}]
      BY <3>3, TellType
    <3>9. acked' \in [Host -> Nat]
      BY <3>3 DEF TypeOK
    <3> QED BY <1>7, <3>5, <3>6, <3>7, <3>8, <3>9 DEF InEstablishedFin, TypeOK
  <2> QED BY <2>3, <2>4
<1>8. CASE InEstablished(e, s)
  <2> DEFINE events == NewData(s) \cup (IF Acks(conn[e], s) THEN {"ACKDATA"} ELSE {})
  <2>1. PICK c \in AfterAck(conn[e], s) :
       IF events # {}
       THEN /\ AppSend(e, uip_add_rcv_nxt(c, Len(s.data)), events)
            /\ Give(e, s)
            /\ acked' = [acked EXCEPT ![e] = IF Acks(conn[e], s) THEN sent[e] ELSE @]
       ELSE Become(e, c) /\ Drop /\ UNCHANGED <<sent, acked, got, closing>>
    BY <1>8 DEF InEstablished
  <2> HIDE DEF events
  <2>2. c \in Conn
    BY <1>0, AfterAckType
  <2>3. CASE events # {}
    <3>1. uip_add_rcv_nxt(c, Len(s.data)) \in Conn
      BY <1>0, <2>2, RcvNxtType
    <3>2. AppVarsType
      BY <2>1, <2>3, <3>1, AppSendType
    <3>3. got' \in [Host -> Seq(Int)]
      BY <1>0, <2>1, <2>3, GiveType
    <3>4. acked' \in [Host -> Nat]
      BY <2>1, <2>3 DEF TypeOK
    <3> QED BY <1>8, <3>2, <3>3, <3>4 DEF InEstablished, TypeOK, AppVarsType
  <2>4. CASE events = {}
    <3>1. conn' \in [Host -> Conn]
      BY <1>0, <2>1, <2>2, <2>4, BecomeType
    <3> QED BY <1>8, <2>1, <2>4, <3>1 DEF InEstablished, TypeOK, Drop
  <2> QED BY <2>3, <2>4
<1>9. CASE InLastAck(e, s)
  <2>1. PICK c \in AfterAck(conn[e], s) :
       IF Acks(conn[e], s)
       THEN Become(e, [c EXCEPT !.state = "CLOSED"]) /\ Tell(e, "closed")
       ELSE Become(e, c) /\ UNCHANGED told
    BY <1>9 DEF InLastAck
  <2>2. c \in Conn /\ [c EXCEPT !.state = "CLOSED"] \in Conn
    <3>1. c \in Conn
      BY <1>0, AfterAckType
    <3> QED BY <3>1 DEF Conn, State
  <2>3. conn' \in [Host -> Conn]
    BY <1>0, <2>1, <2>2, BecomeType
  <2>4. told' \in [Host -> SUBSET {"closed", "aborted", "timedout"}]
    BY <2>1, TellType DEF TypeOK
  <2> QED BY <1>9, <2>3, <2>4 DEF InLastAck, TypeOK
<1>10. CASE InFinWait1(e, s)
  <2>1. PICK c \in AfterAck(conn[e], s) :
       LET d == uip_add_rcv_nxt(c, Len(s.data))
           f == uip_add_rcv_nxt(d, 1)
       IN  \E next \in {[f EXCEPT !.state = "TIME_WAIT", !.timer = 0],
                        [f EXCEPT !.state = "CLOSING"],
                        [d EXCEPT !.state = "FIN_WAIT_2"], d} :
             /\ Become(e, next)
             /\ Send({Seg(e, next, {"ACK"}, <<>>)}) \/ Drop
    BY <1>10 DEF InFinWait1
  <2> DEFINE d == uip_add_rcv_nxt(c, Len(s.data))
             f == uip_add_rcv_nxt(d, 1)
  <2>2. d \in Conn /\ f \in Conn
    <3>1. c \in Conn
      BY <1>0, AfterAckType
    <3>2. d \in Conn
      BY <1>0, <3>1, RcvNxtType
    <3> QED BY <3>2, RcvNxtType
  <2>3. PICK next \in {[f EXCEPT !.state = "TIME_WAIT", !.timer = 0],
                       [f EXCEPT !.state = "CLOSING"],
                       [d EXCEPT !.state = "FIN_WAIT_2"], d} :
          /\ Become(e, next)
          /\ Send({Seg(e, next, {"ACK"}, <<>>)}) \/ Drop
    BY <2>1
  <2> HIDE DEF d, f
  <2>4. next \in Conn
    <3>1. [f EXCEPT !.state = "TIME_WAIT", !.timer = 0] \in Conn
      BY <2>2 DEF Conn, State
    <3>2. [f EXCEPT !.state = "CLOSING"] \in Conn
      BY <2>2 DEF Conn, State
    <3>3. [d EXCEPT !.state = "FIN_WAIT_2"] \in Conn
      BY <2>2 DEF Conn, State
    <3> QED BY <2>2, <2>3, <3>1, <3>2, <3>3
  <2>5. Seg(e, next, {"ACK"}, <<>>) \in Segment
    BY <1>0, <2>4, SegType
  <2>6. conn' \in [Host -> Conn]
    BY <1>0, <2>3, <2>4, BecomeType
  <2>7. net' \subseteq Segment
    BY <1>0, <2>3, <2>5, SendType DEF Drop
  <2>8. told' \in [Host -> SUBSET {"closed", "aborted", "timedout"}]
    BY <1>10, TellType DEF TypeOK, InFinWait1
  <2> QED BY <1>10, <2>6, <2>7, <2>8 DEF InFinWait1, TypeOK
<1>11. CASE InFinWait2(e, s)
  <2> DEFINE d == uip_add_rcv_nxt(conn[e], Len(s.data))
             f == uip_add_rcv_nxt(d, 1)
             next == IF "FIN" \in s.flags
                     THEN [f EXCEPT !.state = "TIME_WAIT", !.timer = 0] ELSE d
  <2>1. Become(e, next) /\ (Send({Seg(e, next, {"ACK"}, <<>>)}) \/ Drop)
    BY <1>11 DEF InFinWait2
  <2>2. d \in Conn /\ f \in Conn
    <3>1. d \in Conn
      BY <1>0, RcvNxtType
    <3> QED BY <3>1, RcvNxtType
  <2>3. next \in Conn
    <3> HIDE DEF d, f
    <3> QED BY <2>2 DEF Conn, State
  <2> HIDE DEF next
  <2>4. Seg(e, next, {"ACK"}, <<>>) \in Segment
    BY <1>0, <2>3, SegType
  <2>5. conn' \in [Host -> Conn]
    BY <1>0, <2>1, <2>3, BecomeType
  <2>6. net' \subseteq Segment
    BY <1>0, <2>1, <2>4, SendType DEF Drop
  <2>7. told' \in [Host -> SUBSET {"closed", "aborted", "timedout"}]
    BY <1>11, TellType DEF TypeOK, InFinWait2
  <2> QED BY <1>11, <2>5, <2>6, <2>7 DEF InFinWait2, TypeOK
<1>12. CASE InTimeWait(e, s)
  <2>1. PICK c \in AfterAck(conn[e], s) :
          Become(e, c) /\ Send({Seg(e, c, {"ACK"}, <<>>)})
    BY <1>12 DEF InTimeWait
  <2>2. c \in Conn
    BY <1>0, AfterAckType
  <2>3. Seg(e, c, {"ACK"}, <<>>) \in Segment
    BY <1>0, <2>2, SegType
  <2>4. conn' \in [Host -> Conn]
    BY <1>0, <2>1, <2>2, BecomeType
  <2>5. net' \subseteq Segment
    BY <1>0, <2>1, <2>3, SendType
  <2> QED BY <1>12, <2>4, <2>5 DEF InTimeWait, TypeOK, appVars
<1>13. CASE InClosing(e, s)
  <2>1. PICK c \in AfterAck(conn[e], s) :
          \/ Become(e, [c EXCEPT !.state = "TIME_WAIT", !.timer = 0])
          \/ Become(e, c)
    BY <1>13 DEF InClosing
  <2>2. c \in Conn /\ [c EXCEPT !.state = "TIME_WAIT", !.timer = 0] \in Conn
    <3>1. c \in Conn
      BY <1>0, AfterAckType
    <3> QED BY <3>1 DEF Conn, State
  <2>3. conn' \in [Host -> Conn]
    BY <1>0, <2>1, <2>2, BecomeType
  <2> QED BY <1>13, <2>3 DEF InClosing, TypeOK, appVars
<1> QED BY <1>1, <1>2, <1>3, <1>4, <1>5, <1>6, <1>7, <1>8, <1>9, <1>10,
           <1>11, <1>12, <1>13 DEF uip_input

(* Every call of uip_process keeps the counts and numbers of a connection  *)
(* in range; in particular no segment is retransmitted more often than     *)
(* UIP_MAXRTX times between two calls of the application.                  *)
THEOREM TypeCorrect == Spec => []TypeOK
<1>1. uip_init => TypeOK
  BY InitType
<1>2. TypeOK /\ [Next]_vars => TypeOK'
  <2> SUFFICES ASSUME TypeOK, [Next]_vars PROVE TypeOK'
    OBVIOUS
  <2>1. CASE uip_connect
    <3>1. [conn["client"] EXCEPT !.state = "SYN_SENT", !.snd_nxt = Iss["client"],
             !.len = 1, !.nrtx = 0, !.timer = 1, !.rto = UIP_RTO] \in Conn
      <4>1. conn["client"] \in Conn
        BY DEF TypeOK, Host
      <4>2. Iss["client"] \in SeqNo
        BY TcpAssumption DEF Host
      <4> QED BY <4>1, <4>2, Zero, TcpAssumption DEF Conn, State
    <3> QED BY <2>1, <3>1 DEF uip_connect, TypeOK, appVars, Host
  <2>2. ASSUME NEW e \in Host, uip_periodic(e) PROVE TypeOK'
    BY <2>2, PeriodicType
  <2>3. ASSUME NEW e \in Host, NEW s \in net, uip_input(e, s) PROVE TypeOK'
    BY <2>3, InputType
  <2>4. ASSUME NEW s \in net, Lose(s) PROVE TypeOK'
    BY <2>4 DEF Lose, TypeOK, appVars
  <2>5. CASE UNCHANGED vars
    BY <2>5 DEF vars, appVars, TypeOK
  <2> QED BY <2>1, <2>2, <2>3, <2>4, <2>5 DEF Next
<1> QED BY <1>1, <1>2, PTL DEF Spec

-----------------------------------------------------------------------------
(***************************************************************************)
(* The two streams.  A segment under way may be as old as the connection,  *)
(* so what is said of it must stay true: the invariant speaks of the       *)
(* position in the stream that a number stands for, not of the number.     *)
(***************************************************************************)
(* No connection lives to use a sequence number twice.                     *)
NoReuse == \A e \in Host : MaxBytes[e] < SeqSpace

(* The sequence number of a position in the stream of e: 0 is its SYN, i   *)
(* its i-th byte, and the one after the last byte its FIN.                 *)
N(e, p) == uip_add32(Iss[e], p)

(* The states in which a connection sends no more data.                    *)
Shut == {"FIN_WAIT_1", "FIN_WAIT_2", "CLOSING", "TIME_WAIT", "LAST_ACK", "CLOSED"}

(* e has sent its last byte.                                               *)
Done(e) == e \in opened /\ conn[e].state \in Shut

(* What an acknowledgement of f may say of its peer's stream.              *)
AckGood(f, ack) ==
  \/ f \in closing
  \/ \E p \in 1 .. Len(got[f]) + 1 : ack = N(Peer(f), p)
  \/ Done(Peer(f)) /\ Len(got[f]) = sent[Peer(f)]

(* The data of a segment is the part of the stream its number says.        *)
DataGood(s) ==
  \E p \in 1 .. sent[s.from] :
    /\ s.seq = N(s.from, p)
    /\ p + Len(s.data) - 1 <= sent[s.from]
    /\ \A i \in 1 .. Len(s.data) : s.data[i] = p + i - 1

(* What a segment may say, with respect to the streams as they are now.    *)
SegGood(s) ==
  \/ "RST" \in s.flags
  \/ /\ s.from \in opened
     /\ s.flags \in {{"SYN"}, {"SYN", "ACK"}, {"ACK"}, {"FIN", "ACK"}}
     /\ s.data # <<>> => s.flags = {"ACK"} /\ DataGood(s)
     /\ "SYN" \in s.flags => s.seq = N(s.from, 0)
     /\ "FIN" \in s.flags => s.seq = N(s.from, sent[s.from] + 1) /\ Done(s.from)
     /\ "ACK" \in s.flags => AckGood(s.from, s.ack)

(* What each state of the connection says of the two streams.              *)
ConnGood(e) ==
  LET c == conn[e]
      state == c.state
      peer == Peer(e)
  IN /\ e \notin opened => /\ state = "CLOSED" /\ sent[e] = 0 /\ acked[e] = 0
                           /\ got[e] = <<>>
     /\ state # "CLOSED" => e \in opened
     /\ state \in {"SYN_SENT", "SYN_RCVD"} =>
          /\ c.snd_nxt = N(e, 0) /\ c.len = 1
          /\ sent[e] = 0 /\ acked[e] = 0 /\ got[e] = <<>>
     /\ state = "SYN_SENT" => e = "client"
     /\ state = "SYN_RCVD" => c.rcv_nxt = N(peer, 1)
     /\ state = "ESTABLISHED" =>
          /\ c.len <= sent[e] /\ acked[e] = sent[e] - c.len
          /\ c.snd_nxt = N(e, sent[e] - c.len + 1)
          /\ c.rcv_nxt = N(peer, Len(got[e]) + 1)
     /\ state \in {"FIN_WAIT_1", "CLOSING", "LAST_ACK"} =>
          c.len = 1 /\ c.snd_nxt = N(e, sent[e] + 1)
     /\ state \in {"FIN_WAIT_1", "CLOSING", "FIN_WAIT_2", "TIME_WAIT"} =>
          e \in closing
     /\ state = "LAST_ACK" => Done(peer) /\ Len(got[e]) = sent[peer]

(* The properties themselves, and the bound on what is sent.               *)
CountsGood(e) ==
  /\ sent[e] <= MaxBytes[e] /\ acked[e] <= sent[e]
  /\ Len(got[e]) <= sent[Peer(e)]
  /\ \A i \in 1 .. Len(got[e]) : got[e][i] = i
  /\ Peer(e) \in closing \/ acked[e] <= Len(got[Peer(e)])

(* Before the client has its answer neither host has anything to say.      *)
Greeting(s) ==
  \/ "RST" \in s.flags
  \/ s.from = "client" /\ s.flags = {"SYN"}
  \/ s.from = "server" /\ s.data = <<>> /\ s.flags \in {{"SYN", "ACK"}, {"ACK"}}
Quiet ==
  conn["client"].state = "SYN_SENT" =>
    /\ conn["server"].state \in {"CLOSED", "SYN_RCVD"}
    /\ \A s \in net : Greeting(s)

(* The inductive invariant.                                                *)
StreamsGood == /\ \A e \in Host : ConnGood(e) /\ CountsGood(e)
               /\ \A s \in net : SegGood(s)
               /\ "server" \in opened => "client" \in opened
               /\ Quiet

-----------------------------------------------------------------------------
(* There are two hosts.                                                    *)
LEMMA Peers ==
  ASSUME NEW e \in Host
  PROVE  /\ Peer(e) \in Host /\ Peer(e) # e /\ Peer(Peer(e)) = e
         /\ \A f \in Host : f = e \/ f = Peer(e)
BY DEF Host, Peer

(* The remainder of a number below two turns.                              *)
LEMMA Turn ==
  ASSUME NEW x \in 0 .. 2 * SeqSpace - 1
  PROVE  x % SeqSpace = IF x < SeqSpace THEN x ELSE x - SeqSpace
<1>1. SeqSpace \in Nat /\ SeqSpace > 0
  BY TcpAssumption
<1>2. CASE x < SeqSpace
  BY <1>1, <1>2
<1>3. CASE x >= SeqSpace
  <2>1. x = 1 * SeqSpace + (x - SeqSpace) /\ x - SeqSpace \in 0 .. SeqSpace - 1
    BY <1>1, <1>3
  <2>2. QED
    BY <1>1, <1>3, <2>1
<1>4. QED
  BY <1>1, <1>2, <1>3

(* The number of a position without the remainder.                         *)
LEMMA Number ==
  ASSUME NEW e \in Host, NEW p \in 0 .. SeqSpace
  PROVE  /\ N(e, p) = IF Iss[e] + p < SeqSpace THEN Iss[e] + p
                      ELSE Iss[e] + p - SeqSpace
         /\ N(e, p) \in SeqNo
<1> DEFINE x == Iss[e] + p
<1>1. SeqSpace \in Nat /\ SeqSpace > 0 /\ Iss[e] \in 0 .. SeqSpace - 1
  BY TcpAssumption DEF SeqNo
<1>2. x \in 0 .. 2 * SeqSpace - 1
  BY <1>1
<1>3. N(e, p) = x % SeqSpace
  BY DEF N, uip_add32
<1> HIDE DEF x
<1>4. N(e, p) = IF x < SeqSpace THEN x ELSE x - SeqSpace
  BY <1>2, <1>3, Turn
<1>5. QED
  BY <1>1, <1>2, <1>4 DEF x, SeqNo

(* uip_add32 counts positions on, across the wrap.                         *)
LEMMA NumberOn ==
  ASSUME NEW e \in Host, NEW p \in Nat, NEW n \in Nat, p + n <= SeqSpace
  PROVE  uip_add32(N(e, p), n) = N(e, p + n)
<1> DEFINE x == N(e, p) + n
<1>1. SeqSpace \in Nat /\ SeqSpace > 0 /\ Iss[e] \in 0 .. SeqSpace - 1
  BY TcpAssumption DEF SeqNo
<1>2. p \in 0 .. SeqSpace /\ p + n \in 0 .. SeqSpace
  BY <1>1
<1>3. /\ N(e, p) = IF Iss[e] + p < SeqSpace THEN Iss[e] + p
                      ELSE Iss[e] + p - SeqSpace
      /\ N(e, p + n) = IF Iss[e] + (p + n) < SeqSpace THEN Iss[e] + (p + n)
                      ELSE Iss[e] + (p + n) - SeqSpace
  BY <1>2, Number
<1>4. x \in 0 .. 2 * SeqSpace - 1
  BY <1>1, <1>2, <1>3
<1>5. uip_add32(N(e, p), n) = x % SeqSpace
  BY DEF uip_add32
<1>6. x % SeqSpace = IF x < SeqSpace THEN x ELSE x - SeqSpace
  <2> HIDE DEF x
  <2>1. QED
    BY <1>4, Turn
<1>7. QED
  BY <1>1, <1>2, <1>3, <1>5, <1>6

(* No two positions of one turn have the same number.                      *)
LEMMA NumberOnce ==
  ASSUME NEW e \in Host, NEW p \in 1 .. SeqSpace, NEW q \in 1 .. SeqSpace,
         N(e, p) = N(e, q)
  PROVE  p = q
<1>1. SeqSpace \in Nat /\ SeqSpace > 0 /\ Iss[e] \in 0 .. SeqSpace - 1
  BY TcpAssumption DEF SeqNo
<1>2. p \in 0 .. SeqSpace /\ q \in 0 .. SeqSpace
  BY <1>1
<1>3. /\ N(e, p) = IF Iss[e] + p < SeqSpace THEN Iss[e] + p
                      ELSE Iss[e] + p - SeqSpace
      /\ N(e, q) = IF Iss[e] + q < SeqSpace THEN Iss[e] + q
                      ELSE Iss[e] + q - SeqSpace
  BY <1>2, Number
<1>4. (IF Iss[e] + p < SeqSpace THEN Iss[e] + p ELSE Iss[e] + p - SeqSpace)
      = (IF Iss[e] + q < SeqSpace THEN Iss[e] + q ELSE Iss[e] + q - SeqSpace)
  BY <1>3
<1>5. QED
  BY <1>1, <1>4

(* tcp_send copies the numbers of the connection.                          *)
LEMMA SegFields ==
  ASSUME NEW e, NEW c, NEW flags, NEW data
  PROVE  LET s == Seg(e, c, flags, data)
         IN /\ s.from = e /\ s.seq = c.snd_nxt /\ s.ack = c.rcv_nxt
            /\ s.flags = flags /\ s.data = data
BY DEF Seg

(* What is sent is lost or under way.                                      *)
LEMMA Sent ==
  ASSUME NEW x, Send({x}), NEW s \in net'
  PROVE  s \in net \/ s = x
BY DEF Send

(* What reset sends is a reset.                                            *)
LEMMA Resets ==
  ASSUME NEW e, NEW t, Send(Reset(e, t)), NEW s \in net'
  PROVE  s \in net \/ (s.from = e /\ "RST" \in s.flags)
BY DEF Send, Reset

-----------------------------------------------------------------------------
(* What a call for e leaves alone, and what it never takes back.           *)
Moves(e) ==
  /\ \A f \in Host : f # e =>
       /\ conn'[f] = conn[f] /\ sent'[f] = sent[f] /\ acked'[f] = acked[f]
       /\ got'[f] = got[f]
       /\ f \in closing' <=> f \in closing
       /\ f \in opened' <=> f \in opened
  /\ closing \subseteq closing' /\ opened \subseteq opened'
  /\ sent'[e] >= sent[e] /\ Len(got'[e]) >= Len(got[e])
  /\ Done(e) => Done(e)' /\ sent'[e] = sent[e]

(* All that e sends is good.                                               *)
Sends(e) == \A s \in net' : s \in net \/ (s.from = e /\ SegGood(s)')

(* What the proof of a step starts from.                                   *)
Facts == TypeOK /\ TypeOK' /\ StreamsGood /\ NoReuse

(* A segment under way stays good: what it says of the streams is never    *)
(* taken back.                                                             *)
LEMMA SegKept ==
  ASSUME Facts, NEW e \in Host, Moves(e), CountsGood(e)', NEW s \in net
  PROVE  SegGood(s)'
<1> DEFINE f == s.from
<1>1. /\ SegGood(s) /\ s \in Segment /\ f \in Host
      /\ sent[f] \in Nat /\ sent'[f] \in Nat /\ s.data \in Seq(Int)
      /\ Len(s.data) \in Nat
  BY DEF Facts, StreamsGood, TypeOK, Segment
<1>2. CASE "RST" \in s.flags
  BY <1>2 DEF SegGood
<1>3. CASE "RST" \notin s.flags
  <2>1. f \in opened'
    BY <1>1, <1>3 DEF SegGood, Moves
  <2>2. s.data # <<>> => s.flags = {"ACK"} /\ DataGood(s)'
    <3> SUFFICES ASSUME s.data # <<>> PROVE DataGood(s)'
      BY <1>1, <1>3 DEF SegGood
    <3>1. PICK p \in 1 .. sent[f] :
             /\ s.seq = N(f, p)
             /\ p + Len(s.data) - 1 <= sent[f]
             /\ \A i \in 1 .. Len(s.data) : s.data[i] = p + i - 1
      BY <1>1, <1>3 DEF SegGood, DataGood
    <3>2. sent'[f] >= sent[f]
      BY <1>1 DEF Moves
    <3>3. p \in 1 .. sent'[f] /\ p + Len(s.data) - 1 <= sent'[f]
      BY <1>1, <3>1, <3>2
    <3>4. QED
      BY <3>1, <3>3 DEF DataGood, N, uip_add32
  <2>3. "SYN" \in s.flags => s.seq = N(f, 0)
    BY <1>1, <1>3 DEF SegGood
  <2>4. "FIN" \in s.flags => s.seq = N(f, sent'[f] + 1) /\ Done(f)'
    <3> SUFFICES ASSUME "FIN" \in s.flags
                 PROVE  s.seq = N(f, sent'[f] + 1) /\ Done(f)'
      OBVIOUS
    <3>1. s.seq = N(f, sent[f] + 1) /\ Done(f)
      BY <1>1, <1>3 DEF SegGood
    <3>2. sent'[f] = sent[f] /\ Done(f)'
      BY <1>1, <3>1 DEF Moves, Done
    <3>3. QED
      BY <3>1, <3>2
  <2>5. "ACK" \in s.flags => AckGood(f, s.ack)'
    <3> SUFFICES ASSUME "ACK" \in s.flags PROVE AckGood(f, s.ack)'
      OBVIOUS
    <3>1. AckGood(f, s.ack)
      BY <1>1, <1>3 DEF SegGood
    <3>2. Peer(f) \in Host
      BY <1>1, Peers
    <3>3. Len(got[f]) \in Nat /\ Len(got'[f]) \in Nat /\ Len(got'[f]) >= Len(got[f])
      <4>1. got[f] \in Seq(Int) /\ got'[f] \in Seq(Int)
        BY <1>1 DEF Facts, TypeOK
      <4>2. f # e => got'[f] = got[f]
        BY <1>1 DEF Moves
      <4>3. Len(got'[e]) >= Len(got[e])
        BY DEF Moves
      <4>4. QED
        BY <4>1, <4>2, <4>3
    <3>4. CASE f \in closing
      BY <3>4 DEF Moves, AckGood
    <3>5. CASE \E p \in 1 .. Len(got[f]) + 1 : s.ack = N(Peer(f), p)
      <4>1. PICK p \in 1 .. Len(got[f]) + 1 : s.ack = N(Peer(f), p)
        BY <3>5
      <4>2. p \in 1 .. Len(got'[f]) + 1
        BY <3>3
      <4>3. QED
        BY <4>1, <4>2 DEF AckGood, N, uip_add32
    <3>6. CASE Done(Peer(f)) /\ Len(got[f]) = sent[Peer(f)]
      <4>1. Done(Peer(f))' /\ sent'[Peer(f)] = sent[Peer(f)]
        BY <3>2, <3>6 DEF Moves, Done
      <4>2. Len(got'[f]) <= sent'[Peer(f)]
        <5>1. CASE f = e
          BY <5>1 DEF CountsGood
        <5>2. CASE f # e
          BY <5>2, <1>1, <3>2, <3>6, <4>1, <3>3 DEF Moves, Facts, TypeOK
        <5>3. QED
          BY <5>1, <5>2
      <4>3. Len(got'[f]) = sent'[Peer(f)]
        BY <3>2, <3>3, <3>6, <4>1, <4>2 DEF Facts, TypeOK
      <4>4. QED
        BY <4>1, <4>3 DEF AckGood
    <3>7. QED
      BY <3>1, <3>4, <3>5, <3>6 DEF AckGood
  <2>6. s.flags \in {{"SYN"}, {"SYN", "ACK"}, {"ACK"}, {"FIN", "ACK"}}
    BY <1>1, <1>3 DEF SegGood
  <2>7. QED
    BY <2>1, <2>2, <2>3, <2>4, <2>5, <2>6 DEF SegGood, N, uip_add32
<1>4. QED
  BY <1>2, <1>3

(* So does what the peer knows.                                            *)
LEMMA OtherKept ==
  ASSUME Facts, NEW e \in Host, Moves(e)
  PROVE  ConnGood(Peer(e))' /\ CountsGood(Peer(e))'
<1> DEFINE f == Peer(e)
<1>1. f \in Host /\ f # e /\ Peer(f) = e
  BY Peers
<1> HIDE DEF f
<1>2. /\ ConnGood(f) /\ CountsGood(f)
      /\ conn'[f] = conn[f] /\ sent'[f] = sent[f] /\ acked'[f] = acked[f]
      /\ got'[f] = got[f]
      /\ f \in opened' <=> f \in opened
      /\ f \in closing' <=> f \in closing
  BY <1>1 DEF Facts, StreamsGood, Moves
<1>3. /\ sent[e] \in Nat /\ sent'[e] \in Nat /\ Len(got[e]) \in Nat
      /\ Len(got'[e]) \in Nat /\ Len(got[f]) \in Nat /\ acked[f] \in Nat
      /\ sent'[e] >= sent[e] /\ Len(got'[e]) >= Len(got[e])
  BY <1>1 DEF Facts, TypeOK, Moves
<1>4. Done(e) => Done(e)' /\ sent'[e] = sent[e]
  BY DEF Moves
<1>5. ConnGood(f)'
  BY <1>1, <1>2, <1>4 DEF ConnGood, N, uip_add32
<1>6. CountsGood(f)'
  <2>1. Len(got[f]) <= sent'[e] /\ (e \in closing' \/ acked[f] <= Len(got'[e]))
    BY <1>1, <1>2, <1>3 DEF CountsGood, Moves
  <2>2. QED
    BY <1>1, <1>2, <2>1 DEF CountsGood
<1>7. QED
  BY <1>5, <1>6 DEF f

(* A call for e has only e to answer for.                                  *)
LEMMA Frame ==
  ASSUME Facts, NEW e \in Host, Moves(e), ConnGood(e)', CountsGood(e)', Sends(e),
         ("server" \in opened => "client" \in opened)', Quiet'
  PROVE  StreamsGood'
<1>1. \A f \in Host : ConnGood(f)' /\ CountsGood(f)'
  BY OtherKept, Peers
<1>2. \A s \in net' : SegGood(s)'
  BY SegKept DEF Sends
<1>3. QED
  BY <1>1, <1>2 DEF StreamsGood

-----------------------------------------------------------------------------
(* A segment that carries the numbers of its connection.                   *)
Says(e, s) == s.from = e /\ s.seq = conn[e].snd_nxt /\ s.ack = conn[e].rcv_nxt

(* rcv_nxt acknowledges no more than the application was given, until the  *)
(* application has closed.                                                 *)
LEMMA SaysAck ==
  ASSUME TypeOK', NEW e \in Host, ConnGood(e)',
         conn'[e].state \notin {"CLOSED", "SYN_SENT"}
  PROVE  AckGood(e, conn[e].rcv_nxt)'
<1>1. Len(got'[e]) \in Nat /\ conn'[e].state \in State
  BY DEF TypeOK, Conn
<1>2. CASE conn'[e].state = "SYN_RCVD"
  <2>1. conn'[e].rcv_nxt = N(Peer(e), 1) /\ 1 \in 1 .. Len(got'[e]) + 1
    BY <1>1, <1>2 DEF ConnGood, N, uip_add32
  <2>2. QED
    BY <2>1 DEF AckGood, N, uip_add32
<1>3. CASE conn'[e].state = "ESTABLISHED"
  <2>1. conn'[e].rcv_nxt = N(Peer(e), Len(got'[e]) + 1)
        /\ Len(got'[e]) + 1 \in 1 .. Len(got'[e]) + 1
    BY <1>1, <1>3 DEF ConnGood, N, uip_add32
  <2>2. QED
    BY <2>1 DEF AckGood, N, uip_add32
<1>4. CASE conn'[e].state \in {"FIN_WAIT_1", "CLOSING", "FIN_WAIT_2", "TIME_WAIT"}
  BY <1>4 DEF ConnGood, AckGood
<1>5. CASE conn'[e].state = "LAST_ACK"
  BY <1>5 DEF ConnGood, AckGood
<1>6. QED
  BY <1>1, <1>2, <1>3, <1>4, <1>5 DEF State

(* Every segment uip_process builds in a state is good in that state.      *)
LEMMA SaysGood ==
  ASSUME TypeOK', NEW e \in Host, ConnGood(e)', NEW s, Says(e, s)',
         conn'[e].state # "CLOSED",
         \/ s.flags = {"ACK"} /\ s.data = <<>> /\ conn'[e].state # "SYN_SENT"
         \/ s.flags = {"SYN"} /\ s.data = <<>> /\ conn'[e].state = "SYN_SENT"
         \/ s.flags = {"SYN", "ACK"} /\ s.data = <<>> /\ conn'[e].state = "SYN_RCVD"
         \/ /\ s.flags = {"FIN", "ACK"} /\ s.data = <<>>
            /\ conn'[e].state \in {"FIN_WAIT_1", "CLOSING", "LAST_ACK"}
         \/ /\ s.flags = {"ACK"} /\ conn'[e].state = "ESTABLISHED"
            /\ s.data = [i \in 1 .. conn'[e].len |-> sent'[e] - conn'[e].len + i]
  PROVE  SegGood(s)'
<1>1. e \in opened' /\ s.from = e /\ s.seq = conn'[e].snd_nxt
      /\ s.ack = conn'[e].rcv_nxt
  BY DEF ConnGood, Says
<1>2. "ACK" \in s.flags => AckGood(e, s.ack)'
  <2>1. "ACK" \in s.flags => conn'[e].state # "SYN_SENT"
    OBVIOUS
  <2>2. QED
    BY <1>1, <2>1, SaysAck
<1>3. "SYN" \in s.flags => s.seq = N(e, 0)
  BY <1>1 DEF ConnGood, N, uip_add32
<1>4. "FIN" \in s.flags => s.seq = N(e, sent'[e] + 1) /\ Done(e)'
  BY <1>1 DEF ConnGood, N, uip_add32, Done, Shut
<1>5. s.data # <<>> => s.flags = {"ACK"} /\ DataGood(s)'
  <2> SUFFICES ASSUME s.data # <<>> PROVE s.flags = {"ACK"} /\ DataGood(s)'
    OBVIOUS
  <2> DEFINE n == conn'[e].len
             p == sent'[e] - n + 1
  <2>1. /\ s.flags = {"ACK"} /\ conn'[e].state = "ESTABLISHED"
        /\ s.data = [i \in 1 .. n |-> sent'[e] - n + i]
    OBVIOUS
  <2>2. n \in Nat /\ sent'[e] \in Nat /\ n <= sent'[e]
    BY <2>1 DEF TypeOK, Conn, ConnGood
  <2>3. s.seq = N(e, p)
    BY <1>1, <2>1 DEF ConnGood, N, uip_add32
  <2>4. n > 0
    <3>1. CASE n = 0
      BY <2>1, <3>1
    <3>2. QED
      BY <2>2, <3>1
  <2> HIDE DEF n
  <2>5. Len(s.data) = n
    BY <2>1, <2>2
  <2>6. p \in 1 .. sent'[e] /\ p + Len(s.data) - 1 <= sent'[e]
    BY <2>2, <2>4, <2>5
  <2>7. \A i \in 1 .. Len(s.data) : s.data[i] = p + i - 1
    BY <2>1, <2>2, <2>5
  <2> HIDE DEF p
  <2>8. QED
    BY <1>1, <2>1, <2>3, <2>6, <2>7 DEF DataGood, N, uip_add32
<1>6. s.flags \in {{"SYN"}, {"SYN", "ACK"}, {"ACK"}, {"FIN", "ACK"}}
  OBVIOUS
<1>7. QED
  BY <1>1, <1>2, <1>3, <1>4, <1>5, <1>6 DEF SegGood, N, uip_add32

(* The three ways a call sends.                                            *)
LEMMA SendsOne ==
  ASSUME NEW e, NEW x, Send({x}), x.from = e, "RST" \in x.flags \/ SegGood(x)'
  PROVE  Sends(e)
BY Sent DEF Sends, SegGood

LEMMA SendsResets ==
  ASSUME NEW e, NEW t, Send(Reset(e, t))
  PROVE  Sends(e)
BY Resets DEF Sends, SegGood

LEMMA SendsNone ==
  ASSUME NEW e, net' = net
  PROVE  Sends(e)
BY DEF Sends

-----------------------------------------------------------------------------
(* Nothing but the entry itself changes.                                   *)
Still == opened' = opened /\ UNCHANGED <<sent, acked, got, closing>>

(* A call writes the entry of its own connection.                          *)
LEMMA BecomeFields ==
  ASSUME Facts, NEW e \in Host, NEW c, Become(e, c)
  PROVE  conn'[e] = c /\ \A f \in Host : f # e => conn'[f] = conn[f]
BY DEF Facts, TypeOK, Become

(* A call that touches no history.                                         *)
LEMMA StillMoves ==
  ASSUME Facts, NEW e \in Host, NEW c, Become(e, c), Still,
         conn[e].state \in Shut => c.state \in Shut
  PROVE  Moves(e) /\ CountsGood(e)'
<1>1. conn'[e] = c /\ \A f \in Host : f # e => conn'[f] = conn[f]
  BY BecomeFields
<1>2. sent[e] \in Nat /\ Len(got[e]) \in Nat /\ CountsGood(e)
  BY DEF Facts, TypeOK, StreamsGood
<1>3. Moves(e)
  BY <1>1, <1>2 DEF Still, Moves, Done
<1>4. CountsGood(e)'
  BY <1>2 DEF Still, CountsGood
<1>5. QED
  BY <1>3, <1>4

(* A connection whose numbers stay, or that is dropped.                    *)
LEMMA ConnSame ==
  ASSUME Facts, NEW e \in Host, NEW c, Become(e, c), Still,
         \/ c.state = "CLOSED" /\ conn[e].state # "CLOSED"
         \/ /\ c.state = conn[e].state /\ c.len = conn[e].len
            /\ c.snd_nxt = conn[e].snd_nxt /\ c.rcv_nxt = conn[e].rcv_nxt
  PROVE  ConnGood(e)'
<1>1. conn'[e] = c /\ \A f \in Host : f # e => conn'[f] = conn[f]
  BY BecomeFields
<1>2. ConnGood(e) /\ Peer(e) \in Host /\ Peer(e) # e
  BY Peers DEF Facts, StreamsGood
<1>3. QED
  BY <1>1, <1>2 DEF Still, ConnGood, N, uip_add32, Done

(* The call keeps all but the silence before the connection.               *)
StepGood(e) == Moves(e) /\ ConnGood(e)' /\ CountsGood(e)' /\ Sends(e)

(* The ticks that do not reach the application.                            *)
LEMMA TimerGood ==
  ASSUME Facts, NEW e \in Host,
         TimerWait(e) \/ TimerCount(e) \/ TimerGiveUp(e) \/ TimerRexmit(e)
  PROVE  StepGood(e)
<1>0. conn[e] \in Conn
  BY DEF Facts, TypeOK
<1>1. CASE TimerWait(e)
  <2> DEFINE t == (conn[e].timer + 1) % 256
             c == [conn[e] EXCEPT !.timer = t,
                     !.state = IF t = UIP_TIME_WAIT_TIMEOUT THEN "CLOSED" ELSE @]
  <2>1. Become(e, c) /\ Still /\ net' = net /\ conn[e].state \in {"TIME_WAIT", "FIN_WAIT_2"}
    BY <1>1 DEF TimerWait, Still, appVars
  <2>2. /\ c.state \in {"CLOSED", conn[e].state} /\ c.len = conn[e].len
        /\ c.snd_nxt = conn[e].snd_nxt /\ c.rcv_nxt = conn[e].rcv_nxt
    <3> HIDE DEF t
    <3>1. QED
      BY <1>0 DEF Conn
  <2> HIDE DEF c
  <2>3. Moves(e) /\ CountsGood(e)'
    BY <2>1, <2>2, StillMoves DEF Shut
  <2>4. ConnGood(e)'
    BY <2>1, <2>2, ConnSame
  <2>5. QED
    BY <2>1, <2>3, <2>4, SendsNone DEF StepGood
<1>2. CASE TimerCount(e)
  <2> DEFINE c == [conn[e] EXCEPT !.timer = @ - 1]
  <2>1. Become(e, c) /\ Still /\ net' = net
    BY <1>2 DEF TimerCount, Still, appVars
  <2>2. /\ c.state = conn[e].state /\ c.len = conn[e].len
        /\ c.snd_nxt = conn[e].snd_nxt /\ c.rcv_nxt = conn[e].rcv_nxt
    BY <1>0 DEF Conn
  <2> HIDE DEF c
  <2>3. Moves(e) /\ CountsGood(e)' /\ ConnGood(e)'
    BY <2>1, <2>2, StillMoves, ConnSame
  <2>4. QED
    BY <2>1, <2>3, SendsNone DEF StepGood
<1>3. CASE TimerGiveUp(e)
  <2> DEFINE c == [conn[e] EXCEPT !.state = "CLOSED", !.timer = 255]
             x == Seg(e, conn[e], {"RST", "ACK"}, <<>>)
  <2>1. Become(e, c) /\ Still /\ Send({x}) /\ conn[e].state # "CLOSED"
    BY <1>3 DEF TimerGiveUp, Still, Retransmits
  <2>2. c.state = "CLOSED" /\ x.from = e /\ "RST" \in x.flags
    BY <1>0 DEF Conn, Seg
  <2> HIDE DEF c, x
  <2>3. Moves(e) /\ CountsGood(e)' /\ ConnGood(e)'
    BY <2>1, <2>2, StillMoves, ConnSame DEF Shut
  <2>4. QED
    BY <2>1, <2>2, <2>3, SendsOne DEF StepGood
<1>4. CASE TimerRexmit(e)
  <2> DEFINE c == Backoff(conn[e])
  <2>0. PICK x : x = Again(e, conn[e])
    OBVIOUS
  <2>1. /\ Become(e, c) /\ Still /\ Send({x})
        /\ conn[e].state \notin {"CLOSED", "TIME_WAIT", "FIN_WAIT_2"}
    BY <1>4, <2>0 DEF TimerRexmit, Retransmits, Still, appVars
  <2>2. /\ c.state = conn[e].state /\ c.len = conn[e].len
        /\ c.snd_nxt = conn[e].snd_nxt /\ c.rcv_nxt = conn[e].rcv_nxt
    BY <1>0 DEF Conn, Backoff
  <2> HIDE DEF c
  <2>3. Moves(e) /\ CountsGood(e)' /\ ConnGood(e)'
    BY <2>1, <2>2, StillMoves, ConnSame
  <2>4. conn'[e] = c /\ sent'[e] = sent[e]
    BY <2>1, BecomeFields DEF Still
  <2>5. CASE conn[e].state = "SYN_RCVD"
    <3>1. x = Seg(e, conn[e], {"SYN", "ACK"}, <<>>)
      BY <2>0, <2>5 DEF Again
    <3>2. Says(e, x)' /\ x.flags = {"SYN", "ACK"} /\ x.data = <<>>
      BY <2>2, <2>4, <3>1, SegFields DEF Says
    <3>3. SegGood(x)'
      BY <2>2, <2>3, <2>4, <2>5, <3>2, SaysGood DEF Facts
    <3>4. QED
      BY <2>1, <2>3, <3>2, <3>3, SendsOne DEF StepGood, Says
  <2>6. CASE conn[e].state = "SYN_SENT"
    <3>1. x = Seg(e, conn[e], {"SYN"}, <<>>)
      BY <2>0, <2>6 DEF Again
    <3>2. Says(e, x)' /\ x.flags = {"SYN"} /\ x.data = <<>>
      BY <2>2, <2>4, <3>1, SegFields DEF Says
    <3>3. SegGood(x)'
      BY <2>2, <2>3, <2>4, <2>6, <3>2, SaysGood DEF Facts
    <3>4. QED
      BY <2>1, <2>3, <3>2, <3>3, SendsOne DEF StepGood, Says
  <2>7. CASE conn[e].state = "ESTABLISHED"
    <3>1. x = Seg(e, conn[e], {"ACK"}, Outstanding(e, conn[e]))
      BY <2>0, <2>7 DEF Again
    <3>a. Says(e, x)' /\ x.flags = {"ACK"}
      BY <2>2, <2>4, <3>1, SegFields DEF Says
    <3>b. x.data = Outstanding(e, conn[e])
      BY <3>1, SegFields
    <3>c. conn'[e].len = conn[e].len
      BY <2>2, <2>4
    <3>2. Says(e, x)' /\ x.flags = {"ACK"}
          /\ x.data = [i \in 1 .. conn'[e].len |-> sent'[e] - conn'[e].len + i]
      BY <2>4, <3>a, <3>b, <3>c DEF Outstanding
    <3>3. SegGood(x)'
      BY <2>2, <2>3, <2>4, <2>7, <3>2, SaysGood DEF Facts
    <3>4. QED
      BY <2>1, <2>3, <3>2, <3>3, SendsOne DEF StepGood, Says
  <2>8. CASE conn[e].state \in {"FIN_WAIT_1", "CLOSING", "LAST_ACK"}
    <3>1. x = Seg(e, conn[e], {"FIN", "ACK"}, <<>>)
      BY <2>0, <2>8 DEF Again
    <3>2. Says(e, x)' /\ x.flags = {"FIN", "ACK"} /\ x.data = <<>>
      BY <2>2, <2>4, <3>1, SegFields DEF Says
    <3>3. SegGood(x)'
      BY <2>2, <2>3, <2>4, <2>8, <3>2, SaysGood DEF Facts
    <3>4. QED
      BY <2>1, <2>3, <3>2, <3>3, SendsOne DEF StepGood, Says
  <2>9. QED
    BY <1>0, <2>1, <2>5, <2>6, <2>7, <2>8 DEF Conn, State
<1>5. QED
  BY <1>1, <1>2, <1>3, <1>4

-----------------------------------------------------------------------------
(* The application is called for c, a connection that is established; what *)
(* the call has reported to it, got' and acked', is right.                 *)
Ready(e, c) ==
  /\ c \in Conn /\ c.state = "ESTABLISHED" /\ conn[e].state \notin Shut
  /\ e \in opened /\ opened' = opened
  /\ c.len <= sent[e] /\ acked'[e] = sent[e] - c.len
  /\ c.snd_nxt = N(e, sent[e] - c.len + 1)
  /\ c.rcv_nxt = N(Peer(e), Len(got'[e]) + 1)
  /\ \A f \in Host : f # e => got'[f] = got[f] /\ acked'[f] = acked[f]
  /\ Len(got'[e]) >= Len(got[e]) /\ Len(got'[e]) <= sent[Peer(e)]
  /\ \A i \in 1 .. Len(got'[e]) : got'[e][i] = i
  /\ Peer(e) \in closing \/ acked'[e] <= Len(got[Peer(e)])

(* The histories after the application was called.                         *)
LEMMA AppMoves ==
  ASSUME Facts, NEW e \in Host, NEW c, Ready(e, c), NEW d, Become(e, d),
         sent'[e] >= sent[e], sent'[e] <= MaxBytes[e],
         \A f \in Host : f # e => sent'[f] = sent[f],
         closing' = closing \/ closing' = closing \cup {e}
  PROVE  Moves(e) /\ CountsGood(e)'
<1>1. conn'[e] = d /\ \A f \in Host : f # e => conn'[f] = conn[f]
  BY BecomeFields
<1>2. Peer(e) \in Host /\ Peer(e) # e
  BY Peers
<1>3. /\ sent[e] \in Nat /\ sent'[e] \in Nat /\ acked'[e] \in Nat /\ c.len \in Nat
      /\ sent'[Peer(e)] = sent[Peer(e)] /\ got'[Peer(e)] = got[Peer(e)]
  BY <1>2 DEF Facts, TypeOK, Ready, Conn
<1>4. Moves(e)
  BY <1>1 DEF Ready, Moves, Done
<1>5. CountsGood(e)'
  <2>1. acked'[e] <= sent'[e]
    BY <1>3 DEF Ready
  <2>2. Peer(e) \in closing' \/ acked'[e] <= Len(got'[Peer(e)])
    BY <1>3 DEF Ready
  <2>3. Len(got'[e]) <= sent'[Peer(e)] /\ \A i \in 1 .. Len(got'[e]) : got'[e][i] = i
    BY <1>3 DEF Ready
  <2>4. QED
    BY <2>1, <2>2, <2>3 DEF CountsGood
<1>6. QED
  BY <1>4, <1>5

(* The connection after it.                                                *)
LEMMA AppConn ==
  ASSUME Facts, NEW e \in Host, NEW c, Ready(e, c), NEW d, Become(e, d),
         d.snd_nxt = c.snd_nxt, d.rcv_nxt = c.rcv_nxt,
         \/ d.state = "CLOSED"
         \/ /\ d.state = "FIN_WAIT_1" /\ d.len = 1 /\ c.len = 0
            /\ sent'[e] = sent[e] /\ e \in closing'
         \/ d.state = "ESTABLISHED" /\ d.len = c.len /\ sent'[e] = sent[e]
         \/ /\ d.state = "ESTABLISHED" /\ d.len \in Nat /\ c.len = 0
            /\ sent'[e] = sent[e] + d.len
  PROVE  ConnGood(e)'
<1>1. conn'[e] = d
  BY BecomeFields
<1>2. e \in opened' /\ sent[e] \in Nat /\ sent'[e] \in Nat /\ c.len \in Nat
  BY DEF Ready, Facts, TypeOK, Conn
<1>3. CASE d.state = "CLOSED"
  BY <1>1, <1>2, <1>3 DEF ConnGood
<1>4. CASE d.state = "FIN_WAIT_1"
  <2>1. d.len = 1 /\ d.snd_nxt = N(e, sent'[e] + 1) /\ e \in closing'
    <3>1. d.len = 1 /\ c.len = 0 /\ sent'[e] = sent[e] /\ e \in closing'
      BY <1>4
    <3>2. d.snd_nxt = N(e, sent[e] - 0 + 1)
      BY <3>1 DEF Ready
    <3>3. sent[e] - 0 + 1 = sent'[e] + 1
      BY <1>2, <3>1
    <3>4. QED
      BY <3>1, <3>2, <3>3
  <2>2. QED
    BY <1>1, <1>2, <1>4, <2>1 DEF ConnGood, N, uip_add32
<1>5. CASE d.state = "ESTABLISHED"
  <2>1. d.len <= sent'[e] /\ acked'[e] = sent'[e] - d.len
        /\ sent'[e] - d.len + 1 = sent[e] - c.len + 1
    BY <1>2, <1>5 DEF Ready
  <2>2. d.snd_nxt = N(e, sent'[e] - d.len + 1)
    BY <2>1 DEF Ready
  <2>3. d.rcv_nxt = N(Peer(e), Len(got'[e]) + 1)
    BY DEF Ready
  <2>4. QED
    BY <1>1, <1>2, <1>5, <2>1, <2>2, <2>3 DEF ConnGood, N, uip_add32
<1>6. QED
  BY <1>3, <1>4, <1>5

(* Whatever the application makes of its call.                             *)
LEMMA AppSendGood ==
  ASSUME Facts, NEW e \in Host, NEW c, Ready(e, c), NEW events, AppSend(e, c, events)
  PROVE  StepGood(e) /\ conn'[e].state # "SYN_SENT"
<1>0. /\ c \in Conn /\ c.len \in Nat /\ sent[e] \in Nat /\ sent[e] <= MaxBytes[e]
      /\ MaxBytes[e] \in Nat
  BY TcpAssumption DEF Ready, Conn, Facts, TypeOK, StreamsGood, CountsGood
<1>1. CASE AppAborts(e, c)
  <2> DEFINE d == [c EXCEPT !.state = "CLOSED"]
  <2>0. PICK x : x = Seg(e, c, {"RST", "ACK"}, <<>>)
    OBVIOUS
  <2>1. /\ Become(e, d) /\ Send({x}) /\ sent' = sent /\ closing' = closing \cup {e}
        /\ x.from = e /\ "RST" \in x.flags
    BY <1>1, <2>0, SegFields DEF AppAborts
  <2>2. d.state = "CLOSED" /\ d.snd_nxt = c.snd_nxt /\ d.rcv_nxt = c.rcv_nxt
    BY <1>0 DEF Conn
  <2> HIDE DEF d
  <2>3. Moves(e) /\ CountsGood(e)'
    BY <1>0, <2>1, AppMoves
  <2>4. ConnGood(e)'
    BY <2>1, <2>2, AppConn
  <2>5. QED
    BY <2>1, <2>2, <2>3, <2>4, SendsOne, BecomeFields DEF StepGood
<1>2. CASE AppCloses(e, c)
  <2> DEFINE d == [c EXCEPT !.len = 1, !.state = "FIN_WAIT_1", !.nrtx = 0]
  <2>0. PICK x : x = Seg(e, c, {"FIN", "ACK"}, <<>>)
    OBVIOUS
  <2>1. /\ Become(e, d) /\ Send({x}) /\ sent' = sent /\ closing' = closing \cup {e}
        /\ ~(c.len > 0)
    BY <1>2, <2>0 DEF AppCloses, uip_outstanding
  <2>2. /\ d.state = "FIN_WAIT_1" /\ d.len = 1 /\ c.len = 0
        /\ d.snd_nxt = c.snd_nxt /\ d.rcv_nxt = c.rcv_nxt
    BY <1>0, <2>1 DEF Conn
  <2> HIDE DEF d
  <2>3. Moves(e) /\ CountsGood(e)'
    BY <1>0, <2>1, AppMoves
  <2>4. ConnGood(e)'
    BY <2>1, <2>2, AppConn
  <2>5. conn'[e] = d
    BY <2>1, BecomeFields
  <2>6. Says(e, x)' /\ x.flags = {"FIN", "ACK"} /\ x.data = <<>> /\ x.from = e
    BY <2>0, <2>2, <2>5, SegFields DEF Says
  <2>7. SegGood(x)'
    BY <2>2, <2>4, <2>5, <2>6, SaysGood DEF Facts
  <2>8. QED
    BY <2>1, <2>2, <2>3, <2>4, <2>5, <2>6, <2>7, SendsOne DEF StepGood
<1>3. CASE AppSendsNew(e, c)
  <2>1. PICK offer \in 1 .. MaxOffer :
          LET n == Lesser(offer, UIP_TCP_MSS)
          IN  /\ sent[e] + n <= MaxBytes[e]
              /\ Become(e, [c EXCEPT !.len = n, !.nrtx = 0])
              /\ Send({Seg(e, c, {"ACK"}, [i \in 1 .. n |-> sent[e] + i])})
              /\ sent' = [sent EXCEPT ![e] = @ + n]
    BY <1>3 DEF AppSendsNew
  <2>2. PICK n : n = Lesser(offer, UIP_TCP_MSS)
    OBVIOUS
  <2>3. n \in Nat
    BY <2>2, LesserType, TcpAssumption
  <2> DEFINE d == [c EXCEPT !.len = n, !.nrtx = 0]
  <2>0. PICK x : x = Seg(e, c, {"ACK"}, [i \in 1 .. n |-> sent[e] + i])
    OBVIOUS
  <2>4. /\ Become(e, d) /\ Send({x}) /\ sent' = [sent EXCEPT ![e] = @ + n]
        /\ sent[e] + n <= MaxBytes[e] /\ closing' = closing /\ ~(c.len > 0)
    BY <1>3, <2>0, <2>1, <2>2 DEF AppSendsNew, uip_outstanding
  <2>5. /\ d.state = "ESTABLISHED" /\ d.len = n /\ c.len = 0
        /\ d.snd_nxt = c.snd_nxt /\ d.rcv_nxt = c.rcv_nxt
    BY <1>0, <2>4 DEF Conn, Ready
  <2> HIDE DEF d
  <2>6. sent'[e] = sent[e] + n /\ \A f \in Host : f # e => sent'[f] = sent[f]
    BY <2>4 DEF Facts, TypeOK
  <2>7. Moves(e) /\ CountsGood(e)'
    <3>1. sent'[e] >= sent[e] /\ sent'[e] <= MaxBytes[e]
      BY <1>0, <2>3, <2>4, <2>6
    <3>2. QED
      BY <2>4, <2>6, <3>1, AppMoves
  <2>8. ConnGood(e)'
    BY <2>3, <2>4, <2>5, <2>6, AppConn
  <2>9. conn'[e] = d
    BY <2>4, BecomeFields
  <2>10. Says(e, x)' /\ x.flags = {"ACK"} /\ x.from = e
    BY <2>0, <2>5, <2>9, SegFields DEF Says
  <2>11. x.data = [i \in 1 .. conn'[e].len |-> sent'[e] - conn'[e].len + i]
    <3>1. x.data = [i \in 1 .. n |-> sent[e] + i]
      BY <2>0, SegFields
    <3>2. \A i \in 1 .. n : sent[e] + i = sent'[e] - n + i
      BY <1>0, <2>3, <2>6
    <3>3. [i \in 1 .. n |-> sent[e] + i] = [i \in 1 .. n |-> sent'[e] - n + i]
      BY <3>2
    <3>4. conn'[e].len = n
      BY <2>5, <2>9
    <3>5. QED
      BY <3>1, <3>3, <3>4
  <2>12. SegGood(x)'
    BY <2>5, <2>8, <2>9, <2>10, <2>11, SaysGood DEF Facts
  <2>13. QED
    BY <2>4, <2>5, <2>7, <2>8, <2>9, <2>10, <2>12, SendsOne DEF StepGood
<1>4. CASE AppSendsAgain(e, c)
  <2> DEFINE d == [c EXCEPT !.nrtx = 0]
  <2>0. PICK x : x = Seg(e, c, {"ACK"}, Outstanding(e, c))
    OBVIOUS
  <2>1. Become(e, d) /\ Send({x}) /\ sent' = sent /\ closing' = closing
    BY <1>4, <2>0 DEF AppSendsAgain
  <2>2. /\ d.state = "ESTABLISHED" /\ d.len = c.len
        /\ d.snd_nxt = c.snd_nxt /\ d.rcv_nxt = c.rcv_nxt
    BY <1>0, <2>1 DEF Conn, Ready
  <2> HIDE DEF d
  <2>3. Moves(e) /\ CountsGood(e)'
    BY <1>0, <2>1, AppMoves
  <2>4. ConnGood(e)'
    BY <2>1, <2>2, AppConn
  <2>5. conn'[e] = d
    BY <2>1, BecomeFields
  <2>6. Says(e, x)' /\ x.flags = {"ACK"} /\ x.from = e
    BY <2>0, <2>2, <2>5, SegFields DEF Says
  <2>7. x.data = [i \in 1 .. conn'[e].len |-> sent'[e] - conn'[e].len + i]
    <3>1. x.data = Outstanding(e, c)
      BY <2>0, SegFields
    <3>2. conn'[e].len = c.len /\ sent'[e] = sent[e]
      BY <2>1, <2>2, <2>5
    <3>3. QED
      BY <3>1, <3>2 DEF Outstanding
  <2>8. SegGood(x)'
    BY <2>2, <2>4, <2>5, <2>6, <2>7, SaysGood DEF Facts
  <2>9. QED
    BY <2>1, <2>2, <2>3, <2>4, <2>5, <2>6, <2>8, SendsOne DEF StepGood
<1>5. CASE AppSendsNothing(e, c, events)
  <2> DEFINE d == [c EXCEPT !.nrtx = 0]
  <2>0. PICK x : x = Seg(e, c, {"ACK"}, <<>>)
    OBVIOUS
  <2>1. /\ Become(e, d) /\ (Send({x}) \/ net' = net)
        /\ sent' = sent /\ closing' = closing
    BY <1>5, <2>0 DEF AppSendsNothing, Drop
  <2>2. /\ d.state = "ESTABLISHED" /\ d.len = c.len
        /\ d.snd_nxt = c.snd_nxt /\ d.rcv_nxt = c.rcv_nxt
    BY <1>0, <2>1 DEF Conn, Ready
  <2> HIDE DEF d
  <2>3. Moves(e) /\ CountsGood(e)'
    BY <1>0, <2>1, AppMoves
  <2>4. ConnGood(e)'
    BY <2>1, <2>2, AppConn
  <2>5. conn'[e] = d
    BY <2>1, BecomeFields
  <2>6. Says(e, x)' /\ x.flags = {"ACK"} /\ x.data = <<>> /\ x.from = e
    BY <2>0, <2>2, <2>5, SegFields DEF Says
  <2>7. SegGood(x)'
    BY <2>2, <2>4, <2>5, <2>6, SaysGood DEF Facts
  <2>8. Sends(e)
    BY <2>1, <2>6, <2>7, SendsOne, SendsNone
  <2>9. QED
    BY <2>2, <2>3, <2>4, <2>5, <2>8 DEF StepGood
<1>6. QED
  BY <1>1, <1>2, <1>3, <1>4, <1>5 DEF AppSend

-----------------------------------------------------------------------------
(* A segment that arrives has been sent by the peer.                       *)
LEMMA Arrived ==
  ASSUME Facts, NEW e \in Host, NEW s \in net, Arrives(e, s)
  PROVE  /\ s \in Segment /\ s.data \in Seq(Int) /\ Len(s.data) \in Nat
         /\ s.seq \in Nat /\ s.from = Peer(e) /\ SegGood(s)
BY SMTT(20) DEF Facts, TypeOK, StreamsGood, Segment, SeqNo, Arrives

(* The counts of a connection stay below the space of sequence numbers.    *)
LEMMA Counts ==
  ASSUME Facts, NEW e \in Host
  PROVE  /\ conn[e] \in Conn /\ ConnGood(e) /\ CountsGood(e)
         /\ Peer(e) \in Host /\ Peer(e) # e /\ Peer(Peer(e)) = e
         /\ sent[e] \in Nat /\ acked[e] \in Nat /\ got[e] \in Seq(Int)
         /\ sent[e] + 1 <= SeqSpace /\ sent[Peer(e)] + 1 <= SeqSpace
         /\ sent[Peer(e)] \in Nat /\ Len(got[e]) \in Nat
         /\ Len(got[e]) <= sent[Peer(e)] /\ Len(got[Peer(e)]) <= sent[e]
         /\ Len(got[Peer(e)]) \in Nat /\ SeqSpace \in Nat /\ SeqSpace >= 1
<1>1. Peer(e) \in Host /\ Peer(e) # e /\ Peer(Peer(e)) = e
  BY Peers
<1>2. ConnGood(e) /\ CountsGood(e) /\ CountsGood(Peer(e))
  BY <1>1 DEF Facts, StreamsGood
<1>3. /\ MaxBytes[e] \in Nat /\ MaxBytes[Peer(e)] \in Nat /\ SeqSpace \in Nat
      /\ SeqSpace >= 1
      /\ MaxBytes[e] < SeqSpace /\ MaxBytes[Peer(e)] < SeqSpace
  BY <1>1, TcpAssumption DEF Facts, NoReuse
<1>4. /\ conn[e] \in Conn /\ sent[e] \in Nat /\ acked[e] \in Nat /\ got[e] \in Seq(Int)
      /\ sent[Peer(e)] \in Nat /\ Len(got[e]) \in Nat /\ Len(got[Peer(e)]) \in Nat
  BY <1>1 DEF Facts, TypeOK
<1>5. sent[e] <= MaxBytes[e] /\ sent[Peer(e)] <= MaxBytes[Peer(e)]
  BY <1>1, <1>2 DEF CountsGood
<1>6. Len(got[e]) <= sent[Peer(e)] /\ Len(got[Peer(e)]) <= sent[e]
  BY <1>1, <1>2 DEF CountsGood
<1>7. sent[e] + 1 <= SeqSpace /\ sent[Peer(e)] + 1 <= SeqSpace
  BY <1>3, <1>4, <1>5
<1>8. QED
  BY <1>1, <1>2, <1>3, <1>4, <1>6, <1>7

(* Data that bears the next number is the next data.                       *)
LEMMA NextBytes ==
  ASSUME Facts, NEW e \in Host, NEW s \in net, Arrives(e, s), "RST" \notin s.flags,
         s.data # <<>>, s.seq = N(Peer(e), Len(got[e]) + 1)
  PROVE  /\ Len(got[e]) + Len(s.data) <= sent[Peer(e)]
         /\ \A i \in 1 .. Len(s.data) : s.data[i] = Len(got[e]) + i
<1>1. DataGood(s) /\ s.from = Peer(e) /\ Len(s.data) \in Nat
  BY Arrived DEF SegGood
<1>2. PICK p \in 1 .. sent[Peer(e)] :
         /\ s.seq = N(Peer(e), p)
         /\ p + Len(s.data) - 1 <= sent[Peer(e)]
         /\ \A i \in 1 .. Len(s.data) : s.data[i] = p + i - 1
  BY <1>1 DEF DataGood
<1>3. p \in 1 .. SeqSpace /\ Len(got[e]) + 1 \in 1 .. SeqSpace
  BY Counts
<1>4. p = Len(got[e]) + 1
  BY <1>2, <1>3, Counts, NumberOnce
<1>5. p + Len(s.data) - 1 = Len(got[e]) + Len(s.data)
      /\ \A i \in 1 .. Len(s.data) : p + i - 1 = Len(got[e]) + i
  <2>1. Len(got[e]) \in Nat
    BY Counts
  <2>2. \A g, l \in Nat : /\ g + 1 + l - 1 = g + l
                         /\ \A i \in 1 .. l : g + 1 + i - 1 = g + i
    OBVIOUS
  <2>3. QED
    BY <1>1, <1>4, <2>1, <2>2
<1>6. QED
  BY <1>2, <1>5

(* Concatenation, element by element.                                      *)
LEMMA ConcatAt ==
  ASSUME NEW g \in Seq(Int), NEW d \in Seq(Int)
  PROVE  /\ Len(g \o d) = Len(g) + Len(d)
         /\ \A i \in 1 .. Len(g) : (g \o d)[i] = g[i]
         /\ \A i \in Len(g) + 1 .. Len(g) + Len(d) : (g \o d)[i] = d[i - Len(g)]
OBVIOUS

(* What giving it to the application makes of the bytes it has.            *)
LEMMA Given ==
  ASSUME Facts, NEW e \in Host, NEW s \in net, Arrives(e, s), "RST" \notin s.flags,
         s.data # <<>> => s.seq = N(Peer(e), Len(got[e]) + 1),
         Give(e, s)
  PROVE  /\ Len(got'[e]) = Len(got[e]) + Len(s.data)
         /\ \A i \in 1 .. Len(got'[e]) : got'[e][i] = i
         /\ Len(got'[e]) <= sent[Peer(e)]
         /\ \A f \in Host : f # e => got'[f] = got[f]
<1> DEFINE g == got[e]
<1>1. s.data \in Seq(Int) /\ g \in Seq(Int)
  BY Arrived, Counts
<1>2. got'[e] = g \o s.data /\ \A f \in Host : f # e => got'[f] = got[f]
  BY DEF Give, Facts, TypeOK
<1>3. Len(got'[e]) = Len(g) + Len(s.data)
  BY <1>1, <1>2
<1>4. Len(got'[e]) <= sent[Peer(e)]
  <2>1. CASE s.data = <<>>
    BY <1>1, <1>3, <2>1, Counts
  <2>2. CASE s.data # <<>>
    BY <1>1, <1>3, <2>2, NextBytes
  <2>3. QED
    BY <2>1, <2>2
<1>5. \A i \in 1 .. Len(got'[e]) : got'[e][i] = i
  <2> SUFFICES ASSUME NEW i \in 1 .. Len(got'[e]) PROVE got'[e][i] = i
    OBVIOUS
  <2>1. CASE i <= Len(g)
    <3>1. got'[e][i] = g[i] /\ i \in 1 .. Len(g)
      BY <1>1, <1>2, <1>3, <2>1
    <3>2. QED
      BY <3>1, Counts DEF CountsGood
  <2>2. CASE i > Len(g)
    <3>1. got'[e][i] = s.data[i - Len(g)] /\ i - Len(g) \in 1 .. Len(s.data)
      <4> HIDE DEF g
      <4>0. Len(g) \in Nat /\ Len(s.data) \in Nat /\ i \in 1 .. Len(g) + Len(s.data)
        BY <1>1, <1>3
      <4>1. i \in Len(g) + 1 .. Len(g) + Len(s.data)
        BY <4>0, <2>2
      <4>2. (g \o s.data)[i] = s.data[i - Len(g)]
        BY <1>1, <4>1, ConcatAt
      <4>3. i - Len(g) \in 1 .. Len(s.data)
        BY <4>0, <4>1
      <4>4. QED
        BY <1>2, <4>2, <4>3
    <3>2. s.data # <<>>
      BY <3>1
    <3>3. s.data[i - Len(g)] = Len(g) + (i - Len(g))
      BY <3>1, <3>2, NextBytes
    <3>4. QED
      BY <1>1, <3>1, <3>3
  <2>3. QED
    BY <1>1, <1>3, <2>1, <2>2
<1>6. QED
  BY <1>2, <1>3, <1>4, <1>5

(* What looking at the acknowledgement leaves and changes.                 *)
LEMMA AfterAckFields ==
  ASSUME NEW c \in Conn, NEW s, NEW d \in AfterAck(c, s)
  PROVE  /\ d \in Conn /\ d.state = c.state /\ d.rcv_nxt = c.rcv_nxt
         /\ Acks(c, s) => d.len = 0 /\ d.snd_nxt = uip_add32(c.snd_nxt, c.len)
         /\ ~Acks(c, s) => d = c
<1>1. d \in Conn
  BY AfterAckType
<1>2. CASE ~Acks(c, s)
  BY <1>1, <1>2 DEF AfterAck
<1>3. CASE Acks(c, s)
  <2>1. PICK rto : d = Acked(c, rto)
    BY <1>3 DEF AfterAck
  <2>2. QED
    BY <1>1, <1>3, <2>1 DEF Acked, Conn
<1>4. QED
  BY <1>2, <1>3

(* All that is outstanding is acknowledged only once the peer has it.      *)
LEMMA AcksMean ==
  ASSUME Facts, NEW e \in Host, NEW s \in net, Arrives(e, s), "RST" \notin s.flags,
         conn[e].state = "ESTABLISHED", Acks(conn[e], s)
  PROVE  /\ Peer(e) \in closing \/ sent[e] <= Len(got[Peer(e)])
         /\ uip_add32(conn[e].snd_nxt, conn[e].len) = N(e, sent[e] + 1)
<1> DEFINE n == conn[e].len
<1>1. /\ n \in Nat /\ n <= sent[e] /\ conn[e].snd_nxt = N(e, sent[e] - n + 1)
  BY Counts DEF Conn, ConnGood
<1>2. uip_add32(conn[e].snd_nxt, n) = N(e, sent[e] + 1)
  <2> DEFINE p == sent[e] - n + 1
  <2>1. p \in Nat /\ p + n = sent[e] + 1 /\ p + n <= SeqSpace
    BY <1>1, Counts
  <2> HIDE DEF p, n
  <2>2. uip_add32(N(e, p), n) = N(e, p + n)
    BY <1>1, <2>1, NumberOn
  <2>3. QED
    BY <1>1, <2>1, <2>2 DEF p
<1>3. "ACK" \in s.flags /\ s.ack = N(e, sent[e] + 1)
  BY <1>2 DEF Acks
<1>4. AckGood(Peer(e), s.ack)
  BY <1>3, Arrived DEF SegGood
<1>5. ASSUME NEW p \in 1 .. Len(got[Peer(e)]) + 1, s.ack = N(e, p)
      PROVE  sent[e] <= Len(got[Peer(e)])
  <2>1. p \in 1 .. SeqSpace /\ sent[e] + 1 \in 1 .. SeqSpace
    BY Counts
  <2>2. p = sent[e] + 1
    BY <1>3, <1>5, <2>1, NumberOnce
  <2>3. QED
    BY <2>2, Counts
<1>6. ~Done(Peer(Peer(e)))
  BY Counts DEF Done, Shut
<1>7. QED
  BY <1>2, <1>4, <1>5, <1>6, Counts DEF AckGood

-----------------------------------------------------------------------------
(* The silence before the connection ends when the client has its answer,  *)
(* and is kept by a server that only answers.                              *)
LEMMA QuietElse ==
  ASSUME Facts, NEW e \in Host, Moves(e), conn'[e].state # "SYN_SENT",
         conn[e].state \notin {"CLOSED", "SYN_RCVD"}
  PROVE  Quiet'
<1>1. CASE e = "client"
  BY <1>1 DEF Quiet
<1>2. CASE e = "server"
  <2>1. conn'["client"] = conn["client"]
    BY <1>2 DEF Moves, Host
  <2>2. conn["client"].state # "SYN_SENT"
    BY <1>2 DEF Facts, StreamsGood, Quiet
  <2>3. QED
    BY <2>1, <2>2 DEF Quiet
<1>3. QED
  BY <1>1, <1>2 DEF Host

(* A step that ends neither side's waiting.                                *)
LEMMA QuietKept ==
  ASSUME Facts, NEW e \in Host, Moves(e),
         conn'[e].state = "SYN_SENT" => conn[e].state = "SYN_SENT",
         ASSUME conn["client"].state = "SYN_SENT", conn'["client"].state = "SYN_SENT"
         PROVE  /\ e = "server" => conn'[e].state \in {"CLOSED", "SYN_RCVD"}
                /\ \A s \in net' : s \in net \/ Greeting(s)
  PROVE  Quiet'
<1> SUFFICES ASSUME conn'["client"].state = "SYN_SENT"
             PROVE  /\ conn'["server"].state \in {"CLOSED", "SYN_RCVD"}
                    /\ \A s \in net' : Greeting(s)
  BY DEF Quiet, Greeting
<1>1. conn["client"].state = "SYN_SENT"
  BY DEF Moves, Host
<1>2. /\ conn["server"].state \in {"CLOSED", "SYN_RCVD"}
      /\ \A s \in net : Greeting(s)
  BY <1>1 DEF Facts, StreamsGood, Quiet
<1>3. conn'["server"].state \in {"CLOSED", "SYN_RCVD"}
  BY <1>1, <1>2 DEF Moves, Host
<1>4. QED
  BY <1>1, <1>2, <1>3

(* A call that opens nothing keeps the rest as well.                       *)
LEMMA StepKeeps ==
  ASSUME Facts, NEW e \in Host, StepGood(e), opened' = opened, Quiet'
  PROVE  StreamsGood'
BY Frame DEF StepGood, Facts, StreamsGood

-----------------------------------------------------------------------------
(* uip_add_rcv_nxt writes rcv_nxt only.                                    *)
LEMMA RcvNxtFields ==
  ASSUME NEW c \in Conn, NEW n \in Nat
  PROVE  LET d == uip_add_rcv_nxt(c, n)
         IN /\ d \in Conn /\ d.state = c.state /\ d.len = c.len
            /\ d.snd_nxt = c.snd_nxt /\ d.rcv_nxt = uip_add32(c.rcv_nxt, n)
<1>1. uip_add_rcv_nxt(c, n) \in Conn
  BY RcvNxtType
<1>2. QED
  BY <1>1 DEF uip_add_rcv_nxt, Conn

(* The application of an established connection is called for data or an   *)
(* acknowledgement.                                                        *)
LEMMA EstablishedReady ==
  ASSUME Facts, NEW e \in Host, NEW s \in net, Arrives(e, s),
         Accepts(e, s, "ESTABLISHED"), NEW c \in AfterAck(conn[e], s),
         Give(e, s), opened' = opened,
         acked' = [acked EXCEPT ![e] = IF Acks(conn[e], s) THEN sent[e] ELSE @]
  PROVE  Ready(e, uip_add_rcv_nxt(c, Len(s.data)))
<1> DEFINE d == uip_add_rcv_nxt(c, Len(s.data))
<1>1. /\ conn[e].state = "ESTABLISHED" /\ "RST" \notin s.flags
      /\ s.data # <<>> => s.seq = conn[e].rcv_nxt
  BY DEF Accepts, Expected
<1>2. /\ e \in opened /\ conn[e].len \in Nat /\ conn[e].len <= sent[e]
      /\ acked[e] = sent[e] - conn[e].len
      /\ conn[e].snd_nxt = N(e, sent[e] - conn[e].len + 1)
      /\ conn[e].rcv_nxt = N(Peer(e), Len(got[e]) + 1)
      /\ conn[e].state \notin Shut
  BY <1>1, Counts DEF ConnGood, Conn, Shut
<1>3. /\ Len(got'[e]) = Len(got[e]) + Len(s.data)
      /\ \A i \in 1 .. Len(got'[e]) : got'[e][i] = i
      /\ Len(got'[e]) <= sent[Peer(e)]
      /\ \A f \in Host : f # e => got'[f] = got[f]
  BY <1>1, <1>2, Given
<1>4. /\ c \in Conn /\ c.state = conn[e].state /\ c.rcv_nxt = conn[e].rcv_nxt
      /\ Acks(conn[e], s) =>
           c.len = 0 /\ c.snd_nxt = uip_add32(conn[e].snd_nxt, conn[e].len)
      /\ ~Acks(conn[e], s) => c = conn[e]
  BY Counts, AfterAckFields
<1>5. /\ d \in Conn /\ d.state = c.state /\ d.len = c.len
      /\ d.snd_nxt = c.snd_nxt /\ d.rcv_nxt = uip_add32(c.rcv_nxt, Len(s.data))
  BY <1>4, Arrived, RcvNxtFields
<1> HIDE DEF d
<1>6. d.rcv_nxt = N(Peer(e), Len(got'[e]) + 1)
  <2>1. /\ Len(got[e]) + 1 \in Nat /\ Len(s.data) \in Nat
        /\ Len(got[e]) + 1 + Len(s.data) = Len(got'[e]) + 1
        /\ Len(got[e]) + 1 + Len(s.data) <= SeqSpace
    <3>1. Len(got[e]) \in Nat /\ Len(s.data) \in Nat
      BY Counts, Arrived
    <3>2. sent[Peer(e)] \in Nat /\ sent[Peer(e)] + 1 <= SeqSpace /\ SeqSpace \in Nat
      BY Counts
    <3>3. \A g, l, t, m \in Nat : g + l <= t /\ t + 1 <= m =>
            g + 1 \in Nat /\ g + 1 + l = g + l + 1 /\ g + 1 + l <= m
      OBVIOUS
    <3>4. Len(got[e]) + Len(s.data) <= sent[Peer(e)]
      BY <1>3
    <3>5. /\ Len(got[e]) + 1 \in Nat
          /\ Len(got[e]) + 1 + Len(s.data) = Len(got[e]) + Len(s.data) + 1
          /\ Len(got[e]) + 1 + Len(s.data) <= SeqSpace
      BY <3>1, <3>2, <3>3, <3>4
    <3>6. Len(got[e]) + Len(s.data) + 1 = Len(got'[e]) + 1
      BY <1>3
    <3>7. QED
      BY <3>1, <3>5, <3>6
  <2>2. Peer(e) \in Host
    BY Peers
  <2>3. uip_add32(N(Peer(e), Len(got[e]) + 1), Len(s.data))
        = N(Peer(e), Len(got[e]) + 1 + Len(s.data))
    BY <2>1, <2>2, NumberOn
  <2>4. QED
    BY <1>2, <1>4, <1>5, <2>1, <2>3
<1>7. /\ d.len <= sent[e] /\ acked'[e] = sent[e] - d.len
      /\ d.snd_nxt = N(e, sent[e] - d.len + 1)
      /\ Peer(e) \in closing \/ acked'[e] <= Len(got[Peer(e)])
  <2>1. CASE Acks(conn[e], s)
    <3>1. d.len = 0 /\ d.snd_nxt = N(e, sent[e] + 1)
      BY <1>1, <1>4, <1>5, <2>1, AcksMean
    <3>2. sent[e] \in Nat /\ sent[e] - 0 + 1 = sent[e] + 1 /\ sent[e] - 0 = sent[e]
      BY Counts
    <3>3. acked'[e] = sent[e]
      BY <2>1 DEF Facts, TypeOK
    <3>4. Peer(e) \in closing \/ acked'[e] <= Len(got[Peer(e)])
      BY <1>1, <2>1, <3>3, AcksMean
    <3>5. QED
      BY <3>1, <3>2, <3>3, <3>4
  <2>2. CASE ~Acks(conn[e], s)
    <3>1. d.len = conn[e].len /\ d.snd_nxt = conn[e].snd_nxt
      BY <1>4, <1>5, <2>2
    <3>2. acked'[e] = acked[e]
      BY <2>2 DEF Facts, TypeOK
    <3>3. Peer(e) \in closing \/ acked[e] <= Len(got[Peer(e)])
      BY Counts DEF CountsGood
    <3>4. QED
      BY <1>2, <3>1, <3>2, <3>3
  <2>3. QED
    BY <2>1, <2>2
<1>8. \A f \in Host : f # e => acked'[f] = acked[f]
  BY DEF Facts, TypeOK
<1>9. Len(got'[e]) >= Len(got[e])
  <2>1. Len(got[e]) \in Nat /\ Len(s.data) \in Nat
    BY Counts, Arrived
  <2>2. \A g, l \in Nat : g + l >= g
    OBVIOUS
  <2>3. QED
    BY <1>3, <2>1, <2>2
<1>10. Ready(e, d)
  BY <1>1, <1>2, <1>3, <1>4, <1>5, <1>6, <1>7, <1>8, <1>9 DEF Ready
<1>11. QED
  BY <1>10 DEF d

(* Data and acknowledgements in the middle of a connection.                *)
LEMMA EstablishedGood ==
  ASSUME Facts, NEW e \in Host, NEW s \in net, Arrives(e, s), InEstablished(e, s)
  PROVE  StreamsGood'
<1> DEFINE events == NewData(s) \cup (IF Acks(conn[e], s) THEN {"ACKDATA"} ELSE {})
<1>1. PICK c \in AfterAck(conn[e], s) :
       IF events # {}
       THEN /\ AppSend(e, uip_add_rcv_nxt(c, Len(s.data)), events)
            /\ Give(e, s)
            /\ acked' = [acked EXCEPT ![e] = IF Acks(conn[e], s) THEN sent[e] ELSE @]
       ELSE Become(e, c) /\ Drop /\ UNCHANGED <<sent, acked, got, closing>>
  BY DEF InEstablished
<1>2. Accepts(e, s, "ESTABLISHED") /\ opened' = opened /\ conn[e].state = "ESTABLISHED"
  BY DEF InEstablished, Accepts
<1>3. StepGood(e) /\ conn'[e].state # "SYN_SENT"
  <2>1. CASE events # {}
    <3> HIDE DEF events
    <3>1. /\ AppSend(e, uip_add_rcv_nxt(c, Len(s.data)), events)
          /\ Give(e, s)
          /\ acked' = [acked EXCEPT ![e] = IF Acks(conn[e], s) THEN sent[e] ELSE @]
      BY <1>1, <2>1
    <3>2. Ready(e, uip_add_rcv_nxt(c, Len(s.data)))
      BY <1>2, <3>1, EstablishedReady
    <3>3. QED
      BY <3>1, <3>2, AppSendGood
  <2>2. CASE events = {}
    <3>1. Become(e, c) /\ net' = net /\ Still
      BY <1>1, <1>2, <2>2 DEF Drop, Still
    <3>2. c = conn[e]
      <4>1. ~Acks(conn[e], s)
        BY <2>2
      <4>2. QED
        BY <4>1, Counts, AfterAckFields
    <3>3. Moves(e) /\ CountsGood(e)' /\ ConnGood(e)'
      BY <1>2, <3>1, <3>2, StillMoves, ConnSame
    <3>4. conn'[e] = c
      BY <3>1, BecomeFields
    <3>5. QED
      BY <1>2, <3>1, <3>2, <3>3, <3>4, SendsNone DEF StepGood
  <2>3. QED
    BY <2>1, <2>2
<1>4. Quiet'
  BY <1>2, <1>3, QuietElse DEF StepGood
<1>5. QED
  BY <1>2, <1>3, <1>4, StepKeeps

-----------------------------------------------------------------------------
(* The application is polled by the timer.                                 *)
LEMMA PollGood ==
  ASSUME Facts, NEW e \in Host, TimerPoll(e)
  PROVE  StreamsGood'
<1>1. /\ conn[e].state = "ESTABLISHED" /\ AppSend(e, conn[e], {"POLL"})
      /\ opened' = opened /\ acked' = acked /\ got' = got
  BY DEF TimerPoll
<1>2. Ready(e, conn[e])
  BY <1>1, Counts DEF Ready, ConnGood, CountsGood, Shut
<1>3. StepGood(e) /\ conn'[e].state # "SYN_SENT"
  BY <1>1, <1>2, AppSendGood
<1>4. QED
  BY <1>1, <1>3, QuietElse, StepKeeps DEF StepGood

(* The other ticks.                                                        *)
LEMMA TimerKeeps ==
  ASSUME Facts, NEW e \in Host,
         TimerWait(e) \/ TimerCount(e) \/ TimerGiveUp(e) \/ TimerRexmit(e)
  PROVE  StreamsGood'
<1>1. StepGood(e)
  BY TimerGood
<1>2. opened' = opened
  BY DEF TimerWait, TimerCount, TimerGiveUp, TimerRexmit
<1>3. conn[e] \in Conn /\ conn[e].state # "CLOSED"
  BY Counts DEF TimerWait, TimerCount, TimerGiveUp, TimerRexmit, Retransmits
<1>4. conn'[e].state \in {"CLOSED", conn[e].state}
  <2>1. CASE TimerWait(e)
    <3> DEFINE t == (conn[e].timer + 1) % 256
               c == [conn[e] EXCEPT !.timer = t,
                       !.state = IF t = UIP_TIME_WAIT_TIMEOUT THEN "CLOSED" ELSE @]
    <3>1. Become(e, c)
      BY <2>1 DEF TimerWait
    <3>2. c.state \in {"CLOSED", conn[e].state}
      <4> HIDE DEF t
      <4>1. QED
        BY <1>3 DEF Conn
    <3> HIDE DEF c
    <3>3. QED
      BY <3>1, <3>2, BecomeFields
  <2>2. CASE TimerCount(e)
    <3> DEFINE c == [conn[e] EXCEPT !.timer = @ - 1]
    <3>1. Become(e, c)
      BY <2>2 DEF TimerCount
    <3>2. c.state = conn[e].state
      BY <1>3 DEF Conn
    <3> HIDE DEF c
    <3>3. QED
      BY <3>1, <3>2, BecomeFields
  <2>3. CASE TimerGiveUp(e)
    <3> DEFINE c == [conn[e] EXCEPT !.state = "CLOSED", !.timer = 255]
    <3>1. Become(e, c)
      BY <2>3 DEF TimerGiveUp
    <3>2. c.state = "CLOSED"
      BY <1>3 DEF Conn
    <3> HIDE DEF c
    <3>3. QED
      BY <3>1, <3>2, BecomeFields
  <2>4. CASE TimerRexmit(e)
    <3> DEFINE c == Backoff(conn[e])
    <3>1. Become(e, c)
      BY <2>4 DEF TimerRexmit
    <3>2. c.state = conn[e].state
      BY <1>3 DEF Conn, Backoff
    <3> HIDE DEF c
    <3>3. QED
      BY <3>1, <3>2, BecomeFields
  <2>5. QED
    BY <2>1, <2>2, <2>3, <2>4
<1>5. CASE conn[e].state \notin {"SYN_SENT", "SYN_RCVD"}
  BY <1>1, <1>2, <1>3, <1>4, <1>5, QuietElse, StepKeeps DEF StepGood
<1>6. CASE conn[e].state \in {"SYN_SENT", "SYN_RCVD"}
  <2>1. ASSUME conn["client"].state = "SYN_SENT", NEW s \in net'
        PROVE  s \in net \/ Greeting(s)
    <3>0. /\ e = "client" => conn[e].state = "SYN_SENT"
          /\ conn[e].state = "SYN_SENT" => e = "client"
      BY <2>1, Counts DEF ConnGood
    <3>1. CASE TimerWait(e) \/ TimerCount(e)
      BY <3>1 DEF TimerWait, TimerCount
    <3>2. CASE TimerGiveUp(e)
      <4>1. s \in net \/ s = Seg(e, conn[e], {"RST", "ACK"}, <<>>)
        BY <3>2, Sent DEF TimerGiveUp
      <4>2. QED
        BY <4>1, SegFields DEF Greeting
    <3>3. CASE TimerRexmit(e)
      <4>1. s \in net \/ s = Again(e, conn[e])
        BY <3>3, Sent DEF TimerRexmit
      <4>2. CASE conn[e].state = "SYN_RCVD"
        <5>1. Again(e, conn[e]) = Seg(e, conn[e], {"SYN", "ACK"}, <<>>) /\ e = "server"
          BY <3>0, <4>2 DEF Again, Host
        <5>2. QED
          BY <4>1, <5>1, SegFields DEF Greeting
      <4>3. CASE conn[e].state = "SYN_SENT"
        <5>1. Again(e, conn[e]) = Seg(e, conn[e], {"SYN"}, <<>>) /\ e = "client"
          BY <3>0, <4>3 DEF Again
        <5>2. QED
          BY <4>1, <5>1, SegFields DEF Greeting
      <4>4. QED
        BY <1>6, <4>2, <4>3
    <3>4. QED
      BY <3>1, <3>2, <3>3
  <2>2. e = "server" => conn[e].state # "SYN_SENT"
    BY Counts DEF ConnGood
  <2>3. Quiet'
    BY <1>1, <1>3, <1>4, <1>6, <2>1, <2>2, QuietKept DEF StepGood
  <2>4. QED
    BY <1>1, <1>2, <2>3, StepKeeps
<1>7. QED
  BY <1>5, <1>6

(* The connection is established for the server ...                        *)
LEMMA SynRcvdGood ==
  ASSUME Facts, NEW e \in Host, NEW s \in net, Arrives(e, s), InSynRcvd(e, s)
  PROVE  StreamsGood'
<1>1. PICK c \in AfterAck(conn[e], s) :
       IF Acks(conn[e], s)
       THEN /\ AppSend(e, uip_add_rcv_nxt([c EXCEPT !.state = "ESTABLISHED"], Len(s.data)),
                       {"CONNECTED"} \cup NewData(s))
            /\ Give(e, s)
       ELSE Become(e, c) /\ Drop /\ UNCHANGED <<sent, got, closing>>
  BY DEF InSynRcvd
<1>2. /\ conn[e].state = "SYN_RCVD" /\ "RST" \notin s.flags
      /\ s.data # <<>> => s.seq = conn[e].rcv_nxt
      /\ opened' = opened /\ acked' = acked
  BY DEF InSynRcvd, Accepts, Expected
<1>3. /\ e \in opened /\ conn[e].snd_nxt = N(e, 0) /\ conn[e].len = 1
      /\ sent[e] = 0 /\ acked[e] = 0 /\ got[e] = <<>>
      /\ conn[e].rcv_nxt = N(Peer(e), 1)
  BY <1>2, Counts DEF ConnGood
<1>4. /\ c \in Conn /\ c.state = conn[e].state /\ c.rcv_nxt = conn[e].rcv_nxt
      /\ Acks(conn[e], s) =>
           c.len = 0 /\ c.snd_nxt = uip_add32(conn[e].snd_nxt, conn[e].len)
      /\ ~Acks(conn[e], s) => c = conn[e]
  BY Counts, AfterAckFields
<1>5. CASE Acks(conn[e], s)
  <2> DEFINE b == [c EXCEPT !.state = "ESTABLISHED"]
             d == uip_add_rcv_nxt(b, Len(s.data))
  <2>1. AppSend(e, d, {"CONNECTED"} \cup NewData(s)) /\ Give(e, s)
    BY <1>1, <1>5
  <2>2. /\ b \in Conn /\ b.state = "ESTABLISHED" /\ b.len = c.len
        /\ b.snd_nxt = c.snd_nxt /\ b.rcv_nxt = c.rcv_nxt
    BY <1>4 DEF Conn, State
  <2> HIDE DEF b
  <2>3. /\ d \in Conn /\ d.state = b.state /\ d.len = b.len
        /\ d.snd_nxt = b.snd_nxt /\ d.rcv_nxt = uip_add32(b.rcv_nxt, Len(s.data))
    BY <2>2, Arrived, RcvNxtFields
  <2> HIDE DEF d
  <2>4. Len(got[e]) = 0 /\ Len(got[e]) + 1 = 1
    BY <1>3
  <2>5. /\ Len(got'[e]) = Len(got[e]) + Len(s.data)
        /\ \A i \in 1 .. Len(got'[e]) : got'[e][i] = i
        /\ Len(got'[e]) <= sent[Peer(e)]
        /\ \A f \in Host : f # e => got'[f] = got[f]
    BY <1>2, <1>3, <2>1, <2>4, Given
  <2>6. Len(s.data) \in Nat /\ Len(got'[e]) = Len(s.data)
    <3>1. Len(s.data) \in Nat
      BY Arrived
    <3>2. QED
      BY <2>4, <2>5, <3>1
  <2>7. d.snd_nxt = N(e, 1)
    <3>1. uip_add32(N(e, 0), 1) = N(e, 0 + 1)
      BY NumberOn, Counts
    <3>2. QED
      BY <1>3, <1>4, <1>5, <2>2, <2>3, <3>1
  <2>8. d.rcv_nxt = N(Peer(e), Len(got'[e]) + 1)
    <3>1. 1 + Len(s.data) <= SeqSpace
      <4>1. sent[Peer(e)] \in Nat /\ sent[Peer(e)] + 1 <= SeqSpace /\ SeqSpace \in Nat
        BY Counts
      <4>2. Len(s.data) <= sent[Peer(e)]
        BY <2>5, <2>6
      <4>3. QED
        BY <2>6, <4>1, <4>2
    <3>2. uip_add32(N(Peer(e), 1), Len(s.data)) = N(Peer(e), 1 + Len(s.data))
      BY <2>6, <3>1, Peers, NumberOn
    <3>3. 1 + Len(s.data) = Len(got'[e]) + 1
      BY <2>6
    <3>4. QED
      BY <1>3, <1>4, <2>2, <2>3, <3>2, <3>3
  <2>9. d.len = 0
    BY <1>4, <1>5, <2>2, <2>3
  <2>10. Ready(e, d)
    <3>1. /\ d.len <= sent[e] /\ acked'[e] = sent[e] - d.len
          /\ d.snd_nxt = N(e, sent[e] - d.len + 1)
      BY <1>2, <1>3, <2>7, <2>9
    <3>2. Peer(e) \in closing \/ acked'[e] <= Len(got[Peer(e)])
      <4>1. acked'[e] = 0 /\ Len(got[Peer(e)]) \in Nat
        BY <1>2, <1>3, Counts
      <4>2. QED
        BY <4>1
    <3>3. Len(got'[e]) >= Len(got[e])
      BY <2>4, <2>6
    <3>4. conn[e].state \notin Shut
      BY <1>2 DEF Shut
    <3>5. d.state = "ESTABLISHED" /\ \A f \in Host : f # e => acked'[f] = acked[f]
      BY <1>2, <2>2, <2>3
    <3>6. QED
      BY <1>2, <1>3, <2>3, <2>5, <2>8, <3>1, <3>2, <3>3, <3>4, <3>5 DEF Ready
  <2>11. StepGood(e) /\ conn'[e].state # "SYN_SENT"
    BY <2>1, <2>10, AppSendGood
  <2>12. Quiet'
    <3>1. ASSUME conn["client"].state = "SYN_SENT" PROVE FALSE
      <4>1. Greeting(s)
        BY <3>1 DEF Facts, StreamsGood, Quiet
      <4>2. e # "client"
        BY <1>2, <3>1
      <4>3. s.from = "client"
        BY <4>2, Arrived DEF Peer, Host
      <4>4. s.flags = {"SYN"}
        BY <1>2, <4>1, <4>3 DEF Greeting
      <4>5. QED
        BY <1>5, <4>4 DEF Acks
    <3>2. QED
      BY <2>11, <3>1, QuietKept DEF StepGood
  <2>13. QED
    BY <1>2, <2>11, <2>12, StepKeeps
<1>6. CASE ~Acks(conn[e], s)
  <2>1. Become(e, c) /\ net' = net /\ Still /\ c = conn[e]
    BY <1>1, <1>2, <1>4, <1>6 DEF Drop, Still
  <2>2. Moves(e) /\ CountsGood(e)' /\ ConnGood(e)'
    BY <1>2, <2>1, StillMoves, ConnSame
  <2>3. conn'[e] = conn[e]
    BY <2>1, BecomeFields
  <2>4. StepGood(e)
    BY <2>1, <2>2, SendsNone DEF StepGood
  <2>5. Quiet'
    BY <1>2, <2>1, <2>2, <2>3, QuietKept
  <2>6. QED
    BY <1>2, <2>4, <2>5, StepKeeps
<1>7. QED
  BY <1>5, <1>6

(* ... and for the client.                                                 *)
LEMMA SynSentGood ==
  ASSUME Facts, NEW e \in Host, NEW s \in net, Arrives(e, s), InSynSent(e, s)
  PROVE  StreamsGood'
<1>1. PICK c \in AfterAck(conn[e], s) :
       IF Synchronizes(conn[e], s)
       THEN AppSend(e, [c EXCEPT !.state = "ESTABLISHED",
                                 !.rcv_nxt = uip_add32(s.seq, 1)],
                    {"CONNECTED", "NEWDATA"})
       ELSE /\ Become(e, [c EXCEPT !.state = "CLOSED"])
            /\ Send(Reset(e, s))
            /\ UNCHANGED <<sent, closing>>
  BY DEF InSynSent
<1>2. /\ conn[e].state = "SYN_SENT" /\ "RST" \notin s.flags
      /\ opened' = opened /\ acked' = acked /\ got' = got
  BY DEF InSynSent, Accepts
<1>3. /\ e \in opened /\ conn[e].snd_nxt = N(e, 0) /\ conn[e].len = 1
      /\ sent[e] = 0 /\ acked[e] = 0 /\ got[e] = <<>>
  BY <1>2, Counts DEF ConnGood
<1>4. /\ c \in Conn /\ c.state = conn[e].state
      /\ Acks(conn[e], s) =>
           c.len = 0 /\ c.snd_nxt = uip_add32(conn[e].snd_nxt, conn[e].len)
  BY Counts, AfterAckFields
<1>5. StepGood(e) /\ conn'[e].state # "SYN_SENT"
  <2>1. CASE Synchronizes(conn[e], s)
    <3> DEFINE d == [c EXCEPT !.state = "ESTABLISHED", !.rcv_nxt = uip_add32(s.seq, 1)]
    <3>1. AppSend(e, d, {"CONNECTED", "NEWDATA"})
      BY <1>1, <2>1
    <3>2. Acks(conn[e], s) /\ s.flags = {"SYN", "ACK"}
      BY <2>1 DEF Synchronizes
    <3>3. s.seq = N(Peer(e), 0)
      BY <1>2, <3>2, Arrived DEF SegGood
    <3>4. uip_add32(s.seq, 1) \in SeqNo
      BY Arrived, AddType
    <3>5. /\ d \in Conn /\ d.state = "ESTABLISHED" /\ d.len = 0
          /\ d.snd_nxt = c.snd_nxt /\ d.rcv_nxt = uip_add32(s.seq, 1)
      BY <1>4, <3>2, <3>4 DEF Conn, State
    <3> HIDE DEF d
    <3>6. d.snd_nxt = N(e, 1) /\ d.rcv_nxt = N(Peer(e), 1)
      <4>1. uip_add32(N(e, 0), 1) = N(e, 0 + 1)
        BY NumberOn, Counts
      <4>2. uip_add32(N(Peer(e), 0), 1) = N(Peer(e), 0 + 1)
        BY NumberOn, Counts, Peers
      <4>3. QED
        BY <1>3, <1>4, <3>2, <3>3, <3>5, <4>1, <4>2
    <3>7. Ready(e, d)
      <4>1. /\ d.len <= sent[e] /\ acked'[e] = sent[e] - d.len
            /\ d.snd_nxt = N(e, sent[e] - d.len + 1)
        BY <1>2, <1>3, <3>5, <3>6
      <4>2. Peer(e) \in closing \/ acked'[e] <= Len(got[Peer(e)])
        <5>1. acked'[e] = 0 /\ Len(got[Peer(e)]) \in Nat
          BY <1>2, <1>3, Counts
        <5>2. QED
          BY <5>1
      <4>3. Len(got'[e]) = 0 /\ Len(got[e]) = 0
        BY <1>2, <1>3
      <4>4. /\ Len(got'[e]) >= Len(got[e])
            /\ d.rcv_nxt = N(Peer(e), Len(got'[e]) + 1)
            /\ \A i \in 1 .. Len(got'[e]) : got'[e][i] = i
        BY <3>6, <4>3
      <4>5. Len(got'[e]) <= sent[Peer(e)]
        BY <1>2, Counts
      <4>6. conn[e].state \notin Shut
        BY <1>2 DEF Shut
      <4>7. QED
        BY <1>2, <1>3, <3>5, <4>1, <4>2, <4>4, <4>5, <4>6 DEF Ready
    <3>8. QED
      BY <3>1, <3>7, AppSendGood
  <2>2. CASE ~Synchronizes(conn[e], s)
    <3> DEFINE d == [c EXCEPT !.state = "CLOSED"]
    <3>1. Become(e, d) /\ Send(Reset(e, s)) /\ Still
      BY <1>1, <1>2, <2>2 DEF Still
    <3>2. d.state = "CLOSED"
      BY <1>4 DEF Conn
    <3> HIDE DEF d
    <3>3. Moves(e) /\ CountsGood(e)' /\ ConnGood(e)'
      BY <1>2, <3>1, <3>2, StillMoves, ConnSame DEF Shut
    <3>4. QED
      BY <3>1, <3>2, <3>3, SendsResets, BecomeFields DEF StepGood
  <2>3. QED
    BY <2>1, <2>2
<1>6. QED
  BY <1>2, <1>5, QuietElse, StepKeeps DEF StepGood

-----------------------------------------------------------------------------
(* A FIN comes after all data, and is answered when all of ours is         *)
(* acknowledged.                                                           *)
LEMMA EstablishedFinGood ==
  ASSUME Facts, NEW e \in Host, NEW s \in net, Arrives(e, s), InEstablishedFin(e, s)
  PROVE  StreamsGood'
<1> DEFINE F(c) == [uip_add_rcv_nxt(c, 1 + Len(s.data)) EXCEPT
                      !.len = 1, !.state = "LAST_ACK", !.nrtx = 0]
<1>1. PICK c \in AfterAck(conn[e], s) :
       IF uip_outstanding(c)
       THEN Become(e, c) /\ Drop /\ UNCHANGED <<got, told, acked>>
       ELSE /\ Become(e, F(c))
            /\ Send({Seg(e, F(c), {"FIN", "ACK"}, <<>>)})
            /\ Give(e, s)
            /\ acked' = [acked EXCEPT ![e] = sent[e]]
  BY DEF InEstablishedFin
<1>2. /\ conn[e].state = "ESTABLISHED" /\ "RST" \notin s.flags /\ "FIN" \in s.flags
      /\ s.seq = conn[e].rcv_nxt
      /\ opened' = opened /\ sent' = sent /\ closing' = closing
  BY DEF InEstablishedFin, Accepts, Expected
<1>3. /\ e \in opened /\ conn[e].len \in Nat /\ conn[e].len <= sent[e]
      /\ acked[e] = sent[e] - conn[e].len
      /\ conn[e].snd_nxt = N(e, sent[e] - conn[e].len + 1)
      /\ conn[e].rcv_nxt = N(Peer(e), Len(got[e]) + 1)
  BY <1>2, Counts DEF ConnGood, Conn
<1>4. /\ s.data = <<>> /\ s.seq = N(Peer(e), sent[Peer(e)] + 1) /\ Done(Peer(e))
  BY <1>2, Arrived DEF SegGood
<1>5. Len(got[e]) = sent[Peer(e)]
  <2>1. Len(got[e]) + 1 \in 1 .. SeqSpace /\ sent[Peer(e)] + 1 \in 1 .. SeqSpace
    BY Counts
  <2>2. Len(got[e]) + 1 = sent[Peer(e)] + 1
    BY <1>2, <1>3, <1>4, <2>1, NumberOnce, Peers
  <2>3. QED
    BY <2>2, Counts
<1>6. /\ c \in Conn /\ c.state = conn[e].state /\ c.rcv_nxt = conn[e].rcv_nxt
      /\ Acks(conn[e], s) =>
           c.len = 0 /\ c.snd_nxt = uip_add32(conn[e].snd_nxt, conn[e].len)
      /\ ~Acks(conn[e], s) => c = conn[e]
  BY Counts, AfterAckFields
<1>7. StepGood(e) /\ conn'[e].state # "SYN_SENT"
  <2>1. CASE uip_outstanding(c)
    <3>1. ~Acks(conn[e], s)
      BY <1>6, <2>1 DEF uip_outstanding
    <3>2. Become(e, c) /\ net' = net /\ Still /\ c = conn[e]
      BY <1>1, <1>2, <1>6, <2>1, <3>1 DEF Still, Drop
    <3>3. Moves(e) /\ CountsGood(e)' /\ ConnGood(e)'
      BY <1>2, <3>2, StillMoves, ConnSame
    <3>4. QED
      BY <1>2, <3>2, <3>3, SendsNone, BecomeFields DEF StepGood
  <2>2. CASE ~uip_outstanding(c)
    <3>0. PICK x : x = Seg(e, F(c), {"FIN", "ACK"}, <<>>)
      OBVIOUS
    <3> DEFINE d == F(c)
    <3>1. /\ Become(e, d) /\ Send({x}) /\ Give(e, s)
          /\ acked' = [acked EXCEPT ![e] = sent[e]]
      BY <1>1, <2>2, <3>0
    <3>2. uip_add_rcv_nxt(c, 1 + Len(s.data)) \in Conn
          /\ uip_add_rcv_nxt(c, 1 + Len(s.data)).snd_nxt = c.snd_nxt
      <4>1. 1 + Len(s.data) \in Nat
        BY Arrived
      <4>2. QED
        BY <1>6, <4>1, RcvNxtFields
    <3>3. /\ d.state = "LAST_ACK" /\ d.len = 1 /\ d.snd_nxt = c.snd_nxt
      BY <3>2 DEF Conn
    <3>4. x = Seg(e, d, {"FIN", "ACK"}, <<>>)
      BY <3>0
    <3> HIDE DEF d, F
    <3>5. conn'[e] = d /\ \A f \in Host : f # e => conn'[f] = conn[f]
      BY <3>1, BecomeFields
    <3>6. got' = got
      <4>1. got[e] \o s.data = got[e]
        BY <1>4, Counts
      <4>2. QED
        BY <3>1, <4>1 DEF Give, Facts, TypeOK
    <3>7. c.len = 0
      BY <1>6, <2>2 DEF uip_outstanding, Conn
    <3>8. c.snd_nxt = N(e, sent[e] + 1)
      <4>1. CASE Acks(conn[e], s)
        BY <1>2, <1>6, <4>1, AcksMean
      <4>2. CASE ~Acks(conn[e], s)
        <5>1. conn[e].len = 0 /\ c.snd_nxt = N(e, sent[e] - 0 + 1)
          BY <1>3, <1>6, <3>7, <4>2
        <5>2. sent[e] - 0 + 1 = sent[e] + 1
          BY Counts
        <5>3. QED
          BY <5>1, <5>2
      <4>3. QED
        BY <4>1, <4>2
    <3>9. /\ acked'[e] = sent[e] /\ \A f \in Host : f # e => acked'[f] = acked[f]
      BY <3>1 DEF Facts, TypeOK
    <3>10. Peer(e) \in closing \/ sent[e] <= Len(got[Peer(e)])
      <4>1. CASE Acks(conn[e], s)
        BY <1>2, <4>1, AcksMean
      <4>2. CASE ~Acks(conn[e], s)
        <5>1. acked[e] = sent[e]
          <6>1. conn[e].len = 0
            BY <1>6, <3>7, <4>2
          <6>2. QED
            BY <1>3, <6>1, Counts
        <5>2. QED
          BY <5>1, Counts DEF CountsGood
      <4>3. QED
        BY <4>1, <4>2
    <3>11. Moves(e)
      <4>1. ~Done(e)
        BY <1>2 DEF Done, Shut
      <4>2. sent'[e] >= sent[e] /\ Len(got'[e]) >= Len(got[e])
        BY <1>2, <3>6, Counts
      <4>3. QED
        BY <1>2, <3>5, <3>6, <3>9, <4>1, <4>2 DEF Moves
    <3>12. CountsGood(e)'
      <4>1. CountsGood(e)
        BY Counts
      <4>2. acked'[e] <= sent'[e]
        BY <1>2, <3>9, Counts
      <4>3. QED
        BY <1>2, <3>6, <3>9, <3>10, <4>1, <4>2 DEF CountsGood
    <3>13. ConnGood(e)'
      <4>1. Done(Peer(e))'
        BY <1>2, <1>4, <3>5, Peers DEF Done
      <4>2. Len(got'[e]) = sent'[Peer(e)]
        BY <1>2, <1>5, <3>6
      <4>3. e \in opened' /\ conn'[e].snd_nxt = N(e, sent'[e] + 1)
        BY <1>2, <1>3, <3>3, <3>5, <3>8
      <4>4. QED
        BY <3>3, <3>5, <4>1, <4>2, <4>3 DEF ConnGood, N, uip_add32
    <3>14. Says(e, x)' /\ x.flags = {"FIN", "ACK"} /\ x.data = <<>> /\ x.from = e
      BY <3>4, <3>5, SegFields DEF Says
    <3>15. SegGood(x)'
      BY <3>3, <3>5, <3>13, <3>14, SaysGood DEF Facts
    <3>16. QED
      BY <3>1, <3>3, <3>5, <3>11, <3>12, <3>13, <3>14, <3>15, SendsOne DEF StepGood
  <2>3. QED
    BY <2>1, <2>2
<1>8. QED
  BY <1>2, <1>7, QuietElse, StepKeeps DEF StepGood

-----------------------------------------------------------------------------
(* The states after the application has closed.                            *)
Closings == {"FIN_WAIT_1", "FIN_WAIT_2", "CLOSING", "TIME_WAIT"}

(* Whatever such a state makes of a segment.                               *)
LEMMA ClosingsGood ==
  ASSUME Facts, NEW e \in Host, NEW d, Become(e, d), Still,
         conn[e].state \in Closings, d.state \in Closings,
         d.state \in {"FIN_WAIT_1", "CLOSING"} =>
           /\ conn[e].state \in {"FIN_WAIT_1", "CLOSING"}
           /\ d.len = conn[e].len /\ d.snd_nxt = conn[e].snd_nxt,
         net' = net \/ Send({Seg(e, d, {"ACK"}, <<>>)})
  PROVE  StreamsGood'
<1>1. conn'[e] = d /\ \A f \in Host : f # e => conn'[f] = conn[f]
  BY BecomeFields
<1>2. Moves(e) /\ CountsGood(e)'
  BY StillMoves DEF Closings, Shut
<1>3. e \in opened /\ e \in closing
  BY Counts DEF ConnGood, Closings
<1>4. ConnGood(e)'
  <2>1. d.state \in {"FIN_WAIT_1", "CLOSING"} =>
          d.len = 1 /\ d.snd_nxt = N(e, sent'[e] + 1)
    BY Counts DEF ConnGood, Still
  <2>2. e \in opened' /\ e \in closing'
    BY <1>3 DEF Still
  <2>3. QED
    BY <1>1, <2>1, <2>2 DEF ConnGood, Closings, N, uip_add32
<1>5. Sends(e)
  <2>0. PICK x : x = Seg(e, d, {"ACK"}, <<>>)
    OBVIOUS
  <2>1. Says(e, x)' /\ x.flags = {"ACK"} /\ x.data = <<>> /\ x.from = e
    BY <1>1, <2>0, SegFields DEF Says
  <2>2. SegGood(x)'
    BY <1>1, <1>4, <2>1, SaysGood DEF Facts, Closings
  <2>3. QED
    BY <2>0, <2>1, <2>2, SendsOne, SendsNone
<1>6. conn'[e].state # "SYN_SENT" /\ conn[e].state \notin {"CLOSED", "SYN_RCVD"}
  BY <1>1 DEF Closings
<1>7. Quiet'
  BY <1>2, <1>6, QuietElse
<1>8. QED
  BY <1>2, <1>4, <1>5, <1>7, StepKeeps DEF StepGood, Still

(* FIN_WAIT_1.                                                             *)
LEMMA FinWait1Good ==
  ASSUME Facts, NEW e \in Host, NEW s \in net, Arrives(e, s), InFinWait1(e, s)
  PROVE  StreamsGood'
<1>1. PICK c \in AfterAck(conn[e], s) :
       LET d == uip_add_rcv_nxt(c, Len(s.data))
           f == uip_add_rcv_nxt(d, 1)
           a == Acks(conn[e], s)
       IN  \E next : /\ \/ next = [f EXCEPT !.state = "TIME_WAIT", !.timer = 0]
                        \/ ~a /\ next = [f EXCEPT !.state = "CLOSING"]
                        \/ next = [d EXCEPT !.state = "FIN_WAIT_2"]
                        \/ ~a /\ next = d
                     /\ Become(e, next)
                     /\ net' = net \/ Send({Seg(e, next, {"ACK"}, <<>>)})
  BY DEF InFinWait1, Drop
<1>2. conn[e].state = "FIN_WAIT_1" /\ Still
  BY DEF InFinWait1, Accepts, Still
<1> DEFINE d == uip_add_rcv_nxt(c, Len(s.data))
           f == uip_add_rcv_nxt(d, 1)
<1>3. PICK next : /\ \/ next = [f EXCEPT !.state = "TIME_WAIT", !.timer = 0]
                     \/ ~Acks(conn[e], s) /\ next = [f EXCEPT !.state = "CLOSING"]
                     \/ next = [d EXCEPT !.state = "FIN_WAIT_2"]
                     \/ ~Acks(conn[e], s) /\ next = d
                  /\ Become(e, next)
                  /\ net' = net \/ Send({Seg(e, next, {"ACK"}, <<>>)})
  BY <1>1
<1>4. /\ c \in Conn /\ c.state = conn[e].state
      /\ ~Acks(conn[e], s) => c = conn[e]
  BY Counts, AfterAckFields
<1>5. /\ d \in Conn /\ d.state = c.state /\ d.len = c.len /\ d.snd_nxt = c.snd_nxt
  BY <1>4, Arrived, RcvNxtFields
<1>6. /\ f \in Conn /\ f.state = d.state /\ f.len = d.len /\ f.snd_nxt = d.snd_nxt
  <2> HIDE DEF d
  <2>1. QED
    BY <1>5, RcvNxtFields
<1> HIDE DEF d, f
<1>7. /\ next.state \in Closings
      /\ next.state \in {"FIN_WAIT_1", "CLOSING"} =>
           next.len = conn[e].len /\ next.snd_nxt = conn[e].snd_nxt
  <2>1. CASE next = [f EXCEPT !.state = "TIME_WAIT", !.timer = 0]
    BY <1>6, <2>1 DEF Conn, Closings
  <2>2. CASE ~Acks(conn[e], s) /\ next = [f EXCEPT !.state = "CLOSING"]
    BY <1>4, <1>5, <1>6, <2>2 DEF Conn, Closings
  <2>3. CASE next = [d EXCEPT !.state = "FIN_WAIT_2"]
    BY <1>5, <2>3 DEF Conn, Closings
  <2>4. CASE ~Acks(conn[e], s) /\ next = d
    BY <1>2, <1>4, <1>5, <2>4 DEF Closings
  <2>5. QED
    BY <1>3, <2>1, <2>2, <2>3, <2>4
<1>8. QED
  BY <1>2, <1>3, <1>7, ClosingsGood DEF Closings

(* FIN_WAIT_2.                                                             *)
LEMMA FinWait2Good ==
  ASSUME Facts, NEW e \in Host, NEW s \in net, Arrives(e, s), InFinWait2(e, s)
  PROVE  StreamsGood'
<1> DEFINE d == uip_add_rcv_nxt(conn[e], Len(s.data))
           f == uip_add_rcv_nxt(d, 1)
           next == IF "FIN" \in s.flags
                   THEN [f EXCEPT !.state = "TIME_WAIT", !.timer = 0] ELSE d
<1>1. /\ Become(e, next) /\ Still /\ conn[e].state = "FIN_WAIT_2"
      /\ net' = net \/ Send({Seg(e, next, {"ACK"}, <<>>)})
  BY DEF InFinWait2, Accepts, Still, Drop
<1>2. d \in Conn /\ d.state = conn[e].state
  BY Counts, Arrived, RcvNxtFields
<1>3. f \in Conn
  <2> HIDE DEF d
  <2>1. QED
    BY <1>2, RcvNxtFields
<1>4. next.state \in {"TIME_WAIT", "FIN_WAIT_2"}
  <2> HIDE DEF d, f
  <2>1. QED
    BY <1>1, <1>2, <1>3 DEF Conn
<1> HIDE DEF next
<1>5. QED
  BY <1>1, <1>4, ClosingsGood DEF Closings

(* TIME_WAIT.                                                              *)
LEMMA TimeWaitGood ==
  ASSUME Facts, NEW e \in Host, NEW s \in net, Arrives(e, s), InTimeWait(e, s)
  PROVE  StreamsGood'
<1>1. PICK c \in AfterAck(conn[e], s) :
         Become(e, c) /\ Send({Seg(e, c, {"ACK"}, <<>>)})
  BY DEF InTimeWait
<1>2. conn[e].state = "TIME_WAIT" /\ Still
  BY DEF InTimeWait, Accepts, Still, appVars
<1>3. c.state = conn[e].state
  BY Counts, AfterAckFields
<1>4. QED
  BY <1>1, <1>2, <1>3, ClosingsGood DEF Closings

(* CLOSING.                                                                *)
LEMMA ClosingGood ==
  ASSUME Facts, NEW e \in Host, NEW s \in net, Arrives(e, s), InClosing(e, s)
  PROVE  StreamsGood'
<1>1. PICK c \in AfterAck(conn[e], s) :
       Become(e, IF Acks(conn[e], s)
                 THEN [c EXCEPT !.state = "TIME_WAIT", !.timer = 0] ELSE c)
  BY DEF InClosing
<1>2. conn[e].state = "CLOSING" /\ Still /\ net' = net
  BY DEF InClosing, Accepts, Still, appVars
<1>3. c \in Conn /\ c.state = conn[e].state /\ (~Acks(conn[e], s) => c = conn[e])
  BY Counts, AfterAckFields
<1>4. CASE Acks(conn[e], s)
  <2> DEFINE d == [c EXCEPT !.state = "TIME_WAIT", !.timer = 0]
  <2>1. Become(e, d) /\ d.state = "TIME_WAIT"
    BY <1>1, <1>3, <1>4 DEF Conn
  <2> HIDE DEF d
  <2>2. QED
    BY <1>2, <2>1, ClosingsGood DEF Closings
<1>5. CASE ~Acks(conn[e], s)
  <2>1. Become(e, c) /\ c = conn[e]
    BY <1>1, <1>3, <1>5
  <2>2. QED
    BY <1>2, <2>1, ClosingsGood DEF Closings
<1>6. QED
  BY <1>4, <1>5

(* LAST_ACK.                                                               *)
LEMMA LastAckGood ==
  ASSUME Facts, NEW e \in Host, NEW s \in net, Arrives(e, s), InLastAck(e, s)
  PROVE  StreamsGood'
<1>1. PICK c \in AfterAck(conn[e], s) :
       IF Acks(conn[e], s) THEN Become(e, [c EXCEPT !.state = "CLOSED"])
       ELSE Become(e, c)
  BY DEF InLastAck
<1>2. conn[e].state = "LAST_ACK" /\ Still /\ net' = net
  BY DEF InLastAck, Accepts, Still
<1>3. c \in Conn /\ (~Acks(conn[e], s) => c = conn[e])
  BY Counts, AfterAckFields
<1>4. PICK d : /\ Become(e, d) /\ (d = conn[e] \/ d.state = "CLOSED")
  <2>1. [c EXCEPT !.state = "CLOSED"].state = "CLOSED"
    BY <1>3 DEF Conn
  <2>2. QED
    BY <1>1, <1>3, <2>1
<1>5. Moves(e) /\ CountsGood(e)' /\ ConnGood(e)'
  BY <1>2, <1>4, StillMoves, ConnSame DEF Shut
<1>6. conn'[e].state # "SYN_SENT"
  BY <1>2, <1>4, BecomeFields
<1>7. QED
  BY <1>2, <1>5, <1>6, SendsNone, QuietElse, StepKeeps DEF StepGood, Still

(* A reset ends the connection in any state.                               *)
LEMMA ResetGood ==
  ASSUME Facts, NEW e \in Host, NEW s \in net, Arrives(e, s), InReset(e, s)
  PROVE  StreamsGood'
<1> DEFINE d == [conn[e] EXCEPT !.state = "CLOSED"]
<1>1. Become(e, d) /\ Still /\ net' = net /\ conn[e].state # "CLOSED"
  BY DEF InReset, Still
<1>2. d.state = "CLOSED"
  BY Counts DEF Conn
<1> HIDE DEF d
<1>3. Moves(e) /\ CountsGood(e)' /\ ConnGood(e)'
  BY <1>1, <1>2, StillMoves, ConnSame DEF Shut
<1>4. conn'[e].state = "CLOSED"
  BY <1>1, <1>2, BecomeFields
<1>5. Quiet'
  BY <1>1, <1>3, <1>4, QuietKept
<1>6. QED
  BY <1>1, <1>3, <1>5, SendsNone, StepKeeps DEF StepGood, Still

-----------------------------------------------------------------------------
(* Segments that are only answered.                                        *)
LEMMA AnsweredGood ==
  ASSUME Facts, NEW e \in Host, UNCHANGED <<conn, opened, appVars>>, Sends(e), Quiet'
  PROVE  StreamsGood'
<1>1. ConnGood(e)' /\ CountsGood(e)'
  BY Counts DEF ConnGood, CountsGood, appVars, N, uip_add32, Done
<1>2. Moves(e)
  BY Counts DEF Moves, appVars, Done
<1>3. QED
  BY <1>1, <1>2, StepKeeps DEF StepGood

(* A reset answers a segment that finds no connection.                     *)
LEMMA NoConnectionGood ==
  ASSUME Facts, NEW e \in Host, NEW s \in net, NoConnection(e, s)
  PROVE  StreamsGood'
<1>1. Send(Reset(e, s)) /\ UNCHANGED <<conn, opened, appVars>>
  BY DEF NoConnection
<1>2. Quiet'
  BY <1>1, Resets DEF Facts, StreamsGood, Quiet, Greeting
<1>3. QED
  BY <1>1, <1>2, SendsResets, AnsweredGood

(* No segment is unexpected by a client that waits for its answer.         *)
LEMMA UnexpectedGood ==
  ASSUME Facts, NEW e \in Host, NEW s \in net, Arrives(e, s), InUnexpected(e, s)
  PROVE  StreamsGood'
<1>0. PICK x : x = Seg(e, conn[e], {"ACK"}, <<>>)
  OBVIOUS
<1>1. /\ Send({x}) /\ UNCHANGED <<conn, opened, appVars>> /\ conn[e].state # "CLOSED"
      /\ "RST" \notin s.flags /\ ~Expected(conn[e], s)
  BY <1>0 DEF InUnexpected
<1>2. conn[e].state # "SYN_SENT"
  <2> SUFFICES ASSUME conn[e].state = "SYN_SENT" PROVE FALSE
    OBVIOUS
  <2>1. e = "client"
    BY Counts DEF ConnGood
  <2>2. Greeting(s) /\ s.from = "server"
    BY <2>1, Arrived DEF Facts, StreamsGood, Quiet, Peer
  <2>3. s.flags = {"SYN", "ACK"} \/ (s.data = <<>> /\ s.flags = {"ACK"})
    BY <1>1, <2>2 DEF Greeting
  <2>4. QED
    BY <1>1, <2>3 DEF Expected
<1>3. ConnGood(e)'
  BY <1>1, Counts DEF ConnGood, appVars, N, uip_add32, Done
<1>4. Says(e, x)' /\ x.flags = {"ACK"} /\ x.data = <<>> /\ x.from = e
  BY <1>0, <1>1, SegFields DEF Says
<1>5. SegGood(x)'
  BY <1>1, <1>2, <1>3, <1>4, SaysGood DEF Facts
<1>6. Quiet'
  <2>1. conn["client"].state = "SYN_SENT" => x.from = "server"
    BY <1>2, <1>4 DEF Host
  <2>2. \A t \in net' : t \in net \/ t = x
    BY <1>1, Sent
  <2>3. QED
    BY <1>1, <1>4, <2>1, <2>2 DEF Facts, StreamsGood, Quiet, Greeting
<1>7. QED
  BY <1>1, <1>4, <1>5, <1>6, SendsOne, AnsweredGood

-----------------------------------------------------------------------------
(* The two ways to open a connection.                                      *)
LEMMA ListenGood ==
  ASSUME Facts, NEW e \in Host, NEW s \in net, Arrives(e, s), Listen(e, s)
  PROVE  StreamsGood'
<1> DEFINE c == [state |-> "SYN_RCVD", snd_nxt |-> Iss[e],
                 rcv_nxt |-> uip_add32(s.seq, 1), len |-> 1, nrtx |-> 0,
                 timer |-> UIP_RTO, rto |-> UIP_RTO]
<1>0. PICK x : x = Seg(e, c, {"SYN", "ACK"}, <<>>)
  OBVIOUS
<1>1. /\ conn[e].state = "CLOSED" /\ s.flags = {"SYN"} /\ e = "server"
      /\ e \notin opened /\ opened' = opened \cup {e}
      /\ Become(e, c) /\ Send({x}) /\ UNCHANGED appVars
  BY <1>0 DEF Listen
<1>2. /\ c.state = "SYN_RCVD" /\ c.snd_nxt = Iss[e] /\ c.len = 1
      /\ c.rcv_nxt = uip_add32(s.seq, 1)
  OBVIOUS
<1> HIDE DEF c
<1>3. conn'[e] = c /\ \A f \in Host : f # e => conn'[f] = conn[f]
  BY <1>1, BecomeFields
<1>4. c.snd_nxt = N(e, 0) /\ c.rcv_nxt = N(Peer(e), 1)
  <2>1. Iss[e] \in Nat /\ Iss[e] < SeqSpace
    BY TcpAssumption DEF SeqNo
  <2>2. N(e, 0) = Iss[e]
    <3>1. N(e, 0) = IF Iss[e] + 0 < SeqSpace THEN Iss[e] + 0
                    ELSE Iss[e] + 0 - SeqSpace
      BY Number, Counts
    <3>2. QED
      BY <2>1, <3>1
  <2>3. s.seq = N(Peer(e), 0)
    BY <1>1, Arrived DEF SegGood
  <2>4. uip_add32(N(Peer(e), 0), 1) = N(Peer(e), 0 + 1)
    BY NumberOn, Counts
  <2>5. QED
    BY <1>2, <2>2, <2>3, <2>4
<1>5. sent[e] = 0 /\ acked[e] = 0 /\ got[e] = <<>>
  BY <1>1, Counts DEF ConnGood
<1>6. ConnGood(e)'
  BY <1>1, <1>2, <1>3, <1>4, <1>5 DEF ConnGood, appVars, N, uip_add32
<1>7. CountsGood(e)'
  BY <1>1, Counts DEF CountsGood, appVars
<1>8. Moves(e)
  BY <1>1, <1>3, Counts DEF Moves, Done, appVars
<1>9. Says(e, x)' /\ x.flags = {"SYN", "ACK"} /\ x.data = <<>> /\ x.from = e
  BY <1>0, <1>3, SegFields DEF Says
<1>10. SegGood(x)'
  BY <1>2, <1>3, <1>6, <1>9, SaysGood DEF Facts
<1>11. Sends(e)
  BY <1>1, <1>9, <1>10, SendsOne
<1>12. ("server" \in opened => "client" \in opened)'
  BY <1>1, Arrived DEF SegGood, Peer
<1>13. Quiet'
  <2>1. \A t \in net' : t \in net \/ t = x
    BY <1>1, Sent
  <2>2. QED
    BY <1>1, <1>2, <1>3, <1>8, <1>9, <2>1, QuietKept DEF Greeting
<1>14. QED
  BY <1>6, <1>7, <1>8, <1>11, <1>12, <1>13, Frame

(* uip_connect.                                                            *)
LEMMA ConnectGood ==
  ASSUME Facts, uip_connect
  PROVE  StreamsGood'
<1> DEFINE e == "client"
           c == [conn[e] EXCEPT !.state = "SYN_SENT", !.snd_nxt = Iss["client"],
                   !.len = 1, !.nrtx = 0, !.timer = 1, !.rto = UIP_RTO]
<1>1. /\ e \in Host /\ e \notin opened /\ opened' = opened \cup {e}
      /\ conn' = [conn EXCEPT ![e] = c] /\ UNCHANGED <<net, appVars>>
  BY DEF uip_connect, Host
<1>2. /\ c.state = "SYN_SENT" /\ c.snd_nxt = Iss["client"] /\ c.len = 1
  BY <1>1, Counts DEF Conn
<1>3. Become(e, c)
  BY <1>1 DEF Become
<1> HIDE DEF c
<1>4. conn'[e] = c /\ \A f \in Host : f # e => conn'[f] = conn[f]
  BY <1>1, <1>3, BecomeFields
<1>5. c.snd_nxt = N(e, 0)
  <2>1. Iss[e] \in Nat /\ Iss[e] < SeqSpace
    BY <1>1, TcpAssumption DEF SeqNo
  <2>2. N(e, 0) = IF Iss[e] + 0 < SeqSpace THEN Iss[e] + 0
                  ELSE Iss[e] + 0 - SeqSpace
    BY <1>1, Number, Counts
  <2>3. QED
    BY <1>2, <2>1, <2>2
<1>6. conn[e].state = "CLOSED" /\ sent[e] = 0 /\ acked[e] = 0 /\ got[e] = <<>>
  BY <1>1, Counts DEF ConnGood
<1>7. ConnGood(e)'
  BY <1>1, <1>2, <1>4, <1>5, <1>6 DEF ConnGood, appVars, N, uip_add32
<1>8. CountsGood(e)'
  BY <1>1, Counts DEF CountsGood, appVars
<1>9. Moves(e)
  BY <1>1, <1>4, Counts DEF Moves, Done, appVars
<1>10. Quiet'
  <2>1. opened = {}
    BY <1>1 DEF Facts, StreamsGood, TypeOK, Host
  <2>2. conn["server"].state = "CLOSED"
    BY <2>1, Counts DEF ConnGood, Host
  <2>3. \A s \in net : "RST" \in s.flags
    BY <2>1 DEF Facts, StreamsGood, SegGood
  <2>4. conn'["server"] = conn["server"]
    BY <1>4 DEF Host
  <2>5. QED
    BY <1>1, <2>2, <2>3, <2>4 DEF Quiet, Greeting
<1>11. Sends(e)
  BY <1>1, SendsNone
<1>12. QED
  BY <1>1, <1>7, <1>8, <1>9, <1>10, <1>11, Frame

-----------------------------------------------------------------------------
(* Every label of uip_input.                                               *)
LEMMA InputGood ==
  ASSUME Facts, NEW e \in Host, NEW s \in net, uip_input(e, s)
  PROVE  StreamsGood'
<1>1. Arrives(e, s)
  BY DEF uip_input
<1>2. CASE NoConnection(e, s)
  BY <1>2, NoConnectionGood
<1>3. CASE Listen(e, s)
  BY <1>1, <1>3, ListenGood
<1>4. CASE InReset(e, s)
  BY <1>1, <1>4, ResetGood
<1>5. CASE InUnexpected(e, s)
  BY <1>1, <1>5, UnexpectedGood
<1>6. CASE InSynRcvd(e, s)
  BY <1>1, <1>6, SynRcvdGood
<1>7. CASE InSynSent(e, s)
  BY <1>1, <1>7, SynSentGood
<1>8. CASE InEstablishedFin(e, s)
  BY <1>1, <1>8, EstablishedFinGood
<1>9. CASE InEstablished(e, s)
  BY <1>1, <1>9, EstablishedGood
<1>10. CASE InLastAck(e, s)
  BY <1>1, <1>10, LastAckGood
<1>11. CASE InFinWait1(e, s)
  BY <1>1, <1>11, FinWait1Good
<1>12. CASE InFinWait2(e, s)
  BY <1>1, <1>12, FinWait2Good
<1>13. CASE InTimeWait(e, s)
  BY <1>1, <1>13, TimeWaitGood
<1>14. CASE InClosing(e, s)
  BY <1>1, <1>14, ClosingGood
<1>15. QED
  BY <1>2, <1>3, <1>4, <1>5, <1>6, <1>7, <1>8, <1>9, <1>10, <1>11, <1>12, <1>13,
     <1>14 DEF uip_input

(* A lost segment takes nothing with it.                                   *)
LEMMA LoseGood ==
  ASSUME Facts, NEW s \in net, Lose(s)
  PROVE  StreamsGood'
<1>1. net' \subseteq net /\ UNCHANGED <<conn, opened, appVars>>
  BY DEF Lose
<1>2. "client" \in Host
  BY DEF Host
<1>3. Sends("client")
  BY <1>1 DEF Sends
<1>4. Quiet'
  BY <1>1 DEF Facts, StreamsGood, Quiet, Greeting
<1>5. QED
  BY <1>1, <1>2, <1>3, <1>4, AnsweredGood

(* The invariant holds at first, ...                                       *)
LEMMA InitGood ==
  ASSUME uip_init, NoReuse
  PROVE  StreamsGood
<1>1. \A e \in Host : MaxBytes[e] \in Nat /\ Peer(e) \in Host
  BY TcpAssumption, Peers
<1>2. ASSUME NEW e \in Host PROVE ConnGood(e)
  BY <1>2 DEF uip_init, ConnGood
<1>3. ASSUME NEW e \in Host PROVE CountsGood(e)
  BY <1>1, <1>3 DEF uip_init, CountsGood
<1>4. Quiet
  BY DEF uip_init, Quiet, Host
<1>5. QED
  BY <1>2, <1>3, <1>4 DEF uip_init, StreamsGood

(* ... every step keeps it, ...                                            *)
LEMMA StepsGood ==
  ASSUME TypeOK, TypeOK', StreamsGood, NoReuse, [Next]_vars
  PROVE  StreamsGood'
<1>0. Facts
  BY DEF Facts
<1>1. CASE uip_connect
  BY <1>0, <1>1, ConnectGood
<1>2. ASSUME NEW s \in net, Lose(s) PROVE StreamsGood'
  BY <1>0, <1>2, LoseGood
<1>3. ASSUME NEW e \in Host, uip_periodic(e) PROVE StreamsGood'
  BY <1>0, <1>3, TimerKeeps, PollGood DEF uip_periodic
<1>4. ASSUME NEW e \in Host, NEW s \in net, uip_input(e, s) PROVE StreamsGood'
  BY <1>0, <1>4, InputGood
<1>5. CASE UNCHANGED vars
  <2>1. Facts /\ UNCHANGED <<conn, opened, appVars>> /\ net' = net /\ "client" \in Host
    BY <1>0, <1>5 DEF vars, Host
  <2>2. Quiet'
    BY <2>1 DEF Facts, StreamsGood, Quiet, Greeting
  <2>3. QED
    BY <2>1, <2>2, SendsNone, AnsweredGood
<1>6. QED
  BY <1>1, <1>2, <1>3, <1>4, <1>5 DEF Next

(* ... and so it always holds.                                             *)
LEMMA InvariantStreams ==
  ASSUME NoReuse PROVE Spec => []StreamsGood
<1>1. uip_init => StreamsGood
  BY InitGood
<1>2. TypeOK /\ TypeOK' /\ StreamsGood /\ [Next]_vars => StreamsGood'
  BY StepsGood
<1>3. QED
  BY <1>1, <1>2, TypeCorrect, PTL DEF Spec

(* The bytes given to an application are those its peer sent, once each    *)
(* and in order (uip_process), for any loss, duplication and reordering of *)
(* segments and any number of retransmissions, as long as no connection    *)
(* sends so much that it uses a sequence number twice.                     *)
THEOREM Delivered ==
  ASSUME NoReuse PROVE Spec => []DeliveredInOrder
<1>1. StreamsGood => DeliveredInOrder
  BY DEF StreamsGood, CountsGood, DeliveredInOrder
<1>2. QED
  BY <1>1, InvariantStreams, PTL

(* What the code reports as acknowledged (UIP_ACKDATA) has been given to   *)
(* the peer's application, unless that one has closed.                     *)
THEOREM AckedDelivered ==
  ASSUME NoReuse PROVE Spec => []AckedMeansDelivered
<1>1. StreamsGood => AckedMeansDelivered
  BY DEF StreamsGood, CountsGood, AckedMeansDelivered
<1>2. QED
  BY <1>1, InvariantStreams, PTL

(* A host that has answered a FIN has given its application all that the   *)
(* peer sent: no FIN overtakes data.                                       *)
THEOREM FinLast ==
  ASSUME NoReuse PROVE Spec => []FinAfterData
<1>1. StreamsGood => FinAfterData
  BY DEF StreamsGood, ConnGood, FinAfterData
<1>2. QED
  BY <1>1, InvariantStreams, PTL

-----------------------------------------------------------------------------
(* What a call for e writes of the histories.                              *)
Writes(e) ==
  /\ sent' = sent \/ \E n \in Nat : sent' = [sent EXCEPT ![e] = @ + n]
  /\ closing' = closing \/ closing' = closing \cup {e}
  /\ got' = got \/ \E s \in net : Give(e, s)
  /\ acked' = acked \/ acked' = [acked EXCEPT ![e] = sent[e]]

(* The application writes sent and closing.                                *)
LEMMA AppWrites ==
  ASSUME NEW e \in Host, NEW c, NEW events, AppSend(e, c, events)
  PROVE  /\ sent' = sent \/ \E n \in Nat : sent' = [sent EXCEPT ![e] = @ + n]
         /\ closing' = closing \/ closing' = closing \cup {e}
<1>1. CASE AppSendsNew(e, c)
  <2>1. PICK offer \in 1 .. MaxOffer :
          sent' = [sent EXCEPT ![e] = @ + Lesser(offer, UIP_TCP_MSS)]
    BY <1>1 DEF AppSendsNew
  <2>2. Lesser(offer, UIP_TCP_MSS) \in Nat
    BY LesserType, TcpAssumption
  <2>3. QED
    BY <1>1, <2>1, <2>2 DEF AppSendsNew
<1>2. CASE ~AppSendsNew(e, c)
  BY <1>2 DEF AppSend, AppAborts, AppCloses, AppSendsAgain, AppSendsNothing
<1>3. QED
  BY <1>1, <1>2

(* A tick writes no more ...                                               *)
LEMMA PeriodicWrites ==
  ASSUME NEW e \in Host, uip_periodic(e)
  PROVE  Writes(e)
<1>1. CASE TimerPoll(e)
  BY <1>1, AppWrites DEF TimerPoll, Writes
<1>2. CASE ~TimerPoll(e)
  BY <1>2 DEF uip_periodic, TimerWait, TimerCount, TimerGiveUp, TimerRexmit, Writes,
              appVars
<1>3. QED
  BY <1>1, <1>2

(* ... and a segment what it brings.                                       *)
LEMMA InputWrites ==
  ASSUME TypeOK, NEW e \in Host, NEW s \in net, uip_input(e, s)
  PROVE  Writes(e)
<1>1. CASE InSynRcvd(e, s)
  BY <1>1, AppWrites DEF InSynRcvd, Writes
<1>2. CASE InSynSent(e, s)
  BY <1>2, AppWrites DEF InSynSent, Writes
<1>3. CASE InEstablishedFin(e, s)
  BY <1>3 DEF InEstablishedFin, Writes
<1>4. CASE InEstablished(e, s)
  <2> DEFINE events == NewData(s) \cup (IF Acks(conn[e], s) THEN {"ACKDATA"} ELSE {})
  <2>1. PICK c \in AfterAck(conn[e], s) :
       IF events # {}
       THEN /\ AppSend(e, uip_add_rcv_nxt(c, Len(s.data)), events)
            /\ Give(e, s)
            /\ acked' = [acked EXCEPT ![e] = IF Acks(conn[e], s) THEN sent[e] ELSE @]
       ELSE UNCHANGED <<sent, acked, got, closing>>
    BY <1>4 DEF InEstablished
  <2> HIDE DEF events
  <2>2. [acked EXCEPT ![e] = acked[e]] = acked
    BY DEF TypeOK
  <2>3. CASE events # {}
    <3>1. acked' = acked \/ acked' = [acked EXCEPT ![e] = sent[e]]
      BY <2>1, <2>2, <2>3
    <3>2. QED
      BY <2>1, <2>3, <3>1, AppWrites DEF Writes
  <2>4. CASE events = {}
    BY <2>1, <2>4 DEF Writes
  <2>5. QED
    BY <2>3, <2>4
<1>5. CASE NoConnection(e, s) \/ Listen(e, s) \/ InReset(e, s) \/ InUnexpected(e, s)
           \/ InLastAck(e, s) \/ InTimeWait(e, s) \/ InClosing(e, s)
  BY <1>5 DEF NoConnection, Listen, InReset, InUnexpected, InLastAck, InTimeWait,
              InClosing, appVars, Writes
<1>6. CASE InFinWait1(e, s) \/ InFinWait2(e, s)
  BY <1>6 DEF InFinWait1, InFinWait2, Writes
<1>7. QED
  BY <1>1, <1>2, <1>3, <1>4, <1>5, <1>6 DEF uip_input

(* A step is one call for one of the hosts, or touches no history.         *)
LEMMA StepWrites ==
  ASSUME TypeOK, [Next]_vars
  PROVE  \E e \in Host : Writes(e)
<1>1. "client" \in Host
  BY DEF Host
<1>2. CASE UNCHANGED appVars
  BY <1>1, <1>2 DEF appVars, Writes
<1>3. CASE ~UNCHANGED appVars
  <2>1. ~uip_connect /\ ~UNCHANGED vars /\ \A s \in net : ~Lose(s)
    BY <1>3 DEF uip_connect, vars, Lose
  <2>2. (\E e \in Host : uip_periodic(e)) \/ \E e \in Host, s \in net : uip_input(e, s)
    BY <2>1 DEF Next
  <2>3. QED
    BY <2>2, PeriodicWrites, InputWrites
<1>4. QED
  BY <1>2, <1>3

(* Sequences are equal when they agree everywhere.                         *)
LEMMA SeqEqual ==
  ASSUME NEW g \in Seq(Int), NEW h \in Seq(Int), Len(g) = Len(h),
         \A i \in 1 .. Len(h) : g[i] = h[i]
  PROVE  g = h
OBVIOUS

(* Bytes known by their numbers leave no choice in what is appended.       *)
LEMMA Appended ==
  ASSUME NEW g \in Seq(Int), NEW h \in Seq(Int), Len(g) <= Len(h),
         \A i \in 1 .. Len(g) : g[i] = i, \A i \in 1 .. Len(h) : h[i] = i
  PROVE  h = g \o [i \in 1 .. Len(h) - Len(g) |-> Len(g) + i]
<1>1. PICK m : m = Len(h) - Len(g)
  OBVIOUS
<1>2. m \in Nat /\ Len(g) \in Nat /\ Len(h) = Len(g) + m
  BY <1>1
<1>3. PICK t : t = [i \in 1 .. m |-> Len(g) + i]
  OBVIOUS
<1>4. t \in Seq(Int) /\ Len(t) = m /\ \A i \in 1 .. m : t[i] = Len(g) + i
  BY <1>2, <1>3
<1>5. g \o t \in Seq(Int) /\ Len(g \o t) = Len(h)
  BY SMTT(20), <1>2, <1>4
<1>6. ASSUME NEW i \in 1 .. Len(h) PROVE (g \o t)[i] = h[i]
  <2>1. CASE i <= Len(g)
    <3>1. i \in 1 .. Len(g)
      BY <1>2, <2>1
    <3>2. QED
      BY <1>4, <3>1, ConcatAt
  <2>2. CASE i > Len(g)
    <3>1. i \in Len(g) + 1 .. Len(g) + m /\ i - Len(g) \in 1 .. m
      BY <1>2, <2>2
    <3>2. (g \o t)[i] = t[i - Len(g)]
      BY <1>4, <3>1, ConcatAt
    <3>3. t[i - Len(g)] = Len(g) + (i - Len(g))
      BY <1>4, <3>1
    <3>4. Len(g) + (i - Len(g)) = i
      BY <1>2
    <3>5. QED
      BY <3>2, <3>3, <3>4
  <2>3. i <= Len(g) \/ i > Len(g)
    <3>1. \A a, b \in Int : a <= b \/ a > b
      OBVIOUS
    <3>2. QED
      BY <1>2, <3>1
  <2>4. QED
    BY <2>1, <2>2, <2>3
<1>7. g \o t = h
  BY <1>5, <1>6, SeqEqual
<1>8. QED
  BY <1>1, <1>3, <1>7

(* What a step of the connection is to the bytes from snd to rcv: a call   *)
(* for snd leaves what was delivered and may acknowledge and send more, a  *)
(* call for rcv delivers the next of the bytes that were sent.             *)
SenderCall(snd, rcv) ==
  /\ acked'[snd] \in acked[snd] .. sent[snd]
  /\ rcv \in closing \/ acked'[snd] <= Len(got[rcv])
  /\ sent'[snd] \in Nat /\ sent'[snd] >= sent[snd]
  /\ got'[rcv] = got[rcv] /\ (rcv \in closing' <=> rcv \in closing)

ReceiverCall(snd, rcv) ==
  /\ \E n \in Len(got[rcv]) .. sent[snd] :
       got'[rcv] = got[rcv] \o [i \in 1 .. n - Len(got[rcv]) |-> Len(got[rcv]) + i]
  /\ rcv \in closing => rcv \in closing'
  /\ sent'[snd] = sent[snd] /\ acked'[snd] = acked[snd]

LEMMA DirectionStep ==
  ASSUME TypeOK, TypeOK', StreamsGood, StreamsGood', [Next]_vars,
         NEW snd \in Host, NEW rcv \in Host,
         snd # rcv, Peer(snd) = rcv, Peer(rcv) = snd
  PROVE  SenderCall(snd, rcv) \/ ReceiverCall(snd, rcv)
<1>1. PICK e \in Host : Writes(e)
  BY StepWrites
<1>2. /\ snd \in Host /\ rcv \in Host /\ snd # rcv /\ Peer(snd) = rcv /\ Peer(rcv) = snd
      /\ e \in {snd, rcv}
  BY DEF Host, Peer
<1>3. /\ sent[snd] \in Nat /\ sent'[snd] \in Nat /\ acked[snd] \in Nat
      /\ acked'[snd] \in Nat
      /\ got[rcv] \in Seq(Int) /\ got'[rcv] \in Seq(Int)
      /\ Len(got[rcv]) \in Nat /\ Len(got'[rcv]) \in Nat
  BY SMTT(20), <1>2 DEF TypeOK
<1>4. CountsGood(snd) /\ CountsGood(rcv) /\ CountsGood(snd)' /\ CountsGood(rcv)'
  BY <1>2 DEF StreamsGood
<1>5. CASE e = snd
  <2>1. got'[rcv] = got[rcv]
    BY <1>1, <1>2, <1>5 DEF Writes, Give, TypeOK
  <2>2. rcv \in closing' <=> rcv \in closing
    BY <1>1, <1>2, <1>5 DEF Writes
  <2>3. sent'[snd] >= sent[snd]
    BY <1>1, <1>2, <1>3, <1>5 DEF Writes, TypeOK
  <2>4. acked'[snd] \in acked[snd] .. sent[snd]
    <3>1. acked'[snd] \in {acked[snd], sent[snd]}
      BY <1>1, <1>2, <1>5 DEF Writes, TypeOK
    <3>2. acked[snd] <= sent[snd]
      BY <1>4 DEF CountsGood
    <3>3. QED
      BY <1>3, <3>1, <3>2
  <2>5. rcv \in closing \/ acked'[snd] <= Len(got[rcv])
    BY <1>2, <1>4, <2>1, <2>2 DEF CountsGood
  <2>6. QED
    BY <1>3, <2>1, <2>2, <2>3, <2>4, <2>5 DEF SenderCall
<1>6. CASE e = rcv
  <2>1. sent'[snd] = sent[snd] /\ acked'[snd] = acked[snd]
    BY <1>1, <1>2, <1>6 DEF Writes, TypeOK
  <2>2. rcv \in closing => rcv \in closing'
    BY <1>1, <1>6 DEF Writes
  <2>3. Len(got[rcv]) <= Len(got'[rcv])
    <3>1. CASE got' = got
      BY <1>3, <3>1
    <3>2. CASE \E s \in net : Give(rcv, s)
      <4>1. PICK s \in net : Give(rcv, s)
        BY <3>2
      <4>2. got'[rcv] = got[rcv] \o s.data
        BY <1>2, <4>1 DEF Give, TypeOK
      <4>3. s.data \in Seq(Int)
        BY <4>1 DEF TypeOK, Segment
      <4>4. Len(got[rcv] \o s.data) = Len(got[rcv]) + Len(s.data) /\ Len(s.data) \in Nat
        BY <1>3, <4>3, ConcatAt
      <4>5. \A a, b \in Nat : a <= a + b
        OBVIOUS
      <4>6. QED
        BY <1>3, <4>2, <4>4, <4>5
    <3>3. QED
      BY <1>1, <1>6, <3>1, <3>2 DEF Writes
  <2>4. got'[rcv] = got[rcv] \o
          [i \in 1 .. Len(got'[rcv]) - Len(got[rcv]) |-> Len(got[rcv]) + i]
    BY <1>3, <1>4, <2>3, Appended DEF CountsGood
  <2>5. Len(got'[rcv]) \in Len(got[rcv]) .. sent[snd]
    <3>1. Len(got'[rcv]) <= sent'[snd]
      BY <1>2, <1>4 DEF CountsGood
    <3>2. QED
      BY <1>3, <2>1, <2>3, <3>1
  <2>6. \E n \in Len(got[rcv]) .. sent[snd] :
          got'[rcv] = got[rcv] \o [i \in 1 .. n - Len(got[rcv]) |-> Len(got[rcv]) + i]
    <3>1. PICK n : n = Len(got'[rcv])
      OBVIOUS
    <3>2. QED
      BY <2>4, <2>5, <3>1
  <2>7. QED
    BY <2>1, <2>2, <2>6 DEF ReceiverCall
<1>7. QED
  BY <1>2, <1>5, <1>6

(* The bytes of the client, and those of the server.                       *)
LEMMA UpstreamStep ==
  ASSUME TypeOK, TypeOK', StreamsGood, StreamsGood', [Next]_vars
  PROVE  [Upstream!Next]_(Upstream!vars)
<1>1. SenderCall("client", "server") \/ ReceiverCall("client", "server")
  BY DirectionStep DEF Host, Peer
<1>2. CASE SenderCall("client", "server")
  <2>1. Upstream!Sender
    BY <1>2 DEF SenderCall, Upstream!Sender
  <2>2. QED
    BY <2>1 DEF Upstream!Next
<1>3. CASE ReceiverCall("client", "server")
  <2>1. ("server" \in closing') \in BOOLEAN
    OBVIOUS
  <2>2. Upstream!Receiver
    BY <1>3, <2>1 DEF ReceiverCall, Upstream!Receiver
  <2>3. QED
    BY <2>2 DEF Upstream!Next
<1>4. QED
  BY <1>1, <1>2, <1>3

LEMMA DownstreamStep ==
  ASSUME TypeOK, TypeOK', StreamsGood, StreamsGood', [Next]_vars
  PROVE  [Downstream!Next]_(Downstream!vars)
<1>1. SenderCall("server", "client") \/ ReceiverCall("server", "client")
  BY DirectionStep DEF Host, Peer
<1>2. CASE SenderCall("server", "client")
  <2>1. Downstream!Sender
    BY <1>2 DEF SenderCall, Downstream!Sender
  <2>2. QED
    BY <2>1 DEF Downstream!Next
<1>3. CASE ReceiverCall("server", "client")
  <2>1. ("client" \in closing') \in BOOLEAN
    OBVIOUS
  <2>2. Downstream!Receiver
    BY <1>3, <2>1 DEF ReceiverCall, Downstream!Receiver
  <2>3. QED
    BY <2>2 DEF Downstream!Next
<1>4. QED
  BY <1>1, <1>2, <1>3

(* Either direction of the connection implements the abstract stream: with *)
(* every call the bytes delivered grow by the next bytes sent, and what is *)
(* reported acknowledged grows only up to what was sent and delivered.     *)
THEOREM ConnectionIsStream ==
  ASSUME NoReuse PROVE Spec => IsStream
<1>1. uip_init => Upstream!Init /\ Downstream!Init
  BY DEF uip_init, Upstream!Init, Downstream!Init, Host
<1>2. TypeOK /\ TypeOK' /\ StreamsGood /\ StreamsGood' /\ [Next]_vars
        => [Upstream!Next]_(Upstream!vars)
  BY UpstreamStep
<1>3. TypeOK /\ TypeOK' /\ StreamsGood /\ StreamsGood' /\ [Next]_vars
        => [Downstream!Next]_(Downstream!vars)
  BY DownstreamStep
<1>4. Spec => Upstream!Spec
  BY <1>1, <1>2, TypeCorrect, InvariantStreams, PTL DEF Spec, Upstream!Spec
<1>5. Spec => Downstream!Spec
  BY <1>1, <1>3, TypeCorrect, InvariantStreams, PTL DEF Spec, Downstream!Spec
<1>6. QED
  BY <1>4, <1>5, PTL DEF IsStream
=============================================================================
