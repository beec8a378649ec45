------------------------------- MODULE UipTcp -------------------------------
(***************************************************************************)
(* src/uip/uip.c: one TCP connection between two hosts that run uIP, the   *)
(* client that calls uip_connect and the server that listens.  Each host   *)
(* handles one thing at a time: a segment (uip_input) or a tick of its     *)
(* periodic timer (uip_periodic); every label and state of uip_process     *)
(* that such a call can reach is an action.                                *)
(*                                                                         *)
(* The network may hand any segment it holds to its receiver at any time,  *)
(* and keeps it, or lose it: segments are lost, duplicated, delayed and    *)
(* reordered.  A byte of data is its number in its sender's stream.  The   *)
(* PSH flag, the window, the addresses and the checksums are left out.     *)
(* The RTT estimator of l.1449-1462 is replaced by any rto of a given set. *)
(***************************************************************************)
EXTENDS Integers, Sequences, FiniteSets

CONSTANTS
  Iss,          \* the initial sequence number of each host
  SeqSpace,     \* sequence numbers are taken modulo this, 2^32 in the code
  UIP_TCP_MSS,
  UIP_RTO, UIP_MAXRTX, UIP_MAXSYNRTX, UIP_TIME_WAIT_TIMEOUT,
  Rto,          \* the values the RTT estimator may give to rto
  MaxBytes,     \* bound: bytes the application of each host sends
  MaxOffer,     \* bound: bytes it offers in one call
  MaxNet        \* bound: segments the network holds

Host    == {"client", "server"}
Peer(e) == IF e = "client" THEN "server" ELSE "client"
SeqNo   == 0 .. SeqSpace - 1

ASSUME TcpAssumption ==
  /\ SeqSpace \in Nat \ {0}
  /\ Iss \in [Host -> SeqNo]
  /\ UIP_TCP_MSS \in Nat \ {0}
  /\ UIP_RTO \in Nat /\ UIP_MAXRTX \in Nat /\ UIP_MAXSYNRTX \in Nat
  /\ UIP_MAXSYNRTX <= UIP_MAXRTX
  /\ UIP_TIME_WAIT_TIMEOUT \in Nat \ {0}
  /\ Rto \subseteq Nat
  /\ MaxBytes \in [Host -> Nat] /\ MaxOffer \in Nat /\ MaxNet \in Nat

VARIABLES
  conn,      \* the entry of uip_conns, for each host
  net,       \* the segments under way
  opened,    \* history: the host has opened its connection
  sent,      \* history: bytes its application has sent
  acked,     \* history: bytes its application knows to be acknowledged
  got,       \* history: the bytes its application was given
  closing,   \* history: its application closed or aborted the connection
  told       \* history: how its application was told of the end

appVars == <<sent, acked, got, closing, told>>
vars    == <<conn, net, opened, appVars>>

State == {"CLOSED", "SYN_RCVD", "SYN_SENT", "ESTABLISHED", "FIN_WAIT_1",
          "FIN_WAIT_2", "CLOSING", "TIME_WAIT", "LAST_ACK"}
Flag  == {"SYN", "ACK", "FIN", "RST"}

Conn == [state : State, snd_nxt : SeqNo, rcv_nxt : SeqNo, len : Nat,
         nrtx : 0 .. UIP_MAXRTX, timer : Nat, rto : Nat]

Segment == [from : Host, seq : SeqNo, ack : SeqNo, flags : SUBSET Flag,
            data : Seq(Int)]

TypeOK ==
  /\ conn \in [Host -> Conn]
  /\ net \subseteq Segment
  /\ opened \subseteq Host
  /\ sent \in [Host -> Nat] /\ acked \in [Host -> Nat]
  /\ got \in [Host -> Seq(Int)]
  /\ closing \subseteq Host
  /\ told \in [Host -> SUBSET {"closed", "aborted", "timedout"}]

uip_init ==
  /\ conn = [e \in Host |->
       [state |-> "CLOSED", snd_nxt |-> 0, rcv_nxt |-> 0, len |-> 0,
        nrtx |-> 0, timer |-> 0, rto |-> 0]]
  /\ net = {} /\ opened = {}
  /\ sent = [e \in Host |-> 0] /\ acked = [e \in Host |-> 0]
  /\ got = [e \in Host |-> <<>>]
  /\ closing = {} /\ told = [e \in Host |-> {}]

-----------------------------------------------------------------------------
uip_add32(a, n) == (a + n) % SeqSpace

uip_outstanding(c) == c.len > 0

(* tcp_send: every segment of a connection carries its two numbers.        *)
Seg(e, c, flags, data) ==
  [from |-> e, seq |-> c.snd_nxt, ack |-> c.rcv_nxt,
   flags |-> flags, data |-> data]

(* reset: the numbers of the offending segment swapped, its seqno + 1; no  *)
(* reset answers a reset.                                                  *)
Reset(e, s) ==
  IF "RST" \in s.flags THEN {}
  ELSE {[from |-> e, seq |-> s.ack, ack |-> uip_add32(s.seq, 1),
         flags |-> {"RST", "ACK"}, data |-> <<>>]}

(* A full network loses what is sent.                                      *)
Send(segments) ==
  net' = IF Cardinality(net \cup segments) <= MaxNet THEN net \cup segments ELSE net
Become(e, c)   == conn' = [conn EXCEPT ![e] = c]
Tell(e, event) == told' = [told EXCEPT ![e] = @ \cup {event}]
Drop           == UNCHANGED net

Outstanding(e, c) == [i \in 1 .. c.len |-> sent[e] - c.len + i]

Lesser(a, b) == IF a < b THEN a ELSE b

-----------------------------------------------------------------------------
(* appsend: what the application made of its call.  c is the connection    *)
(* the call was made for, event the flags it was called with.              *)
AppAborts(e, c) ==
  /\ Become(e, [c EXCEPT !.state = "CLOSED"])
  /\ Send({Seg(e, c, {"RST", "ACK"}, <<>>)})
  /\ closing' = closing \cup {e}
  /\ UNCHANGED sent

(* Faulty: an application closes with data outstanding.                    *)
AppCloses_early(e, c) ==
  /\ Become(e, [c EXCEPT !.len = 1, !.state = "FIN_WAIT_1", !.nrtx = 0])
  /\ Send({Seg(e, c, {"FIN", "ACK"}, <<>>)})
  /\ closing' = closing \cup {e}
  /\ UNCHANGED sent

(* Applications close only when nothing they sent is outstanding: psock    *)
(* blocks in PSOCK_SEND until its data is acknowledged.                    *)
AppCloses(e, c) ==
  /\ ~uip_outstanding(c)
  /\ Become(e, [c EXCEPT !.len = 1, !.state = "FIN_WAIT_1", !.nrtx = 0])
  /\ Send({Seg(e, c, {"FIN", "ACK"}, <<>>)})
  /\ closing' = closing \cup {e}
  /\ UNCHANGED sent

(* Faulty: new data goes out beside outstanding data.                      *)
AppSendsNew_always(e, c) ==
  /\ \E offer \in 1 .. MaxOffer :
       LET n == Lesser(offer, UIP_TCP_MSS)
       IN  /\ sent[e] + n <= MaxBytes[e]
           /\ Become(e, [c EXCEPT !.len = n, !.nrtx = 0])
           /\ Send({Seg(e, c, {"ACK"}, [i \in 1 .. n |-> sent[e] + i])})
           /\ sent' = [sent EXCEPT ![e] = @ + n]
  /\ UNCHANGED closing

AppSendsNew(e, c) ==
  /\ ~uip_outstanding(c)
  /\ \E offer \in 1 .. MaxOffer :
       LET n == Lesser(offer, UIP_TCP_MSS)
       IN  /\ sent[e] + n <= MaxBytes[e]
           /\ Become(e, [c EXCEPT !.len = n, !.nrtx = 0])
           /\ Send({Seg(e, c, {"ACK"}, [i \in 1 .. n |-> sent[e] + i])})
           /\ sent' = [sent EXCEPT ![e] = @ + n]
  /\ UNCHANGED closing

(* With data outstanding an application that sends, sends that again.      *)
AppSendsAgain(e, c) ==
  /\ uip_outstanding(c)
  /\ Become(e, [c EXCEPT !.nrtx = 0])
  /\ Send({Seg(e, c, {"ACK"}, Outstanding(e, c))})
  /\ UNCHANGED <<sent, closing>>

AppSendsNothing(e, c, events) ==
  /\ Become(e, [c EXCEPT !.nrtx = 0])
  /\ IF "NEWDATA" \in events THEN Send({Seg(e, c, {"ACK"}, <<>>)}) ELSE Drop
  /\ UNCHANGED <<sent, closing>>

AppSend(e, c, events) ==
  \/ AppAborts(e, c)
  \/ AppCloses(e, c)
  \/ AppSendsNew(e, c)
  \/ AppSendsAgain(e, c)
  \/ AppSendsNothing(e, c, events)

-----------------------------------------------------------------------------
(* uip_connect: the SYN itself is left to the periodic timer.              *)
uip_connect ==
  /\ "client" \notin opened
  /\ opened' = opened \cup {"client"}
  /\ conn' = [conn EXCEPT !["client"] =
       [@ EXCEPT !.state = "SYN_SENT", !.snd_nxt = Iss["client"], !.len = 1,
                 !.nrtx = 0, !.timer = 1, !.rto = UIP_RTO]]
  /\ UNCHANGED <<net, appVars>>

(* uip_periodic.  Waiting for the connection to time out:                  *)
(* Faulty: FIN_WAIT_2 is forgotten.                                        *)
TimerWait_timeWaitOnly(e) ==
  LET c == conn[e]
      t == c.timer + 1
  IN /\ c.state = "TIME_WAIT"
     /\ Become(e, [c EXCEPT !.timer = t,
          !.state = IF t = UIP_TIME_WAIT_TIMEOUT THEN "CLOSED" ELSE @])
     /\ UNCHANGED <<net, opened, appVars>>

TimerWait(e) ==
  LET c == conn[e]
      t == (c.timer + 1) % 256
  IN /\ c.state \in {"TIME_WAIT", "FIN_WAIT_2"}
     /\ Become(e, [c EXCEPT !.timer = t,
          !.state = IF t = UIP_TIME_WAIT_TIMEOUT THEN "CLOSED" ELSE @])
     /\ UNCHANGED <<net, opened, appVars>>

Retransmits(e) ==
  /\ conn[e].state \notin {"CLOSED", "TIME_WAIT", "FIN_WAIT_2"}
  /\ uip_outstanding(conn[e])

TimerCount(e) ==
  /\ Retransmits(e)
  /\ conn[e].timer > 0
  /\ Become(e, [conn[e] EXCEPT !.timer = @ - 1])
  /\ UNCHANGED <<net, opened, appVars>>

(* Faulty: one retransmission too many.                                    *)
Exhausted_late(c) ==
  \/ c.nrtx > UIP_MAXRTX
  \/ c.state \in {"SYN_SENT", "SYN_RCVD"} /\ c.nrtx = UIP_MAXSYNRTX

Exhausted(c) ==
  \/ c.nrtx = UIP_MAXRTX
  \/ c.state \in {"SYN_SENT", "SYN_RCVD"} /\ c.nrtx = UIP_MAXSYNRTX

TimerGiveUp(e) ==
  /\ Retransmits(e)
  /\ conn[e].timer = 0 /\ Exhausted(conn[e])
  /\ Become(e, [conn[e] EXCEPT !.state = "CLOSED", !.timer = 255])
  /\ Tell(e, "timedout")
  /\ Send({Seg(e, conn[e], {"RST", "ACK"}, <<>>)})
  /\ UNCHANGED <<opened, sent, acked, got, closing>>

(* UIP_RTO << (nrtx > 4 ? 4 : nrtx)                                        *)
Shifted(nrtx) == UIP_RTO * <<1, 2, 4, 8, 16>>[Lesser(nrtx, 4) + 1]

(* Faulty: the retransmissions are not counted.                            *)
Backoff_uncounted(c) == [c EXCEPT !.timer = Shifted(c.nrtx)]

Backoff(c) == [c EXCEPT !.timer = Shifted(c.nrtx), !.nrtx = @ + 1]

Again(e, c) ==
  CASE c.state = "SYN_RCVD"    -> Seg(e, c, {"SYN", "ACK"}, <<>>)
    [] c.state = "SYN_SENT"    -> Seg(e, c, {"SYN"}, <<>>)
    [] c.state = "ESTABLISHED" -> Seg(e, c, {"ACK"}, Outstanding(e, c))
    [] OTHER                   -> Seg(e, c, {"FIN", "ACK"}, <<>>)

TimerRexmit(e) ==
  /\ Retransmits(e)
  /\ conn[e].timer = 0 /\ ~Exhausted(conn[e])
  /\ Become(e, Backoff(conn[e]))
  /\ Send({Again(e, conn[e])})
  /\ UNCHANGED <<opened, appVars>>

TimerPoll(e) ==
  /\ conn[e].state = "ESTABLISHED" /\ ~uip_outstanding(conn[e])
  /\ AppSend(e, conn[e], {"POLL"})
  /\ UNCHANGED <<opened, acked, got, told>>

uip_periodic(e) ==
  TimerWait(e) \/ TimerCount(e) \/ TimerGiveUp(e) \/ TimerRexmit(e) \/ TimerPoll(e)

-----------------------------------------------------------------------------
(* uip_input.  A segment that belongs to no connection:                    *)
Arrives(e, s) == s \in net /\ s.from = Peer(e)

NoConnection(e, s) ==
  /\ conn[e].state = "CLOSED"
  /\ s.flags = {"SYN"} => e # "server"     \* the server listens
  /\ Send(Reset(e, s))
  /\ UNCHANGED <<conn, opened, appVars>>

(* found_listen.  Bound: the server accepts one connection.                *)
Listen(e, s) ==
  /\ conn[e].state = "CLOSED" /\ s.flags = {"SYN"}
  /\ e = "server" /\ e \notin opened
  /\ opened' = opened \cup {e}
  /\ LET c == [state |-> "SYN_RCVD", snd_nxt |-> Iss[e],
               rcv_nxt |-> uip_add32(s.seq, 1), len |-> 1, nrtx |-> 0,
               timer |-> UIP_RTO, rto |-> UIP_RTO]
     IN  Become(e, c) /\ Send({Seg(e, c, {"SYN", "ACK"}, <<>>)})
  /\ UNCHANGED appVars

(* found.  Any reset is believed.                                          *)
InReset(e, s) ==
  /\ conn[e].state # "CLOSED" /\ "RST" \in s.flags
  /\ Become(e, [conn[e] EXCEPT !.state = "CLOSED"])
  /\ Tell(e, "aborted")
  /\ UNCHANGED <<net, opened, sent, acked, got, closing>>

(* Faulty: duplicates of data are taken for new data.                      *)
Expected_noData(c, s) ==
  \/ c.state = "SYN_SENT" /\ s.flags = {"SYN", "ACK"}
  \/ {"SYN", "FIN"} \cap s.flags = {}
  \/ s.seq = c.rcv_nxt
(* Segments that take up sequence numbers must be the next ones.           *)
Expected(c, s) ==
  \/ c.state = "SYN_SENT" /\ s.flags = {"SYN", "ACK"}
  \/ s.data = <<>> /\ {"SYN", "FIN"} \cap s.flags = {}
  \/ s.seq = c.rcv_nxt

InUnexpected(e, s) ==
  /\ conn[e].state # "CLOSED" /\ "RST" \notin s.flags
  /\ ~Expected(conn[e], s)
  /\ Send({Seg(e, conn[e], {"ACK"}, <<>>)})
  /\ UNCHANGED <<conn, opened, appVars>>

Accepts(e, s, state) ==
  /\ conn[e].state = state
  /\ "RST" \notin s.flags
  /\ Expected(conn[e], s)

(* Faulty: any acknowledgement will do.                                    *)
Acks_any(c, s) == "ACK" \in s.flags /\ uip_outstanding(c)

(* The acknowledgement of all that is outstanding, UIP_ACKDATA.            *)
Acks(c, s) ==
  /\ "ACK" \in s.flags /\ uip_outstanding(c)
  /\ s.ack = uip_add32(c.snd_nxt, c.len)

(* What it makes of the connection; an estimate is made only if nrtx is 0. *)
Acked(c, rto) ==
  [c EXCEPT !.snd_nxt = uip_add32(c.snd_nxt, c.len), !.rto = rto,
            !.timer = rto, !.len = 0]

(* The connection once the acknowledgement has been looked at, l.1434-1472.*)
AfterAck(c, s) ==
  IF ~Acks(c, s) THEN {c}
  ELSE {Acked(c, rto) : rto \in IF c.nrtx = 0 THEN Rto ELSE {c.rto}}

uip_add_rcv_nxt(c, n) == [c EXCEPT !.rcv_nxt = uip_add32(@, n)]

Give(e, s) == got' = [got EXCEPT ![e] = @ \o s.data]

NewData(s) == IF s.data # <<>> THEN {"NEWDATA"} ELSE {}

InSynRcvd(e, s) ==
  /\ Accepts(e, s, "SYN_RCVD")
  /\ \E c \in AfterAck(conn[e], s) :
       IF Acks(conn[e], s)
       THEN /\ AppSend(e, uip_add_rcv_nxt([c EXCEPT !.state = "ESTABLISHED"], Len(s.data)),
                       {"CONNECTED"} \cup NewData(s))
            /\ Give(e, s)
       ELSE Become(e, c) /\ Drop /\ UNCHANGED <<sent, got, closing>>
  /\ UNCHANGED <<opened, acked, told>>

Synchronizes(c, s) == Acks(c, s) /\ s.flags = {"SYN", "ACK"}

InSynSent(e, s) ==
  /\ Accepts(e, s, "SYN_SENT")
  /\ \E c \in AfterAck(conn[e], s) :
       IF Synchronizes(conn[e], s)
       THEN /\ AppSend(e, [c EXCEPT !.state = "ESTABLISHED",
                                    !.rcv_nxt = uip_add32(s.seq, 1)],
                       {"CONNECTED", "NEWDATA"})
            /\ UNCHANGED told
       ELSE /\ Become(e, [c EXCEPT !.state = "CLOSED"])
            /\ Tell(e, "aborted")
            /\ Send(Reset(e, s))
            /\ UNCHANGED <<sent, closing>>
  /\ UNCHANGED <<opened, acked, got>>

(* A FIN is dropped as long as data of ours is outstanding.                *)
InEstablishedFin(e, s) ==
  /\ Accepts(e, s, "ESTABLISHED") /\ "FIN" \in s.flags
  /\ \E c \in AfterAck(conn[e], s) :
       IF uip_outstanding(c)
       THEN Become(e, c) /\ Drop /\ UNCHANGED <<got, told, acked>>
       ELSE LET f == [uip_add_rcv_nxt(c, 1 + Len(s.data)) EXCEPT
                        !.len = 1, !.state = "LAST_ACK", !.nrtx = 0]
            IN  /\ Become(e, f)
                /\ Send({Seg(e, f, {"FIN", "ACK"}, <<>>)})
                /\ Give(e, s)
                /\ Tell(e, "closed")
                /\ acked' = [acked EXCEPT ![e] = sent[e]]
  /\ UNCHANGED <<opened, sent, closing>>

InEstablished(e, s) ==
  /\ Accepts(e, s, "ESTABLISHED") /\ "FIN" \notin s.flags
  /\ \E c \in AfterAck(conn[e], s) :
       LET events == NewData(s) \cup (IF Acks(conn[e], s) THEN {"ACKDATA"} ELSE {})
       IN  IF events # {}
           THEN /\ AppSend(e, uip_add_rcv_nxt(c, Len(s.data)), events)
                /\ Give(e, s)
                /\ acked' = [acked EXCEPT ![e] =
                     IF Acks(conn[e], s) THEN sent[e] ELSE @]
           ELSE Become(e, c) /\ Drop /\ UNCHANGED <<sent, acked, got, closing>>
  /\ UNCHANGED <<opened, told>>

InLastAck(e, s) ==
  /\ Accepts(e, s, "LAST_ACK")
  /\ \E c \in AfterAck(conn[e], s) :
       IF Acks(conn[e], s)
       THEN Become(e, [c EXCEPT !.state = "CLOSED"]) /\ Tell(e, "closed")
       ELSE Become(e, c) /\ UNCHANGED told
  /\ UNCHANGED <<net, opened, sent, acked, got, closing>>

(* Data that comes after the application has closed is acknowledged and    *)
(* thrown away.                                                            *)
InFinWait1(e, s) ==
  /\ Accepts(e, s, "FIN_WAIT_1")
  /\ \E c \in AfterAck(conn[e], s) :
       LET d == uip_add_rcv_nxt(c, Len(s.data))
           f == uip_add_rcv_nxt(d, 1)
           a == Acks(conn[e], s)
           next == CASE "FIN" \in s.flags /\ a  -> [f EXCEPT !.state = "TIME_WAIT", !.timer = 0]
                     [] "FIN" \in s.flags /\ ~a -> [f EXCEPT !.state = "CLOSING"]
                     [] "FIN" \notin s.flags /\ a -> [d EXCEPT !.state = "FIN_WAIT_2"]
                     [] OTHER -> d
       IN  /\ Become(e, next)
           /\ IF "FIN" \in s.flags \/ (~a /\ s.data # <<>>)
              THEN Send({Seg(e, next, {"ACK"}, <<>>)}) ELSE Drop
  /\ IF "FIN" \in s.flags THEN Tell(e, "closed") ELSE UNCHANGED told
  /\ UNCHANGED <<opened, sent, acked, got, closing>>

InFinWait2(e, s) ==
  /\ Accepts(e, s, "FIN_WAIT_2")
  /\ LET d == uip_add_rcv_nxt(conn[e], Len(s.data))
         next == IF "FIN" \in s.flags
                 THEN [uip_add_rcv_nxt(d, 1) EXCEPT !.state = "TIME_WAIT", !.timer = 0]
                 ELSE d
     IN  /\ Become(e, next)
         /\ IF "FIN" \in s.flags \/ s.data # <<>>
            THEN Send({Seg(e, next, {"ACK"}, <<>>)}) ELSE Drop
  /\ IF "FIN" \in s.flags THEN Tell(e, "closed") ELSE UNCHANGED told
  /\ UNCHANGED <<opened, sent, acked, got, closing>>

InTimeWait(e, s) ==
  /\ Accepts(e, s, "TIME_WAIT")
  /\ \E c \in AfterAck(conn[e], s) :
       Become(e, c) /\ Send({Seg(e, c, {"ACK"}, <<>>)})
  /\ UNCHANGED <<opened, appVars>>

InClosing(e, s) ==
  /\ Accepts(e, s, "CLOSING")
  /\ \E c \in AfterAck(conn[e], s) :
       Become(e, IF Acks(conn[e], s)
                 THEN [c EXCEPT !.state = "TIME_WAIT", !.timer = 0] ELSE c)
  /\ UNCHANGED <<net, opened, appVars>>

uip_input(e, s) ==
  /\ Arrives(e, s)
  /\ \/ NoConnection(e, s) \/ Listen(e, s)
     \/ InReset(e, s) \/ InUnexpected(e, s)
     \/ InSynRcvd(e, s) \/ InSynSent(e, s)
     \/ InEstablishedFin(e, s) \/ InEstablished(e, s)
     \/ InLastAck(e, s) \/ InFinWait1(e, s) \/ InFinWait2(e, s)
     \/ InTimeWait(e, s) \/ InClosing(e, s)

Lose(s) ==
  /\ net' = net \ {s}
  /\ UNCHANGED <<conn, opened, appVars>>

Next == \/ uip_connect
        \/ \E s \in net : Lose(s)
        \/ \E e \in Host : uip_periodic(e)
        \/ \E e \in Host : \E s \in net : uip_input(e, s)

Spec     == uip_init /\ [][Next]_vars
(* network_poll runs for ever and reaches each connection's timer as long  *)
(* as segments leave it time; nothing is assumed of the network.           *)
FairSpec == Spec /\ \A e \in Host : WF_vars(uip_periodic(e))
-----------------------------------------------------------------------------
(* The application is given the bytes its peer sent, once each and in      *)
(* order, whatever the network does with the segments that carried them    *)
(* and with their retransmissions.                                         *)
DeliveredInOrder ==
  \A e \in Host : /\ Len(got[e]) <= sent[Peer(e)]
                  /\ \A i \in 1 .. Len(got[e]) : got[e][i] = i

(* Bytes reported as acknowledged (UIP_ACKDATA, l.1464) have been given to *)
(* the peer's application, unless that one has closed.                     *)
AckedMeansDelivered ==
  \A e \in Host : Peer(e) \in closing \/ acked[e] <= Len(got[Peer(e)])

(* A host that answers a FIN with its own has given its application all    *)
(* that the peer sent before: no FIN overtakes data.                       *)
FinAfterData ==
  \A e \in Host : conn[e].state = "LAST_ACK" => Len(got[e]) = sent[Peer(e)]

(* Either direction of a connection implements the abstract stream.        *)
Upstream == INSTANCE Stream WITH
  sent <- sent["client"], acked <- acked["client"], got <- got["server"],
  closed <- "server" \in closing
Downstream == INSTANCE Stream WITH
  sent <- sent["server"], acked <- acked["server"], got <- got["client"],
  closed <- "client" \in closing
IsStream == Upstream!Spec /\ Downstream!Spec

(* What is outstanding is acknowledged in the end, or the connection is    *)
(* given up.  Only new data of the peer puts that off, as the call of the  *)
(* application that it makes sets nrtx back (l.1710): a peer that is heard *)
(* and does not hear us, and never stops sending, keeps it outstanding.    *)
Resolves ==
  \A e \in Host : \A n \in 0 .. MaxBytes[Peer(e)] :
    uip_outstanding(conn[e]) /\ Len(got[e]) = n
      ~> \/ ~uip_outstanding(conn[e])
         \/ conn[e].state = "CLOSED"
         \/ Len(got[e]) > n

(* A connection that either side has begun to close is closed in the end:  *)
(* no state of the teardown waits for a segment for ever.                  *)
Terminates ==
  \A e \in Host :
    conn[e].state \in {"FIN_WAIT_1", "FIN_WAIT_2", "CLOSING", "TIME_WAIT", "LAST_ACK"}
      ~> conn[e].state = "CLOSED"

(* uipopt.h l.291: a connection request is deemed unsuccessful after       *)
(* UIP_MAXSYNRTX retransmissions of its SYN (or when the peer resets it).  *)
RequestPersists ==
  [][conn["client"].state = "SYN_SENT" /\ conn'["client"].state = "CLOSED"
       => \/ conn["client"].nrtx = UIP_MAXSYNRTX
          \/ \E s \in net : s.from = "server" /\ "RST" \in s.flags]_vars
=============================================================================
