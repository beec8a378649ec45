------------------------------ MODULE IrcProofs ------------------------------
(* What is proved of IrcApp for every length of message, every sequence of *)
(* segment sizes and every stream of the server.                           *)
EXTENDS IrcApp, Integers, SequenceTheorems, FiniteSetTheorems,
        WellFoundedInduction, TLAPS

-----------------------------------------------------------------------------
(* What the proof follows: the types of the variables the sends depend on. *)

(* What a transmission is made of.                                         *)
Source == Text \cup Sends
            \cup {"empty", "shown", "pong", "quit", "behind"}
Chunk == Source \X Nat

Types ==
  /\ conn \in {"syn", "up", "down"} /\ mss \in Mss /\ len \in Nat
  /\ pc \in {"idle", "irc", "out", "return"}
  /\ flags \subseteq {"connected", "newdata", "acked", "rexmit", "poll"}
  /\ at \in [Thread -> Sends \cup {"read1", "read2", "loop"}]
  /\ at["irc"] \notin {"message", "crlf"} /\ at["out"] \in {"message", "crlf"}
  /\ psock \in [Thread -> [busy : BOOLEAN, state : State,
                           sendptr : Nat, sendlen : Nat]]
  /\ messagebuffer \in Source /\ messagelength \in {0, Size}
  /\ sdata \in Seq(Chunk) /\ wire \subseteq Seq(Chunk)
  /\ got \in BOOLEAN /\ rcvd \in Seq(Chunk)

(* A history: its fields, and the types of those the theorems are about.   *)
HistOK(h) ==
  /\ h = [from |-> h.from, alone |-> h.alone, sent |-> h.sent,
          pure |-> h.pure, parsed |-> h.parsed, begin |-> h.begin,
          stale |-> h.stale]
  /\ h.from \in [Thread -> Nat] /\ h.alone \in [Thread -> BOOLEAN]
  /\ h.sent \in Seq(Chunk) /\ h.pure \in BOOLEAN

(* What uIP and the order of the two threads in a call guarantee.          *)
Control ==
  /\ len = 0 => wire = {} /\ ~got
  /\ pc = "idle" => flags = {} /\ sdata = <<>>
  /\ "acked" \in flags => len = 0
  /\ "rexmit" \in flags => len > 0
  /\ pc = "out" \/ Sending("out") => messagelength > 0
  /\ conn = "syn" => /\ pc = "idle" /\ len = 0
                     /\ \A t \in Thread : ~psock[t].busy

-----------------------------------------------------------------------------
(* A send that nothing disturbed.                                          *)

(* The whole text, which one segment takes.                                *)
Whole(t) == Pieces(TextAt(t), 0, psock[t].sendlen)

(* t still runs in this call; t has run in it.                             *)
Ahead(t) == pc = "irc" \/ pc = t
Past(t)  == pc = "return" \/ (pc = "out" /\ t = "irc")

(* Nothing of the text has reached the server; all of it has, at its place.*)
Missing(t) ==
  /\ Len(rcvd) = hist.from[t]
  /\ hist.pure => hist.sent = rcvd \o Whole(t)

Received(t) ==
  /\ Len(rcvd) = hist.from[t] + psock[t].sendlen
  /\ SubSeq(rcvd, hist.from[t] + 1, hist.from[t] + psock[t].sendlen) = Whole(t)
  /\ hist.pure => hist.sent = rcvd

(* The stages of the send: called, handed to uIP, outstanding, and          *)
(* acknowledged, which the thread learns later in the same call.           *)
Called(t) ==
  /\ psock[t].state = "NONE" /\ pc = t
  /\ len = 0 /\ sdata = <<>> /\ Missing(t)

HandedOver(t) ==
  /\ psock[t].state = "DATA_SENT" /\ Past(t)
  /\ len = 0 /\ sdata = Whole(t) /\ Missing(t)

UnderWay(t) ==
  /\ psock[t].state = "DATA_SENT"
  /\ len = psock[t].sendlen /\ wire = {Whole(t)} /\ sdata \in {<<>>, Whole(t)}
  /\ got => Received(t)
  /\ ~got => Missing(t)

Acknowledged(t) ==
  /\ psock[t].state = "DATA_SENT" /\ Ahead(t) /\ "acked" \in flags
  /\ len = 0 /\ sdata = <<>> /\ Received(t)

Single(t) ==
  /\ Sending(t) /\ ~Sending(Other(t))
  /\ psock[t].sendptr = 0 /\ psock[t].sendlen \in 1..mss

Alone(t) ==
  hist.alone[t] =>
    /\ Single(t)
    /\ Called(t) \/ HandedOver(t) \/ UnderWay(t) \/ Acknowledged(t)

(* While no send was disturbed, whoever sends is alone, and between two    *)
(* sends the server has everything and nothing is outstanding.             *)
Pure ==
  hist.pure =>
    /\ \A t \in Thread : Sending(t) => hist.alone[t]
    /\ (\A t \in Thread : ~Sending(t)) =>
         rcvd = hist.sent /\ len = 0 /\ sdata = <<>>

IrcInv == /\ Types /\ HistOK(hist) /\ Control
          /\ \A t \in Thread : Alone(t)
          /\ Pure

-----------------------------------------------------------------------------
(* What two histories tell of the parsed lines.                            *)
SameParsed(g, h) ==
  g.parsed = h.parsed /\ g.begin = h.begin /\ (g.stale <=> h.stale)

(* A text is a sequence of as many pieces as asked for.                    *)
LEMMA PiecesSeq ==
  ASSUME NEW text \in Source, NEW from \in Nat, NEW n \in Nat
  PROVE  /\ Pieces(text, from, n) \in Seq(Chunk)
         /\ Len(Pieces(text, from, n)) = n
  BY DEF Pieces, Chunk

(* What a thread sends has such a name.                                    *)
LEMMA TextIsSource ==
  ASSUME Types, NEW t \in Thread, at[t] \in Sends
  PROVE  TextAt(t) \in Source
  BY DEF Types, TextAt, Source, Sends

(* How much it sends.                                                      *)
LEMMA SendLenNat == ASSUME Types, NEW t PROVE SendLen(t) \in Nat
  BY SizesAreNat DEF Types, SendLen

LEMMA HandedSeq ==
  ASSUME Types, NEW t \in Thread, at[t] \in Sends,
         NEW ptr \in Nat, NEW left \in Nat
  PROVE  Handed(t, ptr, left) \in Seq(Chunk)
  <1>1. mss \in Nat  BY SizesAreNat DEF Types
  <1>2. Least(left, mss) \in Nat  BY <1>1 DEF Least
  <1> QED  BY <1>2, TextIsSource, PiecesSeq DEF Handed

(* A transmission of the outstanding length, whatever was handed over.     *)
LEMMA ResizedSeq ==
  ASSUME Types, NEW n \in Nat
  PROVE  Resized(n) \in Seq(Chunk)
  <1>1. Behind \in Chunk  BY DEF Behind, Chunk, Source
  <1>2. sdata \in Seq(Chunk)  BY DEF Types
  <1>3. \A i \in 1..n : (IF i <= Len(sdata) THEN sdata[i] ELSE Behind) \in Chunk
    <2>1. SUFFICES ASSUME NEW i \in 1..n, i <= Len(sdata) PROVE sdata[i] \in Chunk
      BY <1>1
    <2>2. i \in 1..Len(sdata)  BY <1>2, <2>1
    <2> QED  BY <2>2, <1>2
  <1>4. Resized(n) = [i \in 1..n |-> IF i <= Len(sdata) THEN sdata[i] ELSE Behind]
    BY DEF Resized
  <1> QED  BY <1>3, <1>4

(* What Disturb changes in a history.                                      *)
LEMMA DisturbHist ==
  ASSUME NEW h, HistOK(h), NEW ts
  PROVE  /\ HistOK(Disturb(h, ts))
         /\ Disturb(h, ts).from = h.from
         /\ \A t \in Thread : Disturb(h, ts).alone[t] <=> h.alone[t] /\ t \notin ts
         /\ Disturb(h, ts).pure <=> h.pure /\ \A t \in ts : ~Sending(t)
         /\ Disturb(h, ts).pure => Disturb(h, ts).sent = h.sent
         /\ SameParsed(Disturb(h, ts), h)
  <1> DEFINE pure  == h.pure /\ \A t \in ts : ~Sending(t)
             alone == [t \in Thread |-> h.alone[t] /\ t \notin ts]
             sent  == IF pure THEN h.sent ELSE <<>>
  <1>1. Disturb(h, ts) =
          [from |-> h.from, alone |-> alone, sent |-> sent, pure |-> pure,
           parsed |-> h.parsed, begin |-> h.begin, stale |-> h.stale]
    <2>1. ASSUME NEW a, NEW p, NEW s,
                 NEW r, r = [h EXCEPT !.alone = a, !.pure = p, !.sent = s]
          PROVE  r = [from |-> h.from, alone |-> a, sent |-> s, pure |-> p,
                      parsed |-> h.parsed, begin |-> h.begin,
                      stale |-> h.stale]
      BY <2>1 DEF HistOK
    <2>2. Disturb(h, ts) = [h EXCEPT !.alone = alone, !.pure = pure, !.sent = sent]
      BY DEF Disturb
    <2> HIDE DEF pure, alone, sent
    <2> QED  BY <2>1, <2>2
  <1>2. pure \in BOOLEAN  OBVIOUS
  <1>3. alone \in [Thread -> BOOLEAN]  OBVIOUS
  <1>4. sent \in Seq(Chunk)  BY DEF HistOK
  <1>5. pure => sent = h.sent  OBVIOUS
  <1>6. \A t \in Thread : alone[t] <=> h.alone[t] /\ t \notin ts  OBVIOUS
  <1>7. h.from \in [Thread -> Nat]  BY DEF HistOK
  <1>8. pure <=> h.pure /\ \A t \in ts : ~Sending(t)  OBVIOUS
  <1> HIDE DEF pure, alone, sent
  <1> QED  BY <1>1, <1>2, <1>3, <1>4, <1>5, <1>6, <1>7, <1>8 DEF HistOK, SameParsed

(* SetStale touches only what is remembered of the parsed lines.           *)
LEMMA SetStaleHist ==
  ASSUME NEW h, HistOK(h)
  PROVE  /\ HistOK(SetStale(h))
         /\ SetStale(h).from = h.from /\ SetStale(h).alone = h.alone
         /\ SetStale(h).pure = h.pure /\ SetStale(h).sent = h.sent
         /\ SetStale(h).stale <=> h.stale \/ unread # <<>>
         /\ ~SetStale(h).stale => SameParsed(SetStale(h), h)
  <1> DEFINE stale == h.stale \/ unread # <<>>
             begin == IF stale THEN 0 ELSE h.begin
             parsed == IF stale THEN <<>> ELSE h.parsed
  <1>1. SetStale(h) =
          [h EXCEPT !.stale = stale, !.begin = begin, !.parsed = parsed]
    BY DEF SetStale
  <1>2. /\ stale <=> h.stale \/ unread # <<>>
        /\ ~stale => begin = h.begin /\ parsed = h.parsed /\ ~h.stale
    BY DEF HistOK
  <1> HIDE DEF stale, begin, parsed
  <1>3. SetStale(h) = [from |-> h.from, alone |-> h.alone, sent |-> h.sent,
                       pure |-> h.pure, parsed |-> parsed, begin |-> begin,
                       stale |-> stale]
    BY <1>1 DEF HistOK
  <1> QED  BY <1>2, <1>3 DEF HistOK, SameParsed


(* What the steps that write to the history leave there.                   *)
IsAlone(t) == /\ ~Sending(Other(t)) /\ len = 0 /\ sdata = <<>>
              /\ SendLen(t) <= mss

LEMMA BeginHist ==
  ASSUME Types, HistOK(hist), NEW t \in Thread, SendBegin(t)
  PROVE  /\ HistOK(hist')
         /\ hist'.from = [hist.from EXCEPT ![t] = Len(rcvd)]
         /\ hist'.alone[t] <=> IsAlone(t)
         /\ ~hist'.alone[Other(t)]
         /\ hist'.pure <=> hist.pure /\ IsAlone(t)
         /\ hist'.pure =>
              hist'.sent = hist.sent \o Pieces(TextAt(t), 0, SendLen(t))
         /\ SameParsed(hist', hist)
  <1> DEFINE others == Disturb(hist, {Other(t)})
             alone  == IsAlone(t)
             pure   == others.pure /\ alone
             text   == Pieces(TextAt(t), 0, SendLen(t))
             sent   == IF pure THEN others.sent \o text ELSE <<>>
             from   == Len(rcvd)
  <1>1. /\ HistOK(others) /\ others.from = hist.from
        /\ \A u \in Thread :
             others.alone[u] <=> hist.alone[u] /\ u \notin {Other(t)}
        /\ others.pure <=> hist.pure /\ \A u \in {Other(t)} : ~Sending(u)
        /\ others.pure => others.sent = hist.sent
        /\ SameParsed(others, hist)
    BY DisturbHist
  <1>2. hist' = [others EXCEPT !.from[t] = from, !.alone[t] = alone,
                               !.pure = pure, !.sent = sent]
    BY DEF SendBegin, IsAlone
  <1>3. /\ Other(t) \in Thread /\ Other(t) # t
    BY DEF Thread, Other
  <1>4. text \in Seq(Chunk)
    BY TextIsSource, SendLenNat, PiecesSeq DEF SendBegin
  <1>5. /\ from \in Nat /\ alone \in BOOLEAN /\ pure \in BOOLEAN
    BY DEF Types, IsAlone
  <1>6. sent \in Seq(Chunk) /\ (pure => sent = hist.sent \o text)
    <2>1. others.sent \in Seq(Chunk) /\ (pure => others.sent = hist.sent)
      BY <1>1 DEF HistOK
    <2>2. sent = IF pure THEN others.sent \o text ELSE <<>>  OBVIOUS
    <2> HIDE DEF others, alone, pure, text, sent
    <2>3. others.sent \o text \in Seq(Chunk)  BY <2>1, <1>4
    <2>4. CASE pure   BY <2>1, <2>2, <2>3, <2>4
    <2>5. CASE ~pure  BY <2>2, <2>5
    <2> QED  BY <2>4, <2>5
  <1>7. pure <=> hist.pure /\ alone
    BY <1>1 DEF IsAlone
  <1> HIDE DEF others, alone, pure, text, sent, from
  <1>8. /\ hist' = [from |-> [others.from EXCEPT ![t] = from],
                    alone |-> [others.alone EXCEPT ![t] = alone],
                    sent |-> sent, pure |-> pure, parsed |-> others.parsed,
                    begin |-> others.begin, stale |-> others.stale]
    BY <1>1, <1>2 DEF HistOK
  <1>9. /\ [others.alone EXCEPT ![t] = alone] \in [Thread -> BOOLEAN]
        /\ [others.alone EXCEPT ![t] = alone][t] = alone
        /\ ~[others.alone EXCEPT ![t] = alone][Other(t)]
    BY <1>1, <1>3, <1>5 DEF HistOK
  <1>10. [others.from EXCEPT ![t] = from] \in [Thread -> Nat]
    BY <1>1, <1>5 DEF HistOK
  <1>11. HistOK(hist')
    BY <1>5, <1>6, <1>8, <1>9, <1>10 DEF HistOK
  <1>12. SameParsed(hist', hist)
    BY <1>1, <1>8 DEF SameParsed
  <1> QED
    BY <1>1, <1>5, <1>6, <1>7, <1>8, <1>9, <1>11, <1>12 DEF alone, text, from

LEMMA EndHist ==
  ASSUME HistOK(hist), NEW t \in Thread, SendEnd(t)
  PROVE  /\ HistOK(hist')
         /\ \A u \in Thread : u # t => hist'.from[u] = hist.from[u]
         /\ \A u \in Thread : hist'.alone[u] <=> hist.alone[u] /\ u # t
         /\ hist'.pure = hist.pure /\ hist'.sent = hist.sent
         /\ SameParsed(hist', hist)
  <1>1. hist' = [hist EXCEPT !.from[t] = 0, !.alone[t] = FALSE]
    BY DEF SendEnd
  <1>2. hist' = [from |-> [hist.from EXCEPT ![t] = 0],
                 alone |-> [hist.alone EXCEPT ![t] = FALSE],
                 sent |-> hist.sent, pure |-> hist.pure,
                 parsed |-> hist.parsed, begin |-> hist.begin,
                 stale |-> hist.stale]
    BY <1>1 DEF HistOK
  <1>3. /\ [hist.alone EXCEPT ![t] = FALSE] \in [Thread -> BOOLEAN]
        /\ \A u \in Thread : [hist.alone EXCEPT ![t] = FALSE][u] <=>
                               hist.alone[u] /\ u # t
    BY DEF HistOK
  <1>4. /\ [hist.from EXCEPT ![t] = 0] \in [Thread -> Nat]
        /\ \A u \in Thread : u # t => [hist.from EXCEPT ![t] = 0][u] = hist.from[u]
    BY DEF HistOK
  <1>5. HistOK(hist')
    BY <1>2, <1>3, <1>4 DEF HistOK
  <1> QED  BY <1>2, <1>3, <1>4, <1>5 DEF SameParsed

(* The step leaves the history's sends as they were, but for those of the  *)
(* threads in ts.                                                          *)
Disturbed(ts) ==
  /\ HistOK(hist')
  /\ hist'.from = hist.from
  /\ \A t \in Thread : hist'.alone[t] <=> hist.alone[t] /\ t \notin ts
  /\ hist'.pure <=> hist.pure /\ \A t \in ts : ~Sending(t)
  /\ hist'.pure => hist'.sent = hist.sent

LEMMA LineHist ==
  ASSUME HistOK(hist), ReadLine
  PROVE  IF messagebuffer' = messagebuffer /\ messagelength' = messagelength
         THEN Disturbed({}) \/ Disturbed(Overwriting)
         ELSE Disturbed(Overwriting)
  <1> DEFINE n    == Min(Newlines)
             line == Kept(n)
             kind == IF Head(line).first THEN Head(line).kind ELSE "other"
             here == at["irc"]
             writes == here = "loop" /\ kind # "other"
             begin  == IF here = "loop" \/ hist.stale THEN hist.begin
                       ELSE next - (Len(unread) - n)
             parsed == IF here # "loop" \/ hist.stale THEN hist.parsed
                       ELSE Append(hist.parsed, <<Head(line).line, Len(line)>>)
             h == [hist EXCEPT !.begin = begin, !.parsed = parsed]
  <1>1. hist' = IF writes THEN Disturb(h, Overwriting) ELSE h
    BY DEF ReadLine
  <1>5. messagelength' = IF writes /\ kind = "ping" THEN Size ELSE messagelength
    BY DEF ReadLine
  <1>7. ~writes => messagebuffer' = messagebuffer
    BY DEF ReadLine
  <1>2. /\ HistOK(h) /\ h.from = hist.from /\ h.alone = hist.alone
        /\ h.pure = hist.pure /\ h.sent = hist.sent
    <2>1. PICK b, p : b = begin /\ p = parsed  OBVIOUS
    <2>2. h = [hist EXCEPT !.begin = b, !.parsed = p]  BY <2>1
    <2> HIDE DEF h
    <2> QED  BY <2>2 DEF HistOK
  <1> HIDE DEF h, writes, kind
  <1>3. CASE writes
    BY <1>1, <1>2, <1>3, DisturbHist DEF Disturbed
  <1>4. CASE ~writes
    BY <1>1, <1>2, <1>4, <1>5, <1>7 DEF Disturbed
  <1> QED  BY <1>3, <1>4


(* A packet with an acknowledgement ends the outstanding segment, one      *)
(* without leaves it.                                                      *)
LEMMA ReceiveCases ==
  ASSUME Receive
  PROVE  \E events \in SUBSET {"newdata", "acked"} : \E data :
           /\ Enter(events, data)
           /\ "acked" \in events =>
                len > 0 /\ got /\ len' = 0 /\ wire' = {} /\ got' = FALSE
           /\ "acked" \notin events => len' = len /\ wire' = wire /\ got' = got
  <1>1. PICK n \in 0..MaxSeg, ack \in {len > 0 /\ got, FALSE} :
          /\ Enter((IF n > 0 THEN {"newdata"} ELSE {})
                     \cup (IF ack THEN {"acked"} ELSE {}),
                   SubSeq(Stream, next + 1, next + n))
          /\ IF ack THEN len' = 0 /\ wire' = {} /\ got' = FALSE
                    ELSE UNCHANGED <<len, wire, got>>
    BY DEF Receive
  <1> DEFINE events == (IF n > 0 THEN {"newdata"} ELSE {})
                         \cup (IF ack THEN {"acked"} ELSE {})
             data == SubSeq(Stream, next + 1, next + n)
  <1>2. IF ack THEN len' = 0 /\ wire' = {} /\ got' = FALSE
               ELSE UNCHANGED <<len, wire, got>>
    BY <1>1
  <1>3. /\ events \in SUBSET {"newdata", "acked"}
        /\ "acked" \in events <=> ack
    OBVIOUS
  <1>4. Enter(events, data)  BY <1>1
  <1>5. ack => len > 0 /\ got  OBVIOUS
  <1>6. ack => len' = 0 /\ wire' = {} /\ got' = FALSE  BY <1>2
  <1>7. ~ack => len' = len /\ wire' = wire /\ got' = got  BY <1>2
  <1> HIDE DEF events, data
  <1> QED  BY <1>3, <1>4, <1>5, <1>6, <1>7

-----------------------------------------------------------------------------
(* Every step keeps the types.                                             *)

LEMMA AppTypes ==
  ASSUME Types, AppStep
  PROVE  Types'
  <1> USE SizesAreNat
  <1>1. ASSUME NEW t \in Thread, SendBegin(t) PROVE Types'
    <2>1. SendLen(t) \in Nat  BY SendLenNat
    <2>2. psock' \in [Thread -> [busy : BOOLEAN, state : State,
                                 sendptr : Nat, sendlen : Nat]]
      BY <1>1, <2>1 DEF SendBegin, Types, State
    <2> QED  BY <1>1, <2>2
        DEF SendBegin, Types, uip, call, reading, message, main, network
  <1>2. ASSUME NEW t \in Thread, SendWait(t) PROVE Types'
    <2>1. psock[t].sendptr \in Nat /\ psock[t].sendlen \in Nat  BY DEF Types
    <2>2. at[t] \in Sends  BY <1>2 DEF SendWait, Sending
    <2>3. sdata' \in Seq(Chunk)
      BY <1>2, <2>1, <2>2, HandedSeq DEF SendWait, Types
    <2>4. psock' \in [Thread -> [busy : BOOLEAN, state : State,
                                 sendptr : Nat, sendlen : Nat]]
      <3>1. psock' = [psock EXCEPT ![t].state = "DATA_SENT"]
        BY <1>2 DEF SendWait
      <3>2. psock \in [Thread -> [busy : BOOLEAN, state : State,
                                  sendptr : Nat, sendlen : Nat]]
        BY DEF Types
      <3>3. "DATA_SENT" \in State  BY DEF State
      <3> QED  BY <3>1, <3>2, <3>3
    <2> QED  BY <1>2, <2>3, <2>4
        DEF SendWait, Types, uip, call, reading, message, main, network
  <1>3. ASSUME NEW t \in Thread, SendMore(t) PROVE Types'
    <2>1. /\ psock[t].sendptr \in Nat /\ psock[t].sendlen \in Nat
          /\ mss \in Nat /\ psock[t].sendlen > mss
      BY <1>3 DEF Types, SendMore
    <2>2. /\ psock[t].sendptr + mss \in Nat
          /\ psock[t].sendlen - mss \in Nat
      BY <2>1
    <2>3. at[t] \in Sends  BY <1>3 DEF SendMore, Acked, Sending
    <2>4. sdata' \in Seq(Chunk)
      BY <1>3, <2>2, <2>3, HandedSeq DEF SendMore
    <2>5. psock' = [psock EXCEPT ![t] =
                      [@ EXCEPT !.sendptr = psock[t].sendptr + mss,
                                !.sendlen = psock[t].sendlen - mss]]
      BY <1>3, <2>1 DEF SendMore, Types
    <2>6. psock' \in [Thread -> [busy : BOOLEAN, state : State,
                                 sendptr : Nat, sendlen : Nat]]
      BY <2>2, <2>5 DEF Types
    <2> QED  BY <1>3, <2>4, <2>6
        DEF SendMore, Types, uip, call, reading, message, main, network
  <1>4. ASSUME NEW t \in Thread, SendEnd(t) PROVE Types'
    <2>1. psock' \in [Thread -> [busy : BOOLEAN, state : State,
                                 sendptr : Nat, sendlen : Nat]]
      BY <1>4 DEF SendEnd, Types, State, PsockInit
    <2>2. at[t] \in Sends  BY <1>4 DEF SendEnd, Acked, Sending
    <2>3. /\ at' \in [Thread -> Sends \cup {"read1", "read2", "loop"}]
          /\ at'["irc"] \notin {"message", "crlf"}
          /\ at'["out"] \in {"message", "crlf"}
      BY <1>4, <2>2 DEF SendEnd, Types, After, Sends, Thread
    <2>4. pc' \in {"idle", "irc", "out", "return"} /\ messagelength' \in {0, Size}
      BY <1>4 DEF SendEnd, Types
    <2> QED  BY <1>4, <2>1, <2>3, <2>4
        DEF SendEnd, Types, uip, call, reading, main, network
  <1>5. ASSUME ReadBegin \/ ReadWait \/ ReadData PROVE Types'
    <2>1. psock' \in [Thread -> [busy : BOOLEAN, state : State,
                                 sendptr : Nat, sendlen : Nat]]
      <3>1. psock["irc"] \in [busy : BOOLEAN, state : State,
                              sendptr : Nat, sendlen : Nat]
        BY DEF Types, Thread
      <3>2. \A s \in State :
              [psock EXCEPT !["irc"].state = s] \in
                [Thread -> [busy : BOOLEAN, state : State,
                            sendptr : Nat, sendlen : Nat]]
        BY <3>1 DEF Types, Thread
      <3>3. CASE ReadBegin
        BY <3>1, <3>3 DEF ReadBegin, Types, Thread
      <3>4. CASE ReadWait
        <4>1. psock["irc"].state \in State  BY <3>1
        <4>2. PICK s \in State : psock' = [psock EXCEPT !["irc"].state = s]
          BY <3>4, <4>1 DEF ReadWait, State
        <4> QED  BY <3>2, <4>2
      <3>5. CASE ReadData
        BY <3>2, <3>5 DEF ReadData, State
      <3> QED  BY <1>5, <3>3, <3>4, <3>5
    <2>2. pc' \in {"idle", "irc", "out", "return"}
      BY <1>5 DEF ReadBegin, ReadWait, ReadData, Types
    <2> QED  BY <1>5, <2>1, <2>2
        DEF ReadBegin, ReadWait, ReadData, Types, uip, call, message, main,
            network
  <1>6. ASSUME ReadPart PROVE Types'
    BY <1>6 DEF ReadPart, Types, uip, call, message, main, network
  <1>7. ASSUME ReadLine PROVE Types'
    <2>1. psock' \in [Thread -> [busy : BOOLEAN, state : State,
                                 sendptr : Nat, sendlen : Nat]]
      BY <1>7 DEF ReadLine, Types, Thread
    <2>2. /\ at["irc"] \in {"read1", "read2", "loop"}
          /\ at' = [at EXCEPT !["irc"] = After(@)]
      BY <1>7 DEF ReadLine, Reading, Types, Thread
    <2>3. /\ at' \in [Thread -> Sends \cup {"read1", "read2", "loop"}]
          /\ at'["irc"] \notin {"message", "crlf"}
          /\ at'["out"] \in {"message", "crlf"}
      BY <2>2 DEF Types, After, Sends, Thread
    <2>4. messagebuffer' \in Source
      BY <1>7 DEF ReadLine, Types, Source
    <2>5. messagelength' \in {0, Size}
      BY <1>7 DEF ReadLine, Types
    <2> QED  BY <1>7, <2>1, <2>3, <2>4, <2>5
        DEF ReadLine, Types, uip, call, main, network
  <1>8. ASSUME Return PROVE Types'
    <2>1. len' \in Nat
      <3>1. Len(sdata) \in Nat /\ mss \in Nat /\ len \in Nat  BY DEF Types
      <3> QED  BY <1>8, <3>1 DEF Return, Outstanding, Least
    <2>2. wire' \subseteq Seq(Chunk)
      <3>1. Resized(len') \in Seq(Chunk)  BY <2>1, ResizedSeq
      <3> QED  BY <1>8, <3>1 DEF Return, Types
    <2>3. sdata' \in Seq(Chunk) /\ flags' = {} /\ pc' = "idle"
      BY <1>8 DEF Return
    <2>4. /\ conn' = conn /\ mss' = mss /\ at' = at /\ psock' = psock
          /\ messagebuffer' = messagebuffer /\ messagelength' = messagelength
          /\ got' = got /\ rcvd' = rcvd
      BY <1>8 DEF Return, message
    <2> QED  BY <2>1, <2>2, <2>3, <2>4 DEF Types
  <1> QED  BY <1>1, <1>2, <1>3, <1>4, <1>5, <1>6, <1>7, <1>8 DEF AppStep

LEMMA OtherTypes ==
  ASSUME Types, Next, ~AppStep
  PROVE  Types'
  <1> USE SizesAreNat
  <1>1. ASSUME NEW events \in SUBSET {"connected", "newdata", "acked",
                                      "rexmit", "poll"},
               NEW data, Enter(events, data),
               conn' \in {"syn", "up", "down"}, mss' \in Mss, len' \in Nat,
               wire' \subseteq Seq(Chunk), got' \in BOOLEAN
        PROVE  Types'
    BY <1>1 DEF Enter, Types, message, main
  <1>2. CASE Connected
    BY <1>1, <1>2 DEF Connected, Types
  <1>3. CASE Receive
    <2>1. PICK events \in SUBSET {"newdata", "acked"} : \E data :
            /\ Enter(events, data)
            /\ "acked" \in events => len' = 0 /\ wire' = {} /\ got' = FALSE
            /\ "acked" \notin events =>
                 len' = len /\ wire' = wire /\ got' = got
      BY <1>3, ReceiveCases
    <2>2. PICK data : Enter(events, data)  BY <2>1
    <2>3. conn' \in {"syn", "up", "down"} /\ mss' \in Mss
      BY <1>3 DEF Receive, Types
    <2>4. len' \in Nat /\ wire' \subseteq Seq(Chunk) /\ got' \in BOOLEAN
      <3>1. CASE "acked" \in events
        <4>1. len' = 0 /\ wire' = {} /\ got' = FALSE  BY <2>1, <3>1
        <4> QED  BY <4>1
      <3>2. CASE "acked" \notin events  BY <2>1, <3>2 DEF Types
      <3> QED  BY <3>1, <3>2
    <2> QED  BY <1>1, <2>2, <2>3, <2>4
  <1>4. CASE Poll
    BY <1>1, <1>4 DEF Poll, Types, uip
  <1>5. CASE Rexmit
    BY <1>1, <1>5 DEF Rexmit, Types
  <1>6. CASE TimedOut \/ Closed
    BY <1>6 DEF TimedOut, Closed, Types, call, reading, message, main, network
  <1>7. CASE Deliver
    <2>1. PICK w \in wire : rcvd' = rcvd \o w  BY <1>7 DEF Deliver
    <2>2. rcvd' \in Seq(Chunk)  BY <2>1 DEF Types
    <2> QED  BY <1>7, <2>2
        DEF Deliver, Types, uip, call, reading, message, main
  <1>8. CASE \E m \in Text : Submit(m)
    BY <1>8 DEF Submit, Types, Source, uip, call, reading, network
  <1>9. CASE Quit \/ Exit
    BY <1>9 DEF Quit, Exit, Types, Source, uip, call, reading, message, network
  <1> QED
    BY <1>2, <1>3, <1>4, <1>5, <1>6, <1>7, <1>8, <1>9 DEF Next, Timer


-----------------------------------------------------------------------------
(* uIP's part and the order of the threads in a call are kept.             *)

LEMMA ControlStep ==
  ASSUME Types, Types', Control, Next
  PROVE  Control'
  <1> USE DEF Thread
  <1>0. /\ mss \in Nat \ {0} /\ len \in Nat /\ Size \in Nat \ {0}
        /\ messagelength \in {0, Size}
    BY SizesAreNat DEF Types
  <1>1. ASSUME NEW t \in Thread, SendBegin(t) PROVE Control'
    BY <1>1 DEF SendBegin, Types, Control, Sending, uip, call, message, network
  <1>2. ASSUME NEW t \in Thread, SendWait(t) PROVE Control'
    BY <1>2 DEF SendWait, Types, Control, Sending, uip, call, message, network
  <1>3. ASSUME NEW t \in Thread, SendMore(t) PROVE Control'
    BY <1>3 DEF SendMore, Acked, Types, Control, Sending, uip, call, message,
                network
  <1>4. ASSUME NEW t \in Thread, SendEnd(t) PROVE Control'
    <2>1. CASE at[t] = "crlf"
      <3>1. t = "out"  BY <2>1 DEF Types
      <3>2. pc' = "return" /\ ~Sending("out")'
        BY <1>4, <2>1, <3>1 DEF SendEnd, Types, Sending, PsockInit
      <3> QED  BY <1>4, <3>1, <3>2
          DEF SendEnd, Acked, Types, Control, Sending, PsockInit, uip, call,
              network
    <2>2. CASE at[t] # "crlf"
      BY <1>4, <2>2
         DEF SendEnd, Acked, Types, Control, Sending, PsockInit, uip, call,
             network
    <2> QED  BY <2>1, <2>2
  <1>5. ASSUME ReadBegin \/ ReadWait \/ ReadData \/ ReadPart PROVE Control'
    BY <1>5 DEF ReadBegin, ReadWait, ReadData, ReadPart, Reading, Types,
                Control, Sending, uip, call, message, network
  <1>6. ASSUME ReadLine PROVE Control'
    <2>1. messagelength > 0 => messagelength' > 0
      BY <1>0, <1>6 DEF ReadLine
    <2>2. Sending("out")' = Sending("out")
      BY <1>6 DEF ReadLine, Sending, Types
    <2> QED  BY <1>6, <2>1, <2>2
        DEF ReadLine, Reading, Types, Control, uip, call, network
  <1>7. ASSUME Return PROVE Control'
    <2>1. len > 0 => len' > 0
      BY <1>0, <1>7 DEF Return, Outstanding
    <2>2. len' = 0 => len = 0 /\ wire' = wire
      BY <1>0, <1>7, <2>1 DEF Return, Types
    <2> QED  BY <1>7, <2>1, <2>2
        DEF Return, Types, Control, Sending, message
  <1>8. ASSUME NEW events, NEW data, Enter(events, data), conn' # "syn",
               len' = 0 => wire' = {} /\ ~got',
               "acked" \in events => len' = 0,
               "rexmit" \in events => len' > 0
        PROVE  Control'
    BY <1>8 DEF Enter, Types, Control, Sending, message
  <1>9. CASE Connected
    BY <1>8, <1>9 DEF Connected, Control
  <1>10. CASE Receive
    <2>1. PICK events \in SUBSET {"newdata", "acked"} : \E data :
            /\ Enter(events, data)
            /\ "acked" \in events => len' = 0 /\ wire' = {} /\ got' = FALSE
            /\ "acked" \notin events =>
                 len' = len /\ wire' = wire /\ got' = got
      BY <1>10, ReceiveCases
    <2>2. PICK data : Enter(events, data)  BY <2>1
    <2>3. conn' # "syn"  BY <1>10 DEF Receive
    <2>4. len' = 0 => wire' = {} /\ ~got'  BY <2>1 DEF Control
    <2> QED  BY <1>8, <2>1, <2>2, <2>3, <2>4
  <1>11. CASE Poll
    BY <1>8, <1>11 DEF Poll, Control, uip
  <1>12. CASE Rexmit
    BY <1>8, <1>12 DEF Rexmit, Control
  <1>13. CASE TimedOut \/ Closed \/ Exit
    BY <1>13 DEF TimedOut, Closed, Exit, Types, Control, Sending, uip, call,
                 message, network
  <1>14. CASE Deliver
    BY <1>14 DEF Deliver, Types, Control, Sending, uip, call, message
  <1>15. CASE Quit \/ \E m \in Text : Submit(m)
    BY <1>0, <1>15 DEF Submit, Quit, Types, Control, Sending, uip, call,
                       message, network
  <1> QED
    BY <1>1, <1>2, <1>3, <1>4, <1>5, <1>6, <1>7, <1>9, <1>10, <1>11, <1>12,
       <1>13, <1>14, <1>15 DEF Next, AppStep, Timer


-----------------------------------------------------------------------------
(* The history of a step that begins or ends no send.                      *)

(* The send of t and what the server has are left alone.                   *)
Untouched(t) ==
  /\ psock'[t].busy = psock[t].busy /\ psock'[t].sendptr = psock[t].sendptr
  /\ psock'[t].sendlen = psock[t].sendlen /\ at'[t] = at[t]
  /\ TextAt(t)' = TextAt(t) /\ rcvd' = rcvd

LEMMA SameWhole ==
  ASSUME Types, NEW t \in Thread, NEW ts, Disturbed(ts), Untouched(t)
  PROVE  /\ Whole(t)' = Whole(t) /\ Sending(t)' = Sending(t)
         /\ Missing(t) => Missing(t)'
         /\ Received(t) => Received(t)'
  <1>1. Whole(t)' = Whole(t) /\ Sending(t)' = Sending(t)
    BY DEF Untouched, Whole, Pieces, Sending
  <1>2. /\ hist'.from[t] = hist.from[t] /\ rcvd' = rcvd
        /\ psock'[t].sendlen = psock[t].sendlen
        /\ hist'.pure => hist.pure /\ hist'.sent = hist.sent
    BY DEF Disturbed, Untouched
  <1> HIDE DEF Whole
  <1> QED  BY <1>1, <1>2 DEF Missing, Received

(* An undisturbed send stays alone if it stays in one of its stages.       *)
LEMMA StaysAlone ==
  ASSUME Types, NEW t \in Thread, NEW ts, Disturbed(ts), Untouched(t),
         hist.alone[t] => Single(t),
         hist'.alone[t] => ~Sending(Other(t))' /\ psock[t].sendlen <= mss',
         mss' \in Nat,
         hist'.alone[t] => \/ Called(t)' \/ HandedOver(t)'
                           \/ UnderWay(t)' \/ Acknowledged(t)'
  PROVE  Alone(t)'
  <1>1. hist'.alone[t] => hist.alone[t]  BY DEF Disturbed
  <1>2. Sending(t)' = Sending(t)  BY SameWhole
  <1>3. /\ psock'[t].sendptr = psock[t].sendptr
        /\ psock'[t].sendlen = psock[t].sendlen
        /\ psock[t].sendlen \in Nat /\ mss \in Nat
    BY SizesAreNat DEF Untouched, Types
  <1>4. SUFFICES ASSUME hist'.alone[t] PROVE Single(t)'
    BY DEF Alone
  <1>5. Single(t) /\ ~Sending(Other(t))' /\ psock[t].sendlen <= mss'
    BY <1>1, <1>4
  <1> QED  BY <1>2, <1>3, <1>5 DEF Single

LEMMA StaysPure ==
  ASSUME Pure, NEW ts, Disturbed(ts),
         \A t \in Thread : Sending(t)' <=> Sending(t),
         len = 0 /\ sdata = <<>> /\ (\A t \in Thread : ~Sending(t)) =>
           rcvd' = rcvd /\ len' = 0 /\ sdata' = <<>>
  PROVE  Pure'
  BY DEF Pure, Disturbed


-----------------------------------------------------------------------------
(* Every step keeps the stages of an undisturbed send.  For each action:   *)
(* what it does to the history, and for each stage the stage it leads to.  *)

LEMMA WholeSeq ==
  ASSUME Types, NEW t \in Thread, at[t] \in Sends
  PROVE  Whole(t) \in Seq(Chunk) /\ Len(Whole(t)) = psock[t].sendlen
  <1>1. TextAt(t) \in Source /\ psock[t].sendlen \in Nat
    BY TextIsSource DEF Types
  <1> QED  BY <1>1, PiecesSeq DEF Whole

(* psock_send is called.                                                   *)
LEMMA BeginAlone ==
  ASSUME IrcInv, NEW t \in Thread, SendBegin(t), Types'
  PROVE  /\ HistOK(hist') /\ Pure'
         /\ \A u \in Thread : Alone(u)'
  <1> USE DEF IrcInv
  <1>1. /\ HistOK(hist')
        /\ hist'.from = [hist.from EXCEPT ![t] = Len(rcvd)]
        /\ hist'.alone[t] <=> IsAlone(t)
        /\ ~hist'.alone[Other(t)]
        /\ hist'.pure <=> hist.pure /\ IsAlone(t)
        /\ hist'.pure =>
             hist'.sent = hist.sent \o Pieces(TextAt(t), 0, SendLen(t))
    BY BeginHist
  <1>2. \A u \in Thread : u = t \/ u = Other(t)
    BY DEF Thread, Other
  <1>3. /\ psock'[t] = [busy |-> TRUE, state |-> "NONE",
                        sendptr |-> 0, sendlen |-> SendLen(t)]
        /\ psock'[Other(t)] = psock[Other(t)]
    BY DEF SendBegin, Types, Thread, Other
  <1>4. at' = at /\ at[t] \in Sends /\ pc' = t /\ len' = len /\ sdata' = sdata
          /\ rcvd' = rcvd /\ mss' = mss /\ TextAt(t)' = TextAt(t)
    BY DEF SendBegin, uip, message, network, TextAt
  <1>5. Sending(t)' /\ (Sending(Other(t))' <=> Sending(Other(t)))
    BY <1>3, <1>4 DEF Sending
  <1>6. Whole(t)' = Pieces(TextAt(t), 0, SendLen(t))
    BY <1>3, <1>4 DEF Whole, Pieces
  <1>7. SendLen(t) \in Nat /\ SendLen(t) >= 1
    <2>1. t = "out" => messagelength > 0
      BY DEF SendBegin, Control
    <2>2. CASE at[t] = "message"
      BY <2>1, <2>2, SizesAreNat DEF Types, SendLen, Thread
    <2>3. CASE at[t] # "message"
      BY <2>3 DEF SendLen
    <2> QED  BY <2>2, <2>3
  <1>8. ASSUME IsAlone(t)
        PROVE  Single(t)' /\ Called(t)'
    <2>1. mss \in Nat  BY SizesAreNat DEF Types
    <2>2. Single(t)'
      BY <1>3, <1>4, <1>5, <1>7, <1>8, <2>1 DEF Single, IsAlone
    <2>3. hist'.from[t] = Len(rcvd)
      BY <1>1 DEF HistOK
    <2>4. hist'.pure => rcvd = hist.sent
      <3>1. ~Sending(t)  BY DEF SendBegin, Sending
      <3> QED  BY <1>1, <1>2, <1>8, <3>1 DEF Pure, IsAlone
    <2>5. Missing(t)'
      BY <1>1, <1>4, <1>6, <2>3, <2>4 DEF Missing
    <2> QED  BY <1>3, <1>4, <1>8, <2>2, <2>5 DEF Called, IsAlone
  <1>9. \A u \in Thread : Alone(u)'
    BY <1>1, <1>2, <1>8 DEF Alone
  <1>10. Pure'
    BY <1>1, <1>2, <1>5 DEF Pure, IsAlone
  <1> QED  BY <1>1, <1>9, <1>10

(* psock_send waits: a text is handed over for the first time, or again.   *)
LEMMA WaitAlone ==
  ASSUME IrcInv, NEW t \in Thread, SendWait(t), Types'
  PROVE  /\ HistOK(hist') /\ Pure'
         /\ \A u \in Thread : Alone(u)'
  <1> USE DEF IrcInv
  <1>1. Disturbed({})
    BY DEF SendWait, Disturbed
  <1>2. /\ at' = at /\ rcvd' = rcvd /\ messagebuffer' = messagebuffer
        /\ len' = len /\ mss' = mss /\ flags' = flags /\ wire' = wire
        /\ got' = got /\ messagelength' = messagelength
    BY DEF SendWait, uip, call, message, network
  <1>3. /\ \A u \in Thread : u # t => psock'[u] = psock[u]
        /\ psock'[t] = [psock[t] EXCEPT !.state = "DATA_SENT"]
    BY DEF SendWait, Types
  <1>4. \A u \in Thread : Untouched(u)
    <2>1. \A u \in Thread : /\ psock'[u].busy = psock[u].busy
                            /\ psock'[u].sendptr = psock[u].sendptr
                            /\ psock'[u].sendlen = psock[u].sendlen
      <3> TAKE u \in Thread
      <3>1. CASE u = t
        <4>1. psock[t] \in [busy : BOOLEAN, state : State,
                            sendptr : Nat, sendlen : Nat]
          BY DEF Types
        <4> QED  BY <1>3, <3>1, <4>1
      <3>2. CASE u # t  BY <1>3, <3>2
      <3> QED  BY <3>1, <3>2
    <2> QED  BY <1>2, <2>1 DEF Untouched, TextAt
  <1>5. \A u \in Thread : Sending(u)' <=> Sending(u)
    BY <1>2, <1>4 DEF Sending, Untouched
  <1>6. Sending(t) /\ at[t] \in Sends  BY DEF SendWait, Sending
  <1>7. Pure'
    BY <1>1, <1>5, <1>6, StaysPure
  <1>8. \A u \in Thread : u # t => ~hist.alone[u]
    BY <1>6 DEF Alone, Single, Other, Thread
  <1>9. Whole(t)' = Whole(t) /\ (Missing(t) => Missing(t)')
          /\ (Received(t) => Received(t)')
    BY <1>1, <1>4, SameWhole
  <1>10. ASSUME hist.alone[t]
         PROVE  HandedOver(t)' \/ UnderWay(t)'
    <2>1. Single(t)  BY <1>10 DEF Alone
    <2>2. Handed(t, psock[t].sendptr, psock[t].sendlen) = Whole(t)
      <3>1. Least(psock[t].sendlen, mss) = psock[t].sendlen
        BY <2>1, SizesAreNat DEF Single, Least, Types
      <3> QED  BY <2>1, <3>1 DEF Handed, Whole, Single
    <2>3. psock'[t].state = "DATA_SENT" /\ psock'[t].sendlen = psock[t].sendlen
      BY <1>3 DEF Types
    <2>4. pc = t /\ Past(t)'
      BY <1>4 DEF SendWait, Past, Thread
    <2>5. CASE Called(t)
      <3>1. sdata' = Whole(t)
        BY <2>2, <2>5 DEF SendWait, Called
      <3> QED  BY <1>2, <1>9, <2>3, <2>4, <2>5, <3>1 DEF Called, HandedOver
    <2>6. CASE UnderWay(t)
      <3>1. sdata' \in {<<>>, Whole(t)}
        BY <2>2, <2>6 DEF SendWait, UnderWay
      <3> QED  BY <1>2, <1>9, <2>3, <2>6, <3>1 DEF UnderWay
    <2>7. ~HandedOver(t)
      BY <2>4 DEF HandedOver, Past, Thread
    <2>8. ~Acknowledged(t)
      BY DEF Acknowledged, SendWait
    <2> QED  BY <1>10, <2>5, <2>6, <2>7, <2>8 DEF Alone
  <1>11. hist.alone[t] => Single(t)  BY DEF Alone
  <1>12. hist.alone[t] => psock[t].sendlen <= mss' /\ ~Sending(Other(t))'
    <2>1. Other(t) \in Thread  BY DEF Other, Thread
    <2> QED  BY <1>2, <1>5, <1>11, <2>1, SizesAreNat DEF Single, Types
  <1>13. hist'.alone = hist.alone  BY DEF SendWait
  <1>14. mss' \in Nat  BY SizesAreNat DEF Types
  <1>15. Alone(t)'
    BY <1>1, <1>4, <1>10, <1>11, <1>12, <1>13, <1>14, StaysAlone
  <1> QED  BY <1>1, <1>7, <1>8, <1>13, <1>15 DEF Disturbed, Alone


(* An acknowledgement takes off the whole of an undisturbed text, which    *)
(* the server has then: psock_send never sends a second piece of it.       *)
LEMMA AckedHere ==
  ASSUME IrcInv, NEW t \in Thread, Acked(t), hist.alone[t]
  PROVE  Single(t) /\ Acknowledged(t)
  <1>1. /\ Single(t)
        /\ Called(t) \/ HandedOver(t) \/ UnderWay(t) \/ Acknowledged(t)
    BY DEF IrcInv, Alone
  <1>2. psock[t].state = "DATA_SENT" /\ pc = t /\ "acked" \in flags
    BY DEF Acked
  <1>3. ~Called(t)  BY <1>2 DEF Called
  <1>4. ~HandedOver(t)  BY <1>2 DEF HandedOver, Past, Thread
  <1>5. ~UnderWay(t)
    BY <1>1, <1>2 DEF UnderWay, Single, IrcInv, Control
  <1> QED  BY <1>1, <1>3, <1>4, <1>5

LEMMA MoreAlone ==
  ASSUME IrcInv, NEW t \in Thread, SendMore(t), Types'
  PROVE  /\ HistOK(hist') /\ Pure'
         /\ \A u \in Thread : Alone(u)'
  <1> USE DEF IrcInv
  <1>1. Sending(t) /\ hist' = hist  BY DEF SendMore, Acked
  <1>2. ~hist.alone[t]
    <2>1. SUFFICES ASSUME hist.alone[t] PROVE FALSE  OBVIOUS
    <2>2. Single(t)  BY <2>1, AckedHere DEF SendMore
    <2>3. mss \in Nat  BY SizesAreNat DEF Types
    <2> QED  BY <2>2, <2>3 DEF SendMore, Single
  <1>3. \A u \in Thread : ~hist.alone[u]
    BY <1>1, <1>2 DEF Alone, Single, Other, Thread
  <1>4. ~hist.pure  BY <1>1, <1>3 DEF Pure
  <1> QED  BY <1>1, <1>3, <1>4 DEF Alone, Pure

(* psock_send returns.                                                     *)
LEMMA EndAlone ==
  ASSUME IrcInv, NEW t \in Thread, SendEnd(t), Types'
  PROVE  /\ HistOK(hist') /\ Pure'
         /\ \A u \in Thread : Alone(u)'
  <1> USE DEF IrcInv
  <1>1. /\ HistOK(hist')
        /\ \A u \in Thread : u # t => hist'.from[u] = hist.from[u]
        /\ \A u \in Thread : hist'.alone[u] <=> hist.alone[u] /\ u # t
        /\ hist'.pure = hist.pure /\ hist'.sent = hist.sent
    BY EndHist
  <1>2. Sending(t) /\ Acked(t)  BY DEF SendEnd, Acked
  <1>3. \A u \in Thread : u # t => ~hist.alone[u]
    BY <1>2 DEF Alone, Single, Other, Thread
  <1>4. \A u \in Thread : ~hist'.alone[u]  BY <1>1, <1>3
  <1>5. hist.pure => /\ rcvd = hist.sent /\ len = 0 /\ sdata = <<>>
                     /\ \A u \in Thread : u # t => ~Sending(u)
    <2>1. SUFFICES ASSUME hist.pure
                   PROVE  /\ rcvd = hist.sent /\ len = 0 /\ sdata = <<>>
                          /\ \A u \in Thread : u # t => ~Sending(u)
      OBVIOUS
    <2>2. hist.alone[t]  BY <1>2, <2>1 DEF Pure
    <2>3. Single(t) /\ Acknowledged(t)  BY <1>2, <2>2, AckedHere
    <2> QED  BY <2>1, <2>3 DEF Single, Acknowledged, Received, Other, Thread
  <1>6. \A u \in Thread : Sending(u)' <=> u # t /\ Sending(u)
    <2>1. /\ psock'[t].busy = FALSE
          /\ \A u \in Thread : u # t => psock'[u] = psock[u] /\ at'[u] = at[u]
      BY DEF SendEnd, Types, PsockInit
    <2> QED  BY <2>1 DEF Sending
  <1>7. rcvd' = rcvd /\ len' = len /\ sdata' = sdata
    BY DEF SendEnd, uip, network
  <1>8. Pure'
    BY <1>1, <1>5, <1>6, <1>7 DEF Pure
  <1> QED  BY <1>1, <1>4, <1>8 DEF Alone

(* The irc thread reads: its own send is not in progress.                  *)
LEMMA ReadAlone ==
  ASSUME IrcInv, ReadBegin \/ ReadWait \/ ReadData \/ ReadPart, Types'
  PROVE  /\ HistOK(hist') /\ Pure'
         /\ \A u \in Thread : Alone(u)'
  <1> USE DEF IrcInv
  <1>1. /\ at' = at /\ rcvd' = rcvd /\ messagebuffer' = messagebuffer
        /\ len' = len /\ mss' = mss /\ flags' = flags /\ wire' = wire
        /\ got' = got /\ sdata' = sdata /\ hist' = hist
        /\ pc = "irc" /\ pc' \in {"irc", "out", "return"}
        /\ messagelength > 0 => pc' \in {"irc", "out"}
        /\ at["irc"] \notin Sends
    BY DEF ReadBegin, ReadWait, ReadData, ReadPart, Reading, uip, call,
           message, network
  <1>2. psock'["out"] = psock["out"]
    BY DEF ReadBegin, ReadWait, ReadData, ReadPart, Types, Thread
  <1>3. Disturbed({})  BY <1>1 DEF Disturbed
  <1>4. ~Sending("irc") /\ ~Sending("irc")'  BY <1>1 DEF Sending
  <1>5. Untouched("out")  BY <1>1, <1>2 DEF Untouched, TextAt
  <1>6. Sending("out")' = Sending("out")  BY <1>1, <1>2 DEF Sending
  <1>7. Pure'
    BY <1>1, <1>3, <1>4, <1>6, StaysPure DEF Thread
  <1>8. ~hist.alone["irc"]  BY <1>4 DEF Alone, Single, Thread
  <1>9. "out" \in Thread /\ Other("out") = "irc"  BY DEF Thread, Other
  <1>10. /\ Whole("out")' = Whole("out")
         /\ Missing("out") => Missing("out")'
         /\ Received("out") => Received("out")'
    BY <1>3, <1>5, <1>9, SameWhole
  <1>11. ASSUME hist.alone["out"]
         PROVE  UnderWay("out")' \/ Acknowledged("out")'
    <2>1. Single("out")  BY <1>9, <1>11 DEF Alone
    <2>2. CASE UnderWay("out")
      BY <1>1, <1>2, <1>10, <2>2 DEF UnderWay
    <2>3. CASE Acknowledged("out")
      <3>1. Ahead("out")'
        BY <1>1, <2>1 DEF Ahead, Single, Control
      <3> QED  BY <1>1, <1>2, <1>10, <2>3, <3>1 DEF Acknowledged
    <2>4. ~Called("out")  BY <1>1 DEF Called
    <2>5. ~HandedOver("out")  BY <1>1 DEF HandedOver, Past
    <2> QED  BY <1>9, <1>11, <2>2, <2>3, <2>4, <2>5 DEF Alone
  <1>12. hist.alone["out"] => Single("out")  BY <1>9 DEF Alone
  <1>13. mss' \in Nat  BY SizesAreNat DEF Types
  <1>14. hist.alone["out"] => psock["out"].sendlen <= mss'
    BY <1>1, <1>12, SizesAreNat DEF Single, Types
  <1>15. Alone("out")'
    BY <1>1, <1>3, <1>4, <1>5, <1>9, <1>11, <1>12, <1>13, <1>14, StaysAlone
  <1> QED  BY <1>1, <1>3, <1>7, <1>8, <1>15 DEF Disturbed, Alone, Thread


(* A line is parsed: only the other thread's send can be in progress, and  *)
(* it is disturbed if its text is overwritten.                             *)
LEMMA LineAlone ==
  ASSUME IrcInv, ReadLine, Types'
  PROVE  /\ HistOK(hist') /\ Pure'
         /\ \A u \in Thread : Alone(u)'
  <1> USE DEF IrcInv
  <1>1. PICK ts \in {{}, Overwriting} :
          /\ Disturbed(ts)
          /\ ts = Overwriting \/ messagebuffer' = messagebuffer
    BY LineHist
  <1>2. /\ rcvd' = rcvd /\ len' = len /\ mss' = mss /\ flags' = flags
        /\ wire' = wire /\ got' = got /\ sdata' = sdata
        /\ pc = "irc" /\ pc' = "irc" /\ at["irc"] \notin Sends
    BY DEF ReadLine, Reading, uip, call, network
  <1>3. psock'["out"] = psock["out"] /\ at'["out"] = at["out"]
          /\ ~psock'["irc"].busy
    BY DEF ReadLine, Types, Thread
  <1>4. ~Sending("irc") /\ ~Sending("irc")'  BY <1>2, <1>3 DEF Sending
  <1>5. Sending("out")' = Sending("out")  BY <1>3 DEF Sending
  <1>6. Pure'
    BY <1>1, <1>2, <1>4, <1>5, StaysPure DEF Thread
  <1>7. ~hist'.alone["irc"]
    BY <1>1, <1>4 DEF Alone, Single, Thread, Disturbed
  <1>8. "out" \in Thread /\ Other("out") = "irc"  BY DEF Thread, Other
  <1>9. ASSUME hist'.alone["out"]
        PROVE  Alone("out")'
    <2>1. hist.alone["out"] /\ "out" \notin ts
      BY <1>1, <1>8, <1>9 DEF Disturbed
    <2>2. Single("out")  BY <1>8, <2>1 DEF Alone
    <2>3. at["out"] = "message" => messagebuffer' = messagebuffer
      BY <1>1, <1>8, <2>1, <2>2 DEF Overwriting, Single
    <2>4. Untouched("out")
      BY <1>2, <1>3, <2>3 DEF Untouched, TextAt
    <2>5. /\ Whole("out")' = Whole("out")
          /\ Missing("out") => Missing("out")'
          /\ Received("out") => Received("out")'
      BY <1>1, <1>8, <2>4, SameWhole
    <2>6. CASE UnderWay("out")
      <3>1. UnderWay("out")'  BY <1>2, <1>3, <2>5, <2>6 DEF UnderWay
      <3> QED  BY <1>1, <1>2, <1>4, <1>8, <2>2, <2>4, <3>1, StaysAlone,
                  SizesAreNat DEF Single, Types
    <2>7. CASE Acknowledged("out")
      <3>1. Acknowledged("out")'
        BY <1>2, <1>3, <2>5, <2>7 DEF Acknowledged, Ahead
      <3> QED  BY <1>1, <1>2, <1>4, <1>8, <2>2, <2>4, <3>1, StaysAlone,
                  SizesAreNat DEF Single, Types
    <2>8. ~Called("out")  BY <1>2 DEF Called
    <2>9. ~HandedOver("out")  BY <1>2 DEF HandedOver, Past
    <2> QED  BY <1>8, <2>1, <2>6, <2>7, <2>8, <2>9 DEF Alone
  <1>10. Alone("out")'  BY <1>9 DEF Alone
  <1> QED  BY <1>1, <1>6, <1>7, <1>10 DEF Disturbed, Alone, Thread

(* irc_appcall returns: what was handed over becomes outstanding.          *)
LEMMA ReturnAlone ==
  ASSUME IrcInv, Return, Types'
  PROVE  /\ HistOK(hist') /\ Pure'
         /\ \A u \in Thread : Alone(u)'
  <1> USE DEF IrcInv
  <1>1. /\ at' = at /\ psock' = psock /\ messagebuffer' = messagebuffer
        /\ rcvd' = rcvd /\ mss' = mss /\ got' = got /\ hist' = hist
        /\ pc = "return" /\ pc' = "idle" /\ sdata' = <<>>
        /\ len' = Outstanding
        /\ wire' = IF sdata # <<>> /\ len' > 0 THEN wire \cup {Resized(len')}
                   ELSE wire
    BY DEF Return, message
  <1>2. Disturbed({})  BY <1>1 DEF Disturbed
  <1>3. \A u \in Thread : Untouched(u)  BY <1>1 DEF Untouched, TextAt
  <1>4. \A u \in Thread : Sending(u)' = Sending(u)  BY <1>1 DEF Sending
  <1>5. Pure'
    BY <1>1, <1>2, <1>4, StaysPure DEF Outstanding
  <1>6. ASSUME NEW t \in Thread, hist.alone[t]
        PROVE  UnderWay(t)'
    <2>1. Single(t)  BY <1>6 DEF Alone
    <2>2. /\ Whole(t)' = Whole(t)
          /\ Missing(t) => Missing(t)'
          /\ Received(t) => Received(t)'
      BY <1>2, <1>3, SameWhole
    <2>3. /\ Whole(t) \in Seq(Chunk) /\ Len(Whole(t)) = psock[t].sendlen
          /\ psock[t].sendlen \in Nat /\ mss \in Nat
          /\ psock[t].sendlen >= 1 /\ psock[t].sendlen <= mss
      BY <2>1, WholeSeq, SizesAreNat DEF Single, Sending, Types
    <2>4. sdata = Whole(t) => Resized(psock[t].sendlen) = Whole(t)
      <3> SUFFICES ASSUME sdata = Whole(t)
                   PROVE  Resized(psock[t].sendlen) = Whole(t)
        OBVIOUS
      <3>1. Whole(t) = [i \in 1..psock[t].sendlen |-> Whole(t)[i]]
        BY <2>3 DEF Whole, Pieces
      <3>2. \A i \in 1..psock[t].sendlen : i <= Len(Whole(t))
        BY <2>3
      <3> HIDE DEF Whole
      <3> QED  BY <3>1, <3>2 DEF Resized
    <2>5. CASE HandedOver(t)
      <3>1. "rexmit" \notin flags  BY <2>5 DEF HandedOver, Control
      <3>2. sdata # <<>>  BY <2>3, <2>5 DEF HandedOver
      <3>3. len' = psock[t].sendlen
        BY <1>1, <2>3, <2>5, <3>1, <3>2 DEF HandedOver, Outstanding, Least
      <3>4. wire = {} /\ ~got  BY <2>5 DEF HandedOver, Control
      <3>5. wire' = {Whole(t)}
        <4>1. Resized(len') = Whole(t)  BY <2>4, <2>5, <3>3 DEF HandedOver
        <4>2. len' > 0  BY <2>3, <3>3
        <4> QED  BY <1>1, <3>2, <3>4, <4>1, <4>2
      <3> QED  BY <1>1, <2>2, <2>5, <3>3, <3>4, <3>5 DEF HandedOver, UnderWay
    <2>6. CASE UnderWay(t)
      <3>1. len' = len  BY <1>1, <2>3, <2>6 DEF UnderWay, Outstanding
      <3>2. wire' = {Whole(t)}
        <4>1. CASE sdata = <<>>  BY <1>1, <2>6, <4>1 DEF UnderWay
        <4>2. CASE sdata = Whole(t)
          <5>1. Resized(len') = Whole(t)  BY <2>4, <2>6, <3>1, <4>2 DEF UnderWay
          <5> QED  BY <1>1, <2>6, <5>1 DEF UnderWay
        <4> QED  BY <2>6, <4>1, <4>2 DEF UnderWay
      <3> QED  BY <1>1, <2>2, <2>6, <3>1, <3>2 DEF UnderWay
    <2>7. ~Called(t)  BY <1>1 DEF Called, Thread
    <2>8. ~Acknowledged(t)  BY <1>1 DEF Acknowledged, Ahead, Thread
    <2> QED  BY <1>6, <2>5, <2>6, <2>7, <2>8 DEF Alone
  <1>7. ASSUME NEW t \in Thread
        PROVE  Alone(t)'
    <2>1. hist.alone[t] => Single(t)  BY DEF Alone
    <2>2. Other(t) \in Thread  BY DEF Other, Thread
    <2>3. hist.alone[t] => ~Sending(Other(t))' /\ psock[t].sendlen <= mss'
      BY <1>1, <1>4, <2>1, <2>2, SizesAreNat DEF Single, Types
    <2>4. mss' \in Nat  BY SizesAreNat DEF Types
    <2> QED  BY <1>1, <1>2, <1>3, <1>6, <2>1, <2>3, <2>4, StaysAlone
  <1> QED  BY <1>2, <1>5, <1>7 DEF Disturbed


(* irc_appcall is entered: an acknowledgement can only be for what the     *)
(* server has taken, and a smaller mss disturbs a send it does not hold.   *)
LEMMA EnterAlone ==
  ASSUME IrcInv, Types', NEW events, NEW data, Enter(events, data),
         "acked" \in events => len > 0 /\ got /\ len' = 0,
         "acked" \notin events => len' = len /\ wire' = wire /\ got' = got,
         NEW ts, Disturbed(ts), mss' \in Nat,
         \A t \in Thread : hist.alone[t] /\ t \notin ts =>
                             psock[t].sendlen <= mss'
  PROVE  /\ HistOK(hist') /\ Pure'
         /\ \A u \in Thread : Alone(u)'
  <1> USE DEF IrcInv
  <1>1. /\ at' = at /\ psock' = psock /\ messagebuffer' = messagebuffer
        /\ rcvd' = rcvd /\ sdata' = <<>> /\ flags' = events
        /\ pc = "idle" /\ pc' = "irc"
    BY DEF Enter, message
  <1>2. \A u \in Thread : Untouched(u)  BY <1>1 DEF Untouched, TextAt
  <1>3. \A u \in Thread : Sending(u)' = Sending(u)  BY <1>1 DEF Sending
  <1>4. Pure'
    BY <1>1, <1>3, StaysPure
  <1>5. ASSUME NEW t \in Thread, hist.alone[t]
        PROVE  UnderWay(t)' \/ Acknowledged(t)'
    <2>1. Single(t)  BY <1>5 DEF Alone
    <2>2. /\ Whole(t)' = Whole(t)
          /\ Missing(t) => Missing(t)'
          /\ Received(t) => Received(t)'
      BY <1>2, SameWhole
    <2>3. UnderWay(t)
      <3>1. ~Called(t)  BY <1>1 DEF Called, Thread
      <3>2. ~HandedOver(t)  BY <1>1 DEF HandedOver, Past, Thread
      <3>3. ~Acknowledged(t)  BY <1>1 DEF Acknowledged, Ahead, Thread
      <3> QED  BY <1>5, <3>1, <3>2, <3>3 DEF Alone
    <2>4. CASE "acked" \in events
      BY <1>1, <2>2, <2>3, <2>4 DEF UnderWay, Acknowledged, Ahead
    <2>5. CASE "acked" \notin events
      BY <1>1, <2>2, <2>3, <2>5 DEF UnderWay
    <2> QED  BY <2>4, <2>5
  <1>6. ASSUME NEW t \in Thread
        PROVE  Alone(t)'
    <2>1. hist.alone[t] => Single(t)  BY DEF Alone
    <2>2. Other(t) \in Thread  BY DEF Other, Thread
    <2>3. hist'.alone[t] => hist.alone[t] /\ t \notin ts  BY DEF Disturbed
    <2>4. hist'.alone[t] => ~Sending(Other(t))' /\ psock[t].sendlen <= mss'
      BY <1>3, <2>1, <2>2, <2>3 DEF Single
    <2> QED  BY <1>2, <1>5, <2>1, <2>3, <2>4, StaysAlone
  <1> QED  BY <1>4, <1>6 DEF Disturbed

(* The packets and the timer that call the application.                    *)
LEMMA EventAlone ==
  ASSUME IrcInv, Types', Connected \/ Receive \/ Poll \/ Rexmit
  PROVE  /\ HistOK(hist') /\ Pure'
         /\ \A u \in Thread : Alone(u)'
  <1> USE DEF IrcInv
  <1>1. mss' \in Nat /\ mss \in Nat  BY SizesAreNat DEF Types
  <1>2. /\ HistOK(SetStale(hist))
        /\ SetStale(hist).from = hist.from /\ SetStale(hist).alone = hist.alone
        /\ SetStale(hist).pure = hist.pure /\ SetStale(hist).sent = hist.sent
    BY SetStaleHist
  <1>3. hist' = SetStale(hist) => Disturbed({})
    BY <1>2 DEF Disturbed
  <1>4. CASE Connected
    <2>1. /\ Enter({"connected", "newdata"}, <<>>)
          /\ len' = len /\ wire' = wire /\ got' = got
      BY <1>4 DEF Connected
    <2>2. \A t \in Thread : ~hist.alone[t]
      BY <1>4 DEF Connected, Control, Sending, Alone, Single
    <2>3. Disturbed({})  BY <1>3, <1>4 DEF Connected
    <2> DEFINE events == {"connected", "newdata"}
    <2>4. "acked" \notin events  OBVIOUS
    <2> HIDE DEF events
    <2>5. Enter(events, <<>>)  BY <2>1 DEF events
    <2> QED  BY <1>1, <2>1, <2>2, <2>3, <2>4, <2>5, EnterAlone
  <1>5. CASE Receive
    <2> DEFINE ts == {t \in Thread : Sending(t) /\ psock[t].sendlen > mss'}
    <2>1. PICK events \in SUBSET {"newdata", "acked"} : \E data :
            /\ Enter(events, data)
            /\ "acked" \in events =>
                 len > 0 /\ got /\ len' = 0 /\ wire' = {} /\ got' = FALSE
            /\ "acked" \notin events =>
                 len' = len /\ wire' = wire /\ got' = got
      BY <1>5, ReceiveCases
    <2>2. PICK data : Enter(events, data)  BY <2>1
    <2>3. hist' = Disturb(SetStale(hist), ts)  BY <1>5 DEF Receive
    <2>4. ASSUME NEW t \in Thread, hist.alone[t] /\ t \notin ts
          PROVE  psock[t].sendlen <= mss'
      <3>1. Sending(t) /\ psock[t].sendlen \in Nat
        BY <2>4 DEF Alone, Single, Types
      <3> QED  BY <1>1, <2>4, <3>1
    <2> HIDE DEF ts
    <2>5. Disturbed(ts)
      BY <1>2, <2>3, DisturbHist DEF Disturbed
    <2> QED  BY <1>1, <2>1, <2>2, <2>4, <2>5, EnterAlone
  <1>6. mss' = mss => \A t \in Thread : hist.alone[t] => psock[t].sendlen <= mss'
    BY <1>1 DEF Alone, Single
  <1>7. CASE Poll
    <2> DEFINE events == {"poll"}
    <2>1. /\ Enter(events, <<>>) /\ mss' = mss
          /\ len' = len /\ wire' = wire /\ got' = got
      BY <1>7 DEF Poll, uip
    <2>2. Disturbed({})  BY <1>3, <1>7 DEF Poll
    <2>3. "acked" \notin events  OBVIOUS
    <2> HIDE DEF events
    <2> QED  BY <1>1, <1>6, <2>1, <2>2, <2>3, EnterAlone
  <1>8. CASE Rexmit
    <2> DEFINE events == {"rexmit"}
    <2>1. /\ Enter(events, <<>>) /\ mss' = mss
          /\ len' = len /\ wire' = wire /\ got' = got
      BY <1>8 DEF Rexmit
    <2>2. Disturbed({})  BY <1>3, <1>8 DEF Rexmit
    <2>3. "acked" \notin events  OBVIOUS
    <2> HIDE DEF events
    <2> QED  BY <1>1, <1>6, <2>1, <2>2, <2>3, EnterAlone
  <1> QED  BY <1>4, <1>5, <1>7, <1>8


(* A step that does not touch what the sends depend on.                    *)
SameSends ==
  /\ at' = at /\ psock' = psock /\ messagebuffer' = messagebuffer
  /\ rcvd' = rcvd /\ sdata' = sdata /\ flags' = flags /\ hist' = hist
  /\ pc' = pc /\ len' = len /\ mss' = mss /\ wire' = wire /\ got' = got

LEMMA SameAlone ==
  ASSUME IrcInv, SameSends
  PROVE  /\ HistOK(hist') /\ Pure'
         /\ \A u \in Thread : Alone(u)'
  <1> USE DEF IrcInv
  <1>1. /\ at' = at /\ psock' = psock /\ messagebuffer' = messagebuffer
        /\ rcvd' = rcvd /\ sdata' = sdata /\ flags' = flags /\ hist' = hist
        /\ pc' = pc /\ len' = len /\ mss' = mss /\ wire' = wire /\ got' = got
    BY DEF SameSends
  <1>2. \A u \in Thread : Whole(u)' = Whole(u) /\ Sending(u)' = Sending(u)
    BY <1>1 DEF Whole, TextAt, Pieces, Sending
  <1>3. Pure'  BY <1>1, <1>2 DEF Pure
  <1>4. ASSUME NEW t \in Thread
        PROVE  Alone(t)'
    <2>1. Single(t) => Single(t)'
      BY <1>1, <1>2 DEF Single, Other, Thread
    <2>2. (Missing(t)' <=> Missing(t)) /\ (Received(t)' <=> Received(t))
      BY <1>1, <1>2 DEF Missing, Received
    <2>3. Ahead(t)' = Ahead(t) /\ Past(t)' = Past(t)
      BY <1>1 DEF Ahead, Past
    <2>4. Called(t) => Called(t)'  BY <1>1, <2>2 DEF Called
    <2>5. HandedOver(t) => HandedOver(t)'
      BY <1>1, <1>2, <2>2, <2>3 DEF HandedOver
    <2>6. UnderWay(t) => UnderWay(t)'  BY <1>1, <1>2, <2>2 DEF UnderWay
    <2>7. Acknowledged(t) => Acknowledged(t)'
      BY <1>1, <2>2, <2>3 DEF Acknowledged
    <2> QED  BY <1>1, <2>1, <2>4, <2>5, <2>6, <2>7 DEF Alone
  <1> QED  BY <1>1, <1>3, <1>4

(* The connection is lost, or the program left: no more is sent.           *)
LEMMA StopAlone ==
  ASSUME IrcInv, TimedOut \/ Closed \/ Exit
  PROVE  /\ HistOK(hist') /\ Pure'
         /\ \A u \in Thread : Alone(u)'
  <1>1. SameSends
    BY DEF TimedOut, Closed, Exit, SameSends, uip, call, message, network
  <1> QED  BY <1>1, SameAlone

(* What is appended is found behind what was there.                        *)
LEMMA Appended ==
  ASSUME NEW s \in Seq(Chunk), NEW w \in Seq(Chunk)
  PROVE  /\ Len(s \o w) = Len(s) + Len(w)
         /\ SubSeq(s \o w, 1, Len(s)) = s
         /\ SubSeq(s \o w, Len(s) + 1, Len(s) + Len(w)) = w
  <1>1. /\ s \o w \in Seq(Chunk) /\ Len(s \o w) = Len(s) + Len(w)
        /\ Len(s) \in Nat /\ Len(w) \in Nat
        /\ \A i \in 1 .. Len(s) : (s \o w)[i] = s[i]
        /\ \A i \in 1 .. Len(w) : (s \o w)[Len(s) + i] = w[i]
    OBVIOUS
  <1> DEFINE before == SubSeq(s \o w, 1, Len(s))
             behind == SubSeq(s \o w, Len(s) + 1, Len(s) + Len(w))
  <1>2. /\ before \in Seq(Chunk) /\ Len(before) = Len(s)
        /\ \A i \in 1 .. Len(s) : before[i] = s[i]
    BY <1>1
  <1>3. /\ behind \in Seq(Chunk) /\ Len(behind) = Len(w)
        /\ \A i \in 1 .. Len(w) : behind[i] = w[i]
    BY <1>1
  <1>4. before = s
    <2> HIDE DEF before
    <2> QED  BY <1>2, SeqEqual
  <1>5. behind = w
    <2> HIDE DEF behind
    <2> QED  BY <1>3, SeqEqual
  <1> QED  BY <1>1, <1>4, <1>5

(* The server takes the outstanding segment: of an undisturbed send every  *)
(* transmission is the whole text, so it does not matter which.            *)
LEMMA DeliverAlone ==
  ASSUME IrcInv, Types', Deliver
  PROVE  /\ HistOK(hist') /\ Pure'
         /\ \A u \in Thread : Alone(u)'
  <1> USE DEF IrcInv
  <1>1. /\ at' = at /\ psock' = psock /\ messagebuffer' = messagebuffer
        /\ sdata' = sdata /\ hist' = hist /\ len' = len /\ mss' = mss
        /\ wire' = wire /\ got' = TRUE /\ ~got /\ len > 0
    BY DEF Deliver, uip, message
  <1>2. PICK w \in wire : rcvd' = rcvd \o w  BY DEF Deliver
  <1>3. \A u \in Thread : Whole(u)' = Whole(u) /\ Sending(u)' = Sending(u)
    BY <1>1 DEF Whole, TextAt, Pieces, Sending
  <1>4. ASSUME NEW t \in Thread, hist.alone[t]
        PROVE  Single(t)' /\ UnderWay(t)' /\ (hist.pure => hist.sent = rcvd')
    <2>1. Single(t) /\ UnderWay(t)
      BY <1>1, <1>4 DEF Alone, Called, HandedOver, Acknowledged
    <2>2. Single(t)'  BY <1>1, <1>3, <2>1 DEF Single, Other, Thread
    <2>3. w = Whole(t) /\ Missing(t)  BY <1>1, <2>1 DEF UnderWay
    <2>4. /\ rcvd \in Seq(Chunk) /\ w \in Seq(Chunk)
          /\ Len(w) = psock[t].sendlen /\ Len(rcvd) = hist.from[t]
      BY <2>1, <2>3, WholeSeq DEF Types, Single, Sending, Missing
    <2>5. /\ Len(rcvd \o w) = Len(rcvd) + Len(w)
          /\ SubSeq(rcvd \o w, Len(rcvd) + 1, Len(rcvd) + Len(w)) = w
      BY <2>4, Appended
    <2>6. hist.pure => hist.sent = rcvd'  BY <1>2, <2>3 DEF Missing
    <2>7. Received(t)'
      BY <1>1, <1>2, <1>3, <2>3, <2>4, <2>5, <2>6 DEF Received
    <2> QED  BY <1>1, <1>3, <2>1, <2>2, <2>6, <2>7 DEF UnderWay
  <1>5. \A t \in Thread : Alone(t)'  BY <1>1, <1>4 DEF Alone
  <1>6. Pure'  BY <1>1, <1>3, <1>4 DEF Pure
  <1> QED  BY <1>1, <1>5, <1>6

(* The main loop writes a text into the buffer: it disturbs the send that  *)
(* points there, and no other.                                             *)
LEMMA MainAlone ==
  ASSUME IrcInv, Types', Quit \/ \E m \in Text : Submit(m)
  PROVE  /\ HistOK(hist') /\ Pure'
         /\ \A u \in Thread : Alone(u)'
  <1> USE DEF IrcInv
  <1>1. /\ at' = at /\ psock' = psock
        /\ rcvd' = rcvd /\ sdata' = sdata /\ flags' = flags
        /\ pc = "idle" /\ pc' = "idle" /\ len' = len /\ mss' = mss
        /\ wire' = wire /\ got' = got
    BY DEF Quit, Submit, uip, call, network
  <1>2. \/ hist' = Disturb(hist, Overwriting)
        \/ hist' = hist /\ messagebuffer' = messagebuffer
    BY DEF Quit, Submit, message
  <1>3. PICK ts \in {{}, Overwriting} :
          /\ Disturbed(ts)
          /\ ts = Overwriting \/ messagebuffer' = messagebuffer
    <2>1. CASE hist' = Disturb(hist, Overwriting)
      BY <2>1, DisturbHist DEF Disturbed
    <2>2. CASE hist' = hist /\ messagebuffer' = messagebuffer
      BY <2>2 DEF Disturbed
    <2> QED  BY <1>2, <2>1, <2>2
  <1>4. \A u \in Thread : Sending(u)' = Sending(u)  BY <1>1 DEF Sending
  <1>5. Pure'  BY <1>1, <1>3, <1>4, StaysPure
  <1>6. ASSUME NEW t \in Thread, hist'.alone[t]
        PROVE  Alone(t)'
    <2>1. hist.alone[t] /\ t \notin ts  BY <1>3, <1>6 DEF Disturbed
    <2>2. Single(t)  BY <2>1 DEF Alone
    <2>3. at[t] = "message" => messagebuffer' = messagebuffer
      BY <1>3, <2>1, <2>2 DEF Overwriting, Single
    <2>4. Untouched(t)  BY <1>1, <2>3 DEF Untouched, TextAt
    <2>5. /\ Whole(t)' = Whole(t)
          /\ Missing(t) => Missing(t)'
          /\ Received(t) => Received(t)'
      BY <1>3, <2>4, SameWhole
    <2>6. UnderWay(t)
      BY <1>1, <2>1 DEF Alone, Called, HandedOver, Past, Acknowledged, Ahead,
                        Thread
    <2>7. UnderWay(t)'  BY <1>1, <2>5, <2>6 DEF UnderWay
    <2>8. Other(t) \in Thread  BY DEF Other, Thread
    <2>9. ~Sending(Other(t))' /\ psock[t].sendlen <= mss' /\ mss' \in Nat
      BY <1>1, <1>4, <2>2, <2>8, SizesAreNat DEF Single, Types
    <2> QED  BY <1>3, <2>2, <2>4, <2>7, <2>9, StaysAlone
  <1> QED  BY <1>3, <1>5, <1>6 DEF Disturbed, Alone

-----------------------------------------------------------------------------
(* The invariant.                                                          *)

LEMMA InitIrc == Init => IrcInv
  <1> SUFFICES ASSUME Init PROVE IrcInv  OBVIOUS
  <1> USE DEF Init
  <1>1. Types
    <2>1. at \in [Thread -> Sends \cup {"read1", "read2", "loop"}]
      BY DEF Thread, Sends
    <2>2. psock \in [Thread -> [busy : BOOLEAN, state : State,
                                sendptr : Nat, sendlen : Nat]]
      BY DEF PsockInit, State
    <2>3. /\ at["irc"] \notin {"message", "crlf"}
          /\ at["out"] \in {"message", "crlf"}
      OBVIOUS
    <2>4. sdata \in Seq(Chunk) /\ rcvd \in Seq(Chunk) /\ wire \subseteq Seq(Chunk)
      OBVIOUS
    <2>5. messagebuffer \in Source /\ messagelength \in {0, Size}  BY DEF Source
    <2>6. /\ conn \in {"syn", "up", "down"} /\ mss \in Mss /\ len \in Nat
          /\ pc \in {"idle", "irc", "out", "return"} /\ got \in BOOLEAN
          /\ flags = {}
      OBVIOUS
    <2> HIDE DEF Init
    <2> QED  BY <2>1, <2>2, <2>3, <2>4, <2>5, <2>6 DEF Types
  <1>2. HistOK(hist)
    BY DEF HistOK, HistInit, Thread
  <1>3. Control
    BY DEF Control, Sending, PsockInit, Thread
  <1>4. \A t \in Thread : ~hist.alone[t] /\ ~Sending(t)
    BY DEF HistInit, Sending, PsockInit, Thread
  <1>5. Pure
    BY <1>4 DEF Pure, HistInit
  <1> QED  BY <1>1, <1>2, <1>3, <1>4, <1>5 DEF IrcInv, Alone

LEMMA NextIrc == IrcInv /\ [Next]_vars => IrcInv'
  <1> SUFFICES ASSUME IrcInv, [Next]_vars PROVE IrcInv'  OBVIOUS
  <1>1. CASE UNCHANGED vars
    <2>1. /\ SameSends /\ conn' = conn /\ messagelength' = messagelength
      BY <1>1 DEF vars, uip, call, message, network, SameSends
    <2>2. Types' /\ Control'
      BY <2>1 DEF IrcInv, SameSends, Types, Control, Sending
    <2> QED  BY <2>1, <2>2, SameAlone DEF IrcInv
  <1>2. CASE Next
    <2>1. Types'  BY <1>2, AppTypes, OtherTypes DEF IrcInv
    <2>2. Control'  BY <1>2, <2>1, ControlStep DEF IrcInv
    <2>3. /\ HistOK(hist') /\ Pure'
          /\ \A u \in Thread : Alone(u)'
      BY <1>2, <2>1, BeginAlone, WaitAlone, MoreAlone, EndAlone, ReadAlone,
         LineAlone, ReturnAlone, EventAlone, StopAlone, DeliverAlone, MainAlone
         DEF Next, AppStep, Timer
    <2> QED  BY <2>1, <2>2, <2>3 DEF IrcInv
  <1> QED  BY <1>1, <1>2

LEMMA InvariantIrc == Spec => []IrcInv
  BY InitIrc, NextIrc, PTL DEF Spec

-----------------------------------------------------------------------------
(* While no send was disturbed, the server has what the threads sent, once *)
(* and in the order of the calls, except perhaps the last text.            *)
THEOREM SentOnceInOrder == Spec => []Transcript
  <1>1. IrcInv => Transcript
    <2> SUFFICES ASSUME IrcInv, hist.pure
                 PROVE  /\ Len(rcvd) <= Len(hist.sent)
                        /\ rcvd = SubSeq(hist.sent, 1, Len(rcvd))
                        /\ (\A t \in Thread : ~Sending(t)) => rcvd = hist.sent
      BY DEF Transcript
    <2>1. rcvd \in Seq(Chunk) /\ hist.sent \in Seq(Chunk)
      BY DEF IrcInv, Types, HistOK
    <2>2. rcvd = hist.sent => /\ Len(rcvd) <= Len(hist.sent)
                              /\ rcvd = SubSeq(hist.sent, 1, Len(rcvd))
      BY <2>1
    <2>3. CASE \A t \in Thread : ~Sending(t)
      BY <2>2, <2>3 DEF IrcInv, Pure
    <2>4. ASSUME NEW t \in Thread, Sending(t)
          PROVE  /\ Len(rcvd) <= Len(hist.sent)
                 /\ rcvd = SubSeq(hist.sent, 1, Len(rcvd))
      <3>1. hist.alone[t]  BY <2>4 DEF IrcInv, Pure
      <3>2. Missing(t) \/ Received(t)
        BY <3>1 DEF IrcInv, Alone, Called, HandedOver, UnderWay, Acknowledged
      <3>3. CASE Received(t)  BY <2>2, <3>3 DEF Received
      <3>4. CASE Missing(t)
        <4>1. hist.sent = rcvd \o Whole(t)  BY <3>4 DEF Missing
        <4>2. Whole(t) \in Seq(Chunk)
          BY <2>4, WholeSeq DEF IrcInv, Sending
        <4> HIDE DEF Whole
        <4> QED  BY <2>1, <4>1, <4>2, Appended
      <3> QED  BY <3>2, <3>3, <3>4
    <2> QED  BY <2>3, <2>4
  <1> QED  BY <1>1, InvariantIrc, PTL

(* A psock_send that nothing disturbed returns only when the server has    *)
(* received the whole text since the call.                                 *)
THEOREM SentMeansReceived == Spec => SendMeansReceived
  <1>1. ASSUME IrcInv, [Next]_vars, NEW t \in Thread, Returns(t), hist.alone[t]
        PROVE  Arrived(TextSent(t), hist.from[t])
    <2>1. Single(t)  BY <1>1 DEF IrcInv, Alone
    <2>2. SendEnd(t)
      <3>1. at' # at  BY <1>1 DEF Returns
      <3>2. Next  BY <1>1, <3>1 DEF vars
      <3>3. \E u \in Thread : SendEnd(u) \/ (u = "irc" /\ ReadLine)
        BY <3>1, <3>2
           DEF Next, AppStep, Timer, SendBegin, SendWait, SendMore, ReadBegin,
               ReadWait, ReadData, ReadPart, Return, Poll, Rexmit, TimedOut,
               Connected, Receive, Closed, Deliver, Submit, Quit, Exit, Enter,
               Thread
      <3>4. PICK u \in Thread : SendEnd(u) \/ (u = "irc" /\ ReadLine)
        BY <3>3
      <3>5. \A v \in Thread : v # u => at'[v] = at[v]
        BY <1>1, <3>4 DEF SendEnd, ReadLine, IrcInv, Types, Thread
      <3>6. u = t  BY <1>1, <3>5 DEF Returns
      <3> QED  BY <1>1, <3>4, <3>6 DEF Returns, ReadLine, Reading
    <2>3. Acknowledged(t)  BY <1>1, <2>2, AckedHere DEF SendEnd
    <2>4. /\ psock[t].sendptr = 0 /\ psock[t].sendlen \in Nat
          /\ hist.from[t] \in Nat
      BY <1>1, <2>1 DEF Single, IrcInv, Types, HistOK
    <2>5. TextSent(t) = Whole(t)
      BY <2>4 DEF TextSent, Whole
    <2>6. Len(Whole(t)) = psock[t].sendlen
      BY <1>1, WholeSeq DEF IrcInv, Returns
    <2> HIDE DEF Whole, TextSent
    <2> DEFINE i == hist.from[t]
    <2>7. /\ Len(rcvd) = i + psock[t].sendlen
          /\ SubSeq(rcvd, i + 1, i + psock[t].sendlen) = Whole(t)
      BY <2>3 DEF Acknowledged, Received
    <2>8. i \in i..Len(rcvd)  BY <2>4, <2>7
    <2>9. i + Len(Whole(t)) <= Len(rcvd)  BY <2>4, <2>6, <2>7
    <2> QED  BY <2>5, <2>6, <2>7, <2>8, <2>9 DEF Arrived
  <1>2. IrcInv /\ [Next]_vars =>
          \A t \in Thread : Returns(t) /\ hist.alone[t] =>
            Arrived(TextSent(t), hist.from[t])
    BY <1>1
  <1> QED  BY <1>2, InvariantIrc, PTL DEF Spec, SendMeansReceived

-----------------------------------------------------------------------------
(* The newlines between two places, and the lines they end.                *)
NlsIn(from, to) == {i \in from + 1 .. to : Stream[i].nl}

LEMMA EndsAre ==
  ASSUME NEW a \in Nat, NEW b \in Nat
  PROVE  /\ IsFiniteSet(NlsIn(a, b)) /\ EndsIn(a, b) \in Nat
         /\ EndsIn(a, b) = Cardinality(NlsIn(a, b))
         /\ NlsIn(a, b) = {} <=> EndsIn(a, b) = 0
  <1>1. IsFiniteSet(a + 1 .. b)  BY FS_Interval
  <1>2. NlsIn(a, b) \in SUBSET (a + 1 .. b)  BY DEF NlsIn
  <1>3. IsFiniteSet(NlsIn(a, b))  BY <1>1, <1>2, FS_Subset
  <1>4. EndsIn(a, b) = Cardinality(NlsIn(a, b))  BY DEF EndsIn, NlsIn
  <1>5. EndsIn(a, b) \in Nat  BY <1>3, <1>4, FS_CardinalityType
  <1>6. NlsIn(a, b) = {} <=> EndsIn(a, b) = 0  BY <1>3, <1>4, FS_EmptySet
  <1> QED  BY <1>3, <1>4, <1>5, <1>6

LEMMA EndsSplit ==
  ASSUME NEW a \in Nat, NEW b \in Nat, NEW c \in Nat, a <= b, b <= c
  PROVE  EndsIn(a, c) = EndsIn(a, b) + EndsIn(b, c)
  <1>1. NlsIn(a, c) = NlsIn(a, b) \cup NlsIn(b, c)  BY DEF NlsIn
  <1>2. NlsIn(a, b) \cap NlsIn(b, c) = {}  BY DEF NlsIn
  <1>3. /\ IsFiniteSet(NlsIn(a, b)) /\ IsFiniteSet(NlsIn(b, c))
        /\ EndsIn(a, b) = Cardinality(NlsIn(a, b)) /\ EndsIn(a, b) \in Nat
        /\ EndsIn(b, c) = Cardinality(NlsIn(b, c)) /\ EndsIn(b, c) \in Nat
        /\ EndsIn(a, c) = Cardinality(NlsIn(a, c))
    BY EndsAre
  <1>4. Cardinality(NlsIn(a, b) \cup NlsIn(b, c)) =
          Cardinality(NlsIn(a, b)) + Cardinality(NlsIn(b, c)) - Cardinality({})
    BY <1>2, <1>3, FS_Union
  <1>5. Cardinality({}) = 0  BY FS_EmptySet
  <1> QED  BY <1>1, <1>3, <1>4, <1>5

LEMMA EndsOne ==
  ASSUME NEW a \in Nat, NEW b \in Nat, a < b, Stream[b].nl,
         \A i \in a + 1 .. b - 1 : ~Stream[i].nl
  PROVE  EndsIn(a, b) = 1
  <1>1. NlsIn(a, b) = {b}
    <2>1. b \in NlsIn(a, b)  BY DEF NlsIn
    <2>2. ASSUME NEW i \in NlsIn(a, b) PROVE i = b
      <3>1. i \in a + 1 .. b /\ Stream[i].nl  BY DEF NlsIn
      <3>2. i \notin a + 1 .. b - 1  BY <3>1
      <3> QED  BY <3>1, <3>2
    <2> QED  BY <2>1, <2>2
  <1> QED  BY <1>1, EndsAre, FS_Singleton

LEMMA EndsSome ==
  ASSUME NEW a \in Nat, NEW b \in Nat, NEW i \in a + 1 .. b, Stream[i].nl
  PROVE  EndsIn(a, b) > 0
  <1>1. i \in NlsIn(a, b)  BY DEF NlsIn
  <1>2. NlsIn(a, b) # {}  BY <1>1
  <1> QED  BY <1>2, EndsAre

LEMMA EndsNone ==
  ASSUME NEW a \in Nat, NEW b \in Nat, \A i \in a + 1 .. b : ~Stream[i].nl
  PROVE  EndsIn(a, b) = 0
  <1>1. NlsIn(a, b) = {}  BY DEF NlsIn
  <1> QED  BY <1>1, EndsAre

LEMMA StreamType ==
  /\ Len(Stream) \in Nat /\ DOMAIN Stream = 1 .. Len(Stream)
  /\ \A i \in 1 .. Len(Stream) : Stream[i] \in Piece
  BY StreamIsLines

(* A line begins at the start of the stream or after a newline.            *)
IsStart(l) == l \in 0 .. Len(Stream) /\ (l # 0 => Stream[l].nl)

(* From such a place to the next newline is a line.                        *)
LEMMA LineIs ==
  ASSUME NEW l \in Nat, IsStart(l), NEW q \in l + 1 .. Len(Stream), Stream[q].nl,
         \A i \in l + 1 .. q - 1 : ~Stream[i].nl
  PROVE  /\ LineLen(EndsIn(0, l) + 1) = q - l
         /\ Stream[l + 1].line = EndsIn(0, l) + 1
  <1>1. PICK e \in Nat : e = EndsIn(0, l)  BY EndsAre
  <1>2. \A i \in 1 .. Len(Stream) : Stream[i].line = 1 + EndsIn(0, i - 1)
    BY LinesNumbered, StreamType
  <1>3. q \in Nat /\ q <= Len(Stream) /\ Len(Stream) \in Nat
    BY StreamType
  <1>4. ASSUME NEW i \in 1 .. Len(Stream)
        PROVE  Stream[i].line = e + 1 <=> i \in l + 1 .. q
    <2>1. i \in Nat /\ i - 1 \in Nat  BY <1>3
    <2>2. Stream[i].line = 1 + EndsIn(0, i - 1) /\ EndsIn(0, i - 1) \in Nat
      BY <1>2, <2>1, EndsAre
    <2>3. CASE i <= l
      <3>1. EndsIn(0, l) = EndsIn(0, i - 1) + EndsIn(i - 1, l)
        BY <2>1, <2>3, EndsSplit
      <3>2. Stream[l].nl /\ l \in (i - 1) + 1 .. l
        BY <2>1, <2>3 DEF IsStart
      <3>3. EndsIn(i - 1, l) > 0 /\ EndsIn(i - 1, l) \in Nat
        BY <2>1, <3>2, EndsSome, EndsAre
      <3> QED  BY <1>1, <2>2, <2>3, <3>1, <3>3
    <2>4. CASE i \in l + 1 .. q
      <3>1. EndsIn(0, i - 1) = EndsIn(0, l) + EndsIn(l, i - 1)
        BY <2>1, <2>4, EndsSplit
      <3>2. \A j \in l + 1 .. i - 1 : ~Stream[j].nl  BY <1>3, <2>1, <2>4
      <3>3. EndsIn(l, i - 1) = 0  BY <2>1, <3>2, EndsNone
      <3> QED  BY <1>1, <2>2, <2>4, <3>1, <3>3
    <2>5. CASE i > q
      <3>1. EndsIn(0, i - 1) = EndsIn(0, l) + EndsIn(l, i - 1)
        BY <1>3, <2>1, <2>5, EndsSplit
      <3>2. q \in l + 1 .. i - 1  BY <1>3, <2>1, <2>5
      <3>3. EndsIn(l, i - 1) > 0 /\ EndsIn(l, i - 1) \in Nat
        BY <2>1, <3>2, EndsSome, EndsAre
      <3> QED  BY <1>1, <1>3, <2>2, <2>5, <3>1, <3>3
    <2> QED  BY <1>3, <2>1, <2>3, <2>4, <2>5
  <1>5. {i \in DOMAIN Stream : Stream[i].line = e + 1} = l + 1 .. q
    BY <1>3, <1>4, StreamType
  <1>6. Cardinality(l + 1 .. q) = q - l
    <2>1. l + 1 \in Int /\ q \in Int /\ ~(l + 1 > q)  BY <1>3
    <2>2. Cardinality(l + 1 .. q) = q - (l + 1) + 1  BY <2>1, FS_Interval
    <2> QED  BY <1>3, <2>2
  <1>7. LineLen(e + 1) = q - l  BY <1>5, <1>6 DEF LineLen
  <1>8. Stream[l + 1].line = e + 1
    BY <1>3, <1>4
  <1> QED  BY <1>1, <1>7, <1>8

(* What irc_parse_line is given of the lines between two places.           *)
Lines(from, to) ==
  [j \in 1 .. EndsIn(from, to) |->
     <<EndsIn(0, from) + j, Least(LineLen(EndsIn(0, from) + j), BufSize)>>]

LEMMA LinesNone ==
  ASSUME NEW a \in Nat
  PROVE  Lines(a, a) = <<>>
  <1>1. EndsIn(a, a) = 0  BY EndsNone
  <1> QED  BY <1>1 DEF Lines

(* One line more.                                                          *)
LEMMA LinesMore ==
  ASSUME NEW a \in Nat, NEW l \in Nat, a <= l, IsStart(l),
         NEW q \in l + 1 .. Len(Stream), Stream[q].nl,
         \A i \in l + 1 .. q - 1 : ~Stream[i].nl
  PROVE  Lines(a, q) = Append(Lines(a, l),
                              <<Stream[l + 1].line, Least(q - l, BufSize)>>)
  <1>0. q \in Nat /\ l < q  BY StreamType
  <1>1. PICK e \in Nat, n \in Nat : e = EndsIn(0, a) /\ n = EndsIn(a, l)
    BY EndsAre
  <1>2. EndsIn(0, l) = e + n  BY <1>1, EndsSplit
  <1>3. EndsIn(a, q) = n + 1
    <2>1. EndsIn(l, q) = 1  BY <1>0, EndsOne
    <2>2. EndsIn(a, q) = EndsIn(a, l) + EndsIn(l, q)  BY <1>0, EndsSplit
    <2> QED  BY <1>1, <2>1, <2>2
  <1>4. LineLen(e + n + 1) = q - l /\ Stream[l + 1].line = e + n + 1
    BY <1>2, LineIs
  <1> DEFINE f(j) == <<e + j, Least(LineLen(e + j), BufSize)>>
  <1>5. Lines(a, l) = [j \in 1 .. n |-> f(j)] /\ Lines(a, q) = [j \in 1 .. n + 1 |-> f(j)]
    BY <1>1, <1>3 DEF Lines
  <1>6. f(n + 1) = <<Stream[l + 1].line, Least(q - l, BufSize)>>
    BY <1>4
  <1> HIDE DEF f
  <1>7. [j \in 1 .. n + 1 |-> f(j)] = Append([j \in 1 .. n |-> f(j)], f(n + 1))
    OBVIOUS
  <1> QED  BY <1>5, <1>6, <1>7

-----------------------------------------------------------------------------
(* Where the parser is in the stream.                                      *)

(* s is the k pieces of the stream after l.                                *)
Part(s, l, k) ==
  s \in Seq(Piece) /\ Len(s) = k /\ \A i \in 1 .. k : s[i] = Stream[l + i]

IsSuffix(s, n) == Len(s) <= n /\ Part(s, n - Len(s), Len(s))

(* Data of this packet that irc_thread has not taken yet, and what it has  *)
(* given to buf_bufto so far.                                              *)
Pending == IF pc = "irc" /\ "newdata" \in flags /\ psock["irc"].state # "READ"
           THEN Len(seg) ELSE 0
Taken == next - Len(unread) - Pending

(* Where data may lie unread: it was read in this call, or the login left  *)
(* it when it went on to send.                                             *)
Leftover ==
  unread # <<>> =>
    \/ at["irc"] \notin Sends /\ pc = "irc" /\ psock["irc"].state = "READ"
    \/ at["irc"] \in Sends /\ (pc = "irc" => psock["irc"].state # "DATA_SENT")

(* The lines up to l are parsed, and the rest up to n is in the buffer, as *)
(* far as it fits.                                                         *)
ParsedTo(h, l, n, busy, buf) ==
  /\ h.begin \in Nat /\ h.begin <= l /\ l <= n /\ IsStart(l)
  /\ h.parsed = Lines(h.begin, l)
  /\ \A i \in l + 1 .. n : ~Stream[i].nl
  /\ IF busy THEN Part(buf, l, Least(n - l, BufSize)) ELSE l = n

InLoop == \E l \in Nat : ParsedTo(hist, l, Taken, psock["irc"].busy, inbuf)

Packet ==
  /\ next \in 0 .. Len(Stream) /\ IsSuffix(seg, next)
  /\ pc = "idle" => seg = <<>>
  /\ at["irc"] \notin Sends /\ pc # "irc" => psock["irc"].state # "READ"

Unread ==
  ~hist.stale =>
    /\ IsSuffix(unread, next) /\ Leftover
    /\ at["irc"] # "loop" => hist.parsed = <<>>
    /\ at["irc"] = "loop" => InLoop

ParseInv == Packet /\ Unread

(* The b elements of a sequence after the a-th.                            *)
LEMMA Portion ==
  ASSUME NEW S, NEW s \in Seq(S), NEW a \in Nat, NEW b \in Nat,
         a + b <= Len(s)
  PROVE  /\ SubSeq(s, a + 1, a + b) \in Seq(S)
         /\ Len(SubSeq(s, a + 1, a + b)) = b
         /\ \A i \in 1 .. b : SubSeq(s, a + 1, a + b)[i] = s[a + i]
  <1>1. \A i \in a + 1 .. a + b : s[i] \in S  OBVIOUS
  <1>2. /\ SubSeq(s, a + 1, a + b) \in Seq(S)
        /\ Len(SubSeq(s, a + 1, a + b)) =
             IF a + 1 <= a + b THEN a + b - (a + 1) + 1 ELSE 0
        /\ \A i \in 1 .. a + b - (a + 1) + 1 :
             SubSeq(s, a + 1, a + b)[i] = s[a + 1 + i - 1]
    BY <1>1, SubSeqProperties
  <1>3. a + b - (a + 1) + 1 = b /\ (a + 1 <= a + b <=> b # 0)  OBVIOUS
  <1>4. \A i \in 1 .. b : a + 1 + i - 1 = a + i  OBVIOUS
  <1> QED  BY <1>2, <1>3, <1>4

(* A step that reads nothing.                                              *)
LEMMA ParseSame ==
  ASSUME ParseInv, Packet', SameParsed(hist', hist),
         next' = next, unread' = unread,
         at["irc"] = "loop" <=> at'["irc"] = "loop",
         at["irc"] = "loop" => /\ inbuf' = inbuf /\ Pending' = Pending
                               /\ psock'["irc"].busy = psock["irc"].busy,
         ~hist.stale => Leftover'
  PROVE  ParseInv'
  <1>1. SUFFICES ASSUME ~hist.stale PROVE Unread'
    BY DEF ParseInv, SameParsed, Unread
  <1>2. /\ IsSuffix(unread, next)
        /\ at["irc"] # "loop" => hist.parsed = <<>>
        /\ at["irc"] = "loop" => InLoop
    BY <1>1 DEF ParseInv, Unread
  <1>3. IsSuffix(unread', next') /\ Leftover'
    BY <1>1, <1>2
  <1>4. at'["irc"] # "loop" => hist'.parsed = <<>>
    BY <1>2 DEF SameParsed
  <1>5. ASSUME at'["irc"] = "loop" PROVE InLoop'
    <2>1. PICK l \in Nat : ParsedTo(hist, l, Taken, psock["irc"].busy, inbuf)
      BY <1>2, <1>5 DEF InLoop
    <2>2. Taken' = Taken  BY <1>5 DEF Taken
    <2>3. ParsedTo(hist', l, Taken', psock'["irc"].busy, inbuf')
      BY <1>5, <2>1, <2>2 DEF ParsedTo, SameParsed
    <2> QED  BY <2>3 DEF InLoop
  <1> QED  BY <1>3, <1>4, <1>5 DEF Unread

LEMMA ParseSend ==
  ASSUME Types, HistOK(hist), ParseInv, NEW t \in Thread,
         SendBegin(t) \/ SendWait(t) \/ SendMore(t) \/ SendEnd(t)
  PROVE  ParseInv'
  <1>1. SameParsed(hist', hist)
    <2>1. SendWait(t) \/ SendMore(t) => hist' = hist
      BY DEF SendWait, SendMore
    <2> QED  BY <2>1, BeginHist, EndHist DEF SameParsed
  <1>2. /\ UNCHANGED <<next, unread, inbuf, flags, seg>> /\ pc = t
        /\ pc' \in {pc, "out", "return"} /\ at[t] \in Sends
        /\ at' = at \/ (SendEnd(t) /\ at' = [at EXCEPT ![t] = After(@)])
    BY DEF SendBegin, SendWait, SendMore, SendEnd, Acked, Sending, reading,
           network, call
  <1>3. CASE t = "out"
    <2>1. at'["irc"] = at["irc"] /\ psock'["irc"] = psock["irc"]
      BY <1>2, <1>3 DEF SendBegin, SendWait, SendMore, SendEnd, Types, Thread
    <2>2. pc' # "irc" /\ pc' # "idle" /\ pc = "out"
      BY <1>2, <1>3
    <2>3. Packet'  BY <1>2, <2>1, <2>2 DEF ParseInv, Packet
    <2>4. Pending' = Pending  BY <2>2 DEF Pending
    <2>5. ~hist.stale => Leftover'
      BY <1>2, <2>1, <2>2 DEF ParseInv, Unread, Leftover
    <2> QED  BY <1>1, <1>2, <2>1, <2>3, <2>4, <2>5, ParseSame
  <1>4. CASE t = "irc"
    <2>1. at["irc"] \in {"nick", "user", "join"}
      BY <1>2, <1>4 DEF Types, Sends
    <2>2. at'["irc"] \in {"nick", "user", "join", "read1", "read2"}
      BY <1>2, <1>4, <2>1 DEF After, Types, Thread
    <2>3. pc' # "idle" /\ pc = "irc"  BY <1>2, <1>4
    <2>4. SendEnd("irc") => pc' = "irc" /\ psock["irc"].state = "DATA_SENT"
      BY <1>4, <2>1, <2>3 DEF SendEnd, Acked
    <2>5. at'["irc"] \notin Sends => SendEnd("irc")
      BY <1>2, <1>4, <2>1
    <2>6. Packet'
      BY <1>2, <2>3, <2>4, <2>5 DEF ParseInv, Packet
    <2>7. ASSUME ~hist.stale PROVE Leftover'
      <3>1. CASE SendBegin("irc")
        <4>1. at' = at /\ psock'["irc"].state = "NONE"
          BY <3>1 DEF SendBegin, Types, Thread
        <4> QED  BY <1>2, <1>4, <4>1 DEF Leftover
      <3>2. CASE SendWait("irc")
        <4>1. at' = at /\ pc' # "irc"  BY <3>2 DEF SendWait
        <4> QED  BY <1>2, <1>4, <4>1 DEF Leftover
      <3>3. CASE SendMore("irc") \/ SendEnd("irc")
        <4>1. psock["irc"].state = "DATA_SENT"
          BY <3>3 DEF SendMore, SendEnd, Acked
        <4>2. unread = <<>>
          BY <1>2, <1>4, <2>3, <2>7, <4>1 DEF ParseInv, Unread, Leftover
        <4> QED  BY <1>2, <4>2 DEF Leftover
      <3> QED  BY <1>4, <3>1, <3>2, <3>3
    <2>8. at["irc"] # "loop" /\ at'["irc"] # "loop"
      BY <2>1, <2>2
    <2> QED  BY <1>1, <1>2, <2>6, <2>7, <2>8, ParseSame
  <1> QED  BY <1>3, <1>4 DEF Thread

(* What buf_bufto adds to the buffer follows what is there in the stream.  *)
LEMMA KeptIs ==
  ASSUME NEW l \in Nat, NEW k \in Nat, Part(inbuf, l, Least(k, BufSize)),
         NEW m \in Nat, Part(unread, l + k, m), NEW n \in 0 .. m
  PROVE  Part(Kept(n), l, Least(k + n, BufSize))
  <1> DEFINE u == SubSeq(unread, 1, n)
             s == inbuf \o u
             b == Least(k, BufSize)
             c == Least(k + n, BufSize)
  <1>0. BufSize \in Nat /\ n \in Nat /\ n <= m  BY SizesAreNat
  <1>1. /\ inbuf \in Seq(Piece) /\ Len(inbuf) = b
        /\ \A i \in 1 .. b : inbuf[i] = Stream[l + i]
    BY DEF Part
  <1>2. /\ unread \in Seq(Piece) /\ Len(unread) = m
        /\ \A i \in 1 .. m : unread[i] = Stream[l + k + i]
    BY DEF Part
  <1>3. /\ u \in Seq(Piece) /\ Len(u) = n
        /\ \A i \in 1 .. n : u[i] = Stream[l + k + i]
    <2>1. \A i \in 1 .. n : unread[i] \in Piece  BY <1>0, <1>2
    <2>2. /\ u \in Seq(Piece) /\ Len(u) = IF 1 <= n THEN n - 1 + 1 ELSE 0
          /\ \A i \in 1 .. n - 1 + 1 : u[i] = unread[1 + i - 1]
      BY <1>0, <2>1, SubSeqProperties
    <2>3. \A i \in 1 .. n : u[i] = unread[i]  BY <1>0, <2>2
    <2> QED  BY <1>0, <1>2, <2>2, <2>3
  <1> HIDE DEF u
  <1>4. /\ s \in Seq(Piece) /\ Len(s) = b + n
        /\ \A i \in 1 .. b + n : s[i] = IF i <= b THEN inbuf[i] ELSE u[i - b]
    <2>1. /\ s \in Seq(Piece) /\ Len(s) = Len(inbuf) + Len(u)
          /\ \A i \in 1 .. Len(inbuf) + Len(u) :
               s[i] = IF i <= Len(inbuf) THEN inbuf[i] ELSE u[i - Len(inbuf)]
      BY <1>1, <1>3, ConcatProperties
    <2> HIDE DEF s, b
    <2> QED  BY <1>1, <1>3, <2>1
  <1>5. /\ b \in Nat /\ c \in Nat /\ c <= b + n /\ Least(BufSize, b + n) = c
        /\ c > b => b = k
    BY <1>0 DEF Least
  <1>6. Kept(n) = SubSeq(s, 1, c)
    BY <1>1, <1>5 DEF Kept, u
  <1> HIDE DEF s, b, c
  <1>7. \A i \in 1 .. c : s[i] = Stream[l + i]
    <2> SUFFICES ASSUME NEW i \in 1 .. c PROVE s[i] = Stream[l + i]
      OBVIOUS
    <2>0. i \in Nat /\ i <= c /\ i >= 1  BY <1>5
    <2>1. CASE i <= b
      <3>1. s[i] = inbuf[i]  BY <1>0, <1>4, <1>5, <2>0, <2>1
      <3> QED  BY <1>1, <1>5, <2>0, <2>1, <3>1
    <2>2. CASE ~(i <= b)
      <3>1. b = k /\ i - k \in 1 .. n  BY <1>0, <1>5, <2>0, <2>2
      <3>2. s[i] = u[i - k]  BY <1>0, <1>4, <1>5, <2>0, <2>2, <3>1
      <3>3. u[i - k] = Stream[l + k + (i - k)]  BY <1>3, <3>1
      <3>4. l + k + (i - k) = l + i  BY <2>0
      <3> QED  BY <3>2, <3>3, <3>4
    <2> QED  BY <2>1, <2>2
  <1>8. /\ Kept(n) \in Seq(Piece) /\ Len(Kept(n)) = c
        /\ \A i \in 1 .. c : Kept(n)[i] = s[i]
    <2>1. \A i \in 1 .. c : s[i] \in Piece  BY <1>0, <1>4, <1>5
    <2>2. /\ SubSeq(s, 1, c) \in Seq(Piece)
          /\ Len(SubSeq(s, 1, c)) = IF 1 <= c THEN c - 1 + 1 ELSE 0
          /\ \A i \in 1 .. c - 1 + 1 : SubSeq(s, 1, c)[i] = s[1 + i - 1]
      BY <1>5, <2>1, SubSeqProperties
    <2>3. \A i \in 1 .. c : SubSeq(s, 1, c)[i] = s[i]  BY <1>5, <2>2
    <2> QED  BY <1>5, <1>6, <2>2, <2>3
  <1> QED  BY <1>7, <1>8 DEF Part, c

LEMMA ParseBegin ==
  ASSUME Types, ParseInv, ReadBegin
  PROVE  ParseInv'
  <1>1. /\ UNCHANGED <<next, unread, flags, seg, pc, at, hist>> /\ inbuf' = <<>>
        /\ pc = "irc" /\ at["irc"] \notin Sends /\ ~psock["irc"].busy
        /\ psock'["irc"].busy = TRUE /\ psock'["irc"].state = psock["irc"].state
    BY DEF ReadBegin, call, network, Types, Thread
  <1>2. Packet' /\ Pending' = Pending
    BY <1>1 DEF ParseInv, Packet, Pending
  <1>3. ASSUME ~hist.stale PROVE Unread'
    <2>1. Leftover'  BY <1>1, <1>3 DEF ParseInv, Unread, Leftover
    <2>2. ASSUME at["irc"] = "loop" PROVE InLoop'
      <3>1. PICK l \in Nat : ParsedTo(hist, l, Taken, FALSE, inbuf)
        BY <1>1, <1>3, <2>2 DEF ParseInv, Unread, InLoop, Types, Thread
      <3>2. Taken' = Taken /\ l = Taken
        BY <1>1, <1>2, <3>1 DEF Taken, ParsedTo
      <3>3. Part(<<>>, l, Least(l - l, BufSize))
        BY SizesAreNat DEF Part, Least
      <3>4. ParsedTo(hist', l, Taken', TRUE, <<>>)
        BY <1>1, <3>1, <3>2, <3>3 DEF ParsedTo
      <3> QED  BY <1>1, <3>4 DEF InLoop
    <2> QED  BY <1>1, <1>3, <2>1, <2>2 DEF ParseInv, Unread
  <1> QED  BY <1>1, <1>2, <1>3 DEF ParseInv, Unread

LEMMA ParseWait ==
  ASSUME Types, ParseInv, ReadWait
  PROVE  ParseInv'
  <1>1. /\ UNCHANGED <<next, unread, inbuf, flags, seg, at, hist>> /\ unread = <<>>
        /\ pc' \in {"out", "return"}
        /\ psock["irc"].state = "READ" \/ "newdata" \notin flags
        /\ psock'["irc"].busy = psock["irc"].busy
        /\ psock'["irc"].state # "READ"
    BY DEF ReadWait, call, network, reading, Types, Thread
  <1>2. Packet'  BY <1>1 DEF ParseInv, Packet
  <1>3. Pending' = Pending  BY <1>1 DEF Pending
  <1>4. Leftover'  BY <1>1 DEF Leftover
  <1> QED  BY <1>1, <1>2, <1>3, <1>4, ParseSame DEF SameParsed

LEMMA ParseData ==
  ASSUME Types, ParseInv, ReadData
  PROVE  ParseInv'
  <1>1. /\ UNCHANGED <<next, inbuf, flags, seg, pc, at, hist>> /\ unread = <<>>
        /\ unread' = seg /\ pc = "irc" /\ at["irc"] \notin Sends
        /\ psock["irc"].state # "READ" /\ "newdata" \in flags
        /\ psock'["irc"].busy = psock["irc"].busy
        /\ psock'["irc"].state = "READ"
    BY DEF ReadData, Reading, call, network, Types, Thread
  <1>2. Packet'  BY <1>1 DEF ParseInv, Packet
  <1>3. Pending = Len(seg) /\ Pending' = 0  BY <1>1 DEF Pending
  <1>4. Taken' = Taken
    <2>1. Len(unread) = 0 /\ Len(seg) \in Nat /\ next \in Nat
      BY <1>1, StreamType DEF ParseInv, Packet, IsSuffix, Part
    <2> QED  BY <1>1, <1>3, <2>1 DEF Taken
  <1>5. ASSUME ~hist.stale PROVE Unread'
    <2>1. IsSuffix(unread', next') /\ Leftover'
      BY <1>1 DEF ParseInv, Packet, Leftover
    <2>2. ASSUME at["irc"] = "loop" PROVE InLoop'
      BY <1>1, <1>4, <1>5, <2>2 DEF ParseInv, Unread, InLoop
    <2> QED  BY <1>1, <1>5, <2>1, <2>2 DEF ParseInv, Unread
  <1> QED  BY <1>1, <1>2, <1>5 DEF ParseInv, Unread

LEMMA ParsePart ==
  ASSUME Types, ParseInv, ReadPart
  PROVE  ParseInv'
  <1>1. /\ UNCHANGED <<next, flags, seg, pc, at, psock, hist>> /\ unread # <<>>
        /\ unread' = <<>> /\ inbuf' = Kept(Len(unread))
        /\ pc = "irc" /\ at["irc"] \notin Sends /\ psock["irc"].busy
        /\ Newlines = {}
    BY DEF ReadPart, Reading, call, network
  <1>2. Packet'  BY <1>1 DEF ParseInv, Packet
  <1>3. ASSUME ~hist.stale PROVE Unread'
    <2>1. psock["irc"].state = "READ"
      BY <1>1, <1>3 DEF ParseInv, Unread, Leftover
    <2>2. Pending = 0 /\ Pending' = 0  BY <1>1, <2>1 DEF Pending
    <2>3. PICK m \in Nat : m = Len(unread) /\ m <= next /\ Part(unread, next - m, m)
      BY <1>3 DEF ParseInv, Unread, IsSuffix, Part
    <2>4. next \in Nat /\ Taken = next - m /\ Taken' = next
      BY <1>1, <2>2, <2>3, StreamType DEF Taken, ParseInv, Packet
    <2>5. IsSuffix(unread', next')
      BY <1>1, <2>4 DEF IsSuffix, Part
    <2>6. ASSUME at["irc"] = "loop" PROVE InLoop'
      <3>1. PICK l \in Nat : ParsedTo(hist, l, next - m, TRUE, inbuf)
        BY <1>1, <1>3, <2>4, <2>6 DEF ParseInv, Unread, InLoop, Types, Thread
      <3>2. PICK k \in Nat : k = next - m - l /\ next - m = l + k
        <4>1. l <= next - m  BY <3>1 DEF ParsedTo
        <4>2. next - m - l \in Nat /\ next - m = l + (next - m - l)
          BY <2>3, <2>4, <4>1
        <4> QED  BY <4>2
      <3>3. Part(Kept(m), l, Least(k + m, BufSize))
        <4>1. Part(inbuf, l, Least(k, BufSize))  BY <3>1, <3>2 DEF ParsedTo
        <4>2. Part(unread, l + k, m)  BY <2>3, <3>2
        <4>3. m \in 0 .. m  OBVIOUS
        <4> QED  BY <4>1, <4>2, <4>3, KeptIs
      <3>4. \A i \in l + 1 .. next : ~Stream[i].nl
        <4> SUFFICES ASSUME NEW i \in l + 1 .. next PROVE ~Stream[i].nl
          OBVIOUS
        <4>1. CASE i <= next - m
          BY <2>3, <2>4, <3>1, <4>1 DEF ParsedTo
        <4>2. CASE ~(i <= next - m)
          <5>1. i - (next - m) \in 1 .. m /\ (next - m) + (i - (next - m)) = i
            BY <2>3, <2>4, <4>2
          <5>2. unread[i - (next - m)] = Stream[i]
            BY <2>3, <5>1 DEF Part
          <5>3. DOMAIN unread = 1 .. m  BY <2>3 DEF Part
          <5> QED  BY <1>1, <5>1, <5>2, <5>3 DEF Newlines
        <4> QED  BY <4>1, <4>2
      <3>5. next - l = k + m /\ l <= next  BY <2>3, <2>4, <3>2
      <3>6. ParsedTo(hist', l, next, TRUE, Kept(m))
        BY <1>1, <3>1, <3>3, <3>4, <3>5 DEF ParsedTo
      <3> QED  BY <1>1, <2>3, <2>4, <3>6 DEF InLoop
    <2> QED  BY <1>1, <1>3, <2>5, <2>6 DEF ParseInv, Unread, Leftover
  <1> QED  BY <1>1, <1>2, <1>3 DEF ParseInv, Unread

(* The first newline.                                                      *)
LEMMA LeastOf ==
  ASSUME NEW T \in SUBSET Nat, T # {}
  PROVE  \E m \in T : \A k \in T : m <= k
  <1> DEFINE R == {p \in Nat \X Nat : p[1] < p[2]}
  <1>1. IsWellFoundedOn(R, Nat)
    <2>1. OpToRel(<, Nat) = R  BY Zenon DEF OpToRel
    <2> QED  BY <2>1, NatLessThanWellFounded
  <1>2. \E x \in T : \A y \in T : ~ (<<y, x>> \in R)
    <2> HIDE DEF R
    <2> QED  BY <1>1, WFMin
  <1>3. PICK x \in T : \A y \in T : ~ (<<y, x>> \in R)
    BY <1>2
  <1>4. ASSUME NEW y \in T PROVE x <= y
    <2>1. x \in Nat /\ y \in Nat  OBVIOUS
    <2>2. y < x => <<y, x>> \in R  BY <2>1
    <2> HIDE DEF R
    <2> QED  BY <1>3, <2>1, <2>2
  <1> QED  BY <1>4

LEMMA FirstNewline ==
  ASSUME Newlines # {}, NEW m \in Nat, DOMAIN unread = 1 .. m
  PROVE  /\ Min(Newlines) \in 1 .. m /\ unread[Min(Newlines)].nl
         /\ \A i \in 1 .. Min(Newlines) - 1 : ~unread[i].nl
  <1>1. Newlines \in SUBSET (1 .. m)  BY DEF Newlines
  <1>2. Newlines \in SUBSET Nat  BY <1>1
  <1>3. \E x \in Newlines : \A y \in Newlines : x <= y
    BY <1>2, LeastOf
  <1>4. Min(Newlines) \in Newlines /\ \A y \in Newlines : Min(Newlines) <= y
    <2>1. Min(Newlines) = CHOOSE x \in Newlines : \A y \in Newlines : x <= y
      BY DEF Min
    <2> QED  BY <1>3, <2>1
  <1>5. PICK n \in 1 .. m : n = Min(Newlines)  BY <1>1, <1>4
  <1>6. unread[n].nl  BY <1>4, <1>5 DEF Newlines
  <1>7. ASSUME NEW i \in 1 .. n - 1 PROVE ~unread[i].nl
    <2>1. i \in 1 .. m /\ ~(n <= i)  OBVIOUS
    <2>2. i \notin Newlines  BY <1>4, <1>5, <2>1
    <2> QED  BY <2>1, <2>2 DEF Newlines
  <1> QED  BY <1>5, <1>6, <1>7

(* What the history has of the line that was read.                         *)
LEMMA LineParsed ==
  ASSUME HistOK(hist), ReadLine, NEW n, n = Min(Newlines)
  PROVE  /\ hist'.stale <=> hist.stale
         /\ hist'.begin = IF at["irc"] = "loop" \/ hist.stale THEN hist.begin
                          ELSE next - (Len(unread) - n)
         /\ hist'.parsed = IF at["irc"] # "loop" \/ hist.stale THEN hist.parsed
                           ELSE Append(hist.parsed,
                                       <<Head(Kept(n)).line, Len(Kept(n))>>)
  <1> DEFINE line == Kept(n)
             kind == IF Head(line).first THEN Head(line).kind ELSE "other"
             here == at["irc"]
             writes == here = "loop" /\ kind # "other"
             begin  == IF here = "loop" \/ hist.stale THEN hist.begin
                       ELSE next - (Len(unread) - n)
             parsed == IF here # "loop" \/ hist.stale THEN hist.parsed
                       ELSE Append(hist.parsed, <<Head(line).line, Len(line)>>)
             h == [hist EXCEPT !.begin = begin, !.parsed = parsed]
  <1>1. hist' = IF writes THEN Disturb(h, Overwriting) ELSE h
    BY DEF ReadLine
  <1>2. PICK b, p : b = begin /\ p = parsed  OBVIOUS
  <1>3. HistOK(h) /\ h.begin = b /\ h.parsed = p /\ h.stale = hist.stale
    <2>1. h = [hist EXCEPT !.begin = b, !.parsed = p]  BY <1>2
    <2> HIDE DEF h
    <2> QED  BY <2>1 DEF HistOK
  <1> HIDE DEF h, writes
  <1>4. SameParsed(hist', h)
    <2>1. CASE writes   BY <1>1, <1>3, <2>1, DisturbHist
    <2>2. CASE ~writes  BY <1>1, <2>2 DEF SameParsed
    <2> QED  BY <2>1, <2>2
  <1>5. hist'.begin = b /\ hist'.parsed = p /\ (hist'.stale <=> hist.stale)
    BY <1>3, <1>4 DEF SameParsed
  <1> QED  BY <1>2, <1>5

LEMMA ParseLine ==
  ASSUME Types, HistOK(hist), ParseInv, ReadLine
  PROVE  ParseInv'
  <1>1. /\ UNCHANGED <<next, flags, seg, pc>> /\ pc = "irc"
        /\ at["irc"] \in {"read1", "read2", "loop"}
        /\ psock["irc"].busy /\ psock'["irc"].busy = FALSE
        /\ psock'["irc"].state = psock["irc"].state
        /\ Newlines # {}
        /\ unread' = SubSeq(unread, Min(Newlines) + 1, Len(unread))
        /\ at'["irc"] = IF at["irc"] = "read1" THEN "join" ELSE "loop"
    BY DEF ReadLine, Reading, call, network, Types, Thread, Sends, After
  <1>2. Packet'  BY <1>1 DEF ParseInv, Packet
  <1>3. ASSUME ~hist.stale PROVE Unread'
    <2>1. PICK m \in Nat : /\ m = Len(unread) /\ m <= next /\ unread \in Seq(Piece)
                           /\ Part(unread, next - m, m)
      BY <1>3 DEF ParseInv, Unread, IsSuffix, Part
    <2>2. DOMAIN unread = 1 .. m  BY <2>1
    <2>3. PICK n \in 1 .. m : /\ n = Min(Newlines) /\ unread[n].nl
                              /\ \A i \in 1 .. n - 1 : ~unread[i].nl
      BY <1>1, <2>2, FirstNewline
    <2>4. unread # <<>>  BY <1>1, <2>2 DEF Newlines
    <2>size. m \in Nat /\ n \in Nat /\ 1 <= n /\ n <= m /\ m <= next  BY <2>1, <2>3
    <2>length. Len(unread) = m  BY <2>1
    <2>5. psock["irc"].state = "READ"
      BY <1>1, <1>3, <2>4 DEF ParseInv, Unread, Leftover, Sends
    <2>6. next \in Nat /\ next <= Len(Stream) /\ Len(Stream) \in Nat
      BY StreamType DEF ParseInv, Packet
    <2>7. PICK q \in 1 .. Len(Stream) : q = next - m + n
      <3>1. next - m + n \in 1 .. Len(Stream)  BY <2>1, <2>3, <2>6
      <3> QED  BY <3>1
    <2>8. /\ unread' \in Seq(Piece) /\ Len(unread') = m - n
          /\ \A i \in 1 .. m - n : unread'[i] = Stream[q + i]
      <3>1. unread' = SubSeq(unread, n + 1, m)  BY <1>1, <2>1, <2>3
      <3>2. PICK k \in Nat : k = m - n /\ m = n + k
        <4>1. m - n \in Nat /\ m = n + (m - n)  BY <2>size
        <4> QED  BY <4>1
      <3>3. /\ unread' \in Seq(Piece) /\ Len(unread') = k
            /\ \A i \in 1 .. k : unread'[i] = unread[n + i]
        <4>1. n + k <= Len(unread)  BY <2>length, <3>2
        <4>2. unread \in Seq(Piece)  BY <2>1
        <4>3. unread' = SubSeq(unread, n + 1, n + k)  BY <3>1, <3>2
        <4> QED  BY <2>size, <4>1, <4>2, <4>3, Portion
      <3>4. ASSUME NEW i \in 1 .. k PROVE unread'[i] = Stream[q + i]
        <4>1. n + i \in 1 .. m  BY <2>size, <3>2
        <4>2. unread[n + i] = Stream[(next - m) + (n + i)]
          BY <2>1, <4>1 DEF Part
        <4>3. (next - m) + (n + i) = q + i  BY <2>size, <2>6, <2>7
        <4> QED  BY <3>3, <4>2, <4>3
      <3> QED  BY <3>2, <3>3, <3>4
    <2>9. /\ Pending = 0 /\ Pending' = 0 /\ Taken = next - m /\ Taken' = q
      <3>1. Pending = 0 /\ Pending' = 0  BY <1>1, <2>5 DEF Pending
      <3>2. next - m - 0 = next - m /\ next - (m - n) - 0 = q
        BY <2>size, <2>6, <2>7
      <3>3. next' = next /\ Len(unread) = m /\ Len(unread') = m - n
        BY <1>1, <2>length, <2>8
      <3> QED  BY <3>1, <3>2, <3>3 DEF Taken
    <2>10. IsSuffix(unread', next')
      <3>1. next - (m - n) = q /\ m - n \in Nat /\ m - n <= next
        BY <2>size, <2>6, <2>7
      <3>2. Part(unread', q, m - n)  BY <2>8 DEF Part
      <3>3. Len(unread') = m - n /\ next' = next  BY <1>1, <2>8
      <3> QED  BY <3>1, <3>2, <3>3 DEF IsSuffix
    <2>11. Leftover'
      BY <1>1, <2>5 DEF Leftover, Sends
    <2>12. Stream[q].nl
      <3>1. unread[n] = Stream[(next - m) + n]  BY <2>1, <2>3 DEF Part
      <3> QED  BY <2>3, <2>7, <3>1
    <2>13. IsStart(q)  BY <2>6, <2>7, <2>12 DEF IsStart
    <2>14. /\ hist'.stale <=> hist.stale
           /\ hist'.begin = IF at["irc"] = "loop" THEN hist.begin ELSE next - (m - n)
           /\ hist'.parsed = IF at["irc"] # "loop" THEN hist.parsed
                             ELSE Append(hist.parsed,
                                         <<Head(Kept(n)).line, Len(Kept(n))>>)
      BY <1>3, <2>1, <2>3, LineParsed
    <2>15. CASE at["irc"] = "read1"
      <3>1. at'["irc"] = "join" /\ hist'.parsed = <<>>
        BY <1>1, <1>3, <2>14, <2>15 DEF ParseInv, Unread
      <3> QED  BY <2>10, <2>11, <3>1 DEF Unread
    <2>16. CASE at["irc"] = "read2"
      <3>1. at'["irc"] = "loop" /\ hist.parsed = <<>>
        BY <1>1, <1>3, <2>16 DEF ParseInv, Unread
      <3>2. hist'.begin = q /\ hist'.parsed = <<>> /\ q \in Nat
        BY <2>1, <2>3, <2>6, <2>7, <2>14, <2>16, <3>1
      <3>3. \A i \in q + 1 .. q : ~Stream[i].nl  BY <3>2
      <3>4. ParsedTo(hist', q, q, FALSE, inbuf')
        BY <2>13, <3>2, <3>3, LinesNone DEF ParsedTo
      <3>5. InLoop'  BY <1>1, <2>9, <3>2, <3>4 DEF InLoop
      <3> QED  BY <2>10, <2>11, <3>1, <3>5 DEF Unread
    <2>17. CASE at["irc"] = "loop"
      <3>1. PICK l \in Nat : ParsedTo(hist, l, next - m, TRUE, inbuf)
        BY <1>1, <1>3, <2>9, <2>17 DEF ParseInv, Unread, InLoop, Types, Thread
      <3>2. PICK k \in Nat : k = next - m - l /\ next - m = l + k
        <4>1. l <= next - m  BY <3>1 DEF ParsedTo
        <4>2. next - m - l \in Nat /\ next - m = l + (next - m - l)
          BY <2>1, <2>6, <4>1
        <4> QED  BY <4>2
      <3>3. Part(Kept(n), l, Least(k + n, BufSize))
        <4>1. Part(inbuf, l, Least(k, BufSize))  BY <3>1, <3>2 DEF ParsedTo
        <4>2. Part(unread, l + k, m) /\ n \in 0 .. m  BY <2>1, <3>2
        <4> QED  BY <4>1, <4>2, KeptIs
      <3>4. q = l + k + n /\ q \in l + 1 .. Len(Stream) /\ q - l = k + n
        BY <2>3, <2>6, <2>7, <3>2
      <3>5. \A i \in l + 1 .. q - 1 : ~Stream[i].nl
        <4> SUFFICES ASSUME NEW i \in l + 1 .. q - 1 PROVE ~Stream[i].nl
          OBVIOUS
        <4>1. CASE i <= next - m
          BY <2>1, <2>6, <3>1, <4>1 DEF ParsedTo
        <4>2. CASE ~(i <= next - m)
          <5>1. /\ i - (next - m) \in 1 .. n - 1 /\ i - (next - m) \in 1 .. m
                /\ (next - m) + (i - (next - m)) = i
            BY <2>1, <2>3, <2>6, <2>7, <4>2
          <5>2. unread[i - (next - m)] = Stream[i]
            BY <2>1, <5>1 DEF Part
          <5> QED  BY <2>3, <5>1, <5>2
        <4> QED  BY <4>1, <4>2
      <3>6. Lines(hist.begin, q) = Append(Lines(hist.begin, l),
               <<Stream[l + 1].line, Least(q - l, BufSize)>>)
        <4>1. hist.begin \in Nat /\ hist.begin <= l /\ IsStart(l)
          BY <3>1 DEF ParsedTo
        <4> QED  BY <2>12, <3>4, <3>5, <4>1, LinesMore
      <3>7. /\ Len(Kept(n)) = Least(q - l, BufSize)
            /\ Head(Kept(n)).line = Stream[l + 1].line
        <4>1. Least(k + n, BufSize) \in Nat \ {0}
          BY <2>3, SizesAreNat DEF Least
        <4>2. Kept(n) \in Seq(Piece) /\ Len(Kept(n)) = Least(k + n, BufSize)
          BY <3>3 DEF Part
        <4>3. Kept(n)[1] = Stream[l + 1]  BY <3>3, <4>1 DEF Part
        <4>4. Head(Kept(n)) = Kept(n)[1]  BY <4>1, <4>2
        <4> QED  BY <3>4, <4>2, <4>3, <4>4
      <3>8. hist'.parsed = Lines(hist.begin, q) /\ hist'.begin = hist.begin
        BY <2>14, <2>17, <3>1, <3>6, <3>7 DEF ParsedTo
      <3>9. /\ hist.begin \in Nat /\ hist.begin <= q /\ q \in Nat
            /\ \A i \in q + 1 .. q : ~Stream[i].nl
        <4>1. hist.begin \in Nat /\ hist.begin <= l  BY <3>1 DEF ParsedTo
        <4> QED  BY <3>4, <4>1, StreamType
      <3>10. ParsedTo(hist', q, q, FALSE, inbuf')
        BY <2>13, <3>8, <3>9 DEF ParsedTo
      <3>11. InLoop'  BY <1>1, <2>9, <3>9, <3>10 DEF InLoop
      <3>12. at'["irc"] = "loop"  BY <1>1, <2>17
      <3> QED  BY <2>10, <2>11, <3>11, <3>12 DEF Unread
    <2> QED  BY <1>1, <2>15, <2>16, <2>17
  <1>4. hist'.stale <=> hist.stale
    <2>1. PICK n : n = Min(Newlines)  OBVIOUS
    <2> QED  BY <2>1, LineParsed
  <1> QED  BY <1>2, <1>3, <1>4 DEF ParseInv, Unread

LEMMA ParseReturn ==
  ASSUME Types, ParseInv, Return
  PROVE  ParseInv'
  <1>1. /\ UNCHANGED <<next, unread, inbuf, at, psock, hist>>
        /\ pc = "return" /\ pc' = "idle" /\ seg' = <<>>
    BY DEF Return, reading, network
  <1>2. Packet'
    <2>1. IsSuffix(<<>>, next)
      BY StreamType DEF ParseInv, Packet, IsSuffix, Part
    <2> QED  BY <1>1, <2>1 DEF ParseInv, Packet
  <1>3. Pending = 0 /\ Pending' = 0  BY <1>1 DEF Pending
  <1>4. ~hist.stale => Leftover'
    BY <1>1 DEF ParseInv, Unread, Leftover
  <1> QED  BY <1>1, <1>2, <1>3, <1>4, ParseSame DEF SameParsed

(* A call begins: data left from an earlier one is spoilt, else the packet *)
(* goes on where the last one ended.                                       *)
LEMMA ParseEnter ==
  ASSUME Types, ParseInv, NEW events, NEW data, Enter(events, data),
         next' \in 0 .. Len(Stream), IsSuffix(data, next'),
         next' = next + Len(data), "newdata" \in events \/ data = <<>>,
         hist'.stale <=> hist.stale \/ unread # <<>>,
         ~hist'.stale => SameParsed(hist', hist)
  PROVE  ParseInv'
  <1>1. /\ pc = "idle" /\ pc' = "irc" /\ flags' = events /\ seg' = data
        /\ UNCHANGED <<at, psock, inbuf>>
    BY DEF Enter
  <1>2. Packet'
    BY <1>1 DEF Packet
  <1>3. ASSUME ~hist'.stale PROVE Unread'
    <2>1. ~hist.stale /\ unread = <<>> /\ SameParsed(hist', hist)
      BY <1>3
    <2>2. unread' = <<>>
      <3>1. PICK f : unread' = [i \in DOMAIN unread |->
                                 IF f[i] = "no" THEN unread[i]
                                 ELSE Stale(f[i] = "newline")]
        BY DEF Enter
      <3>2. DOMAIN unread = 1 .. 0  BY <2>1
      <3> DEFINE g == [i \in 1 .. 0 |-> IF f[i] = "no" THEN unread[i]
                                        ELSE Stale(f[i] = "newline")]
      <3>3. unread' = g  BY <3>1, <3>2
      <3>4. g \in [1 .. 0 -> Piece]  OBVIOUS
      <3> HIDE DEF g
      <3>5. g \in Seq(Piece) /\ Len(g) = 0  BY <3>4
      <3> QED  BY <3>3, <3>5, EmptySeq
    <2>3. next \in Nat /\ Len(data) \in Nat
      BY StreamType DEF ParseInv, Packet, IsSuffix, Part
    <2>4. IsSuffix(unread', next')
      BY <2>2, <2>3 DEF IsSuffix, Part
    <2>5. Leftover'  BY <2>2 DEF Leftover
    <2>6. at'["irc"] # "loop" => hist'.parsed = <<>>
      BY <1>1, <2>1 DEF ParseInv, Unread, SameParsed
    <2>7. ASSUME at["irc"] = "loop" PROVE InLoop'
      <3>1. psock["irc"].state # "READ"
        BY <1>1, <2>7 DEF ParseInv, Packet, Sends
      <3>2. Pending = 0  BY <1>1 DEF Pending
      <3>3. Pending' = Len(data)
        <4>1. data = <<>> => Len(data) = 0  OBVIOUS
        <4> QED  BY <1>1, <3>1, <4>1 DEF Pending
      <3>4. Taken' = Taken
        <4>1. Len(<<>>) = 0  OBVIOUS
        <4> QED  BY <2>1, <2>2, <2>3, <3>2, <3>3, <4>1 DEF Taken
      <3>5. PICK l \in Nat : ParsedTo(hist, l, Taken, psock["irc"].busy, inbuf)
        BY <2>1, <2>7 DEF ParseInv, Unread, InLoop
      <3>6. ParsedTo(hist', l, Taken', psock'["irc"].busy, inbuf')
        BY <1>1, <2>1, <3>4, <3>5 DEF ParsedTo, SameParsed
      <3> QED  BY <3>6 DEF InLoop
    <2> QED  BY <1>1, <2>4, <2>5, <2>6, <2>7 DEF Unread
  <1> QED  BY <1>2, <1>3 DEF ParseInv, Unread

LEMMA ParseEvent ==
  ASSUME Types, HistOK(hist), ParseInv, Connected \/ Receive \/ Poll \/ Rexmit
  PROVE  ParseInv'
  <1>1. next \in 0 .. Len(Stream) /\ next \in Nat
    BY StreamType DEF ParseInv, Packet
  <1>2. /\ SetStale(hist).stale <=> hist.stale \/ unread # <<>>
        /\ ~SetStale(hist).stale => SameParsed(SetStale(hist), hist)
        /\ HistOK(SetStale(hist))
    BY SetStaleHist
  <1>3. ASSUME NEW events, Enter(events, <<>>), next' = next, hist' = SetStale(hist)
        PROVE  ParseInv'
    <2>1. IsSuffix(<<>>, next')  BY <1>1, <1>3 DEF IsSuffix, Part
    <2>2. next' = next + Len(<<>>)  BY <1>1, <1>3
    <2> QED  BY <1>1, <1>2, <1>3, <2>1, <2>2, ParseEnter
  <1>4. CASE Connected \/ Poll \/ Rexmit
    BY <1>3, <1>4 DEF Connected, Poll, Rexmit
  <1>5. CASE Receive
    <2>1. PICK n \in 0 .. MaxSeg, ack \in {len > 0 /\ got, FALSE} :
            /\ next + n <= Len(Stream)
            /\ Enter((IF n > 0 THEN {"newdata"} ELSE {})
                       \cup (IF ack THEN {"acked"} ELSE {}),
                     SubSeq(Stream, next + 1, next + n))
            /\ next' = next + n
      BY <1>5 DEF Receive
    <2> DEFINE data == SubSeq(Stream, next + 1, next + n)
    <2>2. n \in Nat  BY SizesAreNat
    <2>3. data \in Seq(Piece) /\ Len(data) = n /\ \A i \in 1 .. n : data[i] = Stream[next + i]
      <3>1. next + n <= Len(Stream) /\ next \in Nat  BY <1>1, <2>1
      <3> QED  BY <2>2, <3>1, StreamIsLines, Portion
    <2> HIDE DEF data
    <2>4. IsSuffix(data, next') /\ next' \in 0 .. Len(Stream) /\ next' = next + Len(data)
      <3>1. next' - Len(data) = next /\ n <= next'
        BY <1>1, <2>1, <2>2, <2>3
      <3> QED  BY <1>1, <2>1, <2>2, <2>3, <3>1, StreamType DEF IsSuffix, Part
    <2>5. n > 0 \/ data = <<>>  BY <2>2, <2>3, EmptySeq
    <2>6. PICK ts : hist' = Disturb(SetStale(hist), ts)
      BY <1>5 DEF Receive
    <2>7. SameParsed(hist', SetStale(hist))
      BY <1>2, <2>6, DisturbHist
    <2>8. /\ hist'.stale <=> hist.stale \/ unread # <<>>
          /\ ~hist'.stale => SameParsed(hist', hist)
      BY <1>2, <2>7 DEF SameParsed
    <2>9. PICK events : Enter(events, data) /\ ("newdata" \in events \/ data = <<>>)
      BY <2>1, <2>5 DEF data
    <2> QED  BY <2>4, <2>8, <2>9, ParseEnter
  <1> QED  BY <1>4, <1>5

(* The rest touches neither what is read nor what reads.                   *)
LEMMA ParseRest ==
  ASSUME HistOK(hist), ParseInv,
         TimedOut \/ Closed \/ Deliver \/ Quit \/ Exit \/ UNCHANGED vars
           \/ \E m \in Text : Submit(m)
  PROVE  ParseInv'
  <1>1. /\ UNCHANGED <<pc, flags, seg, at, psock, unread, inbuf, next>>
        /\ hist' = hist \/ \E ts : hist' = Disturb(hist, ts)
    BY DEF TimedOut, Closed, Deliver, Quit, Exit, Submit, vars, call, reading,
           network
  <1>2. SameParsed(hist', hist)
    BY <1>1, DisturbHist DEF SameParsed
  <1>3. Packet' /\ Pending' = Pending
    BY <1>1 DEF ParseInv, Packet, Pending
  <1>4. ~hist.stale => Leftover'
    BY <1>1 DEF ParseInv, Unread, Leftover
  <1> QED  BY <1>1, <1>2, <1>3, <1>4, ParseSame

LEMMA InitParse == Init => ParseInv
  <1> SUFFICES ASSUME Init PROVE ParseInv  OBVIOUS
  <1>1. /\ next = 0 /\ seg = <<>> /\ unread = <<>> /\ pc = "idle"
        /\ at["irc"] = "nick" /\ hist.parsed = <<>>
    BY DEF Init, HistInit
  <1>2. IsSuffix(<<>>, 0)  BY DEF IsSuffix, Part
  <1> QED
    BY <1>1, <1>2, StreamType DEF ParseInv, Packet, Unread, Leftover, Sends

LEMMA NextParse ==
  ASSUME Types, HistOK(hist), ParseInv, [Next]_vars
  PROVE  ParseInv'
  <1>1. CASE AppStep
    BY <1>1, ParseSend, ParseBegin, ParseWait, ParseData, ParsePart, ParseLine,
       ParseReturn DEF AppStep
  <1>2. CASE ~AppStep
    BY <1>2, ParseEvent, ParseRest DEF Next, Timer
  <1> QED  BY <1>1, <1>2

(* Once the login is over, irc_parse_line is given every line once, in     *)
(* order and cut to the buffer, and nothing that arrived is left unread,   *)
(* unless the login left data unread in uip_buf.                           *)
THEOREM LinesInOrder == Spec => []ParsedInOrder
  <1>1. ParseInv => ParsedInOrder
    <2> SUFFICES ASSUME ParseInv, pc = "idle", at["irc"] = "loop", ~hist.stale
                 PROVE  /\ unread = <<>>
                        /\ hist.parsed = Lines(hist.begin, next)
      BY DEF ParsedInOrder, Lines
    <2>1. unread = <<>>  BY DEF ParseInv, Unread, Leftover, Sends
    <2>2. PICK l \in Nat : ParsedTo(hist, l, Taken, psock["irc"].busy, inbuf)
      BY DEF ParseInv, Unread, InLoop
    <2>3. Taken = next
      BY <2>1, StreamType DEF Taken, Pending, ParseInv, Packet
    <2>4. next \in Nat  BY StreamType DEF ParseInv, Packet
    <2>5. /\ hist.begin \in Nat /\ hist.begin <= l /\ l <= next
          /\ hist.parsed = Lines(hist.begin, l)
          /\ \A i \in l + 1 .. next : ~Stream[i].nl
      BY <2>2, <2>3 DEF ParsedTo
    <2>6. EndsIn(hist.begin, next) = EndsIn(hist.begin, l)
      <3>1. EndsIn(hist.begin, next) = EndsIn(hist.begin, l) + EndsIn(l, next)
        BY <2>4, <2>5, EndsSplit
      <3>2. EndsIn(l, next) = 0  BY <2>4, <2>5, EndsNone
      <3>3. EndsIn(hist.begin, l) \in Nat  BY <2>5, EndsAre
      <3> QED  BY <3>1, <3>2, <3>3
    <2>7. Lines(hist.begin, next) = Lines(hist.begin, l)
      BY <2>6 DEF Lines
    <2> QED  BY <2>1, <2>5, <2>7
  <1>2. IrcInv /\ ParseInv /\ [Next]_vars => ParseInv'
    BY NextParse DEF IrcInv
  <1> QED  BY <1>1, <1>2, InitParse, InvariantIrc, PTL DEF Spec

=============================================================================
