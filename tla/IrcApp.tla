------------------------------- MODULE IrcApp -------------------------------
(* The IRC client on its protosockets (uip/irc.c, uip/psock.c): the two    *)
(* protothreads that share one TCP connection and one message buffer, and  *)
(* the main loop that fills the buffer (ui.c, main.c).                     *)
(*                                                                         *)
(* uIP calls irc_appcall with the events of a packet or of the timer;      *)
(* irc_thread runs until it blocks, then irc_send_thread if a message is   *)
(* waiting, then uIP transmits what was handed to uip_send.  pc names who  *)
(* runs; nothing else runs before the call has returned.  Every action is  *)
(* one step of a protothread between two tests of its wait conditions.     *)
(*                                                                         *)
(* The TCP connection is what module UipTcp shows it to be: at most one    *)
(* segment outstanding, delivered at most once, acknowledged only then.    *)
(* A text is a name, a transmission a sequence of its pieces <<text, k>>,  *)
(* and the server's stream a sequence of pieces of lines.                  *)
EXTENDS Naturals, Sequences, FiniteSets, FiniteSetsExt

CONSTANTS
  Text,       \* the messages the user may type, each at most once
  Size,       \* pieces in messagebuffer's texts (messagelength)
  Mss,        \* the values uip_mss() takes
  BufSize,    \* psock.bufsize, in pieces
  Stream,     \* what the server sends: pieces of lines
  MaxSeg,     \* pieces in one segment of the server
  UIP_MAXRTX  \* retransmissions before the connection is given up

ASSUME SizesAreNat == /\ Size \in Nat \ {0} /\ Mss \subseteq Nat \ {0}
                      /\ BufSize \in Nat \ {0} /\ UIP_MAXRTX \in Nat
                      /\ MaxSeg \in Nat

Piece == [line : Nat, first : BOOLEAN, nl : BOOLEAN,
          kind : {"other", "ping", "privmsg"}]

ASSUME StreamIsLines == Stream \in Seq(Piece)

(* The newlines in a part of the stream; a piece has its line's number.    *)
EndsIn(from, to) == Cardinality({i \in from + 1..to : Stream[i].nl})

ASSUME LinesNumbered ==
  \A i \in DOMAIN Stream : Stream[i].line = 1 + EndsIn(0, i - 1)

(* Stale bytes of uip_buf, which may hold a newline.                       *)
Stale(nl) == [line |-> 0, first |-> FALSE, nl |-> nl, kind |-> "other"]

(* What lies behind a text when uIP transmits more than was handed to it.  *)
Behind == <<"behind", 0>>

VARIABLES
  conn,     \* the connection: "syn", "up", "down"
  mss,      \* uip_conn->mss
  len,      \* uip_conn->len, the outstanding pieces
  nrtx,     \* uip_conn->nrtx
  pc,       \* "idle", or in irc_appcall: "irc", "out", "return"
  flags,    \* uip_flags
  seg,      \* the data of the packet being handled (uip_appdata)
  sdata,    \* what uip_send left to be transmitted (uip_sappdata, uip_slen)
  at,       \* where the two protothreads are
  psock,    \* their protosockets
  unread,   \* psock.readptr .. readlen
  inbuf,    \* psock.buf: the line being read
  messagebuffer, messagelength,
  typed,    \* messages submitted so far
  app,      \* "on", "quitting" (main waits for QUIT to leave), "off"
  wire,     \* transmissions of the outstanding segment the server may get
  got,      \* the server has taken the outstanding segment
  rcvd,     \* everything the server has received
  next,     \* pieces of Stream that uIP has taken
  hist      \* what the properties remember of the past

uip     == <<conn, mss, len, nrtx>>
call    == <<flags, seg>>
network == <<wire, got, rcvd, next>>
reading == <<unread, inbuf>>
message == <<messagebuffer, messagelength>>
main    == <<typed, app>>
vars == <<uip, pc, call, sdata, at, psock, reading, message, main, network,
          hist>>

Thread == {"irc", "out"}
Other(t) == IF t = "irc" THEN "out" ELSE "irc"

(* irc_thread's calls in order; "loop" is the one in its while (1).        *)
Sends == {"nick", "user", "join", "message", "crlf"}
After(c) ==
  CASE c = "nick"    -> "user"
    [] c = "user"    -> "read1"
    [] c = "read1"   -> "join"
    [] c = "join"    -> "read2"
    [] c \in {"read2", "loop"} -> "loop"
    [] c = "message" -> "crlf"
    [] c = "crlf"    -> "message"

(* A protosocket: inside psock_send or psock_readto (busy), its state, and *)
(* the pieces of the current text sent and left.                           *)
State == {"NONE", "ACKED", "READ", "BLOCKED_NEWDATA", "DATA_SENT"}
PsockInit == [busy |-> FALSE, state |-> "NONE", sendptr |-> 0, sendlen |-> 0]

(* sendptr points into messagebuffer: the text is the one there now.       *)
TextAt(t) == IF at[t] = "message" THEN messagebuffer ELSE at[t]
SendLen(t) == IF at[t] = "message" THEN messagelength ELSE 1
Pieces(text, from, n) == [i \in 1..n |-> <<text, from + i>>]

Least(a, b) == IF a < b THEN a ELSE b

(* The psock of a thread is in the middle of a psock_send.                 *)
Sending(t) == psock[t].busy /\ at[t] \in Sends

-----------------------------------------------------------------------------
(* History: how much the server had received when a send began (from),     *)
(* whether nothing has disturbed that send since (alone), everything sent  *)
(* as long as no send was ever disturbed (pure), and the lines parsed from *)
(* the place in Stream where parsing began, as long as no stale data was   *)
(* read.                                                                   *)

HistInit == [from  |-> [t \in Thread |-> 0],
             alone |-> [t \in Thread |-> FALSE],
             sent |-> <<>>, pure |-> TRUE,
             parsed |-> <<>>, begin |-> 0, stale |-> FALSE]

(* Something disturbs the sends of the threads in ts.                      *)
Disturb(h, ts) ==
  LET pure == h.pure /\ \A t \in ts : ~Sending(t)
  IN [h EXCEPT !.alone = [t \in Thread |-> @[t] /\ t \notin ts],
               !.pure = pure, !.sent = IF pure THEN @ ELSE <<>>]

(* A write to messagebuffer disturbs the send that points into it.         *)
Overwriting == {t \in Thread : Sending(t) /\ at[t] = "message"}

(* The connection is lost or the program has ended.                        *)
Over == conn = "down" \/ app = "off"

-----------------------------------------------------------------------------
(* irc_connect leaves both protosockets fresh and the message empty; the   *)
(* SYN is out.                                                             *)
Init ==
  /\ conn = "syn" /\ len = 0 /\ nrtx = 0 /\ mss \in Mss
  /\ pc = "idle" /\ flags = {} /\ seg = <<>> /\ sdata = <<>>
  /\ at = [irc |-> "nick", out |-> "message"]
  /\ psock = [t \in Thread |-> PsockInit]
  /\ unread = <<>> /\ inbuf = <<>>
  /\ messagebuffer = "empty" /\ messagelength = 0
  /\ typed = {} /\ app = "on"
  /\ wire = {} /\ got = FALSE /\ rcvd = <<>> /\ next = 0
  /\ hist = HistInit

-----------------------------------------------------------------------------
(* psock_send                                                              *)

(* uip_send copies the next min(sendlen, mss) pieces as they are now.      *)
Handed(t, ptr, left) == Pieces(TextAt(t), ptr, Least(left, mss))

(* The first call: remember pointer and length.  The send is alone when no *)
(* other one is in progress, nothing is outstanding or already handed over *)
(* in this call, and one segment takes the whole text.                     *)
SendBegin(t) ==
  /\ pc = t /\ at[t] \in Sends /\ ~psock[t].busy
  /\ psock' = [psock EXCEPT ![t] = [busy |-> TRUE, state |-> "NONE",
                                    sendptr |-> 0, sendlen |-> SendLen(t)]]
  /\ LET isAlone == /\ ~Sending(Other(t)) /\ len = 0 /\ sdata = <<>>
                    /\ SendLen(t) <= mss
         others  == Disturb(hist, {Other(t)})
         pure    == others.pure /\ isAlone
     IN hist' = [others EXCEPT
                   !.from[t] = Len(rcvd), !.alone[t] = isAlone, !.pure = pure,
                   !.sent = IF pure
                            THEN @ \o Pieces(TextAt(t), 0, SendLen(t))
                            ELSE <<>>]
  /\ UNCHANGED <<uip, pc, call, sdata, at, reading, message, main, network>>

(* data_acked is false: send_data sends the first time and on a            *)
(* retransmission, and the thread waits.                                   *)
SendWait(t) ==
  /\ pc = t /\ Sending(t)
  /\ ~(psock[t].state = "DATA_SENT" /\ "acked" \in flags)
  /\ sdata' = IF psock[t].state # "DATA_SENT" \/ "rexmit" \in flags
              THEN Handed(t, psock[t].sendptr, psock[t].sendlen) ELSE sdata
  /\ psock' = [psock EXCEPT ![t].state = "DATA_SENT"]
  /\ pc' = IF t = "irc" /\ messagelength > 0 THEN "out" ELSE "return"
  /\ UNCHANGED <<uip, call, at, reading, message, main, network, hist>>

(* data_acked is true: it takes off one uip_mss() and send_data sends the  *)
(* next piece.  The loop tests the condition again in the same call, with  *)
(* uip_acked() still set.                                                  *)
Acked_untested(t) == pc = t /\ Sending(t) /\ psock[t].state = "DATA_SENT"

Acked_any(t) == pc = t /\ Sending(t) /\ "acked" \in flags

Acked(t) ==
  /\ pc = t /\ Sending(t)
  /\ psock[t].state = "DATA_SENT" /\ "acked" \in flags

SendMore(t) ==
  /\ Acked(t) /\ psock[t].sendlen > mss
  /\ psock' = [psock EXCEPT ![t].sendptr = @ + mss, ![t].sendlen = @ - mss]
  /\ sdata' = Handed(t, psock[t].sendptr + mss, psock[t].sendlen - mss)
  /\ UNCHANGED <<uip, pc, call, at, reading, message, main, network, hist>>

(* Everything is acknowledged: psock_send returns.  irc_send_thread ends   *)
(* with messagelength = 0 after its second send.                           *)
SendEnd(t) ==
  /\ Acked(t) /\ psock[t].sendlen <= mss
  /\ psock' = [psock EXCEPT ![t] = PsockInit]
  /\ at' = [at EXCEPT ![t] = After(@)]
  /\ messagelength' = IF at[t] = "crlf" THEN 0 ELSE messagelength
  /\ pc' = IF at[t] = "crlf" THEN "return" ELSE pc
  /\ hist' = [hist EXCEPT !.from[t] = 0, !.alone[t] = FALSE]
  /\ UNCHANGED <<uip, call, sdata, reading, messagebuffer, main, network>>

-----------------------------------------------------------------------------
(* psock_readto                                                            *)

ReadBegin ==
  /\ pc = "irc" /\ at["irc"] \notin Sends /\ ~psock["irc"].busy
  /\ psock' = [psock EXCEPT !["irc"].busy = TRUE]
  /\ inbuf' = <<>>
  /\ UNCHANGED <<uip, pc, call, sdata, at, unread, message, main, network,
                 hist>>

Reading == /\ pc = "irc" /\ at["irc"] \notin Sends /\ psock["irc"].busy

(* psock_newdata is false: the packet is consumed, or brought no data.     *)
ReadWait_dataOnly ==
  /\ Reading /\ unread = <<>>
  /\ psock["irc"].state = "READ" \/ "newdata" \notin flags
  /\ psock' = [psock EXCEPT !["irc"].state =
                 IF @ = "READ" THEN "BLOCKED_NEWDATA" ELSE @]
  /\ pc' = IF messagelength > 0 /\ "newdata" \in flags THEN "out"
           ELSE "return"
  /\ UNCHANGED <<uip, call, sdata, at, reading, message, main, network, hist>>

ReadWait ==
  /\ Reading /\ unread = <<>>
  /\ psock["irc"].state = "READ" \/ "newdata" \notin flags
  /\ psock' = [psock EXCEPT !["irc"].state =
                 IF @ = "READ" THEN "BLOCKED_NEWDATA" ELSE @]
  /\ pc' = IF messagelength > 0 THEN "out" ELSE "return"
  /\ UNCHANGED <<uip, call, sdata, at, reading, message, main, network, hist>>

ReadData_again ==
  /\ Reading /\ unread = <<>> /\ "newdata" \in flags
  /\ psock' = [psock EXCEPT !["irc"].state = "READ"]
  /\ unread' = seg
  /\ UNCHANGED <<uip, pc, call, sdata, at, inbuf, message, main, network,
                 hist>>

ReadData ==
  /\ Reading /\ unread = <<>>
  /\ psock["irc"].state # "READ" /\ "newdata" \in flags
  /\ psock' = [psock EXCEPT !["irc"].state = "READ"]
  /\ unread' = seg
  /\ UNCHANGED <<uip, pc, call, sdata, at, inbuf, message, main, network,
                 hist>>

(* buf_bufto: copy up to the newline, or to the end of the data; what does *)
(* not fit is skipped.                                                     *)
Newlines == {i \in DOMAIN unread : unread[i].nl}
Kept_all(n) == inbuf \o SubSeq(unread, 1, n)
Kept(n) == SubSeq(inbuf \o SubSeq(unread, 1, n), 1,
                  Least(BufSize, Len(inbuf) + n))

ReadPart ==
  /\ Reading /\ unread # <<>> /\ Newlines = {}
  /\ inbuf' = Kept(Len(unread)) /\ unread' = <<>>
  /\ UNCHANGED <<uip, pc, call, sdata, at, psock, message, main, network,
                 hist>>

(* The newline is found and psock_readto returns.  In its loop irc_thread  *)
(* parses the line: PRIVMSG is formatted in messagebuffer to be shown,     *)
(* PING leaves PONG there to be sent.                                      *)
ReadLine ==
  /\ Reading /\ Newlines # {}
  /\ LET n    == Min(Newlines)
         line == Kept(n)
         kind == IF Head(line).first THEN Head(line).kind ELSE "other"
         here == at["irc"]
         writes == here = "loop" /\ kind # "other"
         h == [hist EXCEPT
                !.begin = IF here = "loop" \/ hist.stale THEN @
                          ELSE next - (Len(unread) - n),
                !.parsed = IF here # "loop" \/ hist.stale THEN @
                           ELSE Append(@, <<Head(line).line, Len(line)>>)]
     IN /\ inbuf' = line
        /\ unread' = SubSeq(unread, n + 1, Len(unread))
        /\ messagebuffer' = IF ~writes THEN messagebuffer
                            ELSE IF kind = "privmsg" THEN "shown" ELSE "pong"
        /\ messagelength' = IF writes /\ kind = "ping" THEN Size
                            ELSE messagelength
        /\ hist' = IF writes THEN Disturb(h, Overwriting) ELSE h
  /\ psock' = [psock EXCEPT !["irc"].busy = FALSE]
  /\ at' = [at EXCEPT !["irc"] = After(@)]
  /\ UNCHANGED <<uip, pc, call, sdata, main, network>>

-----------------------------------------------------------------------------
(* uIP around the call                                                     *)

(* irc_appcall is entered.  Data of an earlier packet that is still unread *)
(* lies in uip_buf, which has been written since: by uip_send, by the      *)
(* headers, by this packet.                                                *)
Enter(events, data) ==
  /\ pc = "idle" /\ app # "off"
  /\ pc' = "irc" /\ flags' = events /\ seg' = data /\ sdata' = <<>>
  /\ \E spoilt \in [DOMAIN unread -> {"no", "other", "newline"}] :
       unread' = [i \in DOMAIN unread |->
                   IF spoilt[i] = "no" THEN unread[i]
                   ELSE Stale(spoilt[i] = "newline")]
  /\ UNCHANGED <<at, psock, inbuf, message, main, rcvd>>

SetStale(h) == LET stale == h.stale \/ unread # <<>>
               IN [h EXCEPT !.stale = stale,
                            !.begin = IF stale THEN 0 ELSE @,
                            !.parsed = IF stale THEN <<>> ELSE @]

(* The SYNACK.                                                             *)
Connected ==
  /\ conn = "syn" /\ conn' = "up" /\ mss' \in Mss
  /\ Enter({"connected", "newdata"}, <<>>)
  /\ hist' = SetStale(hist)
  /\ UNCHANGED <<len, nrtx, wire, got, next>>

(* A segment of the server with n pieces of its stream, acknowledging the  *)
(* outstanding segment or not, and a window that sets the mss.             *)
Receive ==
  /\ conn = "up"
  /\ \E n \in 0..MaxSeg, ack \in {len > 0 /\ got, FALSE} :
       /\ n > 0 \/ ack
       /\ next + n <= Len(Stream)
       /\ Enter((IF n > 0 THEN {"newdata"} ELSE {})
                  \cup (IF ack THEN {"acked"} ELSE {}),
                SubSeq(Stream, next + 1, next + n))
       /\ next' = next + n
       /\ IF ack THEN len' = 0 /\ wire' = {} /\ got' = FALSE
                 ELSE UNCHANGED <<len, wire, got>>
  /\ mss' \in Mss
  /\ hist' = Disturb(SetStale(hist),
                     {t \in Thread : Sending(t) /\ psock[t].sendlen > mss'})
  /\ UNCHANGED <<conn, nrtx>>

(* The timer: poll the application when nothing is outstanding, else let   *)
(* it retransmit, and after UIP_MAXRTX times give up (irc_appcall returns  *)
(* at once on uip_timedout).                                               *)
Poll ==
  /\ conn = "up" /\ len = 0
  /\ Enter({"poll"}, <<>>) /\ hist' = SetStale(hist)
  /\ UNCHANGED <<uip, wire, got, next>>

Rexmit ==
  /\ conn = "up" /\ len > 0 /\ nrtx < UIP_MAXRTX
  /\ nrtx' = nrtx + 1
  /\ Enter({"rexmit"}, <<>>) /\ hist' = SetStale(hist)
  /\ UNCHANGED <<conn, mss, len, wire, got, next>>

TimedOut ==
  /\ conn = "up" /\ len > 0 /\ nrtx = UIP_MAXRTX
  /\ pc = "idle" /\ app # "off" /\ conn' = "down"
  /\ UNCHANGED <<mss, len, nrtx, pc, call, sdata, at, psock, reading, message,
                 main, network, hist>>

(* The server closes or resets; irc_appcall returns at once on uip_closed  *)
(* and uip_aborted.  Nothing ever connects again.                          *)
Closed ==
  /\ conn # "down" /\ pc = "idle" /\ app # "off" /\ conn' = "down"
  /\ UNCHANGED <<mss, len, nrtx, pc, call, sdata, at, psock, reading, message,
                 main, network, hist>>

(* irc_appcall returns.  appsend: new data becomes outstanding when        *)
(* nothing is, else the outstanding length is sent again from what was     *)
(* handed over; apprexmit likewise.                                        *)
Resized(n) == [i \in 1..n |-> IF i <= Len(sdata) THEN sdata[i] ELSE Behind]

Outstanding_lost == IF sdata # <<>> /\ len = 0 THEN 0 ELSE len

Outstanding == IF sdata # <<>> /\ len = 0 /\ "rexmit" \notin flags
               THEN Least(Len(sdata), mss) ELSE len

Return ==
  /\ pc = "return" /\ pc' = "idle"
  /\ flags' = {} /\ seg' = <<>> /\ sdata' = <<>>
  /\ nrtx' = IF "rexmit" \in flags THEN nrtx ELSE 0
  /\ len' = Outstanding
  /\ wire' = IF sdata # <<>> /\ len' > 0 THEN wire \cup {Resized(len')}
             ELSE wire
  /\ UNCHANGED <<conn, mss, at, psock, reading, message, main, got, rcvd,
                 next, hist>>

(* The server receives one of the transmissions; the rest are duplicates.  *)
Deliver ==
  /\ ~Over /\ len > 0 /\ ~got /\ got' = TRUE
  /\ \E w \in wire : rcvd' = rcvd \o w
  /\ UNCHANGED <<uip, pc, call, sdata, at, psock, reading, message, main,
                 wire, next, hist>>

-----------------------------------------------------------------------------
(* The main loop between two network_polls                                 *)

(* ui_page_irc_message_submit: shows the text, then leaves it to be sent,  *)
(* whatever was waiting there.                                             *)
Submit(m) ==
  /\ pc = "idle" /\ app = "on" /\ m \notin typed
  /\ typed' = typed \cup {m}
  /\ messagebuffer' = m /\ messagelength' = Size
  /\ hist' = Disturb(hist, Overwriting)
  /\ UNCHANGED <<uip, pc, call, sdata, at, psock, reading, app, network>>

(* KEY_EXIT: QUIT goes through the buffer if it is free; main then polls   *)
(* until it has left or 50 ticks have passed.                              *)
Quit ==
  /\ pc = "idle" /\ app = "on"
  /\ IF messagelength = 0
     THEN /\ messagebuffer' = "quit" /\ messagelength' = Size
          /\ app' = "quitting"
          /\ hist' = Disturb(hist, Overwriting)
     ELSE /\ app' = "off" /\ UNCHANGED <<message, hist>>
  /\ UNCHANGED <<uip, pc, call, sdata, at, psock, reading, typed, network>>

Exit ==
  /\ pc = "idle" /\ app = "quitting" /\ app' = "off"
  /\ UNCHANGED <<uip, pc, call, sdata, at, psock, reading, message, typed,
                 network, hist>>

-----------------------------------------------------------------------------
AppStep == \/ \E t \in Thread : SendBegin(t) \/ SendWait(t) \/ SendMore(t)
                                  \/ SendEnd(t)
           \/ ReadBegin \/ ReadWait \/ ReadData \/ ReadPart \/ ReadLine
           \/ Return

Timer == Poll \/ Rexmit \/ TimedOut

Next == \/ AppStep \/ Timer \/ Connected \/ Receive \/ Closed \/ Deliver
        \/ \E m \in Text : Submit(m)
        \/ Quit \/ Exit

Spec == Init /\ [][Next]_vars

(* The call runs to its end, and the main loop's periodic timer goes on    *)
(* firing; nothing is assumed of the server, the network or the user.      *)
FairSpec == Spec /\ WF_vars(AppStep) /\ WF_vars(Timer)

-----------------------------------------------------------------------------
TypeOK ==
  /\ conn \in {"syn", "up", "down"} /\ mss \in Mss
  /\ len \in 0..Size /\ nrtx \in 0..UIP_MAXRTX
  /\ pc \in {"idle", "irc", "out", "return"}
  /\ flags \subseteq {"connected", "newdata", "acked", "rexmit", "poll"}
  /\ at \in [Thread -> Sends \cup {"read1", "read2", "loop"}]
  /\ psock \in [Thread -> [busy : BOOLEAN, state : State,
                           sendptr : 0..Size, sendlen : 0..Size]]
  /\ Len(unread) <= MaxSeg /\ Len(inbuf) <= BufSize
  /\ messagelength \in {0, Size} /\ typed \subseteq Text
  /\ app \in {"on", "quitting", "off"} /\ got \in BOOLEAN
  /\ next \in 0..Len(Stream)

(* t's psock_send returns in this step with what it was given in buf.      *)
Returns(t) == at'[t] # at[t] /\ at[t] \in Sends
TextSent(t) == Pieces(TextAt(t), 0, psock[t].sendptr + psock[t].sendlen)

(* The server has received the text whole since the send began.            *)
Arrived(text, from) ==
  \E i \in from..Len(rcvd) :
    /\ i + Len(text) <= Len(rcvd)
    /\ SubSeq(rcvd, i + 1, i + Len(text)) = text

(* A psock_send that nothing disturbed (the other thread did not send, the *)
(* buffer was not rewritten, the text fits in a segment) returns only when *)
(* the server has received the whole text.                                 *)
SendMeansReceived ==
  [][\A t \in Thread : Returns(t) /\ hist.alone[t] =>
       Arrived(TextSent(t), hist.from[t])]_vars

(* As long as no send was disturbed, the server has received exactly the   *)
(* texts the two threads sent, once, whole and in the order of the calls   *)
(* (login before everything else), except perhaps the last.                *)
Transcript ==
  hist.pure =>
    /\ Len(rcvd) <= Len(hist.sent)
    /\ rcvd = SubSeq(hist.sent, 1, Len(rcvd))
    /\ (\A t \in Thread : ~Sending(t)) => rcvd = hist.sent

(* Once the login is over, irc_parse_line is given every line from there   *)
(* on, once, in order, each cut to the size of the buffer, and between two *)
(* calls nothing that arrived is unread; unless the login left data unread *)
(* in uip_buf while it waited for its JOIN to be acknowledged.             *)
LineLen(l) == Cardinality({i \in DOMAIN Stream : Stream[i].line = l})
ParsedInOrder ==
  pc = "idle" /\ at["irc"] = "loop" /\ ~hist.stale =>
    LET first == EndsIn(0, hist.begin)
    IN /\ unread = <<>>
       /\ hist.parsed = [j \in 1..EndsIn(hist.begin, next) |->
                          <<first + j, Least(LineLen(first + j), BufSize)>>]

(* Every psock_send returns, or the connection is lost or the program      *)
(* left: sharing one connection and overwriting each other's data, the two *)
(* threads still cannot block each other for ever.  Only more data of the  *)
(* server puts that off: the call it makes sets nrtx back (uip.c:1710).    *)
SendReturns ==
  \A t \in Thread : \A n \in 0..Len(Stream) :
    Sending(t) /\ next = n ~> ~Sending(t) \/ Over \/ next > n

(* The message buffer becomes free again, with the same exception: main's  *)
(* wait for QUIT ends early and a typed message does not stay there.       *)
SlotFrees ==
  \A n \in 0..Len(Stream) :
    conn = "up" /\ messagelength > 0 /\ next = n
      ~> messagelength = 0 \/ Over \/ next > n

(* psock.h 164-166: PSOCK_SEND "blocks until all data has been sent and is *)
(* known to have been received by the remote end of the TCP connection".   *)
SendBlocks ==
  [][\A t \in Thread : Returns(t) => Arrived(TextSent(t), hist.from[t])]_vars

=============================================================================
