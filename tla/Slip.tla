-------------------------------- MODULE Slip --------------------------------
(***************************************************************************)
(* src/slipdev.c: packets framed on the serial line.  The sender is        *)
(* slipdev_send, or the peer that speaks the same protocol; the line is a  *)
(* queue of bytes that may lose or change some; the receiver is the loop   *)
(* of slipdev_poll, which keeps its state from one call to the next.       *)
(***************************************************************************)
EXTENDS Integers, SequencesExt

CONSTANTS
  Data,          \* the ordinary byte values
  Packets,       \* the packets sent, sequences of bytes
  UIP_BUFSIZE,   \* size of slip_buf and of uip_buf
  MaxFrames,     \* bound: packets sent
  MaxFaults      \* bound: bytes the line loses or changes

END     == "END"
ESC     == "ESC"
ESC_END == "ESC_END"
ESC_ESC == "ESC_ESC"
Byte    == Data \cup {END, ESC, ESC_END, ESC_ESC}
Index   == 0 .. UIP_BUFSIZE - 1

ASSUME SlipAssumption ==
  /\ UIP_BUFSIZE \in Nat \ {0}
  /\ Packets \subseteq Seq(Byte) \ {<<>>}
  /\ MaxFrames \in Nat /\ MaxFaults \in Nat

VARIABLES
  slip_buf, len, lastc,  \* the receiver, as in the source
  line,                  \* bytes on their way, each with its frame and place
  sent,                  \* history: the packets sent
  damaged,               \* history: frames of which a byte was hit
  received,              \* history: the packets slipdev_poll returned
  faults,
  beyond                 \* history: a byte was stored outside slip_buf

recvVars == <<slip_buf, len, lastc>>
lineVars == <<damaged, faults>>
vars     == <<recvVars, line, sent, lineVars, received, beyond>>

(* A byte on the line: its value, its frame and its place in the frame.    *)
Item == [byte : Byte, frame : 1 .. MaxFrames, at : Nat \ {0}]

TypeOK ==
  /\ slip_buf \in [Index -> Byte]
  /\ len \in 0 .. UIP_BUFSIZE
  /\ lastc \in Byte
  /\ line \in Seq(Item)
  /\ sent \in Seq(Packets)
  /\ damaged \subseteq 1 .. MaxFrames
  /\ received \in Seq(Seq(Byte))
  /\ faults \in 0 .. MaxFaults
  /\ beyond \in BOOLEAN

(* slip_buf is static, zeroed memory, lastc = 0: an ordinary byte.         *)
slipdev_init ==
  /\ \E zero \in Data : slip_buf = [i \in Index |-> zero] /\ lastc = zero
  /\ len = 0
  /\ line = <<>> /\ sent = <<>> /\ damaged = {} /\ received = <<>>
  /\ faults = 0 /\ beyond = FALSE

-----------------------------------------------------------------------------
(* Faulty: the escape byte itself is sent as it is.                        *)
Escape_endOnly(c) == IF c = END THEN <<ESC, ESC_END>> ELSE <<c>>

Escape(c) == CASE c = END -> <<ESC, ESC_END>>
               [] c = ESC -> <<ESC, ESC_ESC>>
               [] OTHER   -> <<c>>

Frame(p) == <<END>> \o FlattenSeq([i \in DOMAIN p |-> Escape(p[i])]) \o <<END>>

slipdev_send(p) ==
  /\ Len(sent) < MaxFrames
  /\ sent' = Append(sent, p)
  /\ LET f == Frame(p)
     IN  line' = line \o [i \in 1 .. Len(f) |->
           [byte |-> f[i], frame |-> Len(sent) + 1, at |-> i]]
  /\ UNCHANGED <<recvVars, lineVars, received, beyond>>

-----------------------------------------------------------------------------
(* The line: the byte in front is lost, or arrives as another one.         *)
Hit ==
  /\ line # <<>> /\ faults < MaxFaults
  /\ faults' = faults + 1
  /\ damaged' = damaged \cup {Head(line).frame}
  /\ UNCHANGED <<recvVars, sent, received, beyond>>

Lose == Hit /\ line' = Tail(line)

Corrupt ==
  /\ Hit
  /\ \E b \in Byte \ {Head(line).byte} : line' = [line EXCEPT ![1].byte = b]

-----------------------------------------------------------------------------
(* slipdev_poll, one round of its loop for each kind of byte.              *)
PollEscape ==
  /\ line # <<>> /\ Head(line).byte = ESC
  /\ lastc' = ESC
  /\ line' = Tail(line)
  /\ UNCHANGED <<slip_buf, len, sent, lineVars, received, beyond>>

(* Faulty: the escape state survives the end of the frame.                 *)
PollEnd_keepsLastc ==
  /\ line # <<>> /\ Head(line).byte = END
  /\ received' = IF len = 0 THEN received
                 ELSE Append(received, [i \in 1 .. len |-> slip_buf[i - 1]])
  /\ len' = 0
  /\ line' = Tail(line)
  /\ UNCHANGED <<slip_buf, lastc, sent, lineVars, beyond>>

(* A length of 0 tells network_poll that there is no packet.               *)
PollEnd ==
  /\ line # <<>> /\ Head(line).byte = END
  /\ lastc' = END
  /\ received' = IF len = 0 THEN received
                 ELSE Append(received, [i \in 1 .. len |-> slip_buf[i - 1]])
  /\ len' = 0
  /\ line' = Tail(line)
  /\ UNCHANGED <<slip_buf, sent, lineVars, beyond>>

(* What the byte after an ESC stands for.                                  *)
Unescape(c) == CASE lastc = ESC /\ c = ESC_END -> END
                 [] lastc = ESC /\ c = ESC_ESC -> ESC
                 [] OTHER                      -> c

(* Faulty: len passes the end by one, stops short of it by one.            *)
NextLen_beyond(l) == IF l > UIP_BUFSIZE THEN 0 ELSE l + 1
NextLen_short(l)  == IF l + 1 >= UIP_BUFSIZE THEN 0 ELSE l + 1

NextLen(l) == IF l + 1 > UIP_BUFSIZE THEN 0 ELSE l + 1

PollData ==
  /\ line # <<>> /\ Head(line).byte \notin {ESC, END}
  /\ len < UIP_BUFSIZE
  /\ lastc' = Head(line).byte
  /\ slip_buf' = [slip_buf EXCEPT ![len] = Unescape(Head(line).byte)]
  /\ len' = NextLen(len)
  /\ line' = Tail(line)
  /\ UNCHANGED <<sent, lineVars, received, beyond>>

(* With a full buffer the store goes one past its end.  What lies there is *)
(* the linker's choice: memory of another module, len or lastc.            *)
PollOverlong ==
  /\ line # <<>> /\ Head(line).byte \notin {ESC, END}
  /\ len = UIP_BUFSIZE
  /\ beyond' = TRUE
  /\ \/ lastc' = Head(line).byte /\ len' = NextLen(len)
     \/ lastc' = Unescape(Head(line).byte) /\ len' = NextLen(len)
     \/ lastc' = Head(line).byte /\ \E l \in 0 .. UIP_BUFSIZE : len' = NextLen(l)
  /\ line' = Tail(line)
  /\ UNCHANGED <<slip_buf, sent, lineVars, received>>

slipdev_poll == PollEscape \/ PollEnd \/ PollData \/ PollOverlong

Next == \/ \E p \in Packets : slipdev_send(p)
        \/ Lose
        \/ Corrupt
        \/ slipdev_poll

Spec     == slipdev_init /\ [][Next]_vars
(* The main loop polls the device for ever; the line does not.             *)
FairSpec == Spec /\ WF_vars(slipdev_poll)
-----------------------------------------------------------------------------
(* Over a line that hits no byte, slipdev_poll returns the packets sent,   *)
(* whole and in order, whatever bytes they hold and however the calls of   *)
(* slipdev_poll fall between them.                                         *)
PacketsInOrder == faults = 0 => IsPrefix(received, sent)

(* A frame no byte of which was hit is returned when its closing END is    *)
(* read, whatever happened to the frames before it: an open escape, a lost *)
(* END, even a frame that ran over the buffer, never reach into it.        *)
IntactFrameArrives ==
  [][\A p \in Packets :
       LET front == Head(line)
       IN  /\ line # <<>> /\ front.frame \notin damaged
           /\ sent[front.frame] = p /\ front.at = Len(Frame(p))
           /\ line' = Tail(line) /\ faults' = faults
           => received' = Append(received, p)]_vars

(* Every packet sent over a clean line is returned in the end.             *)
EveryPacketArrives ==
  \A n \in 1 .. MaxFrames :
    Len(sent) >= n ~> (Len(received) >= n \/ faults > 0)

(* The comment of slipdev_poll: every available byte is read into slip_buf.*)
BytesReadIntoBuffer == ~beyond
=============================================================================
