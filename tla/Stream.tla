------------------------------- MODULE Stream -------------------------------
(***************************************************************************)
(* What a TCP connection promises in one direction: the receiver is given  *)
(* the bytes sent, once each and in order, and the sender is told that its *)
(* bytes were acknowledged only when the receiver has them.  The promise   *)
(* of acknowledgement ends when the receiver closes its end.               *)
(***************************************************************************)
EXTENDS Naturals, Sequences

VARIABLES
  sent,         \* how many bytes the sender gave away; a byte is its number
  acked,        \* how many the sender knows to have arrived
  got,          \* the bytes the receiver was given
  closed        \* the receiver has closed its end

vars == <<sent, acked, got, closed>>

Init == sent = 0 /\ acked = 0 /\ got = <<>> /\ closed = FALSE

(* One call of the sender's TCP may acknowledge and send ...               *)
Sender ==
  /\ acked' \in acked .. sent
  /\ acked' > acked /\ ~closed => acked' <= Len(got)
  /\ sent' \in Nat /\ sent' >= sent
  /\ UNCHANGED <<got, closed>>

(* ... and one of the receiver's may deliver and close.                    *)
Receiver ==
  /\ \E n \in Len(got) .. sent : got' = got \o [i \in 1 .. n - Len(got) |-> Len(got) + i]
  /\ closed' \in BOOLEAN /\ (closed => closed')
  /\ UNCHANGED <<sent, acked>>

Next == Sender \/ Receiver

Spec == Init /\ [][Next]_vars
=============================================================================
