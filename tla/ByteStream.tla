----------------------------- MODULE ByteStream -----------------------------
(***************************************************************************)
(* What a serial queue promises its user: the bytes accepted come out once *)
(* each and in order, for as long as the queue is intact.  Nothing is      *)
(* promised of a queue that broke, except that it stays broken.            *)
(***************************************************************************)
EXTENDS Naturals, Sequences

VARIABLES
  accepted,     \* how many bytes went in; a byte is its number
  delivered,    \* the bytes that came out
  broken

vars == <<accepted, delivered, broken>>

Init == accepted = 0 /\ delivered = <<>> /\ broken = FALSE

Accept == /\ accepted' \in Nat /\ accepted' > accepted
          /\ UNCHANGED <<delivered, broken>>

Deliver == /\ ~broken
           /\ Len(delivered) < accepted
           /\ delivered' = Append(delivered, Len(delivered) + 1)
           /\ UNCHANGED <<accepted, broken>>

Break == /\ broken' = TRUE
         /\ accepted' \in Nat /\ accepted' >= accepted
         /\ delivered' \in Seq(Nat)
         /\ Len(delivered') >= Len(delivered)

Next == Accept \/ Deliver \/ Break

Spec == Init /\ [][Next]_vars
=============================================================================
