----------------------------- MODULE LineEditor -----------------------------
(* What an input line promises: characters are added at its end and taken  *)
(* away from there, and the line handed over is the line that was edited.  *)
EXTENDS Naturals, Sequences

CONSTANTS Character, Capacity

VARIABLES
  text,
  handed      \* the line handed over in the last step, else empty

vars == <<text, handed>>

Init == text = <<>> /\ handed = <<>>

Type == /\ Len(text) < Capacity
        /\ Len(text') = Len(text) + 1
        /\ SubSeq(text', 1, Len(text)) = text
        /\ text'[Len(text')] \in Character
        /\ handed' = <<>>

Erase == /\ text # <<>>
         /\ text' = SubSeq(text, 1, Len(text) - 1)
         /\ handed' = <<>>

Submit == text # <<>> /\ handed' = text /\ text' = <<>>

Rest == handed' = <<>> /\ UNCHANGED text

Next == Type \/ Erase \/ Submit \/ Rest

Spec == Init /\ [][Next]_vars
=============================================================================
