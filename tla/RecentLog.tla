----------------------------- MODULE RecentLog ------------------------------
(* What the object log promises: a list of the objects written last, each  *)
(* kept whole until it is forgotten, the oldest first.                     *)
EXTENDS Naturals, Sequences

CONSTANT Object

VARIABLE log

Init == log = <<>>

(* \E o \in Object : log' = Append(log, o), in a form quicker to check.    *)
Write  == /\ Len(log') = Len(log) + 1
          /\ SubSeq(log', 1, Len(log)) = log
          /\ log'[Len(log')] \in Object
Forget == log # <<>> /\ log' = Tail(log)

Next == Write \/ Forget

Spec == Init /\ [][Next]_log

=============================================================================
