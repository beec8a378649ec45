------------------------------- MODULE MCScif -------------------------------
(* Instances of Scif for TLC: a ring of a few slots behind FIFOs of two.   *)
EXTENDS Scif

OneByte   == {1}        \* slipdev.c: every call of scif_write has length 1
AnyLength == 1 .. 3     \* hayes.c writes strings

(* Bound: once the handler has met a write_ptr of RingSize it finds bytes  *)
(* for as long as the UART makes room, so line may grow without end.  No   *)
(* other behaviour is cut.  txWrapped is never undone, so once it holds    *)
(* the liveness properties and those of the line ask nothing more; the     *)
(* others are safety properties, which ScifProofs proves uncut.            *)
BoundedLine == txWrapped => Len(line) <= MaxTx

=============================================================================
