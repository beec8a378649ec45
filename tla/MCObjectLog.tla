---------------------------- MODULE MCObjectLog -----------------------------
(* Instances of ObjectLog and LogView for TLC.                             *)
EXTENDS LogView

(* A header of two bytes (three in ui_write_log) with up to three more, in *)
(* two scatter entries as there, and an object larger than the ring.       *)
Messages == {<<2>>, <<2, 1>>, <<2, 3>>, <<2, 14>>}

=============================================================================
