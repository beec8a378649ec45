------------------------------- MODULE MCSlip -------------------------------
(* Instances of Slip for TLC: a buffer of three bytes.                     *)
EXTENDS Slip

Bytes == {"0", "1"}

(* Every special byte, alone and beside others, up to the whole buffer.    *)
Fitting == {<<"1">>, <<END, ESC>>, <<ESC_END, ESC, ESC_ESC>>, <<ESC, ESC_ESC, "1">>}

=============================================================================
