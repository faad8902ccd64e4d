---------------------------- MODULE MCWorkLoop ----------------------------
(* WorkLoop for TLC. *)
EXTENDS WorkLoop

CONSTANTS i1, i2, i3

=============================================================================
