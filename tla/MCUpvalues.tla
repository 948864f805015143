----------------------------- MODULE MCUpvalues -----------------------------
(* Small instances of Upvalues for TLC: values, upvalues and variables are   *)
(* given as small sets of numbers in the configurations.                     *)
EXTENDS Upvalues
=============================================================================
