-------------------------------- MODULE MCGc --------------------------------
(* A small instance of Gc for TLC: two plain objects and a string.          *)
EXTENDS Gc

CONSTANTS c1, c2, s1
=============================================================================
