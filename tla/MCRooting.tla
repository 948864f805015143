----------------------------- MODULE MCRooting -----------------------------
(* A small instance of Rooting for TLC.                                     *)
EXTENDS Rooting

CONSTANT o1, o2, o3, o4, o5, o6
=============================================================================
