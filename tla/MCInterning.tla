---------------------------- MODULE MCInterning ----------------------------
(* A small instance of Interning for TLC.  Two texts have the same hash,    *)
(* whose slot is the last at every capacity, and two objects may come to    *)
(* say the first.  MinCap is 2 instead of 8: the table grows twice.         *)
EXTENDS Interning

CONSTANTS a1, a2, b1, c1, a, b, c

MCTexts == {a, b, c}
MCText == [s \in Keys |-> CASE s \in {a1, a2} -> a [] s = b1 -> b [] s = c1 -> c]
MCTextHash == [x \in Texts |-> IF x = c THEN 0 ELSE 7]
MCHash == [s \in Keys |-> IF s = c1 THEN 0 ELSE 7]
=============================================================================
