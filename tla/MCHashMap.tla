----------------------------- MODULE MCHashMap -----------------------------
(* A small instance of HashMap for TLC.  Two keys have the last slot for    *)
(* their home at every capacity, so that chains go round the end.  MinCap   *)
(* is 2 instead of 8: the capacities are 2, 4 and 8, and the table grows    *)
(* three times.                                                             *)
EXTENDS HashMap

CONSTANTS k1, k2, k3

MCHash == [k \in Keys |-> IF k = k3 THEN 0 ELSE 7]
=============================================================================
