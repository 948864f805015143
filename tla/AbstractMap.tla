---------------------------- MODULE AbstractMap ----------------------------
(* What a Map of src/src/map.c promises its callers: a partial function    *)
(* from interned strings to values.  The hash table behind it (slots,      *)
(* tombstones, growth, the collector dropping dead strings) is HashMap.tla, *)
(* which implements this specification.                                    *)
CONSTANTS Keys, Vals, Absent

VARIABLES m,    \* m[k] is the value of k, or Absent
          ret   \* what the last completed operation answered

vars == <<m, ret>>

TypeOK == m \in [Keys -> Vals \union {Absent}]

Init == /\ m = [k \in Keys |-> Absent]
        /\ ret = <<"none">>

Set(k, v) == /\ m' = [m EXCEPT ![k] = v]
             /\ ret' = <<"set", m[k] = Absent>>      \* is the key new?

Get(k) == /\ ret' = <<"get", m[k]>>
          /\ UNCHANGED m

Remove(k) == /\ m' = [m EXCEPT ![k] = Absent]
             /\ ret' = <<"rem", m[k] # Absent>>

\* Assignment to a variable that must exist already.
Assign(k, v) == /\ m' = IF m[k] = Absent THEN m ELSE [m EXCEPT ![k] = v]
                /\ ret' = <<"assign", m[k] # Absent>>

\* The collector drops one dead string, or the whole table is freed.
Forget(k) == /\ m' = [m EXCEPT ![k] = Absent]
             /\ UNCHANGED ret

Free == /\ m' = [k \in Keys |-> Absent]
        /\ ret' = <<"none">>

Next == \/ \E k \in Keys, v \in Vals : Set(k, v) \/ Assign(k, v)
        \/ \E k \in Keys : Get(k) \/ Remove(k) \/ Forget(k)
        \/ Free

Spec == Init /\ [][Next]_vars
=============================================================================
