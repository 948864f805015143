------------------------------ MODULE HashMap ------------------------------
(* The open-addressing hash table of src/src/map.c: linear probing,         *)
(* tombstones, growth at three quarters full, and the sweep by which the    *)
(* collector (mem.c, gc) drops dead strings from the intern table.          *)
(*                                                                          *)
(* Keys are interned strings, compared by pointer.  An operation is one     *)
(* step, except where the code can be observed half-way: growing allocates, *)
(* the allocation may run the collector, and the collector may sweep the    *)
(* very table that is being grown.                                          *)
EXTENDS Integers, FiniteSets

CONSTANTS
    Keys,      \* the interned strings
    Vals,      \* the values stored, among them Null and True
    Null,      \* the value null: marks an empty slot when the key is NULL
    True,      \* the value true: marks a tombstone when the key is NULL
    NoKey,     \* the key NULL
    Absent,    \* "no value", for answers
    Hash,      \* Hash[k], the hash computed when k was interned
    MinCap     \* the first capacity, 8 in mem.h

ASSUME ConstantsAssumption ==
    /\ Null \in Vals /\ True \in Vals /\ Null # True
    /\ NoKey \notin Keys
    /\ Absent \notin Vals
    /\ Hash \in [Keys -> Nat]
    /\ MinCap \in Nat /\ MinCap >= 2

VARIABLES
    items, cap, count,   \* struct Map
    pc,                  \* where the running operation is
    op,                  \* the running operation and its arguments
    fresh, fcap,         \* the array adjust_cap is filling, its capacity
    i,                   \* the loop variable of adjust_cap and rem_black_map
    marked,              \* the strings the collector found reachable
    ret                  \* what the last completed operation answered

vars == <<items, cap, count, pc, op, fresh, fcap, i, marked, ret>>
table == <<items, cap, count>>
growing == <<fresh, fcap>>

-----------------------------------------------------------------------------
(* Slots and probing.                                                       *)

Empty == [k |-> NoKey, v |-> Null]
Tombstone == [k |-> NoKey, v |-> True]
Slot == [k : Keys, v : Vals] \union {Empty, Tombstone}

Slots(n) == 0 .. (n - 1)
Tables(n) == [Slots(n) -> Slot]

\* The slot probing starts at: the capacity is a power of two in the code, so
\* masking with cap - 1 is the remainder.
Home(k, n) == Hash[k] % n

\* The slots a probe that started at h visits before it comes to j.
Before(h, j, n) == IF h <= j THEN h .. (j - 1)
                             ELSE (h .. (n - 1)) \union (0 .. (j - 1))

\* A probe for k ends at k's own slot or at an empty one.
Stops(t, k, j) == t[j].k = k \/ t[j] = Empty

StopsFirst(t, n, k, j) ==
    Stops(t, k, j) /\ \A l \in Before(Home(k, n), j, n) : ~Stops(t, k, l)

StopSlot(t, n, k) == CHOOSE j \in Slots(n) : StopsFirst(t, n, k, j)

\* Faulty variants of FindItem: give up at the first tombstone; forget it.
FindItemEager(t, n, k) ==
    LET halts(j) == Stops(t, k, j) \/ t[j] = Tombstone
    IN CHOOSE j \in Slots(n) :
           halts(j) /\ \A l \in Before(Home(k, n), j, n) : ~halts(l)
FindItemLast(t, n, k) == StopSlot(t, n, k)

\* The first tombstone the probe passed, or where it stopped.
FindItem(t, n, k) ==
    LET stop == StopSlot(t, n, k)
        tombs == {j \in Before(Home(k, n), stop, n) : t[j] = Tombstone}
    IN IF t[stop].k = k \/ tombs = {}
       THEN stop
       ELSE CHOOSE j \in tombs :
                \A l \in tombs : l \notin Before(Home(k, n), j, n)

KeysIn(t, n) == {t[j].k : j \in Slots(n)} \ {NoKey}

\* get_map and rem_map give up at once on a table that never counted a key.
Lookup(k) == count # 0 /\ items[FindItem(items, cap, k)].k = k

\* Faulty variant of RemoveFrom: clears the slot.
RemoveFromCleared(t, n, k) ==
    LET j == FindItem(t, n, k)
    IN IF t[j].k = k THEN [t EXCEPT ![j] = Empty] ELSE t

\* rem_map on the array alone.
RemoveFrom(t, n, k) ==
    LET j == FindItem(t, n, k)
    IN IF t[j].k = k THEN [t EXCEPT ![j] = Tombstone] ELSE t

\* Faulty variant of NeedsGrow: forgets the entry about to be added.
NeedsGrowLate == 4 * count > 3 * cap

\* Would one more entry make the table more than three quarters full?
NeedsGrow == 4 * (count + 1) > 3 * cap

\* Faulty variant of GrowCap: does not double.
GrowCapOnce == IF cap < MinCap THEN MinCap ELSE cap

GrowCap == IF cap < MinCap THEN MinCap ELSE 2 * cap

-----------------------------------------------------------------------------
(* Operations.                                                              *)

NoOp == [name |-> "none"]
SetOps == [name : {"set", "assign"}, k : Keys, v : Vals]
Ops == {NoOp, [name |-> "gc"]} \union SetOps

Init == /\ items = [j \in {} |-> Empty]
        /\ cap = 0
        /\ count = 0
        /\ pc = "idle"
        /\ op = NoOp
        /\ fresh = [j \in {} |-> Empty]
        /\ fcap = 0
        /\ i = 0
        /\ marked = {}
        /\ ret = <<"none">>

Get(k) == /\ pc = "idle"
          /\ ret' = <<"get", IF Lookup(k)
                             THEN items[FindItem(items, cap, k)].v
                             ELSE Absent>>
          /\ UNCHANGED <<table, growing, pc, op, i, marked>>

Remove(k) == /\ pc = "idle"
             /\ items' = IF count = 0 THEN items ELSE RemoveFrom(items, cap, k)
             /\ ret' = <<"rem", Lookup(k)>>
             /\ UNCHANGED <<cap, count, growing, pc, op, i, marked>>

\* set_map, and bc_set_global ("assign"), which undoes the insertion when it
\* turns out that the variable did not exist.
BeginSet(name, k, v) ==
    /\ pc = "idle"
    /\ op' = [name |-> name, k |-> k, v |-> v]
    /\ pc' = IF NeedsGrow THEN "alloc" ELSE "store"
    /\ UNCHANGED <<table, growing, i, marked, ret>>

\* Does using slot j raise count?  Reusing a tombstone does not, for it is
\* counted already.  Faulty variant: any slot without a key does.
CountsTombstones(t, j) == t[j].k = NoKey
Counts(t, j) == t[j] = Empty

\* Faulty variant: the variable that did not exist stays in the table.
KeptAfterSet(t, isNew) == t
AfterSet(t, isNew) == IF op.name = "assign" /\ isNew
                      THEN RemoveFrom(t, cap, op.k)
                      ELSE t

Store ==
    /\ pc = "store"
    /\ LET j == FindItem(items, cap, op.k)
           isNew == items[j].k = NoKey
       IN /\ count' = IF Counts(items, j) THEN count + 1 ELSE count
          /\ items' = AfterSet([items EXCEPT ![j] = [k |-> op.k, v |-> op.v]],
                               isNew)
          /\ ret' = <<op.name, IF op.name = "set" THEN isNew ELSE ~isNew>>
    /\ pc' = "idle"
    /\ op' = NoOp
    /\ UNCHANGED <<cap, growing, i, marked>>

\* adjust_cap: the allocation of the larger array, which collects or not ...
Allocate == /\ pc = "alloc"
            /\ pc' = "fill"
            /\ UNCHANGED <<table, growing, op, i, marked, ret>>

\* ... the new array, all empty, counting from zero again ...
Fill == /\ pc = "fill"
        /\ fcap' = GrowCap
        /\ fresh' = [j \in Slots(GrowCap) |-> Empty]
        /\ count' = 0
        /\ i' = 0
        /\ pc' = "rehash"
        /\ UNCHANGED <<items, cap, op, marked, ret>>

\* Faulty variant of Rehash: does not move on past a slot without a key.
RehashStuck ==
    /\ pc = "rehash"
    /\ i < cap
    /\ IF items[i].k = NoKey
       THEN UNCHANGED <<i, fresh, count>>
       ELSE /\ fresh' = [fresh EXCEPT
                           ![FindItem(fresh, fcap, items[i].k)] = items[i]]
            /\ count' = count + 1
            /\ i' = i + 1
    /\ UNCHANGED <<items, cap, fcap, pc, op, marked, ret>>

\* ... the keys, slot by slot, tombstones left behind ...
Rehash ==
    /\ pc = "rehash"
    /\ i < cap
    /\ i' = i + 1
    /\ IF items[i].k = NoKey
       THEN UNCHANGED <<fresh, count>>
       ELSE /\ fresh' = [fresh EXCEPT
                           ![FindItem(fresh, fcap, items[i].k)] = items[i]]
            /\ count' = count + 1
    /\ UNCHANGED <<items, cap, fcap, pc, op, marked, ret>>

\* ... and the exchange of the arrays.
Install == /\ pc = "rehash"
           /\ i = cap
           /\ items' = fresh
           /\ cap' = fcap
           /\ fresh' = [j \in {} |-> Empty]
           /\ fcap' = 0
           /\ i' = 0
           /\ pc' = "store"
           /\ UNCHANGED <<count, op, marked, ret>>

\* rem_black_map, run by the collector between operations or inside the
\* allocation of adjust_cap, where the key being added is on the stack.
BeginSweep(live) ==
    /\ live \subseteq KeysIn(items, cap)
    /\ \/ pc = "idle" /\ op' = [name |-> "gc"]
       \/ /\ pc = "alloc" /\ UNCHANGED op
          /\ op.k \in KeysIn(items, cap) => op.k \in live
    /\ marked' = live
    /\ i' = 0
    /\ pc' = "sweep"
    /\ UNCHANGED <<table, growing, ret>>

Sweep == /\ pc = "sweep"
         /\ i < cap
         /\ i' = i + 1
         /\ items' = IF items[i].k \notin marked \union {NoKey} /\ count # 0
                     THEN RemoveFrom(items, cap, items[i].k)
                     ELSE items
         /\ UNCHANGED <<cap, count, growing, pc, op, marked, ret>>

\* Faulty variant of EndSweep: takes the count for the number of slots.
EndSweepAtCount == /\ pc = "sweep"
                   /\ i = count
                   /\ i' = 0
                   /\ marked' = {}
                   /\ pc' = IF op.name = "gc" THEN "idle" ELSE "fill"
                   /\ op' = IF op.name = "gc" THEN NoOp ELSE op
                   /\ UNCHANGED <<table, growing, ret>>

\* Faulty variant of EndSweep: the allocation that collected is made anew, and so
\* may collect again.
EndSweepAgain == /\ pc = "sweep"
                 /\ i = cap
                 /\ i' = 0
                 /\ marked' = {}
                 /\ pc' = IF op.name = "gc" THEN "idle" ELSE "alloc"
                 /\ op' = IF op.name = "gc" THEN NoOp ELSE op
                 /\ UNCHANGED <<table, growing, ret>>

EndSweep == /\ pc = "sweep"
            /\ i = cap
            /\ i' = 0
            /\ marked' = {}
            /\ pc' = IF op.name = "gc" THEN "idle" ELSE "fill"
            /\ op' = IF op.name = "gc" THEN NoOp ELSE op
            /\ UNCHANGED <<table, growing, ret>>

\* free_map: the owner is freed, or the table reused from its initial state.
Free == /\ pc = "idle"
        /\ items' = [j \in {} |-> Empty]
        /\ cap' = 0
        /\ count' = 0
        /\ ret' = <<"none">>
        /\ UNCHANGED <<growing, pc, op, i, marked>>

Step == Store \/ Allocate \/ Fill \/ Rehash \/ Install \/ Sweep \/ EndSweep

Next == \/ \E k \in Keys : Get(k) \/ Remove(k)
        \/ \E k \in Keys, v \in Vals :
              BeginSet("set", k, v) \/ BeginSet("assign", k, v)
        \/ \E live \in SUBSET Keys : BeginSweep(live)
        \/ Free
        \/ Step

Spec == Init /\ [][Next]_vars

-----------------------------------------------------------------------------
(* Properties.                                                              *)

Used(t, n) == {j \in Slots(n) : t[j] # Empty}

\* The running operation has a table of capacity cap and items of that length.
TypeOK ==
    /\ cap \in Nat /\ fcap \in Nat /\ count \in Nat /\ i \in Nat
    /\ items \in Tables(cap)
    /\ fresh \in Tables(fcap)
    /\ pc \in {"idle", "alloc", "fill", "rehash", "store", "sweep"}
    /\ op \in Ops
    /\ marked \subseteq Keys

\* count is the number of slots in use, tombstones included: of the table,
\* or of the array being filled while adjust_cap runs.
CountExact ==
    count = IF pc = "rehash" THEN Cardinality(Used(fresh, fcap))
                             ELSE Cardinality(Used(items, cap))

\* The table is never more than three quarters full, tombstones included, and
\* set_map stores into a table with room for one more; the array adjust_cap
\* fills has counted no more keys than slots of the old one were read.
LoadBounded ==
    /\ cap = 0 \/ cap >= MinCap
    /\ pc = "rehash" => count <= i /\ i <= cap /\ fcap = GrowCap
    /\ pc # "rehash" => 4 * count <= 3 * cap /\ fcap = 0
    /\ pc = "store" => 4 * (count + 1) <= 3 * cap
    /\ pc = "sweep" => i <= cap

\* Every probe of find_item ends: a table that has slots has an empty one, and
\* so has the array adjust_cap fills.  Without it `while (true)` is for ever.
ProbeEnds ==
    /\ cap > 0 => \E j \in Slots(cap) : items[j] = Empty
    /\ fcap > 0 => \E j \in Slots(fcap) : fresh[j] = Empty
    /\ pc = "store" => cap > 0

\* A stored key can be reached: no slot between its home and its own is empty.
\* Tombstones exist to keep this true when a key in between is removed.
ChainUnbroken(t, n) ==
    \A j \in Slots(n) : t[j].k # NoKey =>
        \A l \in Before(Home(t[j].k, n), j, n) : t[l] # Empty

ChainsUnbroken == ChainUnbroken(items, cap) /\ ChainUnbroken(fresh, fcap)

\* A key is in one slot only: set_map may not take the first tombstone it
\* meets before it has looked at the rest of the chain.
KeyUnique(t, n) ==
    \A j, l \in Slots(n) : t[j].k = t[l].k /\ t[j].k # NoKey => j = l

KeysUnique == KeyUnique(items, cap) /\ KeyUnique(fresh, fcap)

\* Adding and removing the same keys for ever does not wear the table out: set
\* reuses tombstones, so the slots in use never outnumber the keys there are.
NoSlotLeak == Cardinality(Used(items, cap)) <= Cardinality(Keys)

\* rem_black_map drops the dead strings and only those: no live one goes on the
\* way, although its own removals turn slots of the chains into tombstones, and
\* at the end none is left that gc is about to free.
SweepExact ==
    [][pc = "sweep" =>
         /\ KeysIn(items, cap) \intersect marked \subseteq KeysIn(items', cap')
         /\ pc' # "sweep" => KeysIn(items', cap') \subseteq marked]_vars

\* The table implements the partial function its callers see: growing and
\* leaving tombstones behind are invisible, and every answer is right.
SlotsOf(k) == {j \in Slots(cap) : items[j].k = k}

Map == INSTANCE AbstractMap WITH
    m <- [k \in Keys |-> IF SlotsOf(k) = {} THEN Absent
                         ELSE items[CHOOSE j \in SlotsOf(k) : TRUE].v]

ImplementsMap == Map!Spec

\* What is left of the running operation, in steps: two passes over the table at
\* most, one of the collection inside growing and one of the growing itself.
Left == CASE pc = "idle" -> 0
          [] pc = "store" -> 1
          [] pc = "rehash" -> cap - i + 2
          [] pc = "fill" -> cap + 3
          [] pc = "sweep" -> IF op.name = "gc" THEN cap - i + 1 ELSE 2 * cap - i + 4
          [] pc = "alloc" -> 2 * cap + 5

\* Every step of an operation leaves less of it: growing does not begin again
\* after a collection, nor does what the collection removes make a pass longer.
OperationsShrink == [][pc # "idle" => Left \in Nat /\ Left' \in 0 .. Left - 1]_vars
=============================================================================
