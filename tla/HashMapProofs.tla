--------------------------- MODULE HashMapProofs ---------------------------
(* Theorems about HashMap, for every set of keys, hash function and first    *)
(* capacity: the table keeps its types, find_item always ends, every stored  *)
(* key is found, in one slot only, count is exact, the sweep drops what it   *)
(* must, and the table does not wear out; it implements AbstractMap.  And    *)
(* about Interning, for all texts: one object per text, none of them freed   *)
(* while it is in the table or held.                                         *)
EXTENDS Interning, FiniteSetTheorems, WellFoundedInduction, TLAPS

-----------------------------------------------------------------------------
(* Slots and probing.                                                       *)

\* A slot array has finitely many slots in use, at most as many as it has slots.
LEMMA UsedFinite ==
    ASSUME NEW n \in Nat, NEW t
    PROVE  /\ IsFiniteSet(Used(t, n))
           /\ Cardinality(Used(t, n)) \in Nat
           /\ Cardinality(Used(t, n)) <= n
<1>1. IsFiniteSet(Slots(n)) /\ Cardinality(Slots(n)) = n
  BY FS_Interval DEF Slots
<1>2. Used(t, n) \subseteq Slots(n)
  BY DEF Used
<1> QED
  BY <1>1, <1>2, FS_Subset, FS_CardinalityType

\* An array that does not use all its slots has an empty one.
LEMMA EmptySlotExists ==
    ASSUME NEW n \in Nat, NEW t, Cardinality(Used(t, n)) < n
    PROVE  \E j \in Slots(n) : t[j] = Empty
<1>1. IsFiniteSet(Slots(n)) /\ Cardinality(Slots(n)) = n
  BY FS_Interval DEF Slots
<1>2. Used(t, n) # Slots(n)
  BY <1>1
<1> QED
  BY <1>2 DEF Used

\* A set that has at most one element more than another is at most one larger.
LEMMA OneMore ==
    ASSUME NEW A, IsFiniteSet(A), NEW B, NEW x, B \subseteq A \union {x}
    PROVE  /\ Cardinality(A) \in Nat
           /\ Cardinality(B) \in Nat
           /\ Cardinality(B) <= Cardinality(A) + 1
           /\ B \subseteq A => Cardinality(B) <= Cardinality(A)
<1>1. Cardinality(A) \in Nat
  BY FS_CardinalityType
<1>2. /\ IsFiniteSet(A \union {x})
      /\ \/ Cardinality(A \union {x}) = Cardinality(A)
         \/ Cardinality(A \union {x}) = Cardinality(A) + 1
  BY FS_AddElement
<1>3. IsFiniteSet(B) /\ Cardinality(B) <= Cardinality(A \union {x})
  BY <1>2, FS_Subset
<1>4. Cardinality(B) \in Nat
  BY <1>3, FS_CardinalityType
<1>5. B \subseteq A => Cardinality(B) <= Cardinality(A)
  BY FS_Subset
<1> QED
  BY <1>1, <1>2, <1>3, <1>4, <1>5

\* Writing one slot puts at most that slot in use, and none when it was.
LEMMA WriteUses ==
    ASSUME NEW n \in Nat, NEW t \in Tables(n), NEW j, NEW e,
           NEW u, u = [t EXCEPT ![j] = e]
    PROVE  /\ Cardinality(Used(u, n)) <= Cardinality(Used(t, n)) + 1
           /\ t[j] # Empty =>
                Cardinality(Used(u, n)) <= Cardinality(Used(t, n))
<1>1. IsFiniteSet(Used(t, n))
  BY UsedFinite
<1>2. Used(u, n) \subseteq Used(t, n) \union {j}
  BY DEF Used, Tables
<1>3. t[j] # Empty => Used(u, n) \subseteq Used(t, n)
  BY DEF Used, Tables
<1> HIDE DEF Used
<1> QED
  BY <1>1, <1>2, <1>3, OneMore

\* Removing a key leaves a tombstone: the array keeps its type and its use.
LEMMA RemoveUses ==
    ASSUME NEW n \in Nat, NEW t \in Tables(n), NEW k \in Keys
    PROVE  /\ RemoveFrom(t, n, k) \in Tables(n)
           /\ Cardinality(Used(RemoveFrom(t, n, k), n))
                <= Cardinality(Used(t, n))
<1> DEFINE j == FindItem(t, n, k)
<1>1. CASE t[j].k # k
  BY <1>1, UsedFinite DEF RemoveFrom
<1>2. CASE t[j].k = k
  <2>1. RemoveFrom(t, n, k) = [t EXCEPT ![j] = Tombstone]
    BY <1>2 DEF RemoveFrom
  <2>2. t[j] # Empty
    BY <1>2, ConstantsAssumption DEF Empty
  <2>3. [t EXCEPT ![j] = Tombstone] \in Tables(n)
    BY DEF Tables, Slot
  <2> HIDE DEF j
  <2> QED
    BY <2>1, <2>2, <2>3, WriteUses
<1> QED
  BY <1>1, <1>2

-----------------------------------------------------------------------------
(* The inductive invariant.  ProbeEnds alone is not inductive: it says      *)
(* nothing of how full the table is.  LoadBounded bounds count, so what is  *)
(* added is that count is no less than the number of slots really in use,   *)
(* in the array that count speaks of, and that a running operation has the  *)
(* arguments of a set.                                                      *)

OpFits == /\ pc \in {"alloc", "fill", "rehash", "store"} => op \in SetOps
          /\ pc = "sweep" /\ op.name # "gc" => op \in SetOps

UseCounted ==
    /\ 4 * Cardinality(Used(items, cap)) <= 3 * cap
    /\ pc # "rehash" => Cardinality(Used(items, cap)) <= count
    /\ pc = "rehash" => Cardinality(Used(fresh, fcap)) <= count

IInv == TypeOK /\ OpFits /\ LoadBounded /\ UseCounted

LEMMA InitIInv == Init => IInv
<1> SUFFICES ASSUME Init PROVE IInv
  OBVIOUS
<1>1. TypeOK
  BY DEF Init, TypeOK, Tables, Slots, Ops
<1>2. OpFits /\ LoadBounded
  BY DEF Init, OpFits, LoadBounded, NoOp
<1>3. Used(items, cap) = {}
  BY DEF Init, Used, Slots
<1>4. UseCounted
  BY <1>3, FS_EmptySet DEF Init, UseCounted
<1> QED
  BY <1>1, <1>2, <1>4 DEF IInv

\* Storing into a slot: count goes up when the slot was empty, so it still
\* bounds the slots in use, and set_map made room for one more.
LEMMA StoreStep == ASSUME IInv, Store PROVE IInv'
<1> DEFINE j == FindItem(items, cap, op.k)
           put == [items EXCEPT ![j] = [k |-> op.k, v |-> op.v]]
           isNew == items[j].k = NoKey
<1>1. /\ op \in SetOps /\ op.k \in Keys /\ op.v \in Vals
      /\ items \in Tables(cap) /\ cap \in Nat /\ count \in Nat
      /\ 4 * (count + 1) <= 3 * cap
      /\ Cardinality(Used(items, cap)) <= count
  BY DEF IInv, Store, OpFits, SetOps, TypeOK, LoadBounded, UseCounted
<1>2. /\ items' = AfterSet(put, isNew)
      /\ count' = IF Counts(items, j) THEN count + 1 ELSE count
      /\ pc' = "idle" /\ op' = NoOp
      /\ UNCHANGED <<cap, fresh, fcap, i, marked>>
  BY DEF Store, growing
<1>3. put \in Tables(cap)
  BY <1>1 DEF Tables, Slot
<1>4. /\ Cardinality(Used(put, cap)) <= Cardinality(Used(items, cap)) + 1
      /\ items[j] # Empty =>
           Cardinality(Used(put, cap)) <= Cardinality(Used(items, cap))
  <2> DEFINE e == [k |-> op.k, v |-> op.v]
  <2>1. put = [items EXCEPT ![j] = e]
    OBVIOUS
  <2> HIDE DEF j, put, e
  <2> QED
    BY <1>1, <2>1, WriteUses
<1> HIDE DEF j, put, isNew
<1>5. count' \in Nat /\ Cardinality(Used(put, cap)) <= count' /\ count' <= count + 1
  BY <1>1, <1>2, <1>4, UsedFinite DEF Counts
<1>6. items' \in Tables(cap) /\ Cardinality(Used(items', cap)) <= count'
  <2>1. RemoveFrom(put, cap, op.k) \in Tables(cap)
        /\ Cardinality(Used(RemoveFrom(put, cap, op.k), cap))
             <= Cardinality(Used(put, cap))
    BY <1>1, <1>3, RemoveUses
  <2>2. /\ Cardinality(Used(put, cap)) \in Nat
        /\ Cardinality(Used(RemoveFrom(put, cap, op.k), cap)) \in Nat
    BY <1>1, UsedFinite
  <2>3. items' = put \/ items' = RemoveFrom(put, cap, op.k)
    BY <1>2 DEF AfterSet
  <2> QED
    BY <1>3, <1>5, <2>1, <2>2, <2>3
<1>7. TypeOK'
  BY <1>1, <1>2, <1>5, <1>6 DEF IInv, TypeOK, Ops
<1>8. OpFits'
  BY <1>2 DEF OpFits, NoOp
<1>9. LoadBounded'
  BY <1>1, <1>2, <1>5 DEF IInv, LoadBounded, Store
<1>10. UseCounted'
  BY <1>1, <1>2, <1>5, <1>6, UsedFinite DEF UseCounted
<1> QED
  BY <1>7, <1>8, <1>9, <1>10 DEF IInv

\* Copying one key to the new array uses one slot more at most.
LEMMA RehashStep == ASSUME IInv, Rehash PROVE IInv'
<1>1. /\ pc = "rehash" /\ i < cap /\ i \in Nat /\ cap \in Nat /\ fcap \in Nat
      /\ count \in Nat /\ count <= i /\ fcap = GrowCap
      /\ items \in Tables(cap) /\ fresh \in Tables(fcap)
      /\ Cardinality(Used(fresh, fcap)) <= count
  BY DEF IInv, Rehash, TypeOK, LoadBounded, UseCounted
<1>2. i' = i + 1 /\ pc' = "rehash"
      /\ UNCHANGED <<items, cap, fcap, op, marked>>
  BY DEF Rehash
<1>3. /\ count' \in Nat /\ count' <= i'
      /\ fresh' \in Tables(fcap)
      /\ Cardinality(Used(fresh', fcap)) <= count'
  <2>1. CASE items[i].k = NoKey
    BY <1>1, <1>2, <2>1 DEF Rehash
  <2>2. CASE items[i].k # NoKey
    <3> DEFINE j == FindItem(fresh, fcap, items[i].k)
    <3>1. /\ fresh' = [fresh EXCEPT ![j] = items[i]]
          /\ count' = count + 1
      BY <2>2 DEF Rehash
    <3>2. items[i] \in Slot
      BY <1>1 DEF Tables, Slots
    <3>3. fresh' \in Tables(fcap)
      BY <1>1, <3>1, <3>2 DEF Tables
    <3> HIDE DEF j
    <3> DEFINE e == items[i]
    <3>4. fresh' = [fresh EXCEPT ![j] = e]
      BY <3>1
    <3> HIDE DEF e
    <3>5. Cardinality(Used(fresh', fcap)) <= Cardinality(Used(fresh, fcap)) + 1
      BY <1>1, <3>4, WriteUses
    <3>6. /\ Cardinality(Used(fresh', fcap)) \in Nat
          /\ Cardinality(Used(fresh, fcap)) \in Nat
      BY <1>1, UsedFinite
    <3> QED
      BY <1>1, <1>2, <3>1, <3>3, <3>5, <3>6
  <2> QED
    BY <2>1, <2>2
<1>4. TypeOK'
  BY <1>1, <1>2, <1>3 DEF IInv, TypeOK
<1>5. OpFits' /\ LoadBounded'
  BY <1>1, <1>2, <1>3 DEF IInv, OpFits, LoadBounded, GrowCap
<1>6. UseCounted'
  BY <1>1, <1>2, <1>3 DEF IInv, UseCounted
<1> QED
  BY <1>4, <1>5, <1>6 DEF IInv

\* The new array has at least twice the slots of the old one, whose keys are
\* all it holds: it is at most half full, with room for one key more.
LEMMA InstallStep == ASSUME IInv, Install PROVE IInv'
<1>1. /\ pc = "rehash" /\ i = cap /\ cap \in Nat /\ fcap \in Nat
      /\ count \in Nat /\ count <= cap /\ fcap = GrowCap
      /\ cap = 0 \/ cap >= MinCap
      /\ fresh \in Tables(fcap)
      /\ Cardinality(Used(fresh, fcap)) <= count
  BY DEF IInv, Install, TypeOK, LoadBounded, UseCounted
<1>2. /\ items' = fresh /\ cap' = fcap /\ fresh' = [j \in {} |-> Empty]
      /\ fcap' = 0 /\ i' = 0 /\ pc' = "store"
      /\ UNCHANGED <<count, op, marked>>
  BY DEF Install
<1>3. /\ 4 * (count + 1) <= 3 * fcap
      /\ fcap >= MinCap
  BY <1>1, ConstantsAssumption DEF GrowCap
<1>4. TypeOK'
  BY <1>1, <1>2 DEF IInv, TypeOK, Tables, Slots
<1>5. OpFits' /\ LoadBounded'
  BY <1>1, <1>2, <1>3 DEF IInv, OpFits, LoadBounded
<1>6. UseCounted'
  BY <1>1, <1>2, <1>3, UsedFinite DEF UseCounted
<1> QED
  BY <1>4, <1>5, <1>6 DEF IInv

\* The new array is filled from nothing.
LEMMA FillStep == ASSUME IInv, Fill PROVE IInv'
<1>1. /\ pc = "fill" /\ cap \in Nat /\ op \in SetOps
  BY DEF IInv, Fill, TypeOK, OpFits
<1>2. /\ fcap' = GrowCap /\ fresh' = [j \in Slots(GrowCap) |-> Empty]
      /\ count' = 0 /\ i' = 0 /\ pc' = "rehash"
      /\ UNCHANGED <<items, cap, op, marked>>
  BY DEF Fill
<1>3. GrowCap \in Nat
  BY <1>1, ConstantsAssumption DEF GrowCap
<1>4. TypeOK'
  BY <1>1, <1>2, <1>3 DEF IInv, TypeOK, Tables, Slot
<1>5. OpFits' /\ LoadBounded'
  BY <1>1, <1>2 DEF IInv, OpFits, LoadBounded, GrowCap
<1>6. Used(fresh', fcap') = {}
  BY <1>2 DEF Used
<1>7. UseCounted'
  BY <1>1, <1>2, <1>6, FS_EmptySet DEF IInv, UseCounted
<1> QED
  BY <1>4, <1>5, <1>7 DEF IInv

\* Dropping a key, by rem_map or in the collector's sweep, leaves a tombstone.
LEMMA DropStep ==
    ASSUME IInv, pc # "rehash", pc # "store", pc' = pc, op' = op,
           i' \in Nat, pc = "sweep" => i' <= cap,
           UNCHANGED <<cap, count, fresh, fcap, marked>>,
           items' = items \/ \E k \in Keys : items' = RemoveFrom(items, cap, k)
    PROVE  IInv'
<1>1. items \in Tables(cap) /\ cap \in Nat /\ count \in Nat
  BY DEF IInv, TypeOK
<1>2. /\ items' \in Tables(cap)
      /\ Cardinality(Used(items', cap)) <= Cardinality(Used(items, cap))
      /\ Cardinality(Used(items', cap)) \in Nat
      /\ Cardinality(Used(items, cap)) \in Nat
  BY <1>1, RemoveUses, UsedFinite
<1>3. TypeOK'
  BY <1>2 DEF IInv, TypeOK
<1>4. OpFits' /\ LoadBounded'
  BY DEF IInv, OpFits, LoadBounded
<1>5. UseCounted'
  BY <1>1, <1>2 DEF IInv, UseCounted
<1> QED
  BY <1>3, <1>4, <1>5 DEF IInv

\* Every step keeps the invariant.
LEMMA NextIInv == IInv /\ [Next]_vars => IInv'
<1> SUFFICES ASSUME IInv, [Next]_vars PROVE IInv'
  OBVIOUS
<1>0. TypeOK /\ OpFits /\ LoadBounded /\ UseCounted
  BY DEF IInv
<1>1. CASE UNCHANGED vars
  BY <1>0, <1>1 DEF IInv, vars, TypeOK, OpFits, LoadBounded, UseCounted, GrowCap
<1>2. ASSUME NEW k \in Keys, Get(k) PROVE IInv'
  BY <1>0, <1>2 DEF IInv, Get, table, growing, TypeOK, OpFits, LoadBounded, UseCounted, GrowCap
<1>3. ASSUME NEW k \in Keys, Remove(k) PROVE IInv'
  <2>1. i' \in Nat /\ pc = "idle"
    BY <1>0, <1>3 DEF Remove, TypeOK
  <2> QED
    BY <1>3, <2>1, DropStep DEF Remove, growing
<1>4. ASSUME NEW k \in Keys, NEW v \in Vals, NEW name \in {"set", "assign"},
             BeginSet(name, k, v)
      PROVE  IInv'
  <2>1. /\ op' \in SetOps /\ pc = "idle" /\ pc' \in {"alloc", "store"}
        /\ UNCHANGED <<items, cap, count, fresh, fcap, i, marked>>
        /\ pc' = "store" => ~NeedsGrow
    BY <1>4 DEF BeginSet, SetOps, table, growing
  <2>2. TypeOK' /\ OpFits'
    BY <1>0, <2>1 DEF TypeOK, OpFits, Ops
  <2>3. LoadBounded'
    BY <1>0, <2>1 DEF LoadBounded, NeedsGrow, TypeOK
  <2>4. UseCounted'
    BY <1>0, <2>1 DEF UseCounted
  <2> QED
    BY <2>2, <2>3, <2>4 DEF IInv
<1>5. ASSUME NEW live \in SUBSET Keys, BeginSweep(live) PROVE IInv'
  <2>1. /\ pc \in {"idle", "alloc"} /\ pc' = "sweep" /\ i' = 0 /\ marked' = live
        /\ op' = [name |-> "gc"] \/ (op' = op /\ pc = "alloc")
        /\ UNCHANGED <<items, cap, count, fresh, fcap>>
    BY <1>5 DEF BeginSweep, table, growing
  <2>2. TypeOK'
    BY <1>0, <2>1 DEF TypeOK, Ops
  <2>4. OpFits'
    BY <1>0, <2>1 DEF OpFits
  <2>3. LoadBounded' /\ UseCounted'
    BY <1>0, <2>1 DEF LoadBounded, UseCounted, TypeOK
  <2> QED
    BY <2>2, <2>3, <2>4 DEF IInv
<1>6. CASE Free
  <2>1. /\ items' = [j \in {} |-> Empty] /\ cap' = 0 /\ count' = 0
        /\ pc = "idle" /\ pc' = "idle"
        /\ UNCHANGED <<fresh, fcap, op, i, marked>>
    BY <1>6 DEF Free, growing
  <2>2. TypeOK' /\ OpFits' /\ LoadBounded'
    BY <1>0, <2>1 DEF TypeOK, Tables, Slots, OpFits, LoadBounded
  <2>3. Used(items', cap') = {}
    BY <1>0, <2>1 DEF Used, Slots
  <2> QED
    BY <2>1, <2>2, <2>3, FS_EmptySet DEF IInv, UseCounted
<1>7. CASE Store
  BY <1>7, StoreStep
<1>8. CASE Allocate
  BY <1>0, <1>8 DEF IInv, Allocate, table, growing, TypeOK, OpFits, LoadBounded, UseCounted
<1>9. CASE Fill
  BY <1>9, FillStep
<1>10. CASE Rehash
  BY <1>10, RehashStep
<1>11. CASE Install
  BY <1>11, InstallStep
<1>12. CASE Sweep
  <2>1. /\ pc = "sweep" /\ pc' = pc /\ i' \in Nat /\ i' <= cap
        /\ UNCHANGED <<cap, count, fresh, fcap, op, marked>>
    BY <1>0, <1>12 DEF Sweep, growing, TypeOK
  <2>2. items' = items \/ items' = RemoveFrom(items, cap, items[i].k)
    BY <1>12 DEF Sweep
  <2>3. items[i].k \in Keys \/ items' = items
    <3>1. i \in Slots(cap)
      BY <1>0, <1>12 DEF Sweep, TypeOK, Slots
    <3>2. items[i] \in Slot
      BY <1>0, <3>1 DEF TypeOK, Tables
    <3> QED
      BY <1>12, <3>2 DEF Sweep, Slot, Empty, Tombstone
  <2> QED
    BY <2>1, <2>2, <2>3, DropStep
<1>13. CASE EndSweep
  <2>1. /\ pc = "sweep" /\ i' = 0 /\ marked' = {}
        /\ \/ op.name = "gc" /\ pc' = "idle" /\ op' = NoOp
           \/ op.name # "gc" /\ pc' = "fill" /\ op' = op
        /\ UNCHANGED <<items, cap, count, fresh, fcap>>
    BY <1>13 DEF EndSweep, table, growing
  <2>2. TypeOK' /\ OpFits'
    BY <1>0, <2>1 DEF TypeOK, OpFits, Ops
  <2>3. LoadBounded' /\ UseCounted'
    BY <1>0, <2>1 DEF LoadBounded, UseCounted
  <2> QED
    BY <2>2, <2>3 DEF IInv
<1> QED
  BY <1>1, <1>2, <1>3, <1>4, <1>5, <1>6, <1>7, <1>8, <1>9, <1>10, <1>11,
     <1>12, <1>13 DEF Next, Step

\* Tables that are not full have an empty slot.
LEMMA ProbesFindEmpty == ASSUME IInv PROVE ProbeEnds
<1>1. /\ cap \in Nat /\ fcap \in Nat /\ count \in Nat /\ i \in Nat
      /\ 4 * Cardinality(Used(items, cap)) <= 3 * cap
      /\ pc # "rehash" => fcap = 0
      /\ pc = "rehash" => /\ count <= i /\ i <= cap /\ fcap = GrowCap
                          /\ Cardinality(Used(fresh, fcap)) <= count
      /\ pc = "store" => 4 * (count + 1) <= 3 * cap
      /\ cap = 0 \/ cap >= MinCap
  BY DEF IInv, TypeOK, LoadBounded, UseCounted
<1>2. /\ Cardinality(Used(items, cap)) \in Nat
      /\ Cardinality(Used(fresh, fcap)) \in Nat
  BY <1>1, UsedFinite
<1>3. cap > 0 => Cardinality(Used(items, cap)) < cap
  BY <1>1, <1>2
<1>4. fcap > 0 => Cardinality(Used(fresh, fcap)) < fcap
  BY <1>1, <1>2, ConstantsAssumption DEF GrowCap
<1>5. pc = "store" => cap > 0
  BY <1>1
<1> QED
  BY <1>1, <1>3, <1>4, <1>5, EmptySlotExists DEF ProbeEnds

-----------------------------------------------------------------------------
(* The theorems.                                                            *)

LEMMA AlwaysIInv == Spec => []IInv
<1> QED
  BY InitIInv, NextIInv, PTL DEF Spec

\* The variables of the table and of its running operation keep their types.
THEOREM TypeCorrect == Spec => []TypeOK
<1>1. IInv => TypeOK
  BY DEF IInv
<1> QED
  BY AlwaysIInv, <1>1, PTL

\* set_map keeps the table at most three quarters full, and adjust_cap always
\* makes an array large enough for the keys it copies and one more.
THEOREM LoadCorrect == Spec => []LoadBounded
<1>1. IInv => LoadBounded
  BY DEF IInv
<1> QED
  BY AlwaysIInv, <1>1, PTL

\* Every table and every array being filled has an empty slot: the `while (true)`
\* of find_item ends, whatever the keys, their hashes and their order.
THEOREM ProbesEnd == Spec => []ProbeEnds
<1>1. IInv => ProbeEnds
  BY ProbesFindEmpty
<1> QED
  BY AlwaysIInv, <1>1, PTL

\* Every step of a running operation leaves less of it to do.
LEMMA StepShrinks ==
    ASSUME IInv, Next, pc # "idle"
    PROVE  Left \in Nat /\ Left' \in 0 .. Left - 1
<1>1. /\ cap \in Nat /\ i \in Nat
      /\ pc \in {"idle", "alloc", "fill", "rehash", "store", "sweep"}
      /\ pc \in {"rehash", "sweep"} => i <= cap
  BY DEF IInv, TypeOK, LoadBounded
<1>2. CASE Allocate
  BY <1>1, <1>2 DEF Allocate, Left, table
<1>3. CASE Fill
  BY <1>1, <1>3 DEF Fill, Left
<1>4. CASE Rehash
  BY <1>1, <1>4 DEF Rehash, Left
<1>5. CASE Install
  BY <1>1, <1>5 DEF Install, Left
<1>6. CASE Store
  BY <1>1, <1>6 DEF Store, Left
<1>7. CASE \E live \in SUBSET Keys : BeginSweep(live)
  BY <1>1, <1>7 DEF BeginSweep, Left, table
<1>8. CASE Sweep
  BY <1>1, <1>8 DEF Sweep, Left
<1>9. CASE EndSweep
  BY <1>1, <1>9 DEF EndSweep, Left, table
<1> QED
  BY <1>2, <1>3, <1>4, <1>5, <1>6, <1>7, <1>8, <1>9
     DEF Next, Step, Get, Remove, BeginSet, Free

\* Growing, with a collection inside it, and the sweep take a number of steps that
\* is known when they begin, whatever the table holds: no operation goes on for ever.
THEOREM EveryStepCounts == Spec => OperationsShrink
<1>1. IInv /\ [Next]_vars => [pc # "idle" => Left \in Nat /\ Left' \in 0 .. Left - 1]_vars
  BY StepShrinks
<1> QED
  BY AlwaysIInv, <1>1, PTL DEF Spec, OperationsShrink

-----------------------------------------------------------------------------
(* The order in which a probe visits the slots: how many it has passed when  *)
(* it comes to one.                                                          *)

Dist(h, j, n) == IF h <= j THEN j - h ELSE j - h + n

\* Every slot is visited once, and the distance says when.
LEMMA Visits ==
    ASSUME NEW n \in Nat, NEW h \in Slots(n), NEW j \in Slots(n), NEW l \in Slots(n)
    PROVE  /\ Dist(h, j, n) \in Nat
           /\ Dist(h, j, n) = Dist(h, l, n) => j = l
           /\ l \in Before(h, j, n) <=> Dist(h, l, n) < Dist(h, j, n)
<1> QED
  BY DEF Dist, Before, Slots

LEMMA BeforeAreSlots ==
    ASSUME NEW n \in Nat, NEW h \in Slots(n), NEW j \in Slots(n)
    PROVE  Before(h, j, n) \subseteq Slots(n)
<1> QED
  BY DEF Before, Slots

\* A probe begins at a slot of the table.
LEMMA HomeIsSlot ==
    ASSUME NEW n \in Nat, n > 0, NEW k \in Keys
    PROVE  Home(k, n) \in Slots(n)
<1>1. Hash[k] \in Nat
  BY ConstantsAssumption
<1> QED
  BY <1>1 DEF Home, Slots

\* Numbers that there are have a least one among them.
LEMMA LeastOf ==
    ASSUME NEW H, H # {}, H \subseteq Nat
    PROVE  \E c \in H : \A d \in H : c <= d
<1>1. PICK c \in H : \A d \in H : <<d, c>> \notin OpToRel(<, Nat)
  BY NatLessThanWellFounded, WFMin
<1>2. \A d \in H : ~(d < c)
  BY <1>1 DEF OpToRel
<1> QED
  BY <1>2

\* Slots that there are have one among them that the probe visits first.
LEMMA FirstVisited ==
    ASSUME NEW n \in Nat, NEW h \in Slots(n), NEW S, S \subseteq Slots(n), S # {}
    PROVE  \E j \in S : \A l \in S : l \notin Before(h, j, n)
<1> DEFINE D == {Dist(h, l, n) : l \in S}
<1>1. D # {} /\ D \subseteq Nat
  BY Visits
<1>2. PICK c \in D : \A d \in D : c <= d
  BY <1>1, LeastOf
<1>3. PICK j \in S : c = Dist(h, j, n)
  BY <1>2
<1>4. ASSUME NEW l \in S PROVE l \notin Before(h, j, n)
  <2>1. Dist(h, j, n) <= Dist(h, l, n)
    BY <1>2, <1>3
  <2>2. /\ Dist(h, j, n) \in Nat /\ Dist(h, l, n) \in Nat
        /\ l \in Before(h, j, n) <=> Dist(h, l, n) < Dist(h, j, n)
    BY Visits
  <2> QED
    BY <2>1, <2>2
<1> QED
  BY <1>3, <1>4

-----------------------------------------------------------------------------
(* find_item.                                                                *)

HasEmpty(t, n) == \E j \in Slots(n) : t[j] = Empty

LEMMA HasSlots == ASSUME NEW n \in Nat, NEW t, HasEmpty(t, n) PROVE n > 0
<1> QED
  BY DEF HasEmpty, Slots

\* What slots hold: a key, or no key and then one of the two marks.
LEMMA SlotKinds ==
    ASSUME NEW e \in Slot
    PROVE  /\ e.k \in Keys \/ e.k = NoKey
           /\ e.k = NoKey => e = Empty \/ e = Tombstone
           /\ e = Empty => e.k = NoKey /\ e # Tombstone
           /\ e = Tombstone => e.k = NoKey
           /\ e.k \in Keys => e.v \in Vals /\ e.k # NoKey /\ e # Empty
<1> QED
  BY ConstantsAssumption DEF Slot, Empty, Tombstone

\* The probe stops at the first slot that ends it.
LEMMA ProbeStops ==
    ASSUME NEW n \in Nat, NEW t, HasEmpty(t, n), NEW k \in Keys
    PROVE  StopSlot(t, n, k) \in Slots(n) /\ StopsFirst(t, n, k, StopSlot(t, n, k))
<1> DEFINE S == {j \in Slots(n) : Stops(t, k, j)}
           h == Home(k, n)
<1>1. S # {} /\ S \subseteq Slots(n) /\ h \in Slots(n)
  BY HasSlots, HomeIsSlot DEF HasEmpty, Stops
<1> HIDE DEF h
<1>2. PICK j \in S : \A l \in S : l \notin Before(h, j, n)
  BY <1>1, FirstVisited
<1>3. Before(h, j, n) \subseteq Slots(n)
  BY <1>1, <1>2, BeforeAreSlots
<1>4. StopsFirst(t, n, k, j)
  BY <1>2, <1>3 DEF StopsFirst, h
<1> QED
  BY <1>2, <1>4 DEF StopSlot

\* find_item answers with the key's own slot, if the key is stored, and else
\* with one that may take it: no slot before it is empty, and it is the first
\* tombstone of the chain, if there is one.
LEMMA ItemFound ==
    ASSUME NEW n \in Nat, NEW t \in Tables(n), HasEmpty(t, n), NEW k \in Keys,
           ChainUnbroken(t, n),
           NEW j, j = FindItem(t, n, k)
    PROVE  /\ j \in Slots(n)
           /\ t[j].k \in {k, NoKey}
           /\ t[j].k = NoKey => \A l \in Slots(n) : t[l].k # k
           /\ \A l \in Before(Home(k, n), j, n) : t[l] # Empty
           /\ t[j].k = NoKey => \A l \in Before(Home(k, n), j, n) : t[l] # Tombstone
<1> DEFINE h == Home(k, n)
           stop == StopSlot(t, n, k)
           tombs == {l \in Before(h, stop, n) : t[l] = Tombstone}
<1>1. /\ h \in Slots(n) /\ stop \in Slots(n) /\ Stops(t, k, stop)
      /\ \A l \in Before(h, stop, n) : ~Stops(t, k, l)
  BY HasSlots, HomeIsSlot, ProbeStops DEF StopsFirst
<1>2. j = IF t[stop].k = k \/ tombs = {} THEN stop
          ELSE CHOOSE x \in tombs : \A l \in tombs : l \notin Before(h, x, n)
  BY DEF FindItem
<1>3. \A l \in Slots(n) : t[l] \in Slot
  BY DEF Tables
<1> HIDE DEF h, stop
<1>4. Before(h, stop, n) \subseteq Slots(n)
  BY <1>1, BeforeAreSlots
<1>5. t[stop].k # k => \A l \in Slots(n) : t[l].k # k
  <2> SUFFICES ASSUME t[stop].k # k, NEW l \in Slots(n), t[l].k = k PROVE FALSE
    OBVIOUS
  <2>1. t[stop] = Empty
    BY <1>1 DEF Stops
  <2>2. stop \notin Before(h, l, n)
    BY <1>1, <2>1, ConstantsAssumption DEF ChainUnbroken, h
  <2>3. l \notin Before(h, stop, n)
    BY <1>1 DEF Stops
  <2>4. l = stop
    BY <1>1, <2>2, <2>3, Visits
  <2> QED
    BY <2>4
<1>6. \A l \in Before(h, stop, n) : t[l] # Empty
  BY <1>1 DEF Stops
<1>7. CASE t[stop].k = k \/ tombs = {}
  <2>1. j = stop
    BY <1>2, <1>7
  <2>2. t[j].k \in {k, NoKey}
    BY <1>1, <2>1 DEF Stops, Empty
  <2>3. t[j].k = NoKey => t[stop].k # k
    BY <2>1, ConstantsAssumption
  <2>4. t[j].k = NoKey => \A l \in Before(h, j, n) : t[l] # Tombstone
    BY <1>7, <2>1, <2>3
  <2> QED
    BY <1>1, <1>5, <1>6, <2>1, <2>2, <2>3, <2>4 DEF h
<1>8. CASE ~(t[stop].k = k \/ tombs = {})
  <2> HIDE DEF tombs
  <2>1. tombs \subseteq Slots(n) /\ tombs # {}
    BY <1>4, <1>8 DEF tombs
  <2>2. j \in tombs /\ \A l \in tombs : l \notin Before(h, j, n)
    <3>1. \E x \in tombs : \A l \in tombs : l \notin Before(h, x, n)
      BY <1>1, <2>1, FirstVisited
    <3> QED
      BY <1>2, <1>8, <3>1
  <2>3. j \in Slots(n) /\ j \in Before(h, stop, n) /\ t[j] = Tombstone
    BY <2>1, <2>2 DEF tombs
  <2>4. t[j].k = NoKey /\ t[j] # Empty
    BY <2>3, ConstantsAssumption DEF Tombstone, Empty
  <2>5. ASSUME NEW l \in Before(h, j, n) PROVE t[l] # Empty /\ t[l] # Tombstone
    <3>1. l \in Slots(n)
      BY <1>1, <2>3, BeforeAreSlots
    <3>2. Dist(h, l, n) < Dist(h, j, n) /\ Dist(h, j, n) < Dist(h, stop, n)
      BY <1>1, <2>3, <3>1, Visits
    <3>3. l \in Before(h, stop, n)
      BY <1>1, <2>3, <3>1, <3>2, Visits
    <3> QED
      BY <1>6, <2>2, <3>3 DEF tombs
  <2> QED
    BY <1>5, <1>8, <2>3, <2>4, <2>5 DEF h
<1> QED
  BY <1>7, <1>8

-----------------------------------------------------------------------------
(* Writing and removing.                                                     *)

Sound(t, n) == ChainUnbroken(t, n) /\ KeyUnique(t, n)

\* Writing a slot adds it to those in use.
LEMMA WriteCounts ==
    ASSUME NEW n \in Nat, NEW t, NEW j \in Slots(n), NEW u, NEW e, e # Empty,
           \A l \in Slots(n) : u[l] = IF l = j THEN e ELSE t[l]
    PROVE  /\ Used(u, n) = Used(t, n) \union {j}
           /\ Cardinality(Used(u, n)) =
                Cardinality(Used(t, n)) + (IF t[j] = Empty THEN 1 ELSE 0)
<1>1. Used(u, n) = Used(t, n) \union {j}
  BY DEF Used
<1>2. IsFiniteSet(Used(t, n)) /\ Cardinality(Used(t, n)) \in Nat
  BY UsedFinite
<1>3. j \in Used(t, n) <=> t[j] # Empty
  BY DEF Used
<1> HIDE DEF Used
<1>4. CASE t[j] = Empty
  BY <1>1, <1>2, <1>3, <1>4, FS_AddElement
<1>5. CASE t[j] # Empty
  <2>1. Used(u, n) = Used(t, n)
    BY <1>1, <1>3, <1>5
  <2>2. Cardinality(Used(u, n)) = Cardinality(Used(t, n))
    BY <2>1, Zenon
  <2> QED
    BY <1>1, <1>2, <1>5, <2>2
<1> QED
  BY <1>4, <1>5

Put(t, n, e) == [t EXCEPT ![FindItem(t, n, e.k)] = e]

\* Writing a key where find_item says leaves every key in one slot, which the
\* probe reaches, takes no other key's slot, and uses one slot more or none.
LEMMA PutKeepsSound ==
    ASSUME NEW n \in Nat, NEW t \in Tables(n), HasEmpty(t, n), Sound(t, n),
           NEW e \in Slot, e.k \in Keys
    PROVE  LET j == FindItem(t, n, e.k)
           IN /\ Put(t, n, e) \in Tables(n) /\ Sound(Put(t, n, e), n)
              /\ \A l \in Slots(n) : Put(t, n, e)[l] = IF l = j THEN e ELSE t[l]
              /\ \A l \in Slots(n) : l # j => t[l].k # e.k
              /\ Cardinality(Used(Put(t, n, e), n)) =
                   Cardinality(Used(t, n)) + (IF t[j] = Empty THEN 1 ELSE 0)
<1> DEFINE j == FindItem(t, n, e.k)
           u == Put(t, n, e)
<1>1. /\ j \in Slots(n)
      /\ t[j].k \in {e.k, NoKey}
      /\ t[j].k = NoKey => \A l \in Slots(n) : t[l].k # e.k
      /\ \A l \in Before(Home(e.k, n), j, n) : t[l] # Empty
  BY ItemFound DEF Sound
<1>a. u = [t EXCEPT ![j] = e]
  BY DEF Put
<1> HIDE DEF j, u
<1>2. u \in Tables(n) /\ \A l \in Slots(n) : u[l] = IF l = j THEN e ELSE t[l]
  BY <1>1, <1>a DEF Tables
<1>3. \A l \in Slots(n) : l # j => t[l].k # e.k
  BY <1>1 DEF Sound, KeyUnique
<1>4. KeyUnique(u, n)
  BY <1>2, <1>3 DEF Sound, KeyUnique
<1>b. e # Empty
  BY SlotKinds
<1>5. ASSUME NEW l \in Slots(n), u[l].k # NoKey, NEW x \in Before(Home(u[l].k, n), l, n)
      PROVE  u[x] # Empty
  <2>1. x \in Slots(n)
    <3>1. u[l].k \in Keys /\ n > 0
      BY <1>2, <1>5, HasSlots, SlotKinds DEF Tables
    <3> QED
      BY <1>5, <3>1, HomeIsSlot, BeforeAreSlots
  <2>2. t[x] # Empty
    BY <1>1, <1>2, <1>5 DEF Sound, ChainUnbroken
  <2> QED
    BY <1>2, <1>b, <2>1, <2>2
<1>6. Cardinality(Used(u, n)) =
        Cardinality(Used(t, n)) + (IF t[j] = Empty THEN 1 ELSE 0)
  BY <1>1, <1>2, <1>b, WriteCounts
<1> QED
  BY <1>2, <1>3, <1>4, <1>5, <1>6 DEF Sound, ChainUnbroken, j, u

\* rem_map leaves a tombstone in the slot of the key, and touches no other.
LEMMA RemoveIs ==
    ASSUME NEW n \in Nat, NEW t \in Tables(n), HasEmpty(t, n), Sound(t, n),
           NEW k \in Keys, NEW u, u = RemoveFrom(t, n, k)
    PROVE  /\ u \in Tables(n)
           /\ \A l \in Slots(n) : u[l] = IF t[l].k = k THEN Tombstone ELSE t[l]
<1> DEFINE j == FindItem(t, n, k)
<1>1. /\ j \in Slots(n)
      /\ t[j].k \in {k, NoKey}
      /\ t[j].k = NoKey => \A l \in Slots(n) : t[l].k # k
  BY ItemFound DEF Sound
<1>2. u = IF t[j].k = k THEN [t EXCEPT ![j] = Tombstone] ELSE t
  BY DEF RemoveFrom
<1>3. Tombstone \in Slot
  BY DEF Slot
<1> HIDE DEF j
<1>4. CASE t[j].k = k
  <2>1. \A l \in Slots(n) : t[l].k = k <=> l = j
    BY <1>1, <1>4, ConstantsAssumption DEF Sound, KeyUnique
  <2> QED
    BY <1>1, <1>2, <1>3, <1>4, <2>1 DEF Tables
<1>5. CASE t[j].k # k
  BY <1>1, <1>2, <1>5
<1> QED
  BY <1>4, <1>5

\* A tombstone in the place of a key breaks no chain, and no slot becomes free.
LEMMA RemoveKeepsSound ==
    ASSUME NEW n \in Nat, NEW t \in Tables(n), HasEmpty(t, n), Sound(t, n),
           NEW k \in Keys, NEW u, u = RemoveFrom(t, n, k)
    PROVE  Sound(u, n) /\ Used(u, n) = Used(t, n) /\ HasEmpty(u, n)
<1>1. \A l \in Slots(n) : u[l] = IF t[l].k = k THEN Tombstone ELSE t[l]
  BY RemoveIs
<1>2. Tombstone # Empty /\ Empty.k # k /\ Tombstone.k = NoKey
  BY ConstantsAssumption DEF Tombstone, Empty
<1>3. \A l \in Slots(n) : u[l] = Empty <=> t[l] = Empty
  BY <1>1, <1>2
<1>4. Used(u, n) = Used(t, n) /\ HasEmpty(u, n)
  BY <1>3 DEF Used, HasEmpty
<1>5. KeyUnique(u, n)
  BY <1>1, <1>2 DEF Sound, KeyUnique
<1>6. ASSUME NEW l \in Slots(n), u[l].k # NoKey, NEW x \in Before(Home(u[l].k, n), l, n)
      PROVE  u[x] # Empty
  <2>1. u[l] = t[l]
    BY <1>1, <1>2, <1>6
  <2>2. t[l].k \in Keys /\ n > 0
    BY <1>6, <2>1, HasSlots, SlotKinds DEF Tables
  <2>3. x \in Slots(n)
    BY <1>6, <2>1, <2>2, HomeIsSlot, BeforeAreSlots
  <2> QED
    BY <1>3, <1>6, <2>1, <2>3 DEF Sound, ChainUnbroken
<1> QED
  BY <1>4, <1>5, <1>6 DEF Sound, ChainUnbroken

\* What an empty array has to offer.
LEMMA EmptySound ==
    ASSUME NEW n \in Nat, NEW t, \A j \in Slots(n) : t[j] = Empty
    PROVE  Sound(t, n) /\ Used(t, n) = {} /\ Cardinality(Used(t, n)) = 0
<1> QED
  BY FS_EmptySet DEF Sound, ChainUnbroken, KeyUnique, Used, Empty

-----------------------------------------------------------------------------
(* The invariant.  What adjust_cap has copied when it comes to slot i, and   *)
(* what rem_black_map has dropped, is said of the slots below i.             *)

Filled ==
    pc = "rehash" =>
      /\ \A x \in Slots(fcap) :
            fresh[x] # Empty => \E l \in Slots(i) : fresh[x] = items[l] /\ items[l].k # NoKey
      /\ \A l \in Slots(i) :
            items[l].k # NoKey => \E x \in Slots(fcap) : fresh[x] = items[l]

Swept == pc = "sweep" => \A l \in Slots(i) : items[l].k \in marked \union {NoKey}

CInv == IInv /\ CountExact /\ Sound(items, cap) /\ Sound(fresh, fcap) /\ Filled /\ Swept

\* What the invariant says of the two arrays.
LEMMA TableFacts ==
    ASSUME CInv
    PROVE  /\ cap \in Nat /\ fcap \in Nat /\ i \in Nat /\ count \in Nat
           /\ items \in Tables(cap) /\ fresh \in Tables(fcap)
           /\ Sound(items, cap) /\ Sound(fresh, fcap)
           /\ cap > 0 => HasEmpty(items, cap)
           /\ fcap > 0 => HasEmpty(fresh, fcap)
           /\ pc # "rehash" => count = Cardinality(Used(items, cap))
<1> QED
  BY ProbesFindEmpty DEF CInv, IInv, TypeOK, ProbeEnds, HasEmpty, CountExact

\* A table that counts nothing holds nothing, and one that counts has slots.
LEMMA NothingCounted ==
    ASSUME CInv, pc # "rehash"
    PROVE  /\ count = 0 => \A l \in Slots(cap) : items[l] = Empty
           /\ count # 0 => cap > 0 /\ HasEmpty(items, cap)
<1>1. /\ cap \in Nat /\ count = Cardinality(Used(items, cap)) /\ IsFiniteSet(Used(items, cap))
      /\ Cardinality(Used(items, cap)) <= cap /\ count \in Nat
  BY TableFacts, UsedFinite
<1>2. count = 0 => Used(items, cap) = {}
  BY <1>1, FS_EmptySet
<1> QED
  BY <1>1, <1>2, TableFacts DEF Used

LEMMA InitCInv == Init => CInv
<1> SUFFICES ASSUME Init PROVE CInv
  OBVIOUS
<1>1. cap = 0 /\ fcap = 0 /\ Slots(0) = {} /\ pc = "idle" /\ count = 0
  BY DEF Init, Slots
<1>2. /\ Sound(items, cap) /\ Sound(fresh, fcap)
      /\ Cardinality(Used(items, cap)) = 0
  BY <1>1, EmptySound
<1> QED
  BY <1>1, <1>2, InitIInv DEF CInv, CountExact, Filled, Swept

\* A step that leaves the arrays as they are, and is in neither of the loops.
LEMMA TablesKept ==
    ASSUME CInv, IInv', pc # "rehash", pc' # "rehash", pc' = "sweep" => i' = 0,
           UNCHANGED <<items, cap, count, fresh, fcap>>
    PROVE  CInv'
<1>1. Slots(0) = {}
  BY DEF Slots
<1> QED
  BY <1>1 DEF CInv, CountExact, Filled, Swept

-----------------------------------------------------------------------------
(* Storing.                                                                  *)

\* What set_map and bc_set_global have written when they are done: the slot
\* that find_item gave, with the entry, or a tombstone if it was withdrawn.
Written(j) == IF op.name = "assign" /\ items[j].k = NoKey
              THEN Tombstone ELSE [k |-> op.k, v |-> op.v]

LEMMA StoreFacts ==
    ASSUME CInv, Store, NEW j, j = FindItem(items, cap, op.k)
    PROVE  /\ op \in SetOps /\ op.k \in Keys /\ op.v \in Vals
           /\ j \in Slots(cap) /\ items[j].k \in {op.k, NoKey}
           /\ items' \in Tables(cap) /\ Sound(items', cap)
           /\ \A l \in Slots(cap) : items'[l] = IF l = j THEN Written(j) ELSE items[l]
           /\ \A l \in Slots(cap) : l # j => items[l].k # op.k
           /\ count' = Cardinality(Used(items', cap))
<1> DEFINE e == [k |-> op.k, v |-> op.v]
           put == [items EXCEPT ![j] = e]
<1>1. /\ op \in SetOps /\ op.k \in Keys /\ op.v \in Vals
      /\ items \in Tables(cap) /\ cap \in Nat /\ count \in Nat /\ cap > 0
      /\ 4 * (count + 1) <= 3 * cap
      /\ HasEmpty(items, cap) /\ Sound(items, cap) /\ ChainUnbroken(items, cap)
      /\ count = Cardinality(Used(items, cap))
  <2>1. op \in SetOps /\ pc = "store" /\ 4 * (count + 1) <= 3 * cap
    BY DEF CInv, IInv, Store, OpFits, LoadBounded
  <2> QED
    BY <2>1, TableFacts DEF SetOps, Sound
<1>2. e \in Slot /\ e.k = op.k /\ e # Empty
  BY <1>1, ConstantsAssumption DEF Slot, Empty
<1>3. /\ items' = IF op.name = "assign" /\ items[j].k = NoKey
                  THEN RemoveFrom(put, cap, op.k) ELSE put
      /\ count' = IF items[j] = Empty THEN count + 1 ELSE count
  BY DEF Store, AfterSet, Counts
<1>4. j \in Slots(cap) /\ items[j].k \in {op.k, NoKey}
  BY <1>1, ItemFound
<1> HIDE DEF e
<1>5. /\ Put(items, cap, e) \in Tables(cap) /\ Sound(Put(items, cap, e), cap)
      /\ \A l \in Slots(cap) : Put(items, cap, e)[l] = IF l = j THEN e ELSE items[l]
      /\ \A l \in Slots(cap) : l # j => items[l].k # op.k
      /\ Cardinality(Used(Put(items, cap, e), cap)) =
           Cardinality(Used(items, cap)) + (IF items[j] = Empty THEN 1 ELSE 0)
  BY <1>1, <1>2, PutKeepsSound
<1>b. put = Put(items, cap, e)
  BY <1>2 DEF Put
<1> HIDE DEF put
<1>6. Cardinality(Used(put, cap)) = count'
  BY <1>1, <1>3, <1>5, <1>b
<1>7. HasEmpty(put, cap)
  <2>1. Cardinality(Used(put, cap)) < cap
    BY <1>1, <1>3, <1>6
  <2> QED
    BY <1>1, <2>1, EmptySlotExists DEF HasEmpty
<1>8. CASE op.name = "assign" /\ items[j].k = NoKey
  <2>1. items' = RemoveFrom(put, cap, op.k)
    BY <1>3, <1>8
  <2>2. /\ items' \in Tables(cap)
        /\ \A l \in Slots(cap) : items'[l] = IF put[l].k = op.k THEN Tombstone ELSE put[l]
    BY <1>1, <1>5, <1>b, <1>7, <2>1, RemoveIs
  <2>3. Sound(items', cap) /\ Used(items', cap) = Used(put, cap)
    BY <1>1, <1>5, <1>b, <1>7, <2>1, RemoveKeepsSound
  <2>4. \A l \in Slots(cap) : items'[l] = IF l = j THEN Written(j) ELSE items[l]
    BY <1>2, <1>5, <1>b, <1>8, <2>2 DEF Written, e
  <2>5. Cardinality(Used(items', cap)) = count'
    BY <1>6, <2>3, Zenon
  <2> QED
    BY <1>1, <1>4, <1>5, <2>2, <2>3, <2>4, <2>5
<1>9. CASE ~(op.name = "assign" /\ items[j].k = NoKey)
  <2>1. items' = put
    BY <1>3, <1>9
  <2>2. \A l \in Slots(cap) : items'[l] = IF l = j THEN Written(j) ELSE items[l]
    BY <1>5, <1>b, <1>9, <2>1 DEF Written, e
  <2> QED
    BY <1>1, <1>4, <1>5, <1>b, <1>6, <2>1, <2>2
<1> QED
  BY <1>8, <1>9

LEMMA StoreCInv == ASSUME CInv, IInv', Store PROVE CInv'
<1>1. Sound(items', cap) /\ count' = Cardinality(Used(items', cap))
  BY StoreFacts
<1>2. pc' = "idle" /\ UNCHANGED <<cap, fresh, fcap>>
  BY DEF Store, growing
<1> QED
  BY <1>1, <1>2 DEF CInv, CountExact, Filled, Swept

-----------------------------------------------------------------------------
(* Growing.                                                                  *)

LEMMA FillCInv == ASSUME CInv, IInv', Fill PROVE CInv'
<1>1. /\ pc' = "rehash" /\ i' = 0 /\ count' = 0 /\ fcap' = GrowCap
      /\ fresh' = [j \in Slots(GrowCap) |-> Empty]
      /\ UNCHANGED <<items, cap>>
  BY DEF Fill
<1>2. GrowCap \in Nat
  BY <1>1 DEF IInv, TypeOK
<1>3. Slots(0) = {} /\ \A j \in Slots(fcap') : fresh'[j] = Empty
  BY <1>1 DEF Slots
<1>4. Sound(fresh', fcap') /\ Cardinality(Used(fresh', fcap')) = 0
  BY <1>1, <1>2, <1>3, EmptySound
<1> QED
  BY <1>1, <1>3, <1>4 DEF CInv, CountExact, Filled, Swept

\* A key of the old array is not yet in the new one, and finds an empty slot.
LEMMA RehashFacts ==
    ASSUME CInv, Rehash, items[i].k # NoKey,
           NEW j, j = FindItem(fresh, fcap, items[i].k)
    PROVE  /\ i \in Slots(cap) /\ items[i] \in Slot /\ items[i].k \in Keys
           /\ j \in Slots(fcap) /\ fresh[j] = Empty
           /\ Sound(fresh', fcap)
           /\ \A l \in Slots(fcap) : fresh'[l] = IF l = j THEN items[i] ELSE fresh[l]
           /\ Cardinality(Used(fresh', fcap)) = count'
<1>1. /\ pc = "rehash" /\ i < cap
      /\ fresh' = [fresh EXCEPT ![j] = items[i]] /\ count' = count + 1
  BY DEF Rehash
<1>2. i \in Slots(cap) /\ items[i] \in Slot /\ items[i].k \in Keys /\ items[i] # Empty
  <2>1. i \in Slots(cap)
    BY <1>1, TableFacts DEF Slots
  <2> QED
    BY <2>1, TableFacts, SlotKinds DEF Tables
<1>3. /\ fcap \in Nat /\ fcap > 0 /\ fresh \in Tables(fcap) /\ HasEmpty(fresh, fcap)
      /\ Sound(fresh, fcap) /\ ChainUnbroken(fresh, fcap)
      /\ count = Cardinality(Used(fresh, fcap)) /\ count \in Nat
  <2>1. fcap > 0
    BY <1>1, TableFacts, ConstantsAssumption DEF CInv, IInv, LoadBounded, GrowCap
  <2> QED
    BY <1>1, <2>1, TableFacts DEF CInv, CountExact, Sound
<1>4. \A x \in Slots(fcap) : fresh[x].k # items[i].k
  <2> SUFFICES ASSUME NEW x \in Slots(fcap), fresh[x].k = items[i].k PROVE FALSE
    OBVIOUS
  <2>1. fresh[x] # Empty
    BY <1>2, ConstantsAssumption DEF Empty
  <2>2. PICK l \in Slots(i) : fresh[x] = items[l]
    BY <1>1, <2>1 DEF CInv, Filled
  <2>3. l \in Slots(cap) /\ l # i
    BY <1>1, <1>2, <2>2, TableFacts DEF Slots
  <2> QED
    BY <1>2, <2>2, <2>3, TableFacts DEF Sound, KeyUnique
<1>5. j \in Slots(fcap) /\ fresh[j].k = NoKey
  BY <1>2, <1>3, <1>4, ItemFound
<1>6. fresh[j] = Empty
  BY <1>1, <1>5 DEF CInv, Filled
<1>7. fresh' = Put(fresh, fcap, items[i])
  BY <1>1 DEF Put
<1>8. /\ Sound(fresh', fcap)
      /\ \A l \in Slots(fcap) : fresh'[l] = IF l = j THEN items[i] ELSE fresh[l]
      /\ Cardinality(Used(fresh', fcap)) = Cardinality(Used(fresh, fcap)) + 1
  BY <1>2, <1>3, <1>6, <1>7, PutKeepsSound
<1> QED
  BY <1>1, <1>2, <1>3, <1>5, <1>6, <1>8

LEMMA RehashCInv == ASSUME CInv, IInv', Rehash PROVE CInv'
<1>1. /\ pc = "rehash" /\ pc' = "rehash" /\ i \in Nat /\ i < cap /\ i' = i + 1
      /\ UNCHANGED <<items, cap, fcap>>
  BY TableFacts DEF Rehash
<1>2. Slots(i') = Slots(i) \union {i}
  BY <1>1 DEF Slots
<1>3. CASE items[i].k = NoKey
  <2>1. UNCHANGED <<fresh, count>>
    BY <1>3 DEF Rehash
  <2> QED
    BY <1>1, <1>2, <1>3, <2>1 DEF CInv, CountExact, Filled, Swept
<1>4. CASE items[i].k # NoKey
  <2> DEFINE j == FindItem(fresh, fcap, items[i].k)
  <2>1. /\ j \in Slots(fcap) /\ fresh[j] = Empty
        /\ Sound(fresh', fcap)
        /\ \A l \in Slots(fcap) : fresh'[l] = IF l = j THEN items[i] ELSE fresh[l]
        /\ Cardinality(Used(fresh', fcap)) = count'
    BY <1>4, RehashFacts
  <2> HIDE DEF j
  <2>2. ASSUME NEW x \in Slots(fcap), fresh'[x] # Empty
        PROVE  \E l \in Slots(i') : fresh'[x] = items[l] /\ items[l].k # NoKey
    BY <1>1, <1>2, <1>4, <2>1, <2>2 DEF CInv, Filled
  <2>3. ASSUME NEW l \in Slots(i'), items[l].k # NoKey
        PROVE  \E x \in Slots(fcap) : fresh'[x] = items[l]
    <3>1. CASE l = i
      BY <2>1, <3>1
    <3>2. CASE l # i
      <4>1. PICK x \in Slots(fcap) : fresh[x] = items[l]
        BY <1>1, <1>2, <2>3, <3>2 DEF CInv, Filled
      <4>2. x # j
        BY <2>1, <2>3, <4>1 DEF Empty
      <4> QED
        BY <2>1, <4>1, <4>2
    <3> QED
      BY <3>1, <3>2
  <2> QED
    BY <1>1, <2>1, <2>2, <2>3 DEF CInv, CountExact, Filled, Swept
<1> QED
  BY <1>3, <1>4

LEMMA InstallCInv == ASSUME CInv, IInv', Install PROVE CInv'
<1>1. /\ pc = "rehash" /\ pc' = "store" /\ items' = fresh /\ cap' = fcap /\ fcap' = 0
      /\ count' = count
  BY DEF Install
<1>2. Sound(fresh', fcap')
  BY <1>1, EmptySound DEF Slots
<1> QED
  BY <1>1, <1>2 DEF CInv, CountExact, Filled, Swept

-----------------------------------------------------------------------------
(* Removing.                                                                 *)

\* A key dropped, by rem_map or by the sweep, which does not look beyond i.
LEMMA DropCInv ==
    ASSUME CInv, IInv', pc # "rehash", pc' = pc, count # 0,
           NEW k \in Keys, items' = RemoveFrom(items, cap, k),
           UNCHANGED <<cap, count, fresh, fcap, marked>>,
           pc = "sweep" =>
             /\ Slots(i') \subseteq Slots(cap)
             /\ \A l \in Slots(i') : l \notin Slots(i) => items[l].k \in marked \union {NoKey, k}
    PROVE  CInv'
<1>1. cap \in Nat /\ items \in Tables(cap) /\ HasEmpty(items, cap) /\ Sound(items, cap)
  BY TableFacts, NothingCounted
<1>2. /\ \A l \in Slots(cap) : items'[l] = IF items[l].k = k THEN Tombstone ELSE items[l]
      /\ Sound(items', cap)
      /\ Used(items', cap) = Used(items, cap)
  BY <1>1, RemoveIs, RemoveKeepsSound
<1>3. Swept'
  BY <1>2 DEF CInv, Swept, Tombstone
<1>4. Cardinality(Used(items', cap)) = Cardinality(Used(items, cap))
  BY <1>2, Zenon
<1> QED
  BY <1>2, <1>3, <1>4 DEF CInv, CountExact, Filled

LEMMA RemoveCInv == ASSUME CInv, IInv', NEW k \in Keys, Remove(k) PROVE CInv'
<1>1. /\ pc = "idle" /\ pc' = "idle"
      /\ UNCHANGED <<cap, count, fresh, fcap, op, i, marked>>
      /\ items' = IF count = 0 THEN items ELSE RemoveFrom(items, cap, k)
  BY DEF Remove, growing
<1>2. CASE count = 0
  BY <1>1, <1>2, TablesKept
<1>3. CASE count # 0
  BY <1>1, <1>3, DropCInv
<1> QED
  BY <1>2, <1>3

LEMMA SweepCInv == ASSUME CInv, IInv', Sweep PROVE CInv'
<1>1. /\ pc = "sweep" /\ pc' = "sweep" /\ i \in Nat /\ cap \in Nat /\ i < cap /\ i' = i + 1
      /\ UNCHANGED <<cap, count, fresh, fcap, marked>>
      /\ items' = IF items[i].k \notin marked \union {NoKey} /\ count # 0
                  THEN RemoveFrom(items, cap, items[i].k) ELSE items
  BY TableFacts DEF Sweep, growing
<1>2. /\ Slots(i') = Slots(i) \union {i} /\ i \in Slots(cap)
      /\ Slots(i) \subseteq Slots(cap) /\ Slots(i') \subseteq Slots(cap)
  BY <1>1 DEF Slots
<1>3. CASE items[i].k \notin marked \union {NoKey} /\ count # 0
  <2> DEFINE k == items[i].k
  <2>1. k \in Keys
    BY <1>2, <1>3, TableFacts, SlotKinds DEF Tables
  <2>2. /\ items' = RemoveFrom(items, cap, k)
        /\ \A l \in Slots(i') : l \notin Slots(i) => items[l].k \in marked \union {NoKey, k}
    BY <1>1, <1>2, <1>3
  <2> HIDE DEF k
  <2> QED
    BY <1>1, <1>2, <1>3, <2>1, <2>2, DropCInv
<1>4. CASE ~(items[i].k \notin marked \union {NoKey} /\ count # 0)
  <2>1. items' = items
    BY <1>1, <1>4
  <2>2. items[i].k \in marked \union {NoKey}
    BY <1>1, <1>2, <1>4, NothingCounted DEF Empty
  <2> QED
    BY <1>1, <1>2, <2>1, <2>2 DEF CInv, CountExact, Filled, Swept
<1> QED
  BY <1>3, <1>4

LEMMA FreeCInv == ASSUME CInv, IInv', Free PROVE CInv'
<1>1. /\ pc = "idle" /\ pc' = "idle" /\ cap' = 0 /\ count' = 0
      /\ UNCHANGED <<fresh, fcap>>
  BY DEF Free, growing
<1>2. Sound(items', cap') /\ Cardinality(Used(items', cap')) = 0
  BY <1>1, EmptySound DEF Slots
<1> QED
  BY <1>1, <1>2 DEF CInv, CountExact, Filled, Swept

LEMMA NextCInv == CInv /\ [Next]_vars => CInv'
<1> SUFFICES ASSUME CInv, [Next]_vars PROVE CInv'
  OBVIOUS
<1>0. IInv'
  BY NextIInv DEF CInv
<1>1. CASE UNCHANGED vars
  BY <1>0, <1>1 DEF vars, CInv, CountExact, Filled, Swept
<1>2. ASSUME NEW k \in Keys, Get(k) PROVE CInv'
  BY <1>0, <1>2, TablesKept DEF Get, table, growing
<1>3. ASSUME NEW k \in Keys, Remove(k) PROVE CInv'
  BY <1>0, <1>3, RemoveCInv
<1>4. ASSUME NEW k \in Keys, NEW v \in Vals, NEW name \in {"set", "assign"},
             BeginSet(name, k, v)
      PROVE  CInv'
  BY <1>0, <1>4, TablesKept DEF BeginSet, table, growing
<1>5. ASSUME NEW live \in SUBSET Keys, BeginSweep(live) PROVE CInv'
  BY <1>0, <1>5, TablesKept DEF BeginSweep, table, growing
<1>6. CASE Free
  BY <1>0, <1>6, FreeCInv
<1>7. CASE Store
  BY <1>0, <1>7, StoreCInv
<1>8. CASE Allocate
  BY <1>0, <1>8, TablesKept DEF Allocate, table, growing
<1>9. CASE Fill
  BY <1>0, <1>9, FillCInv
<1>10. CASE Rehash
  BY <1>0, <1>10, RehashCInv
<1>11. CASE Install
  BY <1>0, <1>11, InstallCInv
<1>12. CASE Sweep
  BY <1>0, <1>12, SweepCInv
<1>13. CASE EndSweep
  BY <1>0, <1>13, TablesKept DEF EndSweep, table, growing
<1> QED
  BY <1>1, <1>2, <1>3, <1>4, <1>5, <1>6, <1>7, <1>8, <1>9, <1>10, <1>11,
     <1>12, <1>13 DEF Next, Step

LEMMA AlwaysCInv == Spec => []CInv
<1> QED
  BY InitCInv, NextCInv, PTL DEF Spec

-----------------------------------------------------------------------------
(* The theorems.                                                            *)

\* Whatever was set, removed, grown and swept, in whatever order, find_item comes
\* to every stored key before it comes to an empty slot.
THEOREM ChainsKept == Spec => []ChainsUnbroken
<1>1. CInv => ChainsUnbroken
  BY DEF CInv, Sound, ChainsUnbroken
<1> QED
  BY AlwaysCInv, <1>1, PTL

\* set_map never stores a key twice, although it takes tombstones it meets before
\* the key's own slot.
THEOREM KeysAreUnique == Spec => []KeysUnique
<1>1. CInv => KeysUnique
  BY DEF CInv, Sound, KeysUnique
<1> QED
  BY AlwaysCInv, <1>1, PTL

\* The field count is the number of slots in use, tombstones included.
THEOREM CountIsExact == Spec => []CountExact
<1>1. CInv => CountExact
  BY DEF CInv
<1> QED
  BY AlwaysCInv, <1>1, PTL

\* A step of rem_black_map loses no live key, and its last leaves no dead one.
LEMMA SweepStepExact ==
    ASSUME CInv, [Next]_vars, pc = "sweep"
    PROVE  /\ KeysIn(items, cap) \intersect marked \subseteq KeysIn(items', cap')
           /\ pc' # "sweep" => KeysIn(items', cap') \subseteq marked
<1>1. CASE Sweep
  <2>1. /\ cap' = cap /\ pc' = "sweep" /\ i \in Slots(cap)
        /\ items' = IF items[i].k \notin marked \union {NoKey} /\ count # 0
                    THEN RemoveFrom(items, cap, items[i].k) ELSE items
    BY <1>1, TableFacts DEF Sweep, Slots
  <2>2. CASE items' = items
    BY <2>1, <2>2
  <2>3. CASE items[i].k \notin marked \union {NoKey} /\ count # 0
    <3>1. items[i].k \in Keys
      BY <2>1, <2>3, TableFacts, SlotKinds DEF Tables
    <3>2. HasEmpty(items, cap)
      BY <2>3, NothingCounted
    <3>3. \A l \in Slots(cap) :
            items'[l] = IF items[l].k = items[i].k THEN Tombstone ELSE items[l]
      BY <2>1, <2>3, <3>1, <3>2, TableFacts, RemoveIs
    <3> QED
      BY <2>1, <2>3, <3>3 DEF KeysIn
  <2> QED
    BY <2>1, <2>2, <2>3
<1>2. CASE EndSweep
  BY <1>2 DEF EndSweep, table, CInv, Swept, KeysIn
<1>3. CASE UNCHANGED vars
  BY <1>3 DEF vars
<1> QED
  BY <1>1, <1>2, <1>3 DEF Next, Step, Get, Remove, BeginSet, BeginSweep, Free, Store,
     Allocate, Fill, Rehash, Install

\* For every table and every set of live strings, rem_black_map removes the dead
\* ones and only those, while its removals turn slots it has yet to look at, or
\* has passed, into tombstones.
THEOREM SweepIsExact == Spec => SweepExact
<1>1. CInv /\ [Next]_vars =>
        [pc = "sweep" =>
           /\ KeysIn(items, cap) \intersect marked \subseteq KeysIn(items', cap')
           /\ pc' # "sweep" => KeysIn(items', cap') \subseteq marked]_vars
  BY SweepStepExact
<1> QED
  BY AlwaysCInv, <1>1, PTL DEF Spec, SweepExact

-----------------------------------------------------------------------------
(* The table does not wear out.  A slot in use is claimed by a key: the one   *)
(* it holds, or, for a tombstone, one that would be put there or earlier.     *)
(* When a key takes a tombstone that another claims, they exchange.           *)

Claims(f, t, n) ==
    /\ f \in [Used(t, n) -> Keys]
    /\ \A x, y \in Used(t, n) : f[x] = f[y] => x = y
    /\ \A x \in Used(t, n) : t[x].k # NoKey => f[x] = t[x].k
    /\ \A x \in Used(t, n) : \A l \in Before(Home(f[x], n), x, n) : t[l] # Empty

\* If a probe from h comes to j and then to s, one from g that comes to s has
\* passed what lies between, or never came to j.
LEMMA Between ==
    ASSUME NEW n \in Nat, NEW g \in Slots(n), NEW h \in Slots(n), NEW j \in Slots(n),
           NEW s \in Slots(n), NEW l \in Slots(n),
           Dist(h, j, n) < Dist(h, s, n), Dist(g, l, n) < Dist(g, s, n)
    PROVE  Dist(g, l, n) < Dist(g, j, n) \/ Dist(h, l, n) < Dist(h, s, n)
<1> QED
  BY DEF Dist, Slots

\* Storing a key keeps the claims apart: if the probe ends at an empty slot, then
\* the key has no claim yet.
LEMMA PutKeepsClaims ==
    ASSUME NEW n \in Nat, NEW t \in Tables(n), HasEmpty(t, n), Sound(t, n),
           NEW e \in Slot, e.k \in Keys, NEW f, Claims(f, t, n)
    PROVE  \E g : Claims(g, Put(t, n, e), n)
<1> DEFINE j == FindItem(t, n, e.k)
           h == Home(e.k, n)
           u == Put(t, n, e)
           g == [x \in Used(u, n) |-> IF x = j THEN e.k
                                      ELSE IF f[x] = e.k THEN f[j] ELSE f[x]]
<1>1. /\ j \in Slots(n) /\ h \in Slots(n) /\ n > 0
      /\ t[j].k \in {e.k, NoKey}
      /\ \A l \in Before(h, j, n) : t[l] # Empty
      /\ t[j].k = NoKey => \A l \in Before(h, j, n) : t[l] # Tombstone
  BY ItemFound, HasSlots, HomeIsSlot DEF Sound
<1>2. /\ u \in Tables(n)
      /\ \A l \in Slots(n) : u[l] = IF l = j THEN e ELSE t[l]
      /\ \A l \in Slots(n) : l # j => t[l].k # e.k
  BY PutKeepsSound
<1>3. e # Empty /\ e.k # NoKey /\ \A l \in Slots(n) : t[l] \in Slot
  BY SlotKinds DEF Tables
<1>4. Used(t, n) \subseteq Slots(n) /\ Used(u, n) = Used(t, n) \union {j}
  <2> HIDE DEF u, j
  <2> QED
    BY <1>1, <1>2, <1>3 DEF Used
<1> HIDE DEF j, h, u
<1>5. ASSUME NEW s \in Used(t, n), s # j, f[s] = e.k
      PROVE  j \in Used(t, n) /\ Dist(h, j, n) < Dist(h, s, n)
  <2>1. t[s] = Tombstone /\ s \in Slots(n)
    <3>1. s \in Slots(n) /\ t[s].k # e.k /\ t[s] \in Slot
      BY <1>2, <1>3, <1>4, <1>5
    <3>2. t[s].k = NoKey
      BY <1>5, <3>1 DEF Claims
    <3> QED
      BY <1>5, <3>1, <3>2, SlotKinds DEF Used
  <2>2. t[j].k = NoKey
    <3>1. SUFFICES ASSUME t[j].k = e.k PROVE FALSE
      BY <1>1
    <3>2. t[j] # Empty
      BY <1>3, <3>1 DEF Empty
    <3>3. j \in Used(t, n)
      BY <1>1, <3>2 DEF Used
    <3>4. f[j] = e.k
      BY <1>3, <3>1, <3>3 DEF Claims
    <3> QED
      BY <1>5, <3>3, <3>4 DEF Claims
  <2>3. s \notin Before(h, j, n)
    BY <1>1, <2>1, <2>2
  <2>4. Dist(h, j, n) < Dist(h, s, n)
    <3>1. /\ Dist(h, j, n) \in Nat /\ Dist(h, s, n) \in Nat
          /\ Dist(h, j, n) # Dist(h, s, n)
          /\ ~(Dist(h, s, n) < Dist(h, j, n))
      BY <1>1, <1>5, <2>1, <2>3, Visits
    <3> QED
      BY <3>1
  <2>5. j \in Before(h, s, n)
    BY <1>1, <2>1, <2>4, Visits
  <2>6. t[j] # Empty
    BY <1>5, <2>5 DEF Claims, h
  <2> QED
    BY <1>1, <2>4, <2>6 DEF Used
<1>6. \A x \in Used(u, n) : x # j => x \in Used(t, n) /\ f[x] \in Keys
  BY <1>4 DEF Claims
<1>7. g \in [Used(u, n) -> Keys]
  BY <1>5, <1>6 DEF Claims
<1>8. \A x, y \in Used(u, n) : g[x] = g[y] => x = y
  BY <1>5, <1>6 DEF Claims
<1>9. ASSUME NEW x \in Used(u, n), u[x].k # NoKey PROVE g[x] = u[x].k
  <2>1. x \in Slots(n)
    BY <1>1, <1>4
  <2>2. CASE x = j
    BY <1>2, <2>1, <2>2
  <2>3. CASE x # j
    <3>1. u[x] = t[x] /\ t[x].k # e.k
      BY <1>2, <2>1, <2>3
    <3>2. f[x] = t[x].k
      BY <1>6, <1>9, <2>3, <3>1 DEF Claims
    <3> QED
      BY <2>3, <3>1, <3>2
  <2> QED
    BY <2>2, <2>3
<1>10. ASSUME NEW x \in Used(u, n), NEW l \in Before(Home(g[x], n), x, n)
       PROVE  u[l] # Empty
  <2>1. x \in Slots(n) /\ g[x] \in Keys /\ Home(g[x], n) \in Slots(n)
    BY <1>1, <1>4, <1>7, HomeIsSlot
  <2>2. l \in Slots(n)
    BY <1>10, <2>1, BeforeAreSlots
  <2>3. CASE x = j
    <3>1. t[l] # Empty
      BY <1>1, <1>10, <2>3 DEF h
    <3> QED
      BY <1>2, <1>3, <2>2, <3>1
  <2>4. CASE x # j /\ f[x] # e.k
    <3>1. t[l] # Empty
      BY <1>6, <1>10, <2>4 DEF Claims
    <3> QED
      BY <1>2, <1>3, <2>2, <3>1
  <2>5. CASE x # j /\ f[x] = e.k
    <3>1. /\ j \in Used(t, n) /\ x \in Used(t, n) /\ Dist(h, j, n) < Dist(h, x, n)
          /\ g[x] = f[j]
      BY <1>5, <1>6, <2>5
    <3>2. Dist(Home(g[x], n), l, n) < Dist(Home(g[x], n), x, n)
      BY <1>10, <2>1, <2>2, Visits
    <3>3. l \in Before(Home(f[j], n), j, n) \/ l \in Before(h, x, n)
      BY <1>1, <2>1, <2>2, <3>1, <3>2, Between, Visits
    <3>4. t[l] # Empty
      BY <2>5, <3>1, <3>3 DEF Claims, h
    <3> QED
      BY <1>2, <1>3, <2>2, <3>4
  <2> QED
    BY <2>3, <2>4, <2>5
<1> HIDE DEF g
<1>11. Claims(g, u, n)
  BY <1>7, <1>8, <1>9, <1>10 DEF Claims
<1> QED
  BY <1>11 DEF u

\* A tombstone in the place of a key leaves its slot to the key that claims it.
LEMMA RemovalKeepsClaims ==
    ASSUME NEW n \in Nat, NEW t, NEW u, NEW f, Claims(f, t, n), Used(u, n) = Used(t, n),
           \A x \in Slots(n) : u[x].k \in {t[x].k, NoKey}
    PROVE  Claims(f, u, n)
<1>1. \A x \in Slots(n) : u[x] # Empty <=> t[x] # Empty
  BY DEF Used
<1>2. \A x \in Used(t, n) : x \in Slots(n) /\ n > 0
  BY DEF Used, Slots
<1>3. ASSUME NEW x \in Used(u, n), NEW l \in Before(Home(f[x], n), x, n)
      PROVE  u[l] # Empty
  <2>1. l \in Slots(n)
    BY <1>2, <1>3, HomeIsSlot, BeforeAreSlots DEF Claims
  <2> QED
    BY <1>1, <1>3, <2>1 DEF Claims
<1>4. \A x \in Used(u, n) : u[x].k # NoKey => f[x] = u[x].k
  BY <1>2 DEF Claims
<1> QED
  BY <1>3, <1>4 DEF Claims

\* In an array without tombstones, every key claims its own slot.
LEMMA KeysClaim ==
    ASSUME NEW n \in Nat, NEW t, Sound(t, n),
           \A x \in Used(t, n) : t[x].k \in Keys
    PROVE  \E f : Claims(f, t, n)
<1> DEFINE f == [x \in Used(t, n) |-> t[x].k]
<1>1. \A x \in Used(t, n) : x \in Slots(n) /\ t[x].k # NoKey
  BY ConstantsAssumption DEF Used
<1>2. Claims(f, t, n)
  BY <1>1 DEF Claims, Sound, KeyUnique, ChainUnbroken
<1> QED
  BY <1>2

Claimed == \E f : Claims(f, items, cap)

LEMMA StoreClaimed == ASSUME CInv, Claimed, Store PROVE Claimed'
<1> DEFINE e == [k |-> op.k, v |-> op.v]
           put == Put(items, cap, e)
           j == FindItem(items, cap, op.k)
<1>1. /\ op.k \in Keys /\ op.v \in Vals /\ cap \in Nat /\ cap > 0
      /\ items \in Tables(cap) /\ HasEmpty(items, cap) /\ Sound(items, cap)
      /\ j \in Slots(cap) /\ cap' = cap
      /\ \A l \in Slots(cap) : items'[l] = IF l = j THEN Written(j) ELSE items[l]
  <2>1. /\ op.k \in Keys /\ op.v \in Vals /\ j \in Slots(cap)
        /\ \A l \in Slots(cap) : items'[l] = IF l = j THEN Written(j) ELSE items[l]
    BY StoreFacts
  <2> HIDE DEF j
  <2>2. cap > 0 /\ cap' = cap
    BY <2>1, TableFacts DEF Store, Slots
  <2> QED
    BY <2>1, <2>2, TableFacts
<1>2. e \in Slot /\ e.k = op.k /\ e # Empty
  BY <1>1, ConstantsAssumption DEF Slot, Empty
<1>3. PICK f : Claims(f, items, cap)
  BY DEF Claimed
<1> HIDE DEF e
<1>4. PICK g : Claims(g, put, cap)
  BY <1>1, <1>2, <1>3, PutKeepsClaims
<1>5. \A l \in Slots(cap) : put[l] = IF l = j THEN e ELSE items[l]
  BY <1>1, <1>2, PutKeepsSound
<1> HIDE DEF j, put
<1>6. /\ Tombstone # Empty /\ Tombstone.k = NoKey
      /\ Written(j) = e \/ Written(j) = Tombstone
  BY ConstantsAssumption DEF Written, e, Tombstone, Empty
<1>7. Used(items', cap) = Used(put, cap)
  BY <1>1, <1>2, <1>5, <1>6 DEF Used
<1>8. \A x \in Slots(cap) : items'[x].k \in {put[x].k, NoKey}
  BY <1>1, <1>5, <1>6
<1>9. Claims(g, items', cap)
  BY <1>1, <1>4, <1>7, <1>8, RemovalKeepsClaims
<1> QED
  BY <1>1, <1>9 DEF Claimed

LEMMA InstallClaimed == ASSUME CInv, Install PROVE Claimed'
<1>1. /\ pc = "rehash" /\ i = cap /\ items' = fresh /\ cap' = fcap
  BY DEF Install
<1>2. \A x \in Used(fresh, fcap) : fresh[x].k \in Keys
  <2> SUFFICES ASSUME NEW x \in Slots(fcap), fresh[x] # Empty
               PROVE  fresh[x].k \in Keys
    BY DEF Used
  <2>1. PICK l \in Slots(cap) : fresh[x] = items[l] /\ items[l].k # NoKey
    BY <1>1 DEF CInv, Filled
  <2> QED
    BY <2>1, TableFacts, SlotKinds DEF Tables
<1> QED
  BY <1>1, <1>2, TableFacts, KeysClaim DEF Claimed

LEMMA DropClaimed ==
    ASSUME CInv, Claimed, pc # "rehash", count # 0, cap' = cap,
           NEW k \in Keys, items' = RemoveFrom(items, cap, k)
    PROVE  Claimed'
<1>1. cap \in Nat /\ items \in Tables(cap) /\ HasEmpty(items, cap) /\ Sound(items, cap)
  BY TableFacts, NothingCounted
<1>2. /\ \A l \in Slots(cap) : items'[l] = IF items[l].k = k THEN Tombstone ELSE items[l]
      /\ Used(items', cap) = Used(items, cap)
  BY <1>1, RemoveIs, RemoveKeepsSound
<1>3. \A x \in Slots(cap) : items'[x].k \in {items[x].k, NoKey}
  BY <1>2 DEF Tombstone
<1> QED
  BY <1>1, <1>2, <1>3, RemovalKeepsClaims DEF Claimed

LEMMA NothingClaimed == ASSUME NEW t PROVE \E f : Claims(f, t, 0)
<1>1. Slots(0) = {}
  BY DEF Slots
<1> QED
  BY <1>1, KeysClaim, EmptySound

LEMMA NextClaimed == CInv /\ Claimed /\ [Next]_vars => Claimed'
<1> SUFFICES ASSUME CInv, Claimed, [Next]_vars PROVE Claimed'
  OBVIOUS
<1>1. CASE items' = items /\ cap' = cap
  BY <1>1 DEF Claimed
<1>2. ASSUME NEW k \in Keys, Remove(k) PROVE Claimed'
  BY <1>1, <1>2, DropClaimed DEF Remove
<1>3. CASE Sweep
  <2>1. items[i].k \in Keys \/ items[i].k = NoKey
    BY <1>3, TableFacts, SlotKinds DEF Sweep, Slots, Tables
  <2> QED
    BY <1>1, <1>3, <2>1, DropClaimed DEF Sweep
<1>4. CASE Free
  <2>1. cap' = 0
    BY <1>4 DEF Free
  <2> QED
    BY <2>1, NothingClaimed DEF Claimed
<1>5. CASE Store
  BY <1>5, StoreClaimed
<1>6. CASE Install
  BY <1>6, InstallClaimed
<1> QED
  BY <1>1, <1>2, <1>3, <1>4, <1>5, <1>6 DEF Next, Step, vars, table, Get, BeginSet,
     BeginSweep, Allocate, Fill, Rehash, EndSweep

\* However long keys are set and removed, the slots in use, tombstones included,
\* never outnumber the keys there are: removing does not wear the table out.
THEOREM NoSlotLeaks ==
    ASSUME IsFiniteSet(Keys)
    PROVE  Spec => []NoSlotLeak
<1>1. Init => Claimed
  BY NothingClaimed DEF Init, Claimed
<1>2. Claimed => NoSlotLeak
  <2> SUFFICES ASSUME NEW f, Claims(f, items, cap) PROVE NoSlotLeak
    BY DEF Claimed
  <2>1. f \in Injection(Used(items, cap), Keys)
    BY DEF Claims, Injection, IsInjective
  <2> QED
    BY <2>1, FS_Injection DEF NoSlotLeak
<1>3. Spec => []Claimed
  BY <1>1, AlwaysCInv, NextClaimed, PTL DEF Spec
<1> QED
  BY <1>2, <1>3, PTL

-----------------------------------------------------------------------------
(* HashMap implements AbstractMap: a caller of map.c sees a partial function, *)
(* and none of the slots, tombstones, capacities and sweeps behind it.  This *)
(* is the partial function an array stands for.                              *)

At(t, n, k) == {j \in Slots(n) : t[j].k = k}
Value(t, n, k) == IF At(t, n, k) = {} THEN Absent ELSE t[CHOOSE j \in At(t, n, k) : TRUE].v
Function(t, n) == [k \in Keys |-> Value(t, n, k)]

LEMMA Mapping == /\ Map!vars = <<Function(items, cap), ret>>
                 /\ Map!vars' = <<Function(items', cap'), ret'>>
<1> QED
  BY DEF Map!vars, Function, Value, At, SlotsOf

\* A key has the value of its slot, and no value if it has none.
LEMMA ValueIs ==
    ASSUME NEW n \in Nat, NEW t \in Tables(n), Sound(t, n), NEW k \in Keys
    PROVE  /\ \A j \in Slots(n) : t[j].k = k => Value(t, n, k) = t[j].v /\ t[j].v # Absent
           /\ (\A j \in Slots(n) : t[j].k # k) => Value(t, n, k) = Absent
<1>1. ASSUME NEW j \in Slots(n), t[j].k = k
      PROVE  Value(t, n, k) = t[j].v /\ t[j].v # Absent
  <2>1. At(t, n, k) = {j}
    BY <1>1, ConstantsAssumption DEF Sound, KeyUnique, At
  <2>2. Value(t, n, k) = t[j].v
    BY <2>1 DEF Value
  <2>3. t[j].v \in Vals
    BY <1>1, SlotKinds DEF Tables
  <2> QED
    BY <2>2, <2>3, ConstantsAssumption
<1>2. (\A j \in Slots(n) : t[j].k # k) => Value(t, n, k) = Absent
  BY DEF Value, At
<1> QED
  BY <1>1, <1>2

\* Arrays with the same entries, in whatever order and number of slots, stand
\* for the same function.
LEMMA SameEntries ==
    ASSUME NEW n \in Nat, NEW t \in Tables(n), Sound(t, n),
           NEW m \in Nat, NEW u \in Tables(m), Sound(u, m),
           \A j \in Slots(n) : t[j].k # NoKey => \E l \in Slots(m) : u[l] = t[j],
           \A l \in Slots(m) : u[l].k # NoKey => \E j \in Slots(n) : t[j] = u[l]
    PROVE  Function(u, m) = Function(t, n)
<1>1. ASSUME NEW k \in Keys PROVE Value(u, m, k) = Value(t, n, k)
  <2>0. k # NoKey
    BY ConstantsAssumption
  <2>1. CASE \E j \in Slots(n) : t[j].k = k
    <3>1. PICK j \in Slots(n) : t[j].k = k
      BY <2>1
    <3>2. PICK l \in Slots(m) : u[l] = t[j]
      BY <2>0, <3>1
    <3>3. Value(t, n, k) = t[j].v /\ Value(u, m, k) = u[l].v
      BY <3>1, <3>2, ValueIs
    <3> QED
      BY <3>2, <3>3
  <2>2. CASE \A j \in Slots(n) : t[j].k # k
    <3>1. \A l \in Slots(m) : u[l].k # k
      BY <2>0, <2>2
    <3> QED
      BY <2>2, <3>1, ValueIs
  <2> QED
    BY <2>1, <2>2
<1> QED
  BY <1>1 DEF Function

\* Removing a key changes the function at that key only.
LEMMA RemovedFunction ==
    ASSUME NEW n \in Nat, NEW t \in Tables(n), HasEmpty(t, n), Sound(t, n),
           NEW k \in Keys, NEW u, u = RemoveFrom(t, n, k)
    PROVE  Function(u, n) = [Function(t, n) EXCEPT ![k] = Absent]
<1>1. /\ u \in Tables(n) /\ Sound(u, n)
      /\ \A l \in Slots(n) : u[l] = IF t[l].k = k THEN Tombstone ELSE t[l]
  BY RemoveIs, RemoveKeepsSound
<1>2. ASSUME NEW x \in Keys
      PROVE  Value(u, n, x) = IF x = k THEN Absent ELSE Value(t, n, x)
  <2>0. Tombstone.k # x /\ x # NoKey
    BY ConstantsAssumption DEF Tombstone
  <2>1. CASE x = k
    <3>1. \A l \in Slots(n) : u[l].k # k
      BY <1>1, <2>0, <2>1
    <3> QED
      BY <1>1, <2>1, <3>1, ValueIs
  <2>2. CASE x # k /\ \E l \in Slots(n) : t[l].k = x
    <3>1. PICK l \in Slots(n) : t[l].k = x
      BY <2>2
    <3>2. u[l] = t[l]
      BY <1>1, <2>2, <3>1
    <3>3. Value(t, n, x) = t[l].v /\ Value(u, n, x) = u[l].v
      BY <1>1, <3>1, <3>2, ValueIs
    <3> QED
      BY <2>2, <3>2, <3>3
  <2>3. CASE x # k /\ \A l \in Slots(n) : t[l].k # x
    <3>1. \A l \in Slots(n) : u[l].k # x
      BY <1>1, <2>0, <2>3
    <3> QED
      BY <1>1, <2>3, <3>1, ValueIs
  <2> QED
    BY <2>1, <2>2, <2>3
<1> QED
  BY <1>2 DEF Function

-----------------------------------------------------------------------------
(* The steps.                                                               *)

F == Function(items, cap)

\* What find_item finds is what the function says.
LEMMA LookupIs ==
    ASSUME CInv, pc # "rehash", NEW k \in Keys
    PROVE  /\ Lookup(k) <=> Value(items, cap, k) # Absent
           /\ Lookup(k) => Value(items, cap, k) = items[FindItem(items, cap, k)].v
<1>1. /\ cap \in Nat /\ items \in Tables(cap) /\ Sound(items, cap)
      /\ ChainUnbroken(items, cap)
  BY TableFacts DEF Sound
<1>2. CASE count = 0
  <2>1. \A j \in Slots(cap) : items[j].k # k
    BY <1>2, NothingCounted, ConstantsAssumption DEF Empty
  <2> QED
    BY <1>1, <1>2, <2>1, ValueIs DEF Lookup
<1>3. CASE count # 0
  <2> DEFINE j == FindItem(items, cap, k)
  <2>1. /\ j \in Slots(cap) /\ items[j].k \in {k, NoKey}
        /\ items[j].k = NoKey => \A l \in Slots(cap) : items[l].k # k
    BY <1>1, <1>3, NothingCounted, ItemFound
  <2>2. Lookup(k) <=> items[j].k = k
    BY <1>3 DEF Lookup
  <2> HIDE DEF j
  <2>3. CASE items[j].k = k
    <3>1. Value(items, cap, k) = items[j].v /\ items[j].v # Absent
      BY <1>1, <2>1, <2>3, ValueIs
    <3> QED
      BY <2>2, <2>3, <3>1 DEF j
  <2>4. CASE items[j].k # k
    <3>1. Value(items, cap, k) = Absent
      BY <1>1, <2>1, <2>4, ValueIs
    <3> QED
      BY <2>2, <2>4, <3>1
  <2> QED
    BY <2>3, <2>4
<1> QED
  BY <1>2, <1>3

LEMMA GetRefines == ASSUME CInv, NEW k \in Keys, Get(k) PROVE Map!Get(k)
<1>1. /\ pc = "idle" /\ items' = items /\ cap' = cap
      /\ ret' = <<"get", IF Lookup(k) THEN items[FindItem(items, cap, k)].v ELSE Absent>>
  BY DEF Get, table
<1>2. ret' = <<"get", Value(items, cap, k)>>
  BY <1>1, LookupIs
<1>3. Function(items', cap') = F /\ F[k] = Value(items, cap, k)
  BY <1>1 DEF F, Function
<1> QED
  BY <1>2, <1>3 DEF Map!Get, F, Function, Value, At, SlotsOf

\* rem_map, of a table with or without the key.
LEMMA RemoveFunction ==
    ASSUME CInv, pc # "rehash", NEW k \in Keys, cap' = cap,
           items' = IF count = 0 THEN items ELSE RemoveFrom(items, cap, k)
    PROVE  F' = [F EXCEPT ![k] = Absent]
<1>1. cap \in Nat /\ items \in Tables(cap) /\ Sound(items, cap)
  BY TableFacts
<1>2. CASE count = 0
  <2>1. \A j \in Slots(cap) : items[j].k # k
    BY <1>2, NothingCounted, ConstantsAssumption DEF Empty
  <2>2. Value(items, cap, k) = Absent
    BY <1>1, <2>1, ValueIs
  <2> QED
    BY <1>2, <2>2 DEF F, Function
<1>3. CASE count # 0
  BY <1>1, <1>3, NothingCounted, RemovedFunction DEF F
<1> QED
  BY <1>2, <1>3

LEMMA RemoveRefines == ASSUME CInv, NEW k \in Keys, Remove(k) PROVE Map!Remove(k)
<1>1. F' = [F EXCEPT ![k] = Absent]
  BY RemoveFunction DEF Remove
<1>2. ret' = <<"rem", Value(items, cap, k) # Absent>>
  <2>1. ret' = <<"rem", Lookup(k)>>
    BY DEF Remove
  <2>2. Lookup(k) = (Value(items, cap, k) # Absent)
    BY LookupIs DEF Lookup, Remove
  <2> QED
    BY <2>1, <2>2
<1>3. F[k] = Value(items, cap, k)
  BY DEF F, Function
<1> QED
  BY <1>1, <1>2, <1>3 DEF Map!Remove, F, Function, Value, At, SlotsOf

\* set_map, and bc_set_global, when they have stored: the key is new if it had
\* no value, and an assignment to it is then withdrawn.
LEMMA StoreRefines ==
    ASSUME CInv, Store
    PROVE  IF op.name = "set" THEN Map!Set(op.k, op.v) ELSE Map!Assign(op.k, op.v)
<1> DEFINE j == FindItem(items, cap, op.k)
           isNew == items[j].k = NoKey
<1>1. /\ op \in SetOps /\ op.k \in Keys /\ op.v \in Vals
      /\ j \in Slots(cap) /\ items[j].k \in {op.k, NoKey}
      /\ items' \in Tables(cap) /\ Sound(items', cap)
      /\ \A l \in Slots(cap) : items'[l] = IF l = j THEN Written(j) ELSE items[l]
      /\ \A l \in Slots(cap) : l # j => items[l].k # op.k
      /\ cap \in Nat /\ items \in Tables(cap) /\ Sound(items, cap)
      /\ cap' = cap
  BY StoreFacts, TableFacts DEF Store
<1>2. ret' = <<op.name, IF op.name = "set" THEN isNew ELSE ~isNew>>
  BY DEF Store
<1>3. isNew = (F[op.k] = Absent)
  <2>1. F[op.k] = Value(items, cap, op.k)
    BY <1>1 DEF F, Function
  <2> HIDE DEF j
  <2>2. CASE items[j].k = NoKey
    <3>1. \A l \in Slots(cap) : items[l].k # op.k
      BY <1>1, <2>2, ConstantsAssumption
    <3> QED
      BY <1>1, <2>1, <2>2, <3>1, ValueIs
  <2>3. CASE items[j].k = op.k
    BY <1>1, <2>1, <2>3, ValueIs, ConstantsAssumption
  <2> QED
    BY <1>1, <2>2, <2>3
<1> HIDE DEF j
<1>4. ASSUME NEW x \in Keys, x # op.k PROVE Value(items', cap, x) = Value(items, cap, x)
  <2>0. x # NoKey
    BY ConstantsAssumption
  <2>a. items[j].k # x /\ Written(j).k # x
    BY <1>1, <1>4, <2>0 DEF Written, Tombstone
  <2>1. CASE \E l \in Slots(cap) : items[l].k = x
    <3>1. PICK l \in Slots(cap) : items[l].k = x
      BY <2>1
    <3>2. items'[l] = items[l]
      BY <1>1, <2>a, <3>1
    <3>3. Value(items, cap, x) = items[l].v /\ Value(items', cap, x) = items'[l].v
      BY <1>1, <3>1, <3>2, ValueIs
    <3> QED
      BY <3>2, <3>3
  <2>2. CASE \A l \in Slots(cap) : items[l].k # x
    <3>1. \A l \in Slots(cap) : items'[l].k # x
      BY <1>1, <2>2, <2>a
    <3> QED
      BY <1>1, <2>2, <3>1, ValueIs
  <2> QED
    BY <2>1, <2>2
<1>5. Value(items', cap, op.k) = IF op.name = "assign" /\ isNew THEN Absent ELSE op.v
  <2>1. CASE op.name = "assign" /\ isNew
    <3>1. \A l \in Slots(cap) : items'[l].k # op.k
      BY <1>1, <2>1, ConstantsAssumption DEF Written, Tombstone
    <3> QED
      BY <1>1, <2>1, <3>1, ValueIs
  <2>2. CASE ~(op.name = "assign" /\ isNew)
    <3>1. items'[j].k = op.k /\ items'[j].v = op.v
      BY <1>1, <2>2 DEF Written
    <3> QED
      BY <1>1, <2>2, <3>1, ValueIs
  <2> QED
    BY <2>1, <2>2
<1>6. F' = IF op.name = "assign" /\ isNew THEN F ELSE [F EXCEPT ![op.k] = op.v]
  <2>1. F' = [x \in Keys |-> Value(items', cap, x)] /\ F = [x \in Keys |-> Value(items, cap, x)]
    BY <1>1 DEF F, Function
  <2> QED
    BY <1>1, <1>3, <1>4, <1>5, <2>1
<1>7. op.name \in {"set", "assign"}
  BY <1>1 DEF SetOps
<1> HIDE DEF isNew
<1>8. CASE op.name = "set"
  <2>1. F' = [F EXCEPT ![op.k] = op.v] /\ ret' = <<"set", F[op.k] = Absent>>
    BY <1>2, <1>3, <1>6, <1>8
  <2> QED
    BY <1>8, <2>1 DEF Map!Set, F, Function, Value, At, SlotsOf
<1>9. CASE op.name = "assign"
  <2>1. /\ F' = IF F[op.k] = Absent THEN F ELSE [F EXCEPT ![op.k] = op.v]
        /\ ret' = <<"assign", F[op.k] # Absent>>
    BY <1>2, <1>3, <1>6, <1>9
  <2> QED
    BY <1>9, <2>1 DEF Map!Assign, F, Function, Value, At, SlotsOf
<1> QED
  BY <1>7, <1>8, <1>9

\* The exchange of the arrays cannot be seen.
LEMMA InstallRefines == ASSUME CInv, Install PROVE UNCHANGED Map!vars
<1>1. /\ pc = "rehash" /\ i = cap /\ items' = fresh /\ cap' = fcap /\ ret' = ret
  BY DEF Install
<1>2. /\ \A x \in Slots(fcap) : fresh[x].k # NoKey => \E l \in Slots(cap) : items[l] = fresh[x]
      /\ \A l \in Slots(cap) : items[l].k # NoKey => \E x \in Slots(fcap) : fresh[x] = items[l]
  BY <1>1 DEF CInv, Filled, Empty
<1>3. Function(fresh, fcap) = F
  BY <1>2, TableFacts, SameEntries DEF F
<1> QED
  BY <1>1, <1>3, Mapping DEF F

LEMMA SweepRefines ==
    ASSUME CInv, Sweep PROVE UNCHANGED Map!vars \/ \E k \in Keys : Map!Forget(k)
<1>1. /\ pc = "sweep" /\ cap' = cap /\ ret' = ret /\ i \in Slots(cap)
      /\ items' = IF items[i].k \notin marked \union {NoKey} /\ count # 0
                  THEN RemoveFrom(items, cap, items[i].k) ELSE items
  BY TableFacts DEF Sweep, Slots
<1>2. CASE items' = items
  BY <1>1, <1>2, Mapping
<1>3. CASE items[i].k \notin marked \union {NoKey} /\ count # 0
  <2>1. items[i].k \in Keys
    BY <1>1, <1>3, TableFacts, SlotKinds DEF Tables
  <2>2. F' = [F EXCEPT ![items[i].k] = Absent]
    BY <1>1, <1>3, <2>1, RemoveFunction
  <2>3. Map!Forget(items[i].k)
    BY <1>1, <2>2 DEF Map!Forget, F, Function, Value, At, SlotsOf
  <2> QED
    BY <2>1, <2>3
<1> QED
  BY <1>1, <1>2, <1>3

LEMMA NoEntries == ASSUME NEW t PROVE Function(t, 0) = [k \in Keys |-> Absent]
<1>1. Slots(0) = {}
  BY DEF Slots
<1> QED
  BY <1>1 DEF Function, Value, At

LEMMA FreeRefines == ASSUME Free PROVE Map!Free
<1>1. cap' = 0 /\ ret' = <<"none">>
  BY DEF Free
<1>2. F' = [k \in Keys |-> Absent]
  BY <1>1, NoEntries DEF F
<1> QED
  BY <1>1, <1>2 DEF Map!Free, F, Function, Value, At, SlotsOf

LEMMA InitRefines == Init => Map!Init
<1> SUFFICES ASSUME Init PROVE Map!Init
  OBVIOUS
<1>1. F = [k \in Keys |-> Absent] /\ ret = <<"none">>
  BY NoEntries DEF Init, F
<1> QED
  BY <1>1 DEF Map!Init, F, Function, Value, At, SlotsOf

LEMMA StepRefines ==
    ASSUME CInv, [Next]_vars PROVE Map!Next \/ UNCHANGED Map!vars
<1>1. CASE items' = items /\ cap' = cap /\ ret' = ret
  BY <1>1, Mapping
<1>2. ASSUME NEW k \in Keys, Get(k) PROVE Map!Next
  BY <1>2, GetRefines DEF Map!Next
<1>3. ASSUME NEW k \in Keys, Remove(k) PROVE Map!Next
  BY <1>3, RemoveRefines DEF Map!Next
<1>4. CASE Free
  BY <1>4, FreeRefines DEF Map!Next
<1>5. CASE Store
  <2>1. op.k \in Keys /\ op.v \in Vals
    BY <1>5, StoreFacts
  <2> QED
    BY <1>5, <2>1, StoreRefines DEF Map!Next
<1>6. CASE Install
  BY <1>6, InstallRefines
<1>7. CASE Sweep
  BY <1>7, SweepRefines DEF Map!Next
<1> QED
  BY <1>1, <1>2, <1>3, <1>4, <1>5, <1>6, <1>7 DEF Next, Step, vars, table, BeginSet,
     BeginSweep, Allocate, Fill, Rehash, EndSweep

\* Whatever keys collide, whatever is removed and whenever the table grows or the
\* collector sweeps it, get_map, set_map, rem_map and bc_set_global answer as a
\* partial function would.
THEOREM Refinement == Spec => ImplementsMap
<1>1. CInv /\ [Next]_vars => [Map!Next]_(Map!vars)
  BY StepRefines
<1> QED
  BY <1>1, InitRefines, AlwaysCInv, PTL DEF Spec, ImplementsMap, Map!Spec

-----------------------------------------------------------------------------
(* Interning.  What the steps of the table do to the strings in it.         *)

LEMMA KeysAreKeys ==
    ASSUME NEW n \in Nat, NEW t \in Tables(n)
    PROVE  KeysIn(t, n) \subseteq Keys /\ NoKey \notin KeysIn(t, n)
<1>1. \A j \in Slots(n) : t[j] \in Slot
  BY DEF Tables
<1> QED
  BY <1>1, SlotKinds DEF KeysIn

LEMMA NoKeysInNone == ASSUME NEW t PROVE KeysIn(t, 0) = {}
<1>1. Slots(0) = {}
  BY DEF Slots
<1> QED
  BY <1>1 DEF KeysIn

\* set_map adds the key.
LEMMA StoreKeys ==
    ASSUME CInv, Store, op.name = "set"
    PROVE  KeysIn(items', cap') = KeysIn(items, cap) \union {op.k}
<1> DEFINE j == FindItem(items, cap, op.k)
<1>1. /\ op.k \in Keys /\ j \in Slots(cap) /\ items[j].k \in {op.k, NoKey}
      /\ \A l \in Slots(cap) : items'[l] = IF l = j THEN Written(j) ELSE items[l]
      /\ cap' = cap
  BY StoreFacts DEF Store
<1> HIDE DEF j
<1>2. Written(j).k = op.k /\ op.k # NoKey
  BY <1>1, ConstantsAssumption DEF Written
<1>3. \A l \in Slots(cap) : items'[l].k = IF l = j THEN op.k ELSE items[l].k
  BY <1>1, <1>2
<1> QED
  BY <1>1, <1>2, <1>3 DEF KeysIn

\* adjust_cap copies keys of the table, and in the end all of them.
LEMMA FilledKeys ==
    ASSUME CInv, pc = "rehash"
    PROVE  /\ i <= cap
           /\ KeysIn(fresh, fcap) \subseteq KeysIn(items, cap)
           /\ i = cap => KeysIn(fresh, fcap) = KeysIn(items, cap)
<1>1. i \in Nat /\ cap \in Nat /\ i <= cap
  BY TableFacts DEF CInv, IInv, LoadBounded
<1>2. Slots(i) \subseteq Slots(cap)
  BY <1>1 DEF Slots
<1>3. \A x \in Slots(fcap) : fresh[x].k # NoKey => \E l \in Slots(cap) : fresh[x] = items[l]
  BY <1>2 DEF CInv, Filled, Empty
<1>4. \A l \in Slots(i) : items[l].k # NoKey => \E x \in Slots(fcap) : fresh[x] = items[l]
  BY DEF CInv, Filled
<1> QED
  BY <1>1, <1>3, <1>4 DEF KeysIn

\* rem_black_map takes keys away and adds none.
LEMMA SweepKeys == ASSUME CInv, Sweep PROVE KeysIn(items', cap') \subseteq KeysIn(items, cap)
<1>1. /\ pc = "sweep" /\ cap' = cap /\ i \in Slots(cap)
      /\ items' = IF items[i].k \notin marked \union {NoKey} /\ count # 0
                  THEN RemoveFrom(items, cap, items[i].k) ELSE items
  BY TableFacts DEF Sweep, Slots
<1>2. CASE items' = items
  BY <1>1, <1>2
<1>3. CASE items[i].k \notin marked \union {NoKey} /\ count # 0
  <2>1. items[i].k \in Keys
    BY <1>1, <1>3, TableFacts, SlotKinds DEF Tables
  <2>2. HasEmpty(items, cap)
    BY <1>1, <1>3, NothingCounted
  <2>3. \A l \in Slots(cap) : items'[l] = IF items[l].k = items[i].k THEN Tombstone ELSE items[l]
    BY <1>1, <1>3, <2>1, <2>2, TableFacts, RemoveIs
  <2> QED
    BY <1>1, <2>3 DEF KeysIn, Tombstone
<1> QED
  BY <1>1, <1>2, <1>3

\* No slot of a chain comes both before and after another.
LEMMA OneBefore ==
    ASSUME NEW n \in Nat, NEW h \in Slots(n), NEW j \in Slots(n), NEW l \in Slots(n), j # l
    PROVE  j \in Before(h, l, n) \/ l \in Before(h, j, n)
<1>1. Dist(h, j, n) \in Nat /\ Dist(h, l, n) \in Nat /\ Dist(h, j, n) # Dist(h, l, n)
  BY Visits
<1>2. /\ j \in Before(h, l, n) <=> Dist(h, j, n) < Dist(h, l, n)
      /\ l \in Before(h, j, n) <=> Dist(h, l, n) < Dist(h, j, n)
  BY Visits
<1> QED
  BY <1>1, <1>2

\* find_str_map answers with the string of the table that says it, or with none.
LEMMA FindStrIs ==
    ASSUME CInv, pc # "rehash", NEW x \in Texts,
           \A r, s \in KeysIn(items, cap) : Text[r] = Text[s] => r = s
    PROVE  /\ \A s \in KeysIn(items, cap) : Text[s] = x => FindStr(x) = s
           /\ (\A s \in KeysIn(items, cap) : Text[s] # x) => FindStr(x) = NoKey
<1>1. /\ cap \in Nat /\ items \in Tables(cap) /\ ChainUnbroken(items, cap)
      /\ KeysIn(items, cap) \subseteq Keys
  BY TableFacts, KeysAreKeys DEF Sound
<1>2. CASE count = 0
  <2>1. \A l \in Slots(cap) : items[l].k = NoKey
    BY <1>2, NothingCounted DEF Empty
  <2>2. KeysIn(items, cap) = {}
    BY <2>1 DEF KeysIn
  <2> QED
    BY <1>2, <2>2 DEF FindStr
<1>3. CASE count # 0
  <2> DEFINE h == TextHash[x] % cap
             j == HaltSlot(x)
             S == {l \in Slots(cap) : Halts(l, x)}
  <2>1. cap > 0 /\ HasEmpty(items, cap)
    BY <1>3, NothingCounted
  <2>2. h \in Slots(cap)
    BY <1>1, <2>1, TextsAssumption DEF Slots
  <2>3. S # {} /\ S \subseteq Slots(cap)
    BY <2>1 DEF HasEmpty, Halts
  <2> HIDE DEF h
  <2>4. PICK m \in S : \A l \in S : l \notin Before(h, m, cap)
    BY <1>1, <2>2, <2>3, FirstVisited
  <2>5. Before(h, m, cap) \subseteq Slots(cap)
    BY <1>1, <2>2, <2>3, <2>4, BeforeAreSlots
  <2>6. /\ j \in Slots(cap) /\ Halts(j, x)
        /\ \A l \in Before(h, j, cap) : ~Halts(l, x)
    BY <2>3, <2>4, <2>5 DEF HaltSlot, h
  <2>7. FindStr(x) = items[j].k
    BY <1>3 DEF FindStr
  <2> HIDE DEF j, S
  <2>8. ASSUME Says(j, x)
        PROVE  items[j].k \in KeysIn(items, cap) /\ Text[items[j].k] = x
    BY <2>6, <2>8 DEF Says, KeysIn
  <2>9. ASSUME NEW s \in KeysIn(items, cap), Text[s] = x
        PROVE  FindStr(x) = s
    <3>1. PICK l \in Slots(cap) : items[l].k = s
      BY DEF KeysIn
    <3>2. s \in Keys /\ s # NoKey /\ Hash[s] = TextHash[x]
      BY <1>1, <2>9, TextsAssumption, ConstantsAssumption
    <3>3. Says(l, x)
      BY <2>9, <3>1, <3>2 DEF Says
    <3>4. CASE Says(j, x)
      BY <2>7, <2>8, <2>9, <3>4
    <3>5. CASE ~Says(j, x)
      <4>1. items[j] = Empty
        BY <2>6, <3>5 DEF Halts
      <4>2. j # l /\ l \notin Before(h, j, cap)
        BY <2>6, <3>3, <3>5 DEF Halts
      <4>3. j \in Before(h, l, cap)
        BY <1>1, <2>2, <2>6, <3>1, <4>2, OneBefore
      <4>4. Home(items[l].k, cap) = h
        BY <3>1, <3>2 DEF Home, h
      <4> QED
        BY <1>1, <3>1, <3>2, <4>1, <4>3, <4>4 DEF ChainUnbroken
    <3> QED
      BY <3>4, <3>5
  <2>10. ASSUME \A s \in KeysIn(items, cap) : Text[s] # x
         PROVE  FindStr(x) = NoKey
    <3>1. ~Says(j, x)
      BY <2>8, <2>10
    <3> QED
      BY <2>6, <2>7, <3>1 DEF Halts, Empty
  <2> QED
    BY <2>9, <2>10
<1> QED
  BY <1>2, <1>3

-----------------------------------------------------------------------------
(* The invariant.  Between collections the table holds all strings but the   *)
(* one being entered; in one, all that are held, and it forgets the others   *)
(* before they are freed.                                                    *)

Making ==
    IF at = "set"
    THEN /\ pc \in {"alloc", "fill", "rehash", "store", "sweep"}
         /\ op = [name |-> "set", k |-> new, v |-> Null]
         /\ new \notin KeysIn(items, cap)
    ELSE pc = "idle" \/ (pc = "sweep" /\ op.name = "gc")

Unknown == at \in {"copy", "alloc", "enter"} => \A s \in heap : Text[s] # text

Entered ==
    IF pc = "sweep"
    THEN held \ {new} \subseteq KeysIn(items, cap) \intersect marked /\ marked \subseteq held
    ELSE heap \ {new} \subseteq KeysIn(items, cap)

SInv == CInv /\ InternTypeOK /\ NoDangling /\ OneObject /\ Making /\ Unknown /\ Entered

LEMMA InitSInv == InternInit => SInv
<1> SUFFICES ASSUME InternInit PROVE SInv
  OBVIOUS
<1>1. Init /\ heap = {} /\ held = {} /\ at = "none" /\ text \in Texts /\ new = NoKey
  BY DEF InternInit
<1>2. KeysIn(items, cap) = {} /\ KeysIn(fresh, fcap) = {} /\ pc = "idle"
  BY <1>1, NoKeysInNone DEF Init
<1> QED
  BY <1>1, <1>2, InitCInv DEF SInv, InternTypeOK, NoDangling, OneObject, Making, Unknown, Entered

\* A step of the strings is one of the table, or none.
LEMMA TableStep ==
    ASSUME SInv, [InternNext]_allVars
    PROVE  [Next]_vars /\ CInv'
<1>1. held \intersect KeysIn(items, cap) \in SUBSET Keys
  BY TableFacts, KeysAreKeys DEF SInv
<1>2. Null \in Vals
  BY ConstantsAssumption
<1>3. [Next]_vars
  <2>1. CASE BeginSweep(held \intersect KeysIn(items, cap)) \/ UNCHANGED vars
    BY <1>1, <2>1 DEF Next
  <2>2. CASE \E s \in Keys : AllocStr(s)
    BY <1>2, <2>2 DEF AllocStr, Next
  <2>3. CASE Allocate \/ Fill \/ Rehash \/ Install \/ Store \/ Sweep \/ EndSweep
    BY <2>3 DEF Next, Step
  <2> QED
    BY <2>1, <2>2, <2>3 DEF InternNext, Proceed, allVars, CopyStr, TakeStr, Intern, AllocCopy,
       AllocObj, MayCollect, GrowTable, CollectGrowing, Enter, RemBlackMap, FreeWhite, Collect,
       Release
<1>4. CInv'
  BY <1>3, NextCInv DEF SInv
<1> QED
  BY <1>3, <1>4

\* While no operation of the table runs, it holds the strings that exist.
LEMMA AtRest ==
    ASSUME SInv, pc = "idle"
    PROVE  KeysIn(items, cap) = heap /\ new = NoKey /\ at # "set" /\ NoKey \notin heap
<1>1. at # "set" /\ new = NoKey /\ heap \subseteq Keys
  BY DEF SInv, Making, InternTypeOK
<1>2. heap \ {new} \subseteq KeysIn(items, cap) /\ KeysIn(items, cap) \subseteq heap
  BY DEF SInv, Entered, NoDangling
<1> QED
  BY <1>1, <1>2, ConstantsAssumption

LEMMA SInvFinds == SInv => FindsStrings
<1> SUFFICES ASSUME SInv, pc = "idle", NEW x \in Texts
             PROVE  LET them == {s \in heap : Text[s] = x}
                    IN IF them = {} THEN FindStr(x) = NoKey ELSE them = {FindStr(x)}
  BY DEF FindsStrings
<1>1. \A r, s \in KeysIn(items, cap) : Text[r] = Text[s] => r = s
  BY AtRest DEF SInv, OneObject
<1>2. CInv /\ KeysIn(items, cap) = heap
  BY AtRest DEF SInv
<1>3. CASE \A s \in heap : Text[s] # x
  BY <1>1, <1>2, <1>3, FindStrIs
<1>4. CASE \E s \in heap : Text[s] = x
  <2>1. PICK s \in heap : Text[s] = x
    BY <1>4
  <2>2. FindStr(x) = s
    BY <1>1, <1>2, <2>1, FindStrIs
  <2> QED
    BY <1>1, <1>2, <2>1, <2>2
<1> QED
  BY <1>3, <1>4

\* How copy_str and take_str get on while they allocate.
Further == \/ at' = at
           \/ at = "copy" /\ at' = "alloc"
           \/ at = "alloc" /\ at' = "enter"

LEMMA CollectKeeps ==
    ASSUME SInv, CInv', BeginSweep(held \intersect KeysIn(items, cap)), Further,
           UNCHANGED <<heap, held, text, new>>
    PROVE  SInv'
<1>1. /\ pc \in {"idle", "alloc"} /\ pc' = "sweep" /\ marked' = held \intersect KeysIn(items, cap)
      /\ pc = "idle" => op'.name = "gc"
      /\ pc = "alloc" => op' = op
      /\ UNCHANGED <<items, cap, fresh, fcap>>
  BY DEF BeginSweep, table, growing
<1>2. KeysIn(items, cap)' = KeysIn(items, cap) /\ KeysIn(fresh, fcap)' = KeysIn(fresh, fcap)
  BY <1>1
<1>3. Making'
  BY <1>1, <1>2 DEF SInv, Making, Further
<1>4. Entered'
  <2>1. held \ {new} \subseteq KeysIn(items, cap)
    BY <1>1 DEF SInv, Entered, NoDangling
  <2> QED
    BY <1>1, <1>2, <2>1 DEF Entered
<1>5. InternTypeOK' /\ NoDangling' /\ OneObject' /\ Unknown'
  BY <1>2 DEF SInv, InternTypeOK, NoDangling, OneObject, Unknown, Further
<1> QED
  BY <1>3, <1>4, <1>5 DEF SInv

LEMMA SameTable ==
    ASSUME SInv, CInv', UNCHANGED vars, Further, UNCHANGED <<heap, held, text, new>>
    PROVE  SInv'
<1>1. UNCHANGED <<items, cap, fresh, fcap, pc, op, marked>>
  BY DEF vars
<1>2. KeysIn(items, cap)' = KeysIn(items, cap) /\ KeysIn(fresh, fcap)' = KeysIn(fresh, fcap)
  BY <1>1
<1>3. Making' /\ Entered'
  BY <1>1, <1>2 DEF SInv, Making, Further, Entered
<1>4. InternTypeOK' /\ NoDangling' /\ OneObject' /\ Unknown'
  BY <1>2 DEF SInv, InternTypeOK, NoDangling, OneObject, Unknown, Further
<1> QED
  BY <1>3, <1>4 DEF SInv

LEMMA InternKeeps ==
    ASSUME SInv, CInv', NEW x \in Texts, NEW next \in {"copy", "alloc"}, Intern(x, next)
    PROVE  SInv'
<1>1. /\ at = "none" /\ pc = "idle" /\ text' = x
      /\ UNCHANGED <<items, cap, fresh, fcap, pc, op, marked, heap, new>>
      /\ IF FindStr(x) # NoKey THEN held' = held \union {FindStr(x)} /\ at' = at
                               ELSE at' = next /\ held' = held
  BY DEF Intern, vars
<1>2. KeysIn(items, cap)' = KeysIn(items, cap) /\ KeysIn(fresh, fcap)' = KeysIn(fresh, fcap)
  BY <1>1
<1>3. IF \A s \in heap : Text[s] # x THEN FindStr(x) = NoKey ELSE FindStr(x) \in heap
  <2>1. LET them == {s \in heap : Text[s] = x}
        IN IF them = {} THEN FindStr(x) = NoKey ELSE them = {FindStr(x)}
    BY <1>1, SInvFinds DEF FindsStrings
  <2> QED
    BY <2>1
<1>4. held' \subseteq heap
  BY <1>1, <1>3, AtRest DEF SInv, NoDangling
<1>5. at' # "set" /\ (at' # "none" => \A s \in heap : Text[s] # x)
  BY <1>1, <1>3, AtRest
<1>6. Making' /\ Entered' /\ Unknown'
  BY <1>1, <1>2, <1>5 DEF SInv, Making, Entered, Unknown
<1>7. InternTypeOK' /\ NoDangling' /\ OneObject'
  BY <1>1, <1>2, <1>4, AtRest DEF SInv, InternTypeOK, NoDangling, OneObject
<1> QED
  BY <1>6, <1>7 DEF SInv

LEMMA AllocStrKeeps == ASSUME SInv, CInv', NEW s \in Keys, AllocStr(s) PROVE SInv'
<1>1. /\ at = "enter" /\ pc = "idle" /\ s \notin heap /\ Text[s] = text /\ new' = s
      /\ heap' = heap \union {s} /\ held' = held \union {s} /\ at' = "set" /\ text' = text
      /\ op' = [name |-> "set", k |-> s, v |-> Null] /\ pc' \in {"alloc", "store"}
      /\ UNCHANGED <<items, cap, fresh, fcap>>
  BY DEF AllocStr, BeginSet, table, growing
<1>2. KeysIn(items, cap)' = KeysIn(items, cap) /\ KeysIn(fresh, fcap)' = KeysIn(fresh, fcap)
  BY <1>1
<1>3. KeysIn(items, cap) = heap
  BY <1>1, AtRest
<1>4. \A r \in heap : Text[r] # Text[s]
  BY <1>1 DEF SInv, Unknown
<1>5. OneObject'
  BY <1>1, <1>4 DEF SInv, OneObject
<1>6. Making' /\ Entered' /\ Unknown'
  BY <1>1, <1>2, <1>3 DEF Making, Entered, Unknown
<1>7. InternTypeOK' /\ NoDangling'
  BY <1>1, <1>2 DEF SInv, InternTypeOK, NoDangling
<1> QED
  BY <1>5, <1>6, <1>7 DEF SInv

\* Growing shows in the strings of the table as little as in its function.
LEMMA GrowKeeps == ASSUME SInv, CInv', GrowTable PROVE SInv'
<1>1. /\ pc \in {"alloc", "fill", "rehash"} /\ pc' \in {"fill", "rehash", "store"}
      /\ UNCHANGED <<op, heap, held, at, text, new>>
  BY DEF GrowTable, Allocate, Fill, Rehash, Install, making
<1>2. KeysIn(items, cap)' = KeysIn(items, cap)
  <2>1. CASE Allocate \/ Fill \/ Rehash
    BY <2>1 DEF Allocate, Fill, Rehash, table
  <2>2. CASE Install
    <3>1. pc = "rehash" /\ i = cap /\ items' = fresh /\ cap' = fcap
      BY <2>2 DEF Install
    <3> QED
      BY <3>1, FilledKeys DEF SInv
  <2> QED
    BY <2>1, <2>2 DEF GrowTable
<1>3. KeysIn(fresh, fcap)' \subseteq heap
  <2>1. CASE Allocate
    BY <2>1 DEF Allocate, growing, SInv, NoDangling
  <2>2. CASE Fill
    <3>1. \A j \in Slots(fcap') : fresh'[j].k = NoKey
      BY <2>2 DEF Fill, Empty
    <3> QED
      BY <3>1 DEF KeysIn
  <2>3. CASE Rehash
    <3>1. /\ i \in Slots(cap) /\ fcap' = fcap /\ fresh \in Tables(fcap)
          /\ \/ fresh' = fresh
             \/ \E j : fresh' = [fresh EXCEPT ![j] = items[i]] /\ items[i].k # NoKey
      BY <2>3, TableFacts DEF SInv, Rehash, Slots
    <3>2. KeysIn(fresh', fcap') \subseteq KeysIn(fresh, fcap) \union KeysIn(items, cap)
      BY <3>1 DEF KeysIn, Tables
    <3> QED
      BY <3>2 DEF SInv, NoDangling
  <2>4. CASE Install
    <3>1. fcap' = 0
      BY <2>4 DEF Install
    <3> QED
      BY <3>1, NoKeysInNone
  <2> QED
    BY <2>1, <2>2, <2>3, <2>4 DEF GrowTable
<1>4. at = "set"
  BY <1>1 DEF SInv, Making
<1>5. Making' /\ Entered' /\ Unknown'
  BY <1>1, <1>2, <1>4 DEF SInv, Making, Entered, Unknown
<1>6. InternTypeOK' /\ NoDangling' /\ OneObject'
  BY <1>1, <1>2, <1>3 DEF SInv, InternTypeOK, NoDangling, OneObject
<1> QED
  BY <1>5, <1>6 DEF SInv

LEMMA EnterKeeps == ASSUME SInv, CInv', Enter PROVE SInv'
<1>1. /\ pc = "store" /\ pc' = "idle" /\ at' = "none" /\ new' = NoKey
      /\ UNCHANGED <<fresh, fcap, heap, held, text>>
  BY DEF Enter, Store, growing
<1>2. at = "set" /\ op.name = "set" /\ op.k = new
  BY <1>1 DEF SInv, Making
<1>3. new \in heap /\ held \subseteq heap
  BY <1>2 DEF SInv, InternTypeOK, NoDangling
<1>4. KeysIn(items, cap)' = KeysIn(items, cap) \union {new}
  BY <1>2, StoreKeys DEF SInv, Enter
<1>5. KeysIn(items, cap)' = heap /\ KeysIn(fresh, fcap)' = KeysIn(fresh, fcap)
  BY <1>1, <1>3, <1>4 DEF SInv, Entered, NoDangling
<1>6. Making' /\ Entered' /\ Unknown'
  BY <1>1, <1>5 DEF Making, Entered, Unknown
<1>7. InternTypeOK' /\ NoDangling' /\ OneObject'
  BY <1>1, <1>5 DEF SInv, InternTypeOK, NoDangling, OneObject
<1> QED
  BY <1>6, <1>7 DEF SInv

LEMMA RemBlackMapKeeps == ASSUME SInv, CInv', RemBlackMap PROVE SInv'
<1>1. /\ pc = "sweep" /\ pc' = "sweep"
      /\ UNCHANGED <<cap, fresh, fcap, op, marked, heap, held, at, text, new>>
  BY DEF RemBlackMap, Sweep, growing, making
<1>2. KeysIn(items, cap)' \subseteq KeysIn(items, cap)
  BY SweepKeys DEF SInv, RemBlackMap
<1>3. KeysIn(items, cap) \intersect marked \subseteq KeysIn(items, cap)'
  BY <1>1, SweepStepExact DEF SInv, RemBlackMap, Next, Step
<1>4. KeysIn(fresh, fcap)' = KeysIn(fresh, fcap)
  BY <1>1
<1>5. Making' /\ Entered' /\ Unknown'
  BY <1>1, <1>2, <1>3 DEF SInv, Making, Entered, Unknown
<1>6. InternTypeOK' /\ NoDangling' /\ OneObject'
  BY <1>1, <1>2, <1>4 DEF SInv, InternTypeOK, NoDangling, OneObject
<1> QED
  BY <1>5, <1>6 DEF SInv

\* When strings are freed the table has forgotten them.
LEMMA FreeWhiteKeeps == ASSUME SInv, CInv', FreeWhite PROVE SInv'
<1>1. /\ pc = "sweep" /\ pc' = IF op.name = "gc" THEN "idle" ELSE "fill"
      /\ op.name # "gc" => op' = op
      /\ heap' = heap \intersect held
      /\ UNCHANGED <<items, cap, fresh, fcap, held, at, text, new>>
  BY DEF FreeWhite, EndSweep, table, growing
<1>2. KeysIn(items, cap)' = KeysIn(items, cap) /\ KeysIn(items, cap) \subseteq held
  <2>1. KeysIn(items', cap') \subseteq marked
    BY <1>1, SweepStepExact DEF SInv, FreeWhite, Next, Step
  <2> QED
    BY <1>1, <2>1 DEF SInv, Entered
<1>3. KeysIn(fresh, fcap)' = {}
  <2>1. fcap' = 0
    BY <1>1 DEF SInv, CInv, IInv, LoadBounded
  <2> QED
    BY <2>1, NoKeysInNone
<1>4. held \subseteq heap
  BY DEF SInv, NoDangling
<1>5. Making' /\ Entered' /\ Unknown'
  <2>1. CASE at = "set"
    BY <1>1, <1>2, <2>1 DEF SInv, Making, Entered, Unknown
  <2>2. CASE at # "set"
    BY <1>1, <1>2, <2>2 DEF SInv, Making, Entered, Unknown
  <2> QED
    BY <2>1, <2>2
<1>6. NoDangling'
  BY <1>1, <1>2, <1>3, <1>4 DEF SInv, NoDangling
<1>7. InternTypeOK' /\ OneObject'
  BY <1>1 DEF SInv, InternTypeOK, OneObject
<1> QED
  BY <1>5, <1>6, <1>7 DEF SInv

LEMMA ReleaseKeeps == ASSUME SInv, CInv', NEW s \in held, Release(s) PROVE SInv'
<1>1. /\ at = "none" /\ pc = "idle" /\ held' = held \ {s}
      /\ UNCHANGED <<items, cap, fresh, fcap, pc, op, marked, heap, at, text, new>>
  BY DEF Release, vars
<1>2. KeysIn(items, cap)' = KeysIn(items, cap) /\ KeysIn(fresh, fcap)' = KeysIn(fresh, fcap)
  BY <1>1
<1>3. Making' /\ Entered' /\ Unknown'
  BY <1>1, <1>2 DEF SInv, Making, Entered, Unknown
<1>4. InternTypeOK' /\ NoDangling' /\ OneObject'
  BY <1>1, <1>2 DEF SInv, InternTypeOK, NoDangling, OneObject
<1> QED
  BY <1>3, <1>4 DEF SInv

LEMMA NextSInv == SInv /\ [InternNext]_allVars => SInv'
<1> SUFFICES ASSUME SInv, [InternNext]_allVars PROVE SInv'
  OBVIOUS
<1>0. CInv'
  BY TableStep
<1>1. CASE \E x \in Texts : CopyStr(x) \/ TakeStr(x)
  BY <1>0, <1>1, InternKeeps DEF CopyStr, TakeStr
<1>2. CASE AllocCopy \/ AllocObj
  <2>1. Further /\ MayCollect /\ UNCHANGED <<heap, held, text, new>>
    BY <1>2 DEF AllocCopy, AllocObj, Further
  <2> QED
    BY <1>0, <2>1, CollectKeeps, SameTable DEF MayCollect
<1>3. CASE \E s \in Keys : AllocStr(s)
  BY <1>0, <1>3, AllocStrKeeps
<1>4. CASE GrowTable
  BY <1>0, <1>4, GrowKeeps
<1>5. CASE Enter
  BY <1>0, <1>5, EnterKeeps
<1>6. CASE RemBlackMap \/ FreeWhite
  BY <1>0, <1>6, RemBlackMapKeeps, FreeWhiteKeeps
<1>7. CASE CollectGrowing \/ Collect
  <2>1. /\ BeginSweep(held \intersect KeysIn(items, cap)) /\ Further
        /\ UNCHANGED <<heap, held, text, new>>
    BY <1>7 DEF CollectGrowing, Collect, Further, making
  <2> QED
    BY <1>0, <2>1, CollectKeeps
<1>8. CASE \E s \in held : Release(s)
  BY <1>0, <1>8, ReleaseKeeps
<1>9. CASE UNCHANGED allVars
  <2>1. UNCHANGED vars /\ Further /\ UNCHANGED <<heap, held, text, new>>
    BY <1>9 DEF allVars, making, Further
  <2> QED
    BY <1>0, <2>1, SameTable
<1> QED
  BY <1>1, <1>2, <1>3, <1>4, <1>5, <1>6, <1>7, <1>8, <1>9 DEF InternNext, Proceed

LEMMA AlwaysSInv == InternSpec => []SInv
<1> QED
  BY InitSInv, NextSInv, PTL DEF InternSpec

\* Interning uses its table as HashMap is used, so all that is proved of tables
\* holds of the intern table, while strings are made, collected and made again.
THEOREM InternsInTable == InternSpec => Spec
<1>1. InternInit => Init
  BY DEF InternInit
<1>2. SInv /\ [InternNext]_allVars => [Next]_vars
  BY TableStep
<1> QED
  BY <1>1, <1>2, AlwaysSInv, PTL DEF InternSpec, Spec

\* What is being made is on the stack until the table has it.
THEOREM MadeIsHeld == InternSpec => []InternTypeOK
<1>1. SInv => InternTypeOK
  BY DEF SInv
<1> QED
  BY <1>1, AlwaysSInv, PTL

\* The intern table never refers to a freed string, although it keeps none alive
\* and the collector runs while it grows, nor is a string freed that is held.
THEOREM NoStringDangles == InternSpec => []NoDangling
<1>1. SInv => NoDangling
  BY DEF SInv
<1> QED
  BY <1>1, AlwaysSInv, PTL

\* Two strings of the same text are the same object, whatever texts have the same
\* hash and whatever is collected between looking a text up and entering it.
THEOREM OneObjectPerText == InternSpec => []OneObject
<1>1. SInv => OneObject
  BY DEF SInv
<1> QED
  BY <1>1, AlwaysSInv, PTL

\* find_str_map finds by its text the one string that says it, if there is one.
THEOREM StringsAreFound == InternSpec => []FindsStrings
<1> QED
  BY SInvFinds, AlwaysSInv, PTL
=============================================================================
