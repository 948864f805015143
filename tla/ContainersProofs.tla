--------------------------- MODULE ContainersProofs ---------------------------
(* For all values, strings and bounds: the buffer of an array is as large   *)
(* as its length says, no script sees a cell that was never written, and    *)
(* the array and the string are what AbstractContainers says they are.      *)
EXTENDS Containers, SequenceTheorems, WellFoundedInduction, TLAPS

\* What TypeOK says of the buffer, and that its used part holds values.
Inv == TypeOK /\ NoJunkSeen

-----------------------------------------------------------------------------
(* The buffer.                                                              *)

\* ensure_len, asked for one cell more than the length, makes room for it and
\* keeps what there was: doubling once is enough.
LEMMA RoomForOne ==
    ASSUME Inv
    PROVE  /\ Grown(len + 1) \in Nat
           /\ len + 1 <= Grown(len + 1)
           /\ cap <= Grown(len + 1)
           /\ Ensured(len + 1) \in [Cells(Grown(len + 1)) -> Vals \union {Junk}]
           /\ \A c \in Cells(len) : Ensured(len + 1)[c] = items[c]
<1> USE DEF Inv, TypeOK, Cells
<1>1. /\ Grown(len + 1) \in Nat
      /\ len + 1 <= Grown(len + 1)
      /\ cap <= Grown(len + 1)
  BY ContainersAssumption DEF Grown
<1>2. Ensured(len + 1) \in [Cells(Grown(len + 1)) -> Vals \union {Junk}]
  BY <1>1 DEF Ensured
<1>3. \A c \in Cells(len) : Ensured(len + 1)[c] = items[c]
  BY <1>1 DEF Ensured
<1> QED BY <1>1, <1>2, <1>3

LEMMA PushKeepsInv ==
    ASSUME Inv, NEW v \in Vals, PushVarr(v), UNCHANGED <<str, lost>>
    PROVE  Inv'
<1> DEFINE n == Grown(len + 1)
           E == Ensured(len + 1)
<1>1. /\ n \in Nat /\ len + 1 <= n
      /\ E \in [Cells(n) -> Vals \union {Junk}]
      /\ \A c \in Cells(len) : E[c] = items[c]
  BY RoomForOne
<1> HIDE DEF n, E
<1>2. /\ cap' = n /\ len' = len + 1 /\ past' \in BOOLEAN
      /\ items' = [c \in Cells(n) |-> IF c = len THEN v ELSE E[c]]
  BY <1>1 DEF PushVarr, n, E, Inv, TypeOK
<1>3. TypeOK'
  BY <1>1, <1>2 DEF Inv, TypeOK, Cells
<1>4. NoJunkSeen'
  BY <1>1, <1>2, ContainersAssumption DEF Inv, TypeOK, NoJunkSeen, Cells
<1> QED BY <1>3, <1>4 DEF Inv

LEMMA InsertKeepsInv ==
    ASSUME Inv, NEW v \in Vals, NEW idx \in 0 .. len, InsertVarr(idx, v),
           UNCHANGED <<str, lost>>
    PROVE  Inv'
<1> DEFINE n == Grown(len + 1)
           E == Ensured(len + 1)
<1>1. /\ n \in Nat /\ len + 1 <= n
      /\ E \in [Cells(n) -> Vals \union {Junk}]
      /\ \A c \in Cells(len) : E[c] = items[c]
  BY RoomForOne
<1> HIDE DEF n, E
<1>2. /\ cap' = n /\ len' = len + 1 /\ past' \in BOOLEAN
      /\ items' = [c \in Cells(n) |-> IF c = idx THEN v
                                      ELSE IF c \in idx + 1 .. len + 1 THEN E[c - 1]
                                      ELSE E[c]]
  BY <1>1 DEF InsertVarr, n, E, Inv, TypeOK
<1>3. TypeOK'
  <2>1. items' \in [Cells(n) -> Vals \union {Junk}]
    BY <1>1, <1>2 DEF Inv, TypeOK, Cells
  <2> QED BY <1>1, <1>2, <2>1 DEF Inv, TypeOK
<1>4. NoJunkSeen'
  BY <1>1, <1>2, ContainersAssumption DEF Inv, TypeOK, NoJunkSeen, Cells
<1> QED BY <1>3, <1>4 DEF Inv

LEMMA RemoveKeepsInv ==
    ASSUME Inv, NEW idx \in Cells(len), RemVarr(idx), UNCHANGED <<str, lost>>
    PROVE  Inv'
<1>1. TypeOK'
  BY DEF Inv, TypeOK, RemVarr, Cells
<1>2. NoJunkSeen'
  BY ContainersAssumption DEF Inv, TypeOK, NoJunkSeen, RemVarr, Cells
<1> QED BY <1>1, <1>2 DEF Inv

\* Where get_idx finds nothing wrong, the index is that of an element.
LEMMA InsideIsCell ==
    ASSUME NEW i \in Int, NEW n \in Nat, ~OutOf(i, n)
    PROVE  FromEnd(i, n) \in Cells(n)
BY DEF OutOf, FromEnd, Cells

\* Numbers that there are have a least one among them.
LEMMA LeastOf ==
    ASSUME NEW H, H # {}, H \subseteq Nat
    PROVE  \E c \in H : \A d \in H : c <= d
<1>1. PICK c \in H : \A d \in H : <<d, c>> \notin OpToRel(<, Nat)
  BY NatLessThanWellFounded, WFMin
<1>2. \A d \in H : ~(d < c)
  BY <1>1 DEF OpToRel
<1> QED BY <1>2

\* find answers -1 or the index of an element.
LEMMA FoundIsCell ==
    ASSUME Inv, NEW v, FindVarr(v) # -1
    PROVE  /\ FindVarr(v) \in Cells(len)
           /\ items[FindVarr(v)] = v
           /\ \A c \in Cells(len) : items[c] = v => FindVarr(v) <= c
<1> DEFINE H == Hits(v)
<1>1. H # {} /\ FindVarr(v) = CHOOSE c \in H : \A d \in H : c <= d
  BY DEF FindVarr
<1>2. H \subseteq Nat
  BY DEF Hits, Cells, Inv, TypeOK
<1>3. \E c \in H : \A d \in H : c <= d
  BY ONLY <1>1, <1>2, LeastOf
<1> QED BY <1>1, <1>3 DEF Hits

-----------------------------------------------------------------------------
(* Every step keeps the invariant.                                          *)

LEMMA InitInv == Init => Inv
<1> SUFFICES ASSUME Init PROVE Inv
  OBVIOUS
<1>1. Cells(cap) = {} /\ Cells(len) = {}
  BY DEF Cells, Init
<1>2. items \in [{} -> Vals \union {Junk}]
  BY DEF Init
<1>3. len \in Nat /\ cap \in Nat /\ len <= cap
  BY DEF Init
<1>4. past \in BOOLEAN /\ str \in Strings /\ lost \in BOOLEAN
  BY DEF Init
<1>5. TypeOK
  BY <1>1, <1>2, <1>3, <1>4 DEF TypeOK
<1>6. NoJunkSeen
  BY <1>1 DEF NoJunkSeen
<1> QED BY <1>5, <1>6 DEF Inv

\* What is only asked, of arrays or strings, leaves both alone.
LEMMA AskedKeepsInv ==
    ASSUME Inv, UNCHANGED <<varr, str>>, lost' \in BOOLEAN
    PROVE  Inv'
BY DEF Inv, TypeOK, NoJunkSeen, Cells, varr

LEMMA NextInv == Inv /\ [Next]_vars => Inv'
<1> SUFFICES ASSUME Inv, [Next]_vars
             PROVE  Inv'
  OBVIOUS
<1> USE DEF Answer, Asked, Fails, Quiet
<1>type. len \in Nat /\ lost \in BOOLEAN
  BY DEF Inv, TypeOK
<1>1. ASSUME NEW v \in Vals, arr_push(v)
      PROVE  Inv'
  BY <1>1, PushKeepsInv DEF arr_push
<1>2. ASSUME NEW v \in Vals, arr_find(v)
      PROVE  Inv'
  BY <1>2, <1>type, AskedKeepsInv DEF arr_find
<1>3. ASSUME NEW v \in Vals, arr_erase(v)
      PROVE  Inv'
  BY <1>3, <1>type, AskedKeepsInv, FoundIsCell, RemoveKeepsInv DEF arr_erase
<1>4. ASSUME NEW i \in Indices, NEW v \in Vals, arr_insert(i, v)
      PROVE  Inv'
  <2>1. CASE Asked(OutOfBounds)
    BY <2>1, <1>type, AskedKeepsInv
  <2>2. CASE /\ FromEnd(i, len) >= 0 /\ FromEnd(i, len) <= len
             /\ InsertVarr(FromEnd(i, len), v) /\ Answer(NoRet)
    <3>1. FromEnd(i, len) \in 0 .. len
      BY <2>2, <1>type, ContainersAssumption DEF FromEnd
    <3> QED BY <2>2, <3>1, InsertKeepsInv
  <2> QED BY <1>4, <2>1, <2>2 DEF arr_insert
<1>5. ASSUME NEW i \in Indices, NEW v \in Vals, SetItem(i, v)
      PROVE  Inv'
  <2>1. CASE Asked(OutOfBounds)
    BY <2>1, <1>type, AskedKeepsInv
  <2>2. CASE ~OutOf(i, len) /\ ~Asked(OutOfBounds)
    <3>1. FromEnd(i, len) \in Cells(len)
      BY <2>2, <1>type, InsideIsCell, ContainersAssumption
    <3> QED BY <1>5, <2>2, <3>1, ContainersAssumption
            DEF SetItem, Inv, TypeOK, NoJunkSeen, Cells
  <2> QED BY <1>5, <2>1, <2>2 DEF SetItem
<1>6. ASSUME NEW i \in Indices, arr_rem(i)
      PROVE  Inv'
  <2>1. CASE Asked(OutOfBounds)
    BY <2>1, <1>type, AskedKeepsInv
  <2>2. CASE ~OutOf(i, len) /\ RemVarr(FromEnd(i, len)) /\ Answer(NoRet)
    BY <2>2, <1>type, InsideIsCell, RemoveKeepsInv, ContainersAssumption
  <2> QED BY <1>6, <2>1, <2>2 DEF arr_rem
<1>7. ASSUME NEW i \in Indices, arr_swaprem(i)
      PROVE  Inv'
  <2>1. CASE Asked(OutOfBounds)
    BY <2>1, <1>type, AskedKeepsInv
  <2>2. CASE ~OutOf(i, len) /\ ~Asked(OutOfBounds)
    <3>1. FromEnd(i, len) \in Cells(len) /\ len - 1 \in Cells(len)
      BY <2>2, <1>type, InsideIsCell, ContainersAssumption DEF Cells
    <3>2. /\ items' = [items EXCEPT ![FromEnd(i, len)] = items[len - 1]]
          /\ len' = len - 1
          /\ UNCHANGED <<cap, past, str, lost>>
      BY <1>7, <2>2 DEF arr_swaprem
    <3>3. items[len - 1] \in Vals
      BY <3>1 DEF Inv, TypeOK, NoJunkSeen, Cells
    <3>4. TypeOK'
      BY <3>1, <3>2, <3>3 DEF Inv, TypeOK, Cells
    <3>5. NoJunkSeen'
      BY <3>1, <3>2, <3>3, ContainersAssumption DEF Inv, TypeOK, NoJunkSeen, Cells
    <3> QED BY <3>4, <3>5 DEF Inv
  <2> QED BY <1>7, <2>1, <2>2 DEF arr_swaprem
<1>8. ASSUME NEW i \in Indices, GetItem(i)
      PROVE  Inv'
  BY <1>8, <1>type, AskedKeepsInv DEF GetItem
<1>9. ASSUME NEW i \in Indices, GetChar(i)
      PROVE  Inv'
  BY <1>9, <1>type, AskedKeepsInv DEF GetChar
<1>10. ASSUME NEW s \in Strings, Assign(s)
       PROVE  Inv'
  BY <1>10 DEF Assign, Inv, TypeOK, NoJunkSeen, Cells, varr
<1>11. ASSUME NEW s \in Strings, str_find(s)
       PROVE  Inv'
  BY <1>11, <1>type, AskedKeepsInv DEF str_find
<1>12. ASSUME NEW i \in Indices, NEW n \in Indices, str_rem(i, n)
       PROVE  Inv'
  BY <1>12, <1>type, AskedKeepsInv DEF str_rem
<1>13. CASE UNCHANGED vars
  BY <1>13, <1>type, AskedKeepsInv DEF vars, varr
<1> QED BY <1>1, <1>2, <1>3, <1>4, <1>5, <1>6, <1>7, <1>8, <1>9, <1>10, <1>11,
           <1>12, <1>13 DEF Next, Lost

LEMMA InvHolds == Spec => []Inv
BY InitInv, NextInv, PTL DEF Spec

\* The length of an array never exceeds its capacity, and its buffer has as many
\* cells as the capacity says (arr.c: ensure_len before every growth).
THEOREM TypeCorrect == Spec => []TypeOK
BY InvHolds, PTL DEF Inv

\* However an array is grown, shrunk and shifted, every cell below its length
\* holds a value that was put there (arr.c: insert_varr, rem_varr).
THEOREM NoJunkIsSeen == Spec => []NoJunkSeen
BY InvHolds, PTL DEF Inv

-----------------------------------------------------------------------------
(* The refinement: the array a script sees is the used part of the buffer.  *)

LEMMA BarIsSeq ==
    ASSUME Inv
    PROVE  Bar \in Seq(Vals) /\ Len(Bar) = len
<1>1. \A j \in 1 .. len : items[j - 1] \in Vals
  BY DEF Inv, TypeOK, NoJunkSeen, Cells
<1>2. len \in Nat
  BY DEF Inv, TypeOK
<1> QED BY <1>1, <1>2 DEF Bar

LEMMA InitRefines == Init => Abstract!Init
<1> SUFFICES ASSUME Init PROVE Abstract!Init
  OBVIOUS
<1>1. len = 0 /\ str \in Strings /\ ret = NoRet
  BY DEF Init
<1>2. Bar = <<>>
  BY <1>1 DEF Bar
<1> QED BY <1>1, <1>2 DEF Abstract!Init, Abstract!NoRet, NoRet

\* An index is out of bounds for the code when it is for the script.
LEMMA SameBounds ==
    ASSUME NEW i \in Int, NEW n \in Nat
    PROVE  /\ Abstract!Position(i, n) = FromEnd(i, n)
           /\ FromEnd(i, n) \in Int
           /\ OutOf(i, n) <=> ~Abstract!Valid(i, n)
BY DEF Abstract!Position, Abstract!Valid, FromEnd, OutOf

LEMMA FailRefines ==
    ASSUME NEW i \in Int, NEW n \in Nat, Fails(i, n)
    PROVE  Abstract!Fail(i, n)
<1>1. UNCHANGED <<Bar, str>>
  BY DEF Fails, Asked, Answer, Quiet, varr, Bar
<1> QED BY <1>1, SameBounds
        DEF Fails, Asked, Answer, Abstract!Fail, Abstract!Answer, Abstract!OutOfBounds,
            OutOfBounds

LEMMA AskedRefines ==
    ASSUME NEW x, Asked(x)
    PROVE  Abstract!Answer(x)
BY DEF Asked, Answer, Quiet, varr, Abstract!Answer, Bar

LEMMA PushRefines ==
    ASSUME Inv, NEW v \in Vals, arr_push(v)
    PROVE  Abstract!Push(v)
<1> DEFINE n == Grown(len + 1)
           E == Ensured(len + 1)
<1>1. /\ n \in Nat /\ len + 1 <= n
      /\ \A c \in Cells(len) : E[c] = items[c]
  BY RoomForOne
<1> HIDE DEF n, E
<1>2. /\ len < MaxLen /\ len' = len + 1 /\ ret' = NoRet /\ str' = str
      /\ items' = [c \in Cells(n) |-> IF c = len THEN v ELSE E[c]]
  BY DEF arr_push, PushVarr, Answer, Quiet, n, E
<1>3. Bar \in Seq(Vals) /\ Len(Bar) = len /\ len \in Nat
  BY BarIsSeq DEF Inv, TypeOK
<1>4. Append(Bar, v) \in Seq(Vals) /\ Len(Append(Bar, v)) = len + 1
  BY <1>3, AppendProperties
<1>5. \A j \in 1 .. len + 1 : Append(Bar, v)[j] = items'[j - 1]
  <2> SUFFICES ASSUME NEW j \in 1 .. len + 1
               PROVE  Append(Bar, v)[j] = items'[j - 1]
    OBVIOUS
  <2>1. CASE j = len + 1
    BY <1>1, <1>2, <1>3, <2>1, AppendProperties DEF Cells
  <2>2. CASE j \in 1 .. len
    BY <1>1, <1>2, <1>3, <2>2, AppendProperties DEF Cells, Bar
  <2> QED BY <1>3, <2>1, <2>2
<1>6. Bar' = Append(Bar, v)
  <2>1. Append(Bar, v) = [j \in 1 .. len + 1 |-> Append(Bar, v)[j]]
    BY <1>4, LenProperties
  <2> QED BY <1>2, <1>5, <2>1 DEF Bar
<1> QED BY <1>2, <1>3, <1>6 DEF Abstract!Push, Abstract!Becomes, Abstract!NoRet, NoRet

\* The array after n elements have been written where f says.
LEMMA BarNext ==
    ASSUME NEW n \in Nat, len' = n, NEW f, f = [j \in 1 .. n |-> f[j]],
           \A j \in 1 .. n : items'[j - 1] = f[j]
    PROVE  Bar' = f
BY DEF Bar

LEMMA InsertRefines ==
    ASSUME Inv, NEW i \in Int, NEW v \in Vals, arr_insert(i, v)
    PROVE  Abstract!Insert(i, v)
<1> DEFINE n == Grown(len + 1)
           E == Ensured(len + 1)
           p == FromEnd(i, len)
<1>1. /\ n \in Nat /\ len + 1 <= n
      /\ \A c \in Cells(len) : E[c] = items[c]
  BY RoomForOne
<1>2. Len(Bar) = len /\ len \in Nat
  BY BarIsSeq DEF Inv, TypeOK
<1>3. p \in Int /\ p = Abstract!Position(i, Len(Bar))
  BY <1>2, SameBounds
<1>4. CASE (p < 0 \/ p > len) /\ Asked(OutOfBounds)
  <2>1. Abstract!Answer(OutOfBounds)
    BY <1>4, AskedRefines
  <2>2. Abstract!Position(i, Len(Bar)) \notin 0 .. Len(Bar)
    BY <1>2, <1>3, <1>4
  <2> QED BY <2>1, <2>2
          DEF Abstract!Insert, Abstract!OutOfBounds, OutOfBounds
<1>5. CASE p >= 0 /\ p <= len /\ len < MaxLen /\ InsertVarr(p, v) /\ Answer(NoRet)
  <2> DEFINE f == Abstract!Inserted(p, v)
  <2>1. /\ len' = len + 1 /\ ret' = NoRet /\ str' = str
        /\ items' = [c \in Cells(n) |-> IF c = p THEN v
                                        ELSE IF c \in p + 1 .. len + 1 THEN E[c - 1]
                                        ELSE E[c]]
    BY <1>5 DEF InsertVarr, Answer, Quiet
  <2> HIDE DEF n, E, p
  <2>2. ASSUME NEW j \in 1 .. len + 1
        PROVE  items'[j - 1] = f[j]
    <3> USE DEF Abstract!Inserted
    <3>1. j - 1 \in Cells(n)
      BY <1>1, <1>2 DEF Cells
    <3>2. CASE j <= p
      BY <1>1, <1>2, <1>3, <1>5, <2>1, <3>1, <3>2 DEF Cells, Bar
    <3>3. CASE j = p + 1
      BY <1>1, <1>2, <1>3, <1>5, <2>1, <3>1, <3>3 DEF Cells, Bar
    <3>4. CASE j > p + 1
      BY <1>1, <1>2, <1>3, <1>5, <2>1, <3>1, <3>4 DEF Cells, Bar
    <3> QED BY <1>2, <1>3, <3>2, <3>3, <3>4
  <2>3. f = [j \in 1 .. len + 1 |-> f[j]]
    BY <1>2 DEF Abstract!Inserted
  <2> HIDE DEF f
  <2>4. Bar' = f
    <3>1. len + 1 \in Nat
      BY <1>2
    <3> QED BY <2>1, <2>2, <2>3, <3>1, BarNext
  <2> QED BY <1>2, <1>3, <1>5, <2>1, <2>4
          DEF f, Abstract!Insert, Abstract!Becomes, Abstract!NoRet, NoRet
<1> QED BY <1>4, <1>5 DEF arr_insert

\* rem_varr closes the gap.
LEMMA RemVarrRefines ==
    ASSUME Inv, NEW p \in Cells(len), RemVarr(p)
    PROVE  Bar' = Abstract!Without(p)
<1> DEFINE f == Abstract!Without(p)
<1>1. Len(Bar) = len /\ len \in Nat /\ cap \in Nat /\ len <= cap /\ len - 1 \in Nat /\ p \in Nat
  BY BarIsSeq DEF Inv, TypeOK, Cells
<1>2. ASSUME NEW j \in 1 .. len - 1
      PROVE  items'[j - 1] = f[j]
  BY <1>1 DEF RemVarr, Cells, Bar, Abstract!Without
<1>3. f = [j \in 1 .. len - 1 |-> f[j]]
  BY <1>1 DEF Abstract!Without
<1> HIDE DEF f
<1>4. Bar' = f
  BY <1>1, <1>2, <1>3, BarNext DEF RemVarr
<1> QED BY <1>4 DEF f

LEMMA RemRefines ==
    ASSUME Inv, NEW i \in Int, arr_rem(i)
    PROVE  Abstract!Remove(i)
<1>1. Len(Bar) = len /\ len \in Nat
  BY BarIsSeq DEF Inv, TypeOK
<1>2. CASE Fails(i, len)
  BY <1>1, <1>2, FailRefines DEF Abstract!Remove
<1>3. CASE ~OutOf(i, len) /\ RemVarr(FromEnd(i, len)) /\ Answer(NoRet)
  <2>1. Bar' = Abstract!Without(FromEnd(i, len))
    BY <1>1, <1>3, InsideIsCell, RemVarrRefines
  <2> QED BY <1>1, <1>3, <2>1, SameBounds
          DEF Abstract!Remove, Abstract!Becomes, Abstract!NoRet, NoRet, Answer, Quiet
<1> QED BY <1>2, <1>3 DEF arr_rem

LEMMA SwapRemRefines ==
    ASSUME Inv, NEW i \in Int, arr_swaprem(i)
    PROVE  Abstract!SwapRemove(i)
<1> DEFINE p == FromEnd(i, len)
<1>1. Len(Bar) = len /\ len \in Nat /\ cap \in Nat /\ len <= cap
  BY BarIsSeq DEF Inv, TypeOK
<1>2. CASE Fails(i, len)
  BY <1>1, <1>2, FailRefines DEF Abstract!SwapRemove
<1>3. CASE ~OutOf(i, len) /\ ~Fails(i, len)
  <2> DEFINE f == Abstract!Swapped(p)
  <2>1. p \in Cells(len) /\ p = Abstract!Position(i, len) /\ Abstract!Valid(i, len)
    BY <1>1, <1>3, InsideIsCell, SameBounds
  <2>2. /\ items' = [items EXCEPT ![p] = items[len - 1]] /\ len' = len - 1
        /\ ret' = NoRet /\ str' = str
    BY <1>3 DEF arr_swaprem, Answer, Quiet
  <2> HIDE DEF p
  <2>3. len - 1 \in Nat
    BY <1>1, <2>1 DEF Cells
  <2>4. ASSUME NEW j \in 1 .. len - 1
        PROVE  items'[j - 1] = f[j]
    BY <1>1, <2>1, <2>2 DEF Inv, TypeOK, Cells, Bar, Abstract!Swapped
  <2>5. f = [j \in 1 .. len - 1 |-> f[j]]
    BY <1>1 DEF Abstract!Swapped
  <2> HIDE DEF f
  <2>6. Bar' = f
    BY <2>2, <2>3, <2>4, <2>5, BarNext
  <2> QED BY <1>1, <2>1, <2>2, <2>6
          DEF f, Abstract!SwapRemove, Abstract!Becomes, Abstract!NoRet, NoRet
<1> QED BY <1>2, <1>3 DEF arr_swaprem

\* What find answers is what a script expects of it.
LEMMA FindAgrees ==
    ASSUME Inv, NEW v
    PROVE  \/ FindVarr(v) = -1 /\ Abstract!Lacks(v)
           \/ /\ FindVarr(v) # -1
              /\ FindVarr(v) \in 0 .. Len(Bar) - 1
              /\ Abstract!IsFirst(FindVarr(v), v)
<1>1. Len(Bar) = len /\ len \in Nat
  BY BarIsSeq DEF Inv, TypeOK
<1>2. CASE Hits(v) = {}
  <2>1. FindVarr(v) = -1
    BY <1>2 DEF FindVarr
  <2>2. Abstract!Lacks(v)
    BY <1>1, <1>2 DEF Abstract!Lacks, Bar, Hits, Cells
  <2> QED BY <2>1, <2>2
<1>3. CASE Hits(v) # {}
  <2>1. Hits(v) \subseteq Nat
    BY <1>1 DEF Hits, Cells
  <2>2. FindVarr(v) \in Hits(v)
    BY ONLY <1>3, <2>1, LeastOf DEF FindVarr
  <2>3. FindVarr(v) # -1
    BY <2>1, <2>2
  <2>4. /\ FindVarr(v) \in Cells(len)
        /\ items[FindVarr(v)] = v
        /\ \A c \in Cells(len) : items[c] = v => FindVarr(v) <= c
    BY <2>3, FoundIsCell
  <2> HIDE DEF Hits
  <2>5. Abstract!IsFirst(FindVarr(v), v)
    <3>1. FindVarr(v) \in 0 .. Len(Bar) - 1
      BY <1>1, <2>4 DEF Cells
    <3>2. Bar[FindVarr(v) + 1] = v
      BY <1>1, <2>4 DEF Cells, Bar
    <3>3. ASSUME NEW j \in 1 .. FindVarr(v)
          PROVE  Bar[j] # v
      <4>1. j - 1 \in Cells(len) /\ ~(FindVarr(v) <= j - 1) /\ j \in 1 .. len
        BY <1>1, <2>4 DEF Cells
      <4> QED BY <2>4, <4>1 DEF Bar
    <3> QED BY <3>1, <3>2, <3>3 DEF Abstract!IsFirst
  <2> QED BY <1>1, <2>3, <2>4, <2>5 DEF Cells
<1> QED BY <1>2, <1>3

LEMMA FindRefines ==
    ASSUME Inv, NEW v \in Vals, arr_find(v)
    PROVE  Abstract!Find(v)
<1>1. Abstract!Answer(<<"num", FindVarr(v)>>)
  BY AskedRefines DEF arr_find
<1> QED BY <1>1, FindAgrees DEF Abstract!Find

LEMMA EraseRefines ==
    ASSUME Inv, NEW v \in Vals, arr_erase(v)
    PROVE  Abstract!Erase(v)
<1>1. CASE FindVarr(v) = -1 /\ Asked(<<"bool", FALSE>>)
  <2>1. Abstract!Answer(<<"bool", FALSE>>)
    BY <1>1, AskedRefines
  <2> QED BY <1>1, <2>1, FindAgrees DEF Abstract!Erase
<1>2. CASE /\ FindVarr(v) # -1
           /\ RemVarr(FindVarr(v)) /\ Answer(<<"bool", TRUE>>)
  <2>1. Bar' = Abstract!Without(FindVarr(v))
    BY <1>2, FoundIsCell, RemVarrRefines
  <2> QED BY <1>2, <2>1, FindAgrees DEF Abstract!Erase, Answer, Quiet
<1> QED BY <1>1, <1>2 DEF arr_erase

LEMMA GetRefines ==
    ASSUME Inv, NEW i \in Int, GetItem(i)
    PROVE  Abstract!Get(i)
<1>1. Len(Bar) = len /\ len \in Nat
  BY BarIsSeq DEF Inv, TypeOK
<1>2. CASE Fails(i, len)
  BY <1>1, <1>2, FailRefines DEF Abstract!Get
<1>3. CASE ~OutOf(i, len) /\ Asked(<<"val", items[FromEnd(i, len)]>>)
  <2>1. Bar[FromEnd(i, len) + 1] = items[FromEnd(i, len)]
    <3>1. FromEnd(i, len) \in Cells(len)
      BY <1>1, <1>3, InsideIsCell
    <3> HIDE DEF FromEnd
    <3> QED BY <1>1, <3>1 DEF Cells, Bar
  <2>2. Abstract!Answer(<<"val", Bar[FromEnd(i, len) + 1]>>)
    BY <1>3, <2>1, AskedRefines
  <2> QED BY <1>1, <1>3, <2>2, SameBounds DEF Abstract!Get
<1> QED BY <1>2, <1>3 DEF GetItem

LEMMA SetRefines ==
    ASSUME Inv, NEW i \in Int, NEW v \in Vals, SetItem(i, v)
    PROVE  Abstract!Set(i, v)
<1> DEFINE p == FromEnd(i, len)
<1>1. Len(Bar) = len /\ len \in Nat /\ cap \in Nat /\ len <= cap
  BY BarIsSeq DEF Inv, TypeOK
<1>2. CASE Fails(i, len)
  BY <1>1, <1>2, FailRefines DEF Abstract!Set
<1>3. CASE ~OutOf(i, len) /\ ~Fails(i, len)
  <2> DEFINE f == [Bar EXCEPT ![p + 1] = v]
  <2>1. p \in Cells(len) /\ p = Abstract!Position(i, len) /\ Abstract!Valid(i, len)
    BY <1>1, <1>3, InsideIsCell, SameBounds
  <2>2. /\ items' = [items EXCEPT ![p] = v] /\ len' = len
        /\ ret' = <<"val", v>> /\ str' = str
    BY <1>3 DEF SetItem, Answer, Quiet
  <2> HIDE DEF p
  <2>3. ASSUME NEW j \in 1 .. len
        PROVE  items'[j - 1] = f[j]
    BY <1>1, <2>1, <2>2 DEF Inv, TypeOK, Cells, Bar
  <2>4. f = [j \in 1 .. len |-> f[j]]
    BY DEF Bar
  <2> HIDE DEF f
  <2>5. Bar' = f
    BY <1>1, <2>2, <2>3, <2>4, BarNext
  <2> QED BY <1>1, <2>1, <2>2, <2>5 DEF f, Abstract!Set
<1> QED BY <1>2, <1>3 DEF SetItem

-----------------------------------------------------------------------------
(* Strings.                                                                 *)

LEMMA StrFacts ==
    ASSUME Inv
    PROVE  /\ str \in Seq(Chars)
           /\ Len(str) \in Nat
           /\ \A s \in Strings : Len(s) \in Nat /\ Len(s) < SizeT
           /\ Len(str) + 1 < SizeT
<1>1. \A s \in Strings : s \in Seq(Chars) /\ Len(s) \in Nat
  BY ContainersAssumption
<1> QED BY <1>1, ContainersAssumption DEF Inv, TypeOK

\* The unsigned difference is the number of places whenever there is one.
LEMMA PlacesCount ==
    ASSUME Inv, NEW s \in Strings, Len(s) <= Len(str) + 1
    PROVE  Places(s) = Len(str) - Len(s) + 1
<1> DEFINE d == Len(str) - Len(s) + 1
<1>1. d \in Nat /\ d < SizeT /\ SizeT \in Nat
  BY StrFacts, ContainersAssumption
<1>2. d % SizeT = d
  <2> HIDE DEF d
  <2> QED BY <1>1
<1> QED BY <1>2 DEF Places

\* The search tries every place at which the needle can be found.
LEMMA MatchesAgree ==
    ASSUME Inv, NEW s \in Strings
    PROVE  Matches(s) = {p \in 0 .. Len(str) : Abstract!OccursAt(p, s)}
<1>1. ASSUME NEW p \in 0 .. Len(str), MatchesAt(p, s)
      PROVE  p < Places(s)
  <2>1. p + Len(s) <= Len(str)
    BY <1>1 DEF MatchesAt
  <2>2. Places(s) = Len(str) - Len(s) + 1
    BY <2>1, PlacesCount, StrFacts
  <2> QED BY <2>1, <2>2, StrFacts
<1>2. \A p \in 0 .. Len(str) : MatchesAt(p, s) <=> Abstract!OccursAt(p, s)
  BY DEF MatchesAt, Abstract!OccursAt
<1> QED BY <1>1, <1>2 DEF Matches

LEMMA FindStrRefines ==
    ASSUME Inv, NEW s \in Strings, str_find(s)
    PROVE  Abstract!FindStr(s) \/ UNCHANGED <<Bar, str, ret>>
<1> DEFINE M == Matches(s)
           p == CHOOSE q \in M : \A r \in M : q <= r
<1>1. M = {q \in 0 .. Len(str) : Abstract!OccursAt(q, s)}
  BY MatchesAgree
<1> HIDE DEF M
<1>2. CASE M # {} /\ Asked(<<"num", p>>)
  <2>1. M \subseteq Nat
    BY <1>1, StrFacts
  <2>2. p \in M /\ \A r \in M : p <= r
    BY ONLY <1>2, <2>1, LeastOf
  <2> HIDE DEF p
  <2>3. \A q \in 0 .. p - 1 : ~Abstract!OccursAt(q, s)
    <3>1. ASSUME NEW q \in 0 .. p - 1
          PROVE  q \in 0 .. Len(str) /\ q \notin M
      BY <1>1, <2>2, StrFacts
    <3> QED BY <1>1, <3>1
  <2>4. Abstract!Answer(<<"num", p>>)
    BY <1>2, AskedRefines
  <2> QED BY <1>1, <2>2, <2>3, <2>4 DEF Abstract!FindStr
<1>3. CASE M = {} /\ Asked(<<"num", -1>>)
  <2>1. Abstract!Answer(<<"num", -1>>)
    BY <1>3, AskedRefines
  <2> QED BY <1>1, <1>3, <2>1 DEF Abstract!FindStr
<1>4. CASE UNCHANGED <<varr, str, ret>>
  BY <1>4 DEF varr, Bar
<1> QED BY <1>2, <1>3, <1>4 DEF str_find, M

LEMMA CharRefines ==
    ASSUME Inv, NEW i \in Int, GetChar(i)
    PROVE  Abstract!Char(i)
<1>1. Len(str) \in Nat
  BY StrFacts
<1>2. CASE Fails(i, Len(str))
  BY <1>1, <1>2, FailRefines DEF Abstract!Char
<1>3. CASE ~OutOf(i, Len(str)) /\ Asked(<<"val", str[FromEnd(i, Len(str)) + 1]>>)
  <2>1. Abstract!Answer(<<"val", str[FromEnd(i, Len(str)) + 1]>>)
    BY <1>3, AskedRefines
  <2> QED BY <1>1, <1>3, <2>1, SameBounds DEF Abstract!Char
<1> QED BY <1>2, <1>3 DEF GetChar

LEMMA CutRefines ==
    ASSUME Inv, NEW i \in Int, NEW n \in Int, str_rem(i, n)
    PROVE  Abstract!Cut(i, n)
<1> DEFINE L == Len(str)
           p == FromEnd(i, L)
           end == p + IF n < 0 THEN n + (L - p + 1) ELSE n
<1>1. L \in Nat
  BY StrFacts
<1>2. CASE Fails(i, L)
  BY <1>1, <1>2, FailRefines DEF Abstract!Cut
<1>3. CASE /\ ~OutOf(i, L)
           /\ \/ (end < 0 \/ end > L) /\ Asked(OutOfBounds)
              \/ /\ end >= 0 /\ end <= L
                 /\ Asked(<<"str", SubSeq(str, 1, p) \o SubSeq(str, end + 1, L)>>)
  <2>1. p \in Int /\ p = Abstract!Position(i, L) /\ Abstract!Valid(i, L)
    BY <1>1, <1>3, SameBounds
  <2> HIDE DEF p
  <2>2. end \in Int /\ end = Abstract!CutFrom(p, n)
    BY <1>1, <2>1 DEF Abstract!CutFrom
  <2> HIDE DEF end
  <2>3. CASE (end < 0 \/ end > L) /\ Asked(OutOfBounds)
    <3>1. Abstract!Answer(Abstract!OutOfBounds)
      BY <2>3, AskedRefines DEF Abstract!OutOfBounds, OutOfBounds
    <3>2. end \notin 0 .. L
      BY <1>1, <2>2, <2>3
    <3> QED BY <2>1, <2>2, <3>1, <3>2 DEF Abstract!Cut
  <2>4. CASE /\ end >= 0 /\ end <= L
             /\ Asked(<<"str", SubSeq(str, 1, p) \o SubSeq(str, end + 1, L)>>)
    <3>1. Abstract!Answer(<<"str", SubSeq(str, 1, p) \o SubSeq(str, end + 1, L)>>)
      BY <2>4, AskedRefines
    <3>2. UNCHANGED <<Bar, str>>
      BY <3>1 DEF Abstract!Answer
    <3>3. CASE end >= p
      BY <1>1, <2>1, <2>2, <2>4, <3>1, <3>3 DEF Abstract!Cut
    <3>4. CASE end < p
      BY <1>1, <2>1, <2>2, <2>4, <3>2, <3>4 DEF Abstract!Cut
    <3> QED BY <2>1, <2>2, <3>3, <3>4
  <2> QED BY <1>3, <2>3, <2>4
<1> QED BY <1>2, <1>3 DEF str_rem

-----------------------------------------------------------------------------
(* Every step is one of the abstract specification, or changes nothing that *)
(* a script sees.                                                           *)

LEMMA StepRefines == Inv /\ [Next]_vars => [Abstract!Next]_(Abstract!vars)
<1> SUFFICES ASSUME Inv, [Next]_vars
             PROVE  Abstract!Next \/ UNCHANGED Abstract!vars
  OBVIOUS
<1>ints. Indices \subseteq Int
  BY ContainersAssumption
<1>1. ASSUME NEW v \in Vals, arr_push(v) \/ arr_find(v) \/ arr_erase(v)
      PROVE  Abstract!Next
  <2>1. Abstract!Push(v) \/ Abstract!Find(v) \/ Abstract!Erase(v)
    BY <1>1, PushRefines, FindRefines, EraseRefines
  <2> QED BY <2>1 DEF Abstract!Next
<1>2. ASSUME NEW i \in Indices, NEW v \in Vals, arr_insert(i, v) \/ SetItem(i, v)
      PROVE  Abstract!Next
  <2>1. Abstract!Insert(i, v) \/ Abstract!Set(i, v)
    BY <1>2, <1>ints, InsertRefines, SetRefines
  <2> QED BY <2>1 DEF Abstract!Next
<1>3. ASSUME NEW i \in Indices, arr_rem(i) \/ arr_swaprem(i) \/ GetItem(i) \/ GetChar(i)
      PROVE  Abstract!Next
  <2>1. \/ Abstract!Remove(i) \/ Abstract!SwapRemove(i)
        \/ Abstract!Get(i) \/ Abstract!Char(i)
    BY <1>3, <1>ints, RemRefines, SwapRemRefines, GetRefines, CharRefines
  <2> QED BY <2>1 DEF Abstract!Next
<1>4. ASSUME NEW s \in Strings, Assign(s) \/ str_find(s)
      PROVE  Abstract!Next \/ UNCHANGED <<Bar, str, ret>>
  <2>1. CASE Assign(s)
    <3>1. Abstract!Assign(s)
      BY <2>1 DEF Assign, Abstract!Assign, Abstract!NoRet, NoRet, varr, Bar
    <3> QED BY <3>1 DEF Abstract!Next
  <2>2. CASE str_find(s)
    <3>1. Abstract!FindStr(s) \/ UNCHANGED <<Bar, str, ret>>
      BY <2>2, FindStrRefines
    <3> QED BY <3>1 DEF Abstract!Next
  <2> QED BY <1>4, <2>1, <2>2
<1>5. ASSUME NEW i \in Indices, NEW n \in Indices, str_rem(i, n)
      PROVE  Abstract!Next
  <2>1. Abstract!Cut(i, n)
    BY <1>5, <1>ints, CutRefines
  <2> QED BY <2>1 DEF Abstract!Next
<1>6. CASE UNCHANGED vars
  BY <1>6 DEF vars, Bar, Abstract!vars
<1> QED BY <1>1, <1>2, <1>3, <1>4, <1>5, <1>6 DEF Next, Lost, Abstract!vars

\* For all values, strings and bounds, arrays are sequences and strings texts: no
\* script can tell that there is a buffer with a capacity, or that a difference of
\* lengths is unsigned, as long as no search reads behind a string (arr.c,
\* lib_arr.c, lib_str.c).
THEOREM Refinement == Spec => ImplementsContainers
<1>1. Inv /\ [Next]_vars => [Abstract!Next]_(Abstract!vars)
  BY StepRefines
<1> QED BY <1>1, InitRefines, InvHolds, PTL DEF Spec, ImplementsContainers, Abstract!Spec
=============================================================================
