---------------------------- MODULE ScopesProofs ----------------------------
(* Theorems about Scopes, for any number of locals and any depth of nesting: *)
(* in a program without the constructs of Quirks, what the compiler believes *)
(* of the stack is what the code it writes makes of it.                      *)
EXTENDS Scopes, FiniteSetTheorems, SequenceTheorems, WellFoundedInduction, TLAPS

-----------------------------------------------------------------------------
(* Sequences that grow and shrink at the end.                                *)

LEMMA Appended ==
    ASSUME NEW S, NEW s \in Seq(S), NEW e \in S
    PROVE  /\ Append(s, e) \in Seq(S) /\ Len(Append(s, e)) = Len(s) + 1 /\ Len(s) \in Nat
           /\ \A x \in 1 .. Len(s) : Append(s, e)[x] = s[x]
           /\ Append(s, e)[Len(s) + 1] = e
<1> QED
  OBVIOUS

LEMMA Cut ==
    ASSUME NEW S, NEW s \in Seq(S), NEW n \in Int, n <= Len(s)
    PROVE  /\ SubSeq(s, 1, n) \in Seq(S) /\ Len(s) \in Nat
           /\ n >= 0 => /\ Len(SubSeq(s, 1, n)) = n
                        /\ \A x \in 1 .. n : SubSeq(s, 1, n)[x] = s[x]
<1>1. \A x \in 1 .. n : s[x] \in S
  OBVIOUS
<1>2. n \in Int /\ 1 \in Int /\ Len(s) \in Nat
  OBVIOUS
<1>3. /\ SubSeq(s, 1, n) \in Seq(S)
      /\ Len(SubSeq(s, 1, n)) = IF 1 <= n THEN n - 1 + 1 ELSE 0
      /\ \A x \in 1 .. n - 1 + 1 : SubSeq(s, 1, n)[x] = s[1 + x - 1]
  BY <1>1, <1>2, SubSeqProperties
<1> QED
  BY <1>2, <1>3

LEMMA Dropped ==
    ASSUME NEW S, NEW s \in Seq(S), NEW n \in Nat
    PROVE  /\ Drop(s, n) \in Seq(S) /\ Len(s) \in Nat
           /\ n <= Len(s) => /\ Len(Drop(s, n)) = Len(s) - n
                             /\ \A x \in 1 .. Len(s) - n : Drop(s, n)[x] = s[x]
<1> QED
  BY Cut DEF Drop

LEMMA WithoutLast ==
    ASSUME NEW S, NEW s \in Seq(S)
    PROVE  /\ Front(s) \in Seq(S) /\ Len(s) \in Nat
           /\ Len(s) > 0 => /\ Len(Front(s)) = Len(s) - 1
                            /\ \A x \in 1 .. Len(s) - 1 : Front(s)[x] = s[x]
                            /\ Last(s) = s[Len(s)] /\ Last(s) \in S
<1> QED
  BY Cut DEF Front, Last

LEMMA SameSeq ==
    ASSUME NEW S, NEW s \in Seq(S), NEW t \in Seq(S), Len(s) = Len(t),
           \A x \in 1 .. Len(s) : s[x] = t[x]
    PROVE  s = t
<1> QED
  BY SeqEqual

\* A set of places that holds, with each, those before it.
LEMMA LeastOf ==
    ASSUME NEW S, S # {}, S \subseteq Nat
    PROVE  \E x \in S : \A y \in S : x <= y
<1>1. PICK x \in S : \A y \in S : <<y, x>> \notin OpToRel(<, Nat)
  BY NatLessThanWellFounded, WFMin
<1>2. \A y \in S : ~(y < x)
  BY <1>1 DEF OpToRel
<1> QED
  BY <1>2

LEMMA Prefix ==
    ASSUME NEW L \in Nat, NEW S, S \subseteq 1 .. L,
           \A p \in S : \A q \in 1 .. L : q < p => q \in S
    PROVE  \E m \in 0 .. L : \A p \in 1 .. L : p \in S <=> p <= m
<1>1. CASE S = 1 .. L
  BY <1>1
<1>2. CASE S # 1 .. L
  <2> DEFINE R == (1 .. L) \ S
  <2>1. R # {}
    BY <1>2, Zenon
  <2>2. R \subseteq Nat
    OBVIOUS
  <2>3. PICK x \in R : \A y \in R : x <= y
    <3> HIDE DEF R
    <3> QED
      BY <2>1, <2>2, LeastOf
  <2>4. \A p \in 1 .. L : p \in S <=> p < x
    <3> SUFFICES ASSUME NEW p \in 1 .. L PROVE p \in S <=> p < x
      OBVIOUS
    <3>1. x \in 1 .. L /\ x \notin S
      OBVIOUS
    <3>2. p < x => p \in S
      BY <2>3, <3>1
    <3>3. p \in S => p # x /\ ~(x < p)
      BY <3>1
    <3> QED
      BY <3>1, <3>2, <3>3
  <2>5. x - 1 \in 0 .. L /\ \A p \in 1 .. L : p \in S <=> p <= x - 1
    BY <2>4
  <2> QED
    BY <2>5
<1> QED
  BY <1>1, <1>2

-----------------------------------------------------------------------------
(* How many of the first k constructs of n are of the kinds K.               *)

Count(n, K, k) == Cardinality({j \in 1 .. k : n[j].kind \in K})

LEMMA CountIs ==
    ASSUME NEW n, NEW K, NEW k \in Nat
    PROVE  /\ Count(n, K, 0) = 0
           /\ Count(n, K, k) \in Nat
           /\ Count(n, K, k + 1) = Count(n, K, k) + (IF n[k + 1].kind \in K THEN 1 ELSE 0)
           /\ \A j \in 0 .. k : Count(n, K, j) \in Nat /\ Count(n, K, j) <= Count(n, K, k)
<1> DEFINE S(j) == {i \in 1 .. j : n[i].kind \in K}
<1>1. \A j \in Nat : IsFiniteSet(S(j)) /\ Cardinality(S(j)) \in Nat
  <2> SUFFICES ASSUME NEW j \in Nat PROVE IsFiniteSet(S(j)) /\ Cardinality(S(j)) \in Nat
    OBVIOUS
  <2>1. IsFiniteSet(1 .. j)
    BY FS_Interval
  <2>2. S(j) \subseteq 1 .. j
    OBVIOUS
  <2> HIDE DEF S
  <2> QED
    BY <2>1, <2>2, FS_Subset, FS_CardinalityType
<1>2. S(0) = {} /\ Cardinality({}) = 0
  BY FS_EmptySet
<1>3. Cardinality(S(k + 1)) = Cardinality(S(k)) + (IF n[k + 1].kind \in K THEN 1 ELSE 0)
  <2>1. CASE n[k + 1].kind \in K
    <3>1. S(k + 1) = S(k) \union {k + 1} /\ k + 1 \notin S(k)
      BY <2>1
    <3> HIDE DEF S
    <3> QED
      BY <1>1, <2>1, <3>1, FS_AddElement
  <2>2. CASE n[k + 1].kind \notin K
    <3>1. S(k + 1) = S(k)
      BY <2>2
    <3> HIDE DEF S
    <3> QED
      BY <1>1, <2>2, <3>1
  <2> QED
    BY <2>1, <2>2
<1>4. \A j \in 0 .. k : Cardinality(S(j)) \in Nat /\ Cardinality(S(j)) <= Cardinality(S(k))
  <2> SUFFICES ASSUME NEW j \in 0 .. k
               PROVE  Cardinality(S(j)) \in Nat /\ Cardinality(S(j)) <= Cardinality(S(k))
    OBVIOUS
  <2>1. S(j) \subseteq S(k) /\ j \in Nat
    OBVIOUS
  <2> HIDE DEF S
  <2> QED
    BY <1>1, <2>1, FS_Subset
<1> QED
  BY <1>1, <1>2, <1>3, <1>4 DEF Count

LEMMA CountSame ==
    ASSUME NEW n, NEW m, NEW K, NEW k \in Nat,
           \A j \in 1 .. k : n[j].kind \in K <=> m[j].kind \in K
    PROVE  Count(n, K, k) = Count(m, K, k)
<1>1. {j \in 1 .. k : n[j].kind \in K} = {j \in 1 .. k : m[j].kind \in K}
  OBVIOUS
<1> QED
  BY <1>1 DEF Count

\* Where nothing is counted, nothing is added; and what is counted counts.
LEMMA CountNone ==
    ASSUME NEW n, NEW K, NEW j \in Nat, NEW k \in Nat, j <= k,
           \A i \in j + 1 .. k : n[i].kind \notin K
    PROVE  Count(n, K, k) = Count(n, K, j)
<1>1. {i \in 1 .. k : n[i].kind \in K} = {i \in 1 .. j : n[i].kind \in K}
  OBVIOUS
<1> QED
  BY <1>1 DEF Count

LEMMA CountSome ==
    ASSUME NEW n, NEW K, NEW k \in Nat, Count(n, K, k) # 0
    PROVE  \E j \in 1 .. k : n[j].kind \in K
<1> SUFFICES ASSUME \A j \in 1 .. k : n[j].kind \notin K PROVE FALSE
  OBVIOUS
<1>1. Count(n, K, k) = Count(n, K, 0)
  BY CountNone
<1> QED
  BY <1>1, CountIs

-----------------------------------------------------------------------------
(* The frame of a place in the program of depth d, where t values of         *)
(* switches and structs are on the stack: the locals of ls whose depth is d  *)
(* or less, each in its slot, and above them the values.                     *)

LocalRecords == [id : Int, depth : Nat, home : Nat]

IsFrame(s, ls, d, t) ==
    /\ s \in Seq(Int)
    /\ Len(s) - t \in 0 .. Len(ls)
    /\ \A i \in 1 .. Len(ls) : i <= Len(s) - t <=> ls[i].depth <= d
    /\ \A i \in 1 .. Len(s) - t : s[i] = ls[i].id
    /\ \A i \in 1 .. Len(s) : i > Len(s) - t => s[i] = Temp

Within(ls, d) == \A i \in 1 .. Len(ls) : ls[i].depth <= d
Rising(ls) == \A i, j \in 1 .. Len(ls) : i < j => ls[i].depth <= ls[j].depth

LEMMA LocalFields ==
    ASSUME NEW ls \in Seq(LocalRecords)
    PROVE  /\ Len(ls) \in Nat
           /\ \A i \in 1 .. Len(ls) : /\ ls[i] \in LocalRecords /\ ls[i].id \in Int
                                      /\ ls[i].depth \in Nat /\ ls[i].home \in Nat
<1>1. Len(ls) \in Nat /\ \A i \in 1 .. Len(ls) : ls[i] \in LocalRecords
  OBVIOUS
<1>2. \A r \in LocalRecords : r.id \in Int /\ r.depth \in Nat /\ r.home \in Nat
  BY DEF LocalRecords
<1> QED
  BY <1>1, <1>2

\* There is one such frame at most.
LEMMA OneFrame ==
    ASSUME NEW ls \in Seq(LocalRecords), NEW d \in Int, NEW t \in Nat, NEW s, NEW r,
           IsFrame(s, ls, d, t), IsFrame(r, ls, d, t)
    PROVE  s = r
<1>1. /\ s \in Seq(Int) /\ Len(s) \in Nat /\ r \in Seq(Int) /\ Len(r) \in Nat
      /\ Len(s) - t \in 0 .. Len(ls) /\ Len(r) - t \in 0 .. Len(ls) /\ Len(ls) \in Nat
  BY DEF IsFrame
<1>2. \A i \in 1 .. Len(ls) : i <= Len(s) - t <=> i <= Len(r) - t
  BY DEF IsFrame
<1>3. ~(Len(s) < Len(r))
  <2> SUFFICES ASSUME Len(s) < Len(r) PROVE FALSE
    OBVIOUS
  <2> DEFINE x == Len(r) - t
  <2>1. x \in 1 .. Len(ls) /\ x <= Len(r) - t /\ ~(x <= Len(s) - t)
    BY <1>1
  <2> HIDE DEF x
  <2> QED
    BY <1>2, <2>1
<1>4. ~(Len(r) < Len(s))
  <2> SUFFICES ASSUME Len(r) < Len(s) PROVE FALSE
    OBVIOUS
  <2> DEFINE x == Len(s) - t
  <2>1. x \in 1 .. Len(ls) /\ x <= Len(s) - t /\ ~(x <= Len(r) - t)
    BY <1>1
  <2> HIDE DEF x
  <2> QED
    BY <1>2, <2>1
<1>5. Len(s) = Len(r)
  BY <1>1, <1>3, <1>4
<1>6. ASSUME NEW x \in 1 .. Len(s) PROVE s[x] = r[x]
  <2>1. x <= Len(s) - t => s[x] = ls[x].id /\ r[x] = ls[x].id
    BY <1>1, <1>5 DEF IsFrame
  <2>2. x > Len(s) - t => s[x] = Temp /\ r[x] = Temp
    BY <1>1, <1>5 DEF IsFrame
  <2> QED
    BY <1>1, <2>1, <2>2
<1> QED
  BY <1>1, <1>5, <1>6, SameSeq

LEMMA FullFrame ==
    ASSUME NEW ls \in Seq(LocalRecords), NEW d \in Int, NEW t \in Nat, NEW s,
           Within(ls, d), IsFrame(s, ls, d, t)
    PROVE  /\ Len(s) = Len(ls) + t /\ s \in Seq(Int) /\ Len(ls) \in Nat
           /\ \A i \in 1 .. Len(ls) : s[i] = ls[i].id
<1>1. /\ s \in Seq(Int) /\ Len(s) \in Nat /\ Len(ls) \in Nat
      /\ Len(s) - t \in 0 .. Len(ls)
      /\ \A i \in 1 .. Len(ls) : i <= Len(s) - t
  BY DEF IsFrame, Within
<1>2. Len(s) - t = Len(ls)
  BY <1>1
<1> QED
  BY <1>1, <1>2 DEF IsFrame

\* Where no local is of a deeper scope, the frame of a deeper place is the same.
LEMMA DeeperFrame ==
    ASSUME NEW ls \in Seq(LocalRecords), NEW d \in Int, NEW e \in Int, NEW t \in Nat, NEW s,
           Within(ls, d), Within(ls, e), IsFrame(s, ls, d, t)
    PROVE  IsFrame(s, ls, e, t)
<1> QED
  BY DEF IsFrame, Within

LEMMA FramePushed ==
    ASSUME NEW ls \in Seq(LocalRecords), NEW d \in Int, NEW t \in Nat, NEW s,
           IsFrame(s, ls, d, t)
    PROVE  IsFrame(Append(s, Temp), ls, d, t + 1)
<1>1. s \in Seq(Int) /\ Temp \in Int /\ Len(s) \in Nat
  BY DEF IsFrame, Temp
<1> DEFINE r == Append(s, Temp)
<1>2. /\ r \in Seq(Int) /\ Len(r) = Len(s) + 1
      /\ \A x \in 1 .. Len(s) : r[x] = s[x]
      /\ r[Len(s) + 1] = Temp
  BY <1>1, Appended
<1> HIDE DEF r
<1>3. Len(r) - (t + 1) = Len(s) - t
  BY <1>1, <1>2
<1>4. \A i \in 1 .. Len(s) - t : r[i] = ls[i].id
  BY <1>1, <1>2 DEF IsFrame
<1>5. \A i \in 1 .. Len(r) : i > Len(s) - t => r[i] = Temp
  <2> SUFFICES ASSUME NEW i \in 1 .. Len(r), i > Len(s) - t PROVE r[i] = Temp
    OBVIOUS
  <2>1. i \in 1 .. Len(s) \/ i = Len(s) + 1
    BY <1>1, <1>2
  <2> QED
    BY <1>1, <1>2, <2>1 DEF IsFrame
<1>6. IsFrame(r, ls, d, t + 1)
  BY <1>2, <1>3, <1>4, <1>5 DEF IsFrame
<1> QED
  BY <1>6 DEF r

LEMMA FramePopped ==
    ASSUME NEW ls \in Seq(LocalRecords), NEW d \in Int, NEW t \in Nat, NEW s,
           IsFrame(s, ls, d, t + 1)
    PROVE  IsFrame(Drop(s, 1), ls, d, t)
<1>1. s \in Seq(Int) /\ Len(s) \in Nat /\ Len(s) - (t + 1) \in 0 .. Len(ls) /\ Len(ls) \in Nat
  BY DEF IsFrame
<1> DEFINE r == Drop(s, 1)
<1>2. /\ r \in Seq(Int) /\ Len(r) = Len(s) - 1
      /\ \A x \in 1 .. Len(s) - 1 : r[x] = s[x]
  <2>1. 1 \in Nat /\ 1 <= Len(s)
    BY <1>1
  <2> QED
    BY <1>1, <2>1, Dropped
<1> HIDE DEF r
<1>3. Len(r) - t = Len(s) - (t + 1)
  BY <1>1, <1>2
<1>4. \A i \in 1 .. Len(r) - t : r[i] = ls[i].id
  <2>1. \A i \in 1 .. Len(r) - t : r[i] = s[i]
    BY <1>1, <1>2
  <2> QED
    BY <1>3, <2>1 DEF IsFrame
<1>5. \A i \in 1 .. Len(r) : i > Len(r) - t => r[i] = Temp
  <2>1. \A i \in 1 .. Len(r) : i \in 1 .. Len(s) /\ r[i] = s[i]
    BY <1>1, <1>2
  <2> QED
    BY <1>3, <2>1 DEF IsFrame
<1>6. \A i \in 1 .. Len(ls) : i <= Len(r) - t <=> ls[i].depth <= d
  BY <1>3 DEF IsFrame
<1>7. IsFrame(r, ls, d, t)
  BY <1>1, <1>2, <1>3, <1>4, <1>5, <1>6 DEF IsFrame
<1> QED
  BY <1>7 DEF r

\* A declaration: the value is in the slot of its number.
LEMMA FrameDeclared ==
    ASSUME NEW ls \in Seq(LocalRecords), NEW d \in Nat, NEW e \in Nat, d <= e, NEW s,
           NEW id \in Int, Within(ls, d), IsFrame(s, ls, d, 0)
    PROVE  IsFrame(Append(s, id), Append(ls, Local(id, e)), e, 0)
<1>1. /\ s \in Seq(Int) /\ Len(ls) \in Nat /\ Len(s) = Len(ls)
      /\ \A i \in 1 .. Len(ls) : s[i] = ls[i].id
  BY FullFrame
<1>2. Local(id, e) \in LocalRecords /\ Local(id, e).id = id /\ Local(id, e).depth = e
  BY DEF Local, LocalRecords
<1> DEFINE r == Append(s, id)
           m == Append(ls, Local(id, e))
<1>3. /\ r \in Seq(Int) /\ Len(r) = Len(s) + 1
      /\ \A x \in 1 .. Len(s) : r[x] = s[x]
      /\ r[Len(s) + 1] = id
  BY <1>1, Appended
<1>4. /\ Len(m) = Len(ls) + 1
      /\ \A x \in 1 .. Len(ls) : m[x] = ls[x]
      /\ m[Len(ls) + 1].id = id /\ m[Len(ls) + 1].depth = e
  BY <1>2, Appended
<1>5. \A i \in 1 .. Len(ls) : ls[i].depth <= e
  BY LocalFields DEF Within
<1> HIDE DEF r, m
<1>6. \A i \in 1 .. Len(m) : m[i].depth <= e /\ r[i] = m[i].id
  <2> SUFFICES ASSUME NEW i \in 1 .. Len(m) PROVE m[i].depth <= e /\ r[i] = m[i].id
    OBVIOUS
  <2>1. i \in 1 .. Len(ls) \/ i = Len(ls) + 1
    BY <1>1, <1>4
  <2>2. CASE i \in 1 .. Len(ls)
    <3>1. m[i] = ls[i] /\ r[i] = s[i] /\ s[i] = ls[i].id /\ ls[i].depth <= e
      BY <1>1, <1>3, <1>4, <1>5, <2>2
    <3> QED
      BY <3>1
  <2>3. CASE i = Len(ls) + 1
    BY <1>1, <1>3, <1>4, <2>3
  <2> QED
    BY <2>1, <2>2, <2>3
<1>7. IsFrame(r, m, e, 0)
  BY <1>1, <1>3, <1>4, <1>6 DEF IsFrame
<1> QED
  BY <1>7 DEF r, m

\* Locals of deeper scopes come and go: the frame of an older place remains.
LEMMA FrameKept ==
    ASSUME NEW ls \in Seq(LocalRecords), NEW m \in Seq(LocalRecords), NEW k \in Nat,
           k <= Len(ls), k <= Len(m), \A i \in 1 .. k : m[i] = ls[i],
           NEW d \in Int, NEW t \in Nat, NEW s, IsFrame(s, ls, d, t),
           \A i \in k + 1 .. Len(ls) : ls[i].depth > d,
           \A i \in k + 1 .. Len(m) : m[i].depth > d
    PROVE  IsFrame(s, m, d, t)
<1>1. /\ s \in Seq(Int) /\ Len(s) \in Nat /\ Len(ls) \in Nat /\ Len(m) \in Nat
      /\ Len(s) - t \in 0 .. Len(ls)
  BY DEF IsFrame
<1>2. \A i \in 1 .. Len(ls) : ls[i].depth \in Nat
  BY LocalFields
<1>3. \A i \in 1 .. Len(m) : m[i].depth \in Nat
  BY LocalFields
<1>4. Len(s) - t <= k
  <2> SUFFICES ASSUME ~(Len(s) - t <= k) PROVE FALSE
    OBVIOUS
  <2> DEFINE x == Len(s) - t
  <2>1. x \in 1 .. Len(ls) /\ x \in k + 1 .. Len(ls) /\ x <= Len(s) - t
    BY <1>1
  <2> HIDE DEF x
  <2>2. ls[x].depth <= d
    BY <2>1 DEF IsFrame
  <2> QED
    BY <1>2, <2>1, <2>2
<1>5. \A i \in 1 .. Len(m) : i <= Len(s) - t <=> m[i].depth <= d
  <2> SUFFICES ASSUME NEW i \in 1 .. Len(m) PROVE i <= Len(s) - t <=> m[i].depth <= d
    OBVIOUS
  <2>1. CASE i <= k
    <3>1. i \in 1 .. k /\ i \in 1 .. Len(ls)
      BY <1>1, <2>1
    <3>2. m[i] = ls[i]
      BY <3>1
    <3> QED
      BY <3>1, <3>2 DEF IsFrame
  <2>2. CASE i > k
    <3>1. i \in k + 1 .. Len(m)
      BY <1>1, <2>2
    <3>2. m[i].depth > d
      BY <3>1
    <3> QED
      BY <1>1, <1>3, <1>4, <2>2, <3>2
  <2> QED
    BY <2>1, <2>2
<1>6. \A i \in 1 .. Len(s) - t : s[i] = m[i].id
  <2>1. \A i \in 1 .. Len(s) - t : i \in 1 .. k
    BY <1>1, <1>4
  <2> QED
    BY <2>1 DEF IsFrame
<1> QED
  BY <1>1, <1>4, <1>5, <1>6 DEF IsFrame

\* discard_locals.
LEMMA DiscardedIs ==
    ASSUME locals \in Seq(LocalRecords), Rising(locals), NEW d \in Int
    PROVE  \E m \in 0 .. Len(locals) :
              /\ Discarded(d) = Len(locals) - m
              /\ \A i \in 1 .. Len(locals) : i <= m <=> locals[i].depth <= d
<1> DEFINE S == {i \in 1 .. Len(locals) : locals[i].depth <= d}
<1>1. Len(locals) \in Nat /\ \A i \in 1 .. Len(locals) : locals[i].depth \in Nat
  BY LocalFields
<1>2. \A p \in S : \A q \in 1 .. Len(locals) : q < p => q \in S
  BY <1>1 DEF Rising
<1>3. S \subseteq 1 .. Len(locals)
  OBVIOUS
<1>4. PICK m \in 0 .. Len(locals) : \A p \in 1 .. Len(locals) : p \in S <=> p <= m
  <2> HIDE DEF S
  <2> QED
    BY <1>1, <1>2, <1>3, Prefix
<1>5. m \in {0} \union S /\ \A y \in {0} \union S : m >= y
  BY <1>1, <1>4
<1>6. SetMax({0} \union S) = m
  <2>1. \A x \in {0} \union S : (\A y \in {0} \union S : x >= y) => x = m
    BY <1>1, <1>5
  <2> HIDE DEF S
  <2> QED
    BY <1>5, <2>1 DEF SetMax
<1>7. Discarded(d) = Len(locals) - m
  BY <1>6 DEF Discarded
<1> QED
  BY <1>4, <1>7

\* The pops it writes leave the frame of the place the code goes to.
LEMMA FrameDiscarded ==
    ASSUME locals \in Seq(LocalRecords), Rising(locals), NEW d \in Int, NEW e \in Int,
           Within(locals, e), NEW t \in Nat, t > 0 => Within(locals, d),
           NEW s, IsFrame(s, locals, e, t)
    PROVE  IsFrame(Drop(s, Discarded(d)), locals, d, t)
<1>1. /\ Len(s) = Len(locals) + t /\ s \in Seq(Int) /\ Len(locals) \in Nat
      /\ \A i \in 1 .. Len(locals) : s[i] = locals[i].id
  BY FullFrame
<1>2. PICK m \in 0 .. Len(locals) :
              /\ Discarded(d) = Len(locals) - m
              /\ \A i \in 1 .. Len(locals) : i <= m <=> locals[i].depth <= d
  BY DiscardedIs
<1>3. t > 0 => m = Len(locals)
  <2>1. Within(locals, d) => \A i \in 1 .. Len(locals) : i <= m
    BY <1>2 DEF Within
  <2> QED
    BY <1>1, <2>1
<1> DEFINE r == Drop(s, Discarded(d))
<1>4. /\ r \in Seq(Int) /\ Len(r) = m + t
      /\ \A x \in 1 .. m + t : r[x] = s[x]
  <2>1. Discarded(d) \in Nat /\ Discarded(d) <= Len(s) /\ Len(s) - Discarded(d) = m + t
    BY <1>1, <1>2
  <2> QED
    BY <1>1, <2>1, Dropped
<1> HIDE DEF r
<1>5. Len(r) - t = m
  BY <1>4
<1>6. \A i \in 1 .. m + t : i > m => r[i] = Temp
  <2> SUFFICES ASSUME NEW i \in 1 .. m + t, i > m PROVE r[i] = Temp
    OBVIOUS
  <2>1. m = Len(locals) /\ i \in 1 .. Len(s) /\ i > Len(s) - t
    BY <1>1, <1>3
  <2>2. s[i] = Temp
    BY <2>1 DEF IsFrame
  <2> QED
    BY <1>4, <2>2
<1>7. \A i \in 1 .. m : r[i] = locals[i].id
  <2>1. \A i \in 1 .. m : i \in 1 .. Len(locals) /\ i \in 1 .. m + t
    BY <1>1, <1>2
  <2> QED
    BY <1>1, <1>4, <2>1
<1>8. IsFrame(r, locals, d, t)
  BY <1>1, <1>2, <1>4, <1>5, <1>6, <1>7 DEF IsFrame
<1> QED
  BY <1>8 DEF r

-----------------------------------------------------------------------------
(* The types, which hold whatever a program contains.                        *)

LoopKinds == {"loop", "while", "for"}
Scoped == {"block", "for"}
Structs == {"struct", "static struct"}
Holders == Structs \union {"switch"}
Kinds == OneStat \union Scoped \union Holders

Frames == SUBSET Seq(Int)
Entries == [kind : Kinds, jumps : Frames, done : BOOLEAN]
LoopRecords == [kind : LoopKinds, scope : Nat, start : Frames, breaks : Frames,
                back : Frames, at : Nat]

Typed == /\ type \in {"script", "fn"}
         /\ locals \in Seq(LocalRecords)
         /\ nest \in Seq(Entries)
         /\ loops \in Seq(LoopRecords)
         /\ paths \in Frames

LEMMA EntryFields ==
    ASSUME NEW n \in Seq(Entries)
    PROVE  /\ Len(n) \in Nat
           /\ \A k \in 1 .. Len(n) : /\ n[k] \in Entries /\ n[k].kind \in Kinds
                                     /\ n[k].jumps \in Frames /\ n[k].done \in BOOLEAN
<1>1. Len(n) \in Nat /\ \A k \in 1 .. Len(n) : n[k] \in Entries
  OBVIOUS
<1>2. \A e \in Entries : e.kind \in Kinds /\ e.jumps \in Frames /\ e.done \in BOOLEAN
  BY DEF Entries
<1> QED
  BY <1>1, <1>2

LEMMA LoopFields ==
    ASSUME NEW ps \in Seq(LoopRecords)
    PROVE  /\ Len(ps) \in Nat
           /\ \A l \in 1 .. Len(ps) : /\ ps[l] \in LoopRecords
                                      /\ ps[l].kind \in LoopKinds /\ ps[l].scope \in Nat
                                      /\ ps[l].start \in Frames /\ ps[l].breaks \in Frames
                                      /\ ps[l].back \in Frames /\ ps[l].at \in Nat
<1>1. Len(ps) \in Nat /\ \A l \in 1 .. Len(ps) : ps[l] \in LoopRecords
  OBVIOUS
<1>2. \A p \in LoopRecords : /\ p.kind \in LoopKinds /\ p.scope \in Nat
                             /\ p.start \in Frames /\ p.breaks \in Frames
                             /\ p.back \in Frames /\ p.at \in Nat
  BY DEF LoopRecords
<1> QED
  BY <1>1, <1>2

\* A statement that has begun changes nothing else of the construct it is in.
SameKinds(K) == \A k \in 1 .. K : nest'[k].kind = nest[k].kind
SameJumps(K) == \A k \in 1 .. K : nest'[k].jumps = nest[k].jumps

LEMMA FilledIs ==
    ASSUME Typed
    PROVE  /\ Filled \in Seq(Entries) /\ Len(Filled) = Len(nest)
           /\ \A k \in 1 .. Len(nest) : /\ Filled[k].kind = nest[k].kind
                                        /\ Filled[k].jumps = nest[k].jumps
<1>1. nest \in Seq(Entries) /\ Len(nest) \in Nat
  BY DEF Typed
<1>2. CASE AtDecl
  BY <1>1, <1>2 DEF Filled
<1>3. CASE ~AtDecl
  <2>1. nest # <<>>
    BY <1>3 DEF AtDecl, Here
  <2>2. Len(nest) \in 1 .. Len(nest)
    BY <1>1, <2>1
  <2> DEFINE e == [nest[Len(nest)] EXCEPT !.done = TRUE]
  <2>3. e \in Entries /\ e.kind = nest[Len(nest)].kind /\ e.jumps = nest[Len(nest)].jumps
    <3>1. nest[Len(nest)] \in Entries
      BY <1>1, <2>2
    <3> QED
      BY <3>1 DEF Entries
  <2>4. Filled = [nest EXCEPT ![Len(nest)] = e]
    BY <1>3 DEF Filled
  <2> HIDE DEF e
  <2> QED
    BY <1>1, <2>2, <2>3, <2>4
<1> QED
  BY <1>2, <1>3

Fills == /\ nest' \in Seq(Entries)
         /\ Len(nest') = Len(nest) /\ SameKinds(Len(nest)) /\ SameJumps(Len(nest))

LEMMA FilledFills == ASSUME Typed, nest' = Filled \/ nest' = nest PROVE Fills
<1> QED
  BY FilledIs DEF Fills, SameKinds, SameJumps, Typed

Opens(kind, jumps) ==
    /\ nest' \in Seq(Entries)
    /\ Len(nest') = Len(nest) + 1 /\ Len(nest) \in Nat
    /\ SameKinds(Len(nest)) /\ SameJumps(Len(nest))
    /\ nest'[Len(nest) + 1].kind = kind /\ nest'[Len(nest) + 1].jumps = jumps

LEMMA AppendOpens ==
    ASSUME Typed, NEW kind \in Kinds, NEW jumps \in Frames,
           \E n \in {nest, Filled} :
              nest' = Append(n, [kind |-> kind, jumps |-> jumps, done |-> FALSE])
    PROVE  Opens(kind, jumps)
<1> DEFINE e == [kind |-> kind, jumps |-> jumps, done |-> FALSE]
<1>1. e \in Entries /\ e.kind = kind /\ e.jumps = jumps
  BY DEF Entries
<1>2. PICK n \in {nest, Filled} : nest' = Append(n, e)
  OBVIOUS
<1> HIDE DEF e
<1>3. /\ n \in Seq(Entries) /\ Len(n) = Len(nest)
      /\ \A k \in 1 .. Len(nest) : n[k].kind = nest[k].kind /\ n[k].jumps = nest[k].jumps
  BY FilledIs DEF Typed
<1>4. /\ nest' \in Seq(Entries) /\ Len(nest') = Len(n) + 1 /\ Len(n) \in Nat
      /\ \A k \in 1 .. Len(n) : nest'[k] = n[k]
      /\ nest'[Len(n) + 1] = e
  <2>1. n \in Seq(Entries) /\ e \in Entries
    BY <1>1, <1>3
  <2>2. /\ Append(n, e) \in Seq(Entries) /\ Len(Append(n, e)) = Len(n) + 1 /\ Len(n) \in Nat
        /\ \A k \in 1 .. Len(n) : Append(n, e)[k] = n[k]
        /\ Append(n, e)[Len(n) + 1] = e
    BY <2>1
  <2> QED
    BY <1>2, <2>2
<1> QED
  BY <1>1, <1>3, <1>4 DEF Opens, SameKinds, SameJumps

LEMMA OpenOpens ==
    ASSUME Typed, NEW kind \in Kinds, NEW jumps \in Frames, Open(kind, jumps)
    PROVE  Opens(kind, jumps)
<1> QED
  BY AppendOpens DEF Open

Closes == /\ nest' \in Seq(Entries) /\ Len(nest) \in Nat \ {0}
          /\ Len(nest') = Len(nest) - 1
          /\ SameKinds(Len(nest) - 1) /\ SameJumps(Len(nest) - 1)

LEMMA Insides ==
    ASSUME Typed, NEW kind \in Kinds, Here = kind
    PROVE  /\ Len(nest) \in Nat \ {0} /\ Len(nest) \in 1 .. Len(nest)
           /\ Last(nest) = nest[Len(nest)] /\ nest[Len(nest)].kind = kind
           /\ nest[Len(nest)] \in Entries /\ nest[Len(nest)].jumps \in Frames
<1>1. nest \in Seq(Entries) /\ Len(nest) \in Nat
  BY DEF Typed
<1>2. nest # <<>>
  BY DEF Here, Kinds, OneStat, Scoped, Holders, Structs
<1>3. Len(nest) # 0
  BY <1>1, <1>2
<1> QED
  BY <1>1, <1>2, <1>3, EntryFields DEF Here, Last

LEMMA CloseCloses ==
    ASSUME Typed, NEW kind \in Kinds, Here = kind, Close
    PROVE  Closes
<1>1. nest \in Seq(Entries) /\ Len(nest) \in Nat \ {0} /\ nest' = Front(nest)
  BY Insides DEF Typed, Close
<1> QED
  BY <1>1, WithoutLast DEF Closes, SameKinds, SameJumps

\* Else, and the ends of a case and of the default.
Replaces(kind, jumps) ==
    /\ nest' \in Seq(Entries) /\ Len(nest) \in Nat \ {0}
    /\ Len(nest') = Len(nest) /\ SameKinds(Len(nest) - 1) /\ SameJumps(Len(nest) - 1)
    /\ nest'[Len(nest)].kind = kind /\ nest'[Len(nest)].jumps = jumps

LEMMA ElseReplaces == ASSUME Typed, Else PROVE Replaces("else", paths)
<1>1. PICK empty \in BOOLEAN :
         nest' = Append(Front(nest), [kind |-> "else", jumps |-> paths, done |-> empty])
  BY DEF Else
<1> DEFINE e == [kind |-> "else", jumps |-> paths, done |-> empty]
<1>2. e \in Entries /\ e.kind = "else" /\ e.jumps = paths
  BY DEF Entries, Kinds, OneStat, Typed
<1> HIDE DEF e
<1>3. Here = "then" /\ "then" \in Kinds
  BY DEF Else, Done, Kinds, OneStat
<1>4. Len(nest) \in Nat \ {0} /\ nest \in Seq(Entries)
  BY <1>3, Insides DEF Typed
<1>5. /\ Front(nest) \in Seq(Entries) /\ Len(Front(nest)) = Len(nest) - 1
      /\ \A k \in 1 .. Len(nest) - 1 : Front(nest)[k] = nest[k]
  BY <1>4, WithoutLast
<1>6. nest' = Append(Front(nest), e)
  BY <1>1 DEF e
<1>7. /\ nest' \in Seq(Entries) /\ Len(nest') = Len(Front(nest)) + 1
      /\ \A k \in 1 .. Len(Front(nest)) : nest'[k] = Front(nest)[k]
      /\ nest'[Len(Front(nest)) + 1] = e
  BY <1>2, <1>5, <1>6, Appended
<1>8. Len(nest') = Len(nest) /\ nest'[Len(nest)] = e
  BY <1>4, <1>5, <1>7
<1>9. \A k \in 1 .. Len(nest) - 1 : nest'[k] = nest[k]
  BY <1>5, <1>7
<1> QED
  BY <1>2, <1>4, <1>7, <1>8, <1>9 DEF Replaces, SameKinds, SameJumps

Merges(jumps) ==
    /\ nest' \in Seq(Entries) /\ Len(nest) - 1 \in Nat \ {0}
    /\ Len(nest') = Len(nest) - 1 /\ SameKinds(Len(nest) - 1) /\ SameJumps(Len(nest) - 2)
    /\ nest'[Len(nest) - 1].jumps = nest[Len(nest) - 1].jumps \union jumps

LEMMA EndCaseMerges ==
    ASSUME Typed, EndCase, Len(nest) > 1
    PROVE  Merges(paths)
<1>1. Here = "case" /\ "case" \in Kinds
  BY DEF EndCase, Done, Kinds, OneStat
<1>2. nest \in Seq(Entries) /\ Len(nest) \in Nat
  BY DEF Typed
<1> DEFINE f == Front(nest)
           p == Len(nest) - 1
<1>3. /\ f \in Seq(Entries) /\ Len(f) = p /\ p \in 1 .. p /\ p \in Nat \ {0}
      /\ \A k \in 1 .. p : f[k] = nest[k]
  <2>1. Len(nest) > 0
    BY <1>2
  <2>3. p >= 1 /\ p \in Int
    BY <1>2
  <2>4. p \in 1 .. p /\ p \in Nat \ {0}
    <3> HIDE DEF p
    <3> QED
      BY <2>3
  <2>2. f \in Seq(Entries) /\ Len(f) = p /\ \A k \in 1 .. p : f[k] = nest[k]
    BY <1>2, <2>1, WithoutLast
  <2> QED
    BY <2>1, <2>2, <2>4
<1>4. nest' = [f EXCEPT ![p].jumps = @ \union paths]
  BY DEF EndCase
<1> DEFINE e == [f[p] EXCEPT !.jumps = @ \union paths]
<1>5. e \in Entries /\ e.kind = f[p].kind /\ e.jumps = f[p].jumps \union paths
  <2>1. f[p] \in Entries /\ paths \in Frames
    BY <1>3 DEF Typed
  <2> QED
    BY <2>1 DEF Entries, Frames
<1>6. nest' = [f EXCEPT ![p] = e]
  BY <1>4
<1> HIDE DEF f, p, e
<1>7. /\ nest' \in Seq(Entries) /\ Len(nest') = p
      /\ \A k \in 1 .. p : nest'[k] = IF k = p THEN e ELSE f[k]
  BY <1>3, <1>5, <1>6
<1>8. \A k \in 1 .. p : nest'[k].kind = nest[k].kind
  BY <1>3, <1>5, <1>7
<1>9. \A k \in 1 .. p - 1 : nest'[k].jumps = nest[k].jumps
  <2>1. \A k \in 1 .. p - 1 : k \in 1 .. p /\ k # p
    BY <1>3
  <2> QED
    BY <1>3, <1>7, <2>1
<1>10. nest'[p].jumps = nest[p].jumps \union paths
  BY <1>3, <1>5, <1>7
<1>11. Len(nest) - 2 = p - 1
  BY <1>2 DEF p
<1> QED
  BY <1>3, <1>7, <1>8, <1>9, <1>10, <1>11 DEF Merges, SameKinds, SameJumps, p

LEMMA EndDefaultCloses == ASSUME Typed, EndDefault PROVE Closes
<1>1. Here = "default" /\ "default" \in Kinds
  BY DEF EndDefault, Done, Kinds, OneStat
<1>2. nest \in Seq(Entries) /\ Len(nest) \in Nat \ {0}
  BY <1>1, Insides DEF Typed
<1> DEFINE f == Front(nest)
           p == Len(nest) - 1
<1>3. /\ f \in Seq(Entries) /\ Len(f) = p /\ p \in Nat
      /\ \A k \in 1 .. p : f[k] = nest[k]
  BY <1>2, WithoutLast
<1> DEFINE e == [f[p] EXCEPT !.done = TRUE]
<1>4. nest' = [f EXCEPT ![p] = e]
  BY DEF EndDefault
<1>5. p \in 1 .. p => e \in Entries /\ e.kind = f[p].kind /\ e.jumps = f[p].jumps
  <2>1. p \in 1 .. p => f[p] \in Entries
    BY <1>3
  <2> QED
    BY <2>1 DEF Entries
<1>6. p = 0 => nest' = f
  BY <1>3, <1>4
<1> HIDE DEF f, p, e
<1>7. CASE p = 0
  BY <1>2, <1>3, <1>6, <1>7 DEF Closes, SameKinds, SameJumps, p
<1>8. CASE p # 0
  <2>1. p \in 1 .. p
    BY <1>3, <1>8
  <2>2. /\ nest' \in Seq(Entries) /\ Len(nest') = p
        /\ \A k \in 1 .. p : nest'[k] = IF k = p THEN e ELSE f[k]
    BY <1>3, <1>4, <1>5, <2>1
  <2>3. \A k \in 1 .. p : nest'[k].kind = nest[k].kind /\ nest'[k].jumps = nest[k].jumps
    BY <1>3, <1>5, <2>1, <2>2
  <2> QED
    BY <1>2, <2>2, <2>3 DEF Closes, SameKinds, SameJumps, p
<1> QED
  BY <1>7, <1>8

-----------------------------------------------------------------------------
(* Scopes, loops and the constructs they belong to, whatever a program       *)
(* contains.                                                                 *)

Depth(n, k) == Count(n, Scoped, k)
Held(n, k) == Count(n, Holders, k)

LoopPlaced(p, n) == /\ p.at \in 1 .. Len(n) /\ n[p.at].kind = p.kind
                    /\ p.scope = Depth(n, p.at)

NestInv ==
    /\ scope = Depth(nest, Len(nest))
    /\ \A l \in 1 .. Len(loops) : LoopPlaced(loops[l], nest)
    /\ \A l, m \in 1 .. Len(loops) : l < m => loops[l].at < loops[m].at
    /\ \A k \in 1 .. Len(nest) :
          nest[k].kind \in LoopKinds => \E l \in 1 .. Len(loops) : loops[l].at = k
    /\ \A k \in 1 .. Len(nest) :
          /\ nest[k].kind \in Structs => Len(nest) = 1
          /\ nest[k].kind = "case" => k > 1 /\ nest[k - 1].kind = "switch"

\* Depths and the values held are those of the constructs before.
LEMMA DepthsSame ==
    ASSUME NEW K \in Nat, SameKinds(K)
    PROVE  \A k \in 0 .. K : /\ Depth(nest', k) = Depth(nest, k)
                             /\ Held(nest', k) = Held(nest, k)
<1> SUFFICES ASSUME NEW k \in 0 .. K
             PROVE  Depth(nest', k) = Depth(nest, k) /\ Held(nest', k) = Held(nest, k)
  OBVIOUS
<1>1. k \in Nat /\ \A j \in 1 .. k : nest'[j].kind = nest[j].kind
  BY DEF SameKinds
<1> QED
  BY <1>1, CountSame DEF Depth, Held

LEMMA DepthsAre ==
    ASSUME NEW n, NEW k \in Nat
    PROVE  /\ Depth(n, k) \in Nat /\ Held(n, k) \in Nat
           /\ Depth(n, 0) = 0 /\ Held(n, 0) = 0
           /\ Depth(n, k + 1) = Depth(n, k) + (IF n[k + 1].kind \in Scoped THEN 1 ELSE 0)
           /\ Held(n, k + 1) = Held(n, k) + (IF n[k + 1].kind \in Holders THEN 1 ELSE 0)
           /\ \A j \in 0 .. k : /\ Depth(n, j) \in Nat /\ Depth(n, j) <= Depth(n, k)
                                /\ Held(n, j) \in Nat /\ Held(n, j) <= Held(n, k)
<1> QED
  BY CountIs DEF Depth, Held

LEMMA ScopeIsNat == ASSUME Typed, NestInv PROVE scope \in Nat
<1> QED
  BY EntryFields, DepthsAre DEF Typed, NestInv

LEMMA PlacedStays ==
    ASSUME NEW K \in Nat, SameKinds(K), NEW p, p.at \in 1 .. K, K <= Len(nest'), nest' \in Seq(Entries),
           LoopPlaced(p, nest), NEW q, q.at = p.at, q.kind = p.kind, q.scope = p.scope
    PROVE  LoopPlaced(q, nest')
<1>1. Depth(nest', p.at) = Depth(nest, p.at)
  BY DepthsSame
<1>2. p.at \in 1 .. Len(nest') /\ nest'[p.at].kind = nest[p.at].kind
  BY DEF SameKinds
<1> QED
  BY <1>1, <1>2 DEF LoopPlaced

SameLoops == /\ Len(loops') = Len(loops)
             /\ \A l \in 1 .. Len(loops) : /\ loops'[l].kind = loops[l].kind
                                           /\ loops'[l].scope = loops[l].scope
                                           /\ loops'[l].at = loops[l].at

LEMMA NestFills ==
    ASSUME Typed, NestInv, Fills, SameLoops, scope' = scope
    PROVE  NestInv'
<1>1. Len(nest) \in Nat /\ nest' \in Seq(Entries) /\ Len(nest') = Len(nest) /\ SameKinds(Len(nest))
  BY EntryFields DEF Typed, Fills
<1>2. scope' = Depth(nest', Len(nest'))
  BY <1>1, DepthsSame DEF NestInv
<1>3. \A l \in 1 .. Len(loops') : LoopPlaced(loops'[l], nest')
  <2> SUFFICES ASSUME NEW l \in 1 .. Len(loops) PROVE LoopPlaced(loops'[l], nest')
    BY DEF SameLoops
  <2>1. LoopPlaced(loops[l], nest) /\ loops[l].at \in 1 .. Len(nest)
    BY DEF NestInv, LoopPlaced
  <2>2. /\ loops'[l].at = loops[l].at /\ loops'[l].kind = loops[l].kind
        /\ loops'[l].scope = loops[l].scope
    BY DEF SameLoops
  <2> QED
    BY <1>1, <2>1, <2>2, PlacedStays
<1>4. \A l, m \in 1 .. Len(loops') : l < m => loops'[l].at < loops'[m].at
  BY DEF NestInv, SameLoops
<1>5. \A k \in 1 .. Len(nest') :
          nest'[k].kind \in LoopKinds => \E l \in 1 .. Len(loops') : loops'[l].at = k
  BY <1>1 DEF NestInv, SameLoops, SameKinds
<1>6. \A k \in 1 .. Len(nest') :
          /\ nest'[k].kind \in Structs => Len(nest') = 1
          /\ nest'[k].kind = "case" => k > 1 /\ nest'[k - 1].kind = "switch"
  BY <1>1 DEF NestInv, SameKinds
<1> QED
  BY <1>2, <1>3, <1>4, <1>5, <1>6 DEF NestInv

\* A construct opens; if it is a loop, the loop is the last of loops.
LoopOpens(kind) ==
    /\ kind \notin LoopKinds => loops' = loops
    /\ kind \in LoopKinds =>
          /\ Len(loops') = Len(loops) + 1
          /\ \A l \in 1 .. Len(loops) : loops'[l] = loops[l]
          /\ loops'[Len(loops) + 1].kind = kind
          /\ loops'[Len(loops) + 1].scope = scope'
          /\ loops'[Len(loops) + 1].at = Len(nest) + 1

LEMMA NestOpens ==
    ASSUME Typed, NestInv, NEW kind \in Kinds, NEW jumps, Opens(kind, jumps),
           scope' = scope + (IF kind \in Scoped THEN 1 ELSE 0), LoopOpens(kind),
           Here \notin Structs,
           kind \in Structs => nest = <<>>,
           kind = "case" => Here = "switch"
    PROVE  NestInv'
<1> DEFINE N == Len(nest)
           L == Len(loops)
<1>1. /\ N \in Nat /\ nest' \in Seq(Entries) /\ Len(nest') = N + 1 /\ SameKinds(N)
      /\ nest'[N + 1].kind = kind /\ L \in Nat
  BY EntryFields, LoopFields DEF Typed, Opens
<1>2. \A k \in 1 .. N : nest'[k].kind = nest[k].kind
  BY <1>1 DEF SameKinds
<1>3. scope' = Depth(nest', Len(nest'))
  <2>1. Depth(nest', N + 1) = Depth(nest', N) + (IF nest'[N + 1].kind \in Scoped THEN 1 ELSE 0)
    BY <1>1, DepthsAre
  <2>2. Depth(nest', N) = scope
    BY <1>1, DepthsSame DEF NestInv
  <2> QED
    BY <1>1, <2>1, <2>2
<1>4. /\ L <= Len(loops') /\ Len(loops') \in Nat
      /\ \A l \in 1 .. L : loops'[l] = loops[l]
      /\ \A l \in 1 .. Len(loops') : l \in 1 .. L \/ (l = L + 1 /\ kind \in LoopKinds)
  <2>1. CASE kind \in LoopKinds
    BY <1>1, <2>1 DEF LoopOpens
  <2>2. CASE kind \notin LoopKinds
    BY <1>1, <2>2 DEF LoopOpens
  <2> QED
    BY <2>1, <2>2
<1>5. \A l \in 1 .. L : loops[l].at \in 1 .. N /\ LoopPlaced(loops[l], nest)
  BY DEF NestInv, LoopPlaced
<1>6. \A l \in 1 .. Len(loops') : LoopPlaced(loops'[l], nest')
  <2> SUFFICES ASSUME NEW l \in 1 .. Len(loops') PROVE LoopPlaced(loops'[l], nest')
    OBVIOUS
  <2>1. CASE l \in 1 .. L
    <3>1. N <= Len(nest') /\ loops'[l] = loops[l]
      BY <1>1, <1>4, <2>1
    <3>2. LoopPlaced(loops[l], nest) /\ loops[l].at \in 1 .. N
      BY <1>5, <2>1
    <3> HIDE DEF N
    <3> QED
      BY <1>1, <3>1, <3>2, PlacedStays
  <2>2. CASE l = L + 1 /\ kind \in LoopKinds
    <3>1. loops'[l].kind = kind /\ loops'[l].scope = scope' /\ loops'[l].at = N + 1
      BY <2>2 DEF LoopOpens
    <3> QED
      BY <1>1, <1>3, <3>1 DEF LoopPlaced
  <2> QED
    BY <1>4, <2>1, <2>2
<1>7. \A l, m \in 1 .. Len(loops') : l < m => loops'[l].at < loops'[m].at
  <2> SUFFICES ASSUME NEW l \in 1 .. Len(loops'), NEW m \in 1 .. Len(loops'), l < m
               PROVE  loops'[l].at < loops'[m].at
    OBVIOUS
  <2>1. l \in 1 .. L
    BY <1>1, <1>4
  <2>2. CASE m \in 1 .. L
    BY <1>4, <2>1, <2>2 DEF NestInv
  <2>3. CASE m = L + 1 /\ kind \in LoopKinds
    <3>1. loops'[m].at = N + 1
      BY <2>3 DEF LoopOpens
    <3>2. loops'[l].at \in 1 .. N
      BY <1>4, <1>5, <2>1
    <3> QED
      BY <1>1, <3>1, <3>2
  <2> QED
    BY <1>4, <2>2, <2>3
<1>8. ASSUME NEW k \in 1 .. Len(nest'), nest'[k].kind \in LoopKinds
      PROVE  \E l \in 1 .. Len(loops') : loops'[l].at = k
  <2>1. CASE k \in 1 .. N
    <3>1. PICK l \in 1 .. L : loops[l].at = k
      BY <1>2, <1>8, <2>1 DEF NestInv
    <3> QED
      BY <1>1, <1>4, <3>1
  <2>2. CASE k = N + 1
    <3>1. kind \in LoopKinds
      BY <1>1, <1>8, <2>2
    <3>2. loops'[L + 1].at = N + 1 /\ L + 1 \in 1 .. Len(loops')
      BY <1>1, <3>1 DEF LoopOpens
    <3> QED
      BY <2>2, <3>2
  <2> QED
    BY <1>1, <2>1, <2>2
<1>9. N # 0 => nest # <<>> /\ N \in 1 .. N /\ Here = nest[N].kind
  BY <1>1 DEF Here, Last
<1>10. \A k \in 1 .. N : nest[k].kind \notin Structs
  BY <1>1, <1>9 DEF NestInv
<1>11. kind \in Structs => N = 0
  BY <1>1
<1>12. kind = "case" => N >= 1 /\ nest[N].kind = "switch"
  <2>1. nest = <<>> => Here = "body"
    BY DEF Here
  <2> QED
    BY <1>1, <1>9, <2>1
<1>13. ASSUME NEW k \in 1 .. Len(nest')
       PROVE  /\ nest'[k].kind \in Structs => Len(nest') = 1
              /\ nest'[k].kind = "case" => k > 1 /\ nest'[k - 1].kind = "switch"
  <2>1. CASE k \in 1 .. N
    <3>1. nest'[k].kind = nest[k].kind
      BY <1>2, <2>1
    <3>2. nest[k].kind = "case" => k > 1 /\ nest[k - 1].kind = "switch"
      BY <2>1 DEF NestInv
    <3>3. k > 1 => k - 1 \in 1 .. N
      BY <1>1, <2>1
    <3> QED
      BY <1>2, <1>10, <2>1, <3>1, <3>2, <3>3
  <2>2. CASE k = N + 1
    <3>1. nest'[k].kind = kind /\ k - 1 = N
      BY <1>1, <2>2
    <3>2. kind = "case" => N \in 1 .. N
      BY <1>1, <1>12
    <3> QED
      BY <1>1, <1>2, <1>11, <1>12, <2>2, <3>1, <3>2
  <2> QED
    BY <1>1, <2>1, <2>2
<1> QED
  BY <1>3, <1>6, <1>7, <1>8, <1>13 DEF NestInv

\* The last construct closes; if it is a loop, it is the last of loops.
LEMMA LastLoop ==
    ASSUME Typed, NestInv, NEW kind \in LoopKinds, Here = kind
    PROVE  /\ Len(loops) \in 1 .. Len(loops) /\ Len(loops) \in Nat
           /\ Last(loops) = loops[Len(loops)]
           /\ loops[Len(loops)].at = Len(nest) /\ loops[Len(loops)].kind = kind
           /\ loops[Len(loops)].scope = scope
           /\ \A l \in 1 .. Len(loops) - 1 : loops[l].at \in 1 .. Len(nest) - 1
<1>1. kind \in Kinds
  BY DEF Kinds, OneStat, LoopKinds
<1>2. /\ Len(nest) \in Nat \ {0} /\ Len(nest) \in 1 .. Len(nest) /\ nest[Len(nest)].kind = kind
  BY <1>1, Insides
<1>3. Len(loops) \in Nat /\ \A l \in 1 .. Len(loops) : loops[l].at \in 1 .. Len(nest)
  BY LoopFields DEF Typed, NestInv, LoopPlaced
<1>4. PICK l \in 1 .. Len(loops) : loops[l].at = Len(nest)
  BY <1>2 DEF NestInv
<1>5. l = Len(loops)
  <2>1. l < Len(loops) => loops[l].at < loops[Len(loops)].at /\ Len(loops) \in 1 .. Len(loops)
    BY <1>3 DEF NestInv
  <2>2. l < Len(loops) => loops[Len(loops)].at <= Len(nest)
    BY <1>3, <2>1
  <2> QED
    BY <1>2, <1>3, <1>4, <2>1, <2>2
<1>6. LoopPlaced(loops[Len(loops)], nest)
  BY <1>5 DEF NestInv
<1>7. ASSUME NEW m \in 1 .. Len(loops) - 1 PROVE loops[m].at \in 1 .. Len(nest) - 1
  <2>1. m \in 1 .. Len(loops) /\ m < Len(loops)
    BY <1>3
  <2>2. loops[m].at < loops[Len(loops)].at
    BY <1>5, <2>1 DEF NestInv
  <2> QED
    BY <1>2, <1>3, <1>4, <1>5, <2>1, <2>2
<1> QED
  BY <1>2, <1>3, <1>4, <1>5, <1>6, <1>7 DEF LoopPlaced, NestInv, Last

LoopCloses(kind) == loops' = IF kind \in LoopKinds THEN Front(loops) ELSE loops

LEMMA NestCloses ==
    ASSUME Typed, NestInv, NEW kind \in Kinds, Here = kind,
           nest' \in Seq(Entries), Len(nest') = Len(nest) - 1, SameKinds(Len(nest) - 1),
           scope' = scope - (IF kind \in Scoped THEN 1 ELSE 0), LoopCloses(kind)
    PROVE  NestInv'
<1> DEFINE N == Len(nest) - 1
<1>1. /\ Len(nest) \in Nat \ {0} /\ N \in Nat /\ Len(nest) = N + 1
      /\ nest[N + 1].kind = kind /\ Len(nest') = N /\ SameKinds(N)
  BY Insides
<1>2. \A k \in 1 .. N : nest'[k].kind = nest[k].kind /\ k \in 1 .. Len(nest)
  BY <1>1 DEF SameKinds
<1>3. scope' = Depth(nest', N)
  <2>1. Depth(nest, N + 1) = Depth(nest, N) + (IF nest[N + 1].kind \in Scoped THEN 1 ELSE 0)
    BY <1>1, DepthsAre
  <2>2. Depth(nest', N) = Depth(nest, N) /\ Depth(nest, N) \in Nat
    BY <1>1, DepthsSame, DepthsAre
  <2>3. scope = Depth(nest, N + 1)
    BY <1>1 DEF NestInv
  <2> QED
    BY <1>1, <2>1, <2>2, <2>3
<1>4. /\ Len(loops') \in Nat /\ Len(loops) \in Nat /\ Len(loops') <= Len(loops)
      /\ \A l \in 1 .. Len(loops') : /\ loops'[l] = loops[l] /\ l \in 1 .. Len(loops)
                                     /\ loops[l].at \in 1 .. N
      /\ \A l \in 1 .. Len(loops) : loops[l].at \in 1 .. N => l \in 1 .. Len(loops')
  <2>1. CASE kind \in LoopKinds
    <3>1. /\ Len(loops) \in 1 .. Len(loops) /\ Len(loops) \in Nat
          /\ loops[Len(loops)].at = N + 1
          /\ \A l \in 1 .. Len(loops) - 1 : loops[l].at \in 1 .. N
      BY <1>1, <2>1, LastLoop
    <3>2. /\ Len(loops') = Len(loops) - 1
          /\ \A l \in 1 .. Len(loops) - 1 : loops'[l] = loops[l]
      <4>1. loops' = Front(loops) /\ loops \in Seq(LoopRecords) /\ Len(loops) > 0
        BY <2>1, <3>1 DEF LoopCloses, Typed
      <4> QED
        BY <4>1, WithoutLast
    <3> QED
      BY <1>1, <3>1, <3>2
  <2>2. CASE kind \notin LoopKinds
    <3>1. loops' = loops /\ Len(loops) \in Nat
      BY <2>2, LoopFields DEF LoopCloses, Typed
    <3>2. ASSUME NEW l \in 1 .. Len(loops) PROVE loops[l].at \in 1 .. N
      <4>1. loops[l].at \in 1 .. N + 1 /\ nest[loops[l].at].kind = loops[l].kind
        BY <1>1 DEF NestInv, LoopPlaced
      <4>2. loops[l].kind \in LoopKinds
        BY LoopFields DEF Typed
      <4> QED
        BY <1>1, <2>2, <4>1, <4>2
    <3> QED
      BY <3>1, <3>2
  <2> QED
    BY <2>1, <2>2
<1>5. \A l \in 1 .. Len(loops') : LoopPlaced(loops'[l], nest')
  <2> SUFFICES ASSUME NEW l \in 1 .. Len(loops') PROVE LoopPlaced(loops'[l], nest')
    OBVIOUS
  <2>1. LoopPlaced(loops[l], nest) /\ loops'[l] = loops[l] /\ loops[l].at \in 1 .. N
    BY <1>4 DEF NestInv
  <2>2. N <= Len(nest')
    BY <1>1
  <2> HIDE DEF N
  <2> QED
    BY <1>1, <2>1, <2>2, PlacedStays
<1>6. \A l, m \in 1 .. Len(loops') : l < m => loops'[l].at < loops'[m].at
  BY <1>4 DEF NestInv
<1>7. ASSUME NEW k \in 1 .. N, nest'[k].kind \in LoopKinds
      PROVE  \E l \in 1 .. Len(loops') : loops'[l].at = k
  <2>1. PICK l \in 1 .. Len(loops) : loops[l].at = k
    BY <1>2, <1>7 DEF NestInv
  <2> QED
    BY <1>4, <2>1
<1>8. ASSUME NEW k \in 1 .. N
      PROVE  /\ nest'[k].kind \in Structs => N = 1
             /\ nest'[k].kind = "case" => k > 1 /\ nest'[k - 1].kind = "switch"
  <2>1. nest'[k].kind = nest[k].kind /\ k \in 1 .. Len(nest)
    BY <1>2
  <2>2. /\ nest[k].kind \in Structs => Len(nest) = 1
        /\ nest[k].kind = "case" => k > 1 /\ nest[k - 1].kind = "switch"
    BY <2>1 DEF NestInv
  <2>3. k > 1 => k - 1 \in 1 .. N
    BY <1>1
  <2>4. ~(Len(nest) = 1)
    BY <1>1
  <2> QED
    BY <1>2, <2>1, <2>2, <2>3, <2>4
<1> QED
  BY <1>1, <1>3, <1>5, <1>6, <1>7, <1>8 DEF NestInv

LEMMA ClosesNest ==
    ASSUME Typed, NestInv, NEW kind \in Kinds, Here = kind, Closes, LoopCloses(kind),
           scope' = scope - (IF kind \in Scoped THEN 1 ELSE 0)
    PROVE  NestInv'
<1>1. nest' \in Seq(Entries) /\ Len(nest') = Len(nest) - 1 /\ SameKinds(Len(nest) - 1)
  BY DEF Closes
<1> QED
  BY <1>1, NestCloses

LEMMA NestReplaces ==
    ASSUME Typed, NestInv, Here = "then", NEW jumps, Replaces("else", jumps),
           loops' = loops, scope' = scope
    PROVE  NestInv'
<1> DEFINE N == Len(nest) - 1
<1>1. /\ Len(nest) \in Nat \ {0} /\ N \in Nat /\ Len(nest) = N + 1 /\ Len(nest') = N + 1
      /\ nest' \in Seq(Entries) /\ SameKinds(N) /\ nest'[N + 1].kind = "else"
  BY DEF Replaces
<1>2. nest[N + 1].kind = "then"
  <2>1. "then" \in Kinds
    BY DEF Kinds, OneStat
  <2> QED
    BY <1>1, <2>1, Insides
<1>3. \A k \in 1 .. N : nest'[k].kind = nest[k].kind /\ k \in 1 .. Len(nest)
  BY <1>1 DEF SameKinds
<1>4. scope' = Depth(nest', N + 1)
  <2>1. /\ Depth(nest, N + 1) = Depth(nest, N) + (IF nest[N + 1].kind \in Scoped THEN 1 ELSE 0)
        /\ Depth(nest', N + 1) = Depth(nest', N) + (IF nest'[N + 1].kind \in Scoped THEN 1 ELSE 0)
    BY <1>1, DepthsAre
  <2>2. Depth(nest', N) = Depth(nest, N)
    BY <1>1, DepthsSame
  <2>3. scope = Depth(nest, N + 1)
    BY <1>1 DEF NestInv
  <2>4. "then" \notin Scoped /\ "else" \notin Scoped
    BY DEF Scoped
  <2> QED
    BY <1>1, <1>2, <2>1, <2>2, <2>3, <2>4
<1>5. ASSUME NEW l \in 1 .. Len(loops) PROVE loops[l].at \in 1 .. N
  <2>1. loops[l].at \in 1 .. N + 1 /\ nest[loops[l].at].kind = loops[l].kind
    BY <1>1 DEF NestInv, LoopPlaced
  <2>2. loops[l].kind \in LoopKinds
    BY LoopFields DEF Typed
  <2> QED
    BY <1>1, <1>2, <2>1, <2>2 DEF LoopKinds
<1>6. \A l \in 1 .. Len(loops') : LoopPlaced(loops'[l], nest')
  <2> SUFFICES ASSUME NEW l \in 1 .. Len(loops) PROVE LoopPlaced(loops[l], nest')
    OBVIOUS
  <2>1. LoopPlaced(loops[l], nest) /\ loops[l].at \in 1 .. N
    BY <1>5 DEF NestInv
  <2>2. N <= Len(nest')
    BY <1>1
  <2> HIDE DEF N
  <2> QED
    BY <1>1, <2>1, <2>2, PlacedStays
<1>7. ASSUME NEW k \in 1 .. N + 1
      PROVE  /\ nest'[k].kind \in LoopKinds => \E l \in 1 .. Len(loops) : loops[l].at = k
             /\ nest'[k].kind \in Structs => N + 1 = 1
             /\ nest'[k].kind = "case" => k > 1 /\ nest'[k - 1].kind = "switch"
  <2>1. CASE k \in 1 .. N
    <3>1. nest'[k].kind = nest[k].kind /\ k \in 1 .. Len(nest)
      BY <1>3, <2>1
    <3>2. /\ nest[k].kind \in LoopKinds => \E l \in 1 .. Len(loops) : loops[l].at = k
          /\ nest[k].kind \in Structs => Len(nest) = 1
          /\ nest[k].kind = "case" => k > 1 /\ nest[k - 1].kind = "switch"
      BY <3>1 DEF NestInv
    <3>3. k > 1 => k - 1 \in 1 .. N
      BY <1>1, <2>1
    <3> QED
      BY <1>1, <1>3, <3>1, <3>2, <3>3
  <2>2. CASE k = N + 1
    <3>1. nest'[k].kind = "else"
      BY <1>1, <2>2
    <3> QED
      BY <3>1 DEF LoopKinds, Structs
  <2>3. k \in 1 .. N \/ k = N + 1
    <3> HIDE DEF N
    <3> QED
      BY <1>1
  <2> QED
    BY <2>1, <2>2, <2>3
<1> QED
  BY <1>1, <1>4, <1>6, <1>7 DEF NestInv

-----------------------------------------------------------------------------
(* Every operation keeps them.                                               *)

LEMMA SetMinIn == ASSUME NEW S, S # {}, S \subseteq Nat PROVE SetMin(S) \in S
<1> QED
  BY LeastOf DEF SetMin

LEMMA FreshId == FreeIds # {} => SetMin(FreeIds) \in Int
<1>1. FreeIds \subseteq Nat
  BY ScopesAssumption DEF FreeIds, Ids
<1>2. ASSUME NEW S, S # {}, S \subseteq Nat PROVE SetMin(S) \in Int
  <2>1. SetMin(S) \in S
    BY <1>2, SetMinIn
  <2>2. \A x \in S : x \in Int
    BY <1>2
  <2> QED
    BY <2>1, <2>2
<1> QED
  BY <1>1, <1>2

LEMMA DiscardedNat ==
    ASSUME locals \in Seq(LocalRecords), NEW d \in Int
    PROVE  Discarded(d) \in Nat
<1> DEFINE L == Len(locals)
           S == {0} \union {i \in 1 .. L : locals[i].depth <= d}
           R == {L - x : x \in S}
<1>1. L \in Nat
  OBVIOUS
<1>2. S \subseteq 0 .. L /\ S # {}
  BY <1>1
<1>3. R \subseteq Nat /\ R # {}
  BY <1>1, <1>2
<1>4. PICK r \in R : \A y \in R : r <= y
  <2> HIDE DEF R
  <2> QED
    BY <1>3, LeastOf
<1>5. PICK x \in S : r = L - x
  BY <1>4
<1>6. \A y \in S : L - y \in R
  OBVIOUS
<1>7. \A y \in S : x >= y
  <2> HIDE DEF R
  <2>1. \A y \in S : y \in 0 .. L /\ r <= L - y
    BY <1>2, <1>4, <1>6
  <2> QED
    BY <1>1, <1>2, <1>5, <2>1
<1>8. SetMax(S) \in S
  <2> HIDE DEF S
  <2> QED
    BY <1>5, <1>7 DEF SetMax
<1>9. Discarded(d) = L - SetMax(S)
  BY DEF Discarded
<1>10. PICK m \in 0 .. L : m = SetMax(S)
  <2> HIDE DEF S
  <2> QED
    BY <1>2, <1>8
<1>11. Discarded(d) = L - m
  BY <1>9, <1>10
<1> HIDE DEF L
<1> QED
  BY <1>1, <1>10, <1>11

\* Leaving the scope the compiler is in pops some number of locals.
LEMMA DiscardedUp ==
    ASSUME Typed, scope \in Nat
    PROVE  Discarded(scope - 1) \in Nat
<1>1. locals \in Seq(LocalRecords)
  BY DEF Typed
<1>2. scope - 1 \in Int
  OBVIOUS
<1> QED
  BY <1>1, <1>2, DiscardedNat

LEMMA FramesMove ==
    ASSUME Typed
    PROVE  /\ \A v \in Int : Pushed(v) \in Frames
           /\ \A ps \in Frames, n \in Nat : Popped(ps, n) \in Frames
<1>1. ASSUME NEW v \in Int PROVE Pushed(v) \in Frames
  <2>1. \A s \in paths : s \in Seq(Int)
    BY DEF Frames, Typed
  <2>2. \A s \in paths : Append(s, v) \in Seq(Int)
    BY <2>1
  <2> QED
    BY <2>2 DEF Pushed, Frames
<1>2. ASSUME NEW ps \in Frames, NEW n \in Nat PROVE Popped(ps, n) \in Frames
  <2>1. \A s \in ps : s \in Seq(Int)
    BY DEF Frames
  <2>2. \A s \in ps : Drop(s, n) \in Seq(Int)
    BY <2>1, Dropped
  <2> QED
    BY <2>2 DEF Popped, Frames
<1> QED
  BY <1>1, <1>2

LEMMA LocalsMove ==
    ASSUME Typed, NEW d \in Nat
    PROVE  /\ \A id \in Int : Append(locals, Local(id, d)) \in Seq(LocalRecords)
           /\ Drop(locals, Discarded(d)) \in Seq(LocalRecords)
           /\ Drop(locals, Discarded(d - 1)) \in Seq(LocalRecords)
<1>1. locals \in Seq(LocalRecords) /\ Discarded(d) \in Nat /\ Discarded(d - 1) \in Nat
  <2>1. locals \in Seq(LocalRecords)
    BY DEF Typed
  <2>2. d \in Int /\ d - 1 \in Int
    OBVIOUS
  <2> QED
    BY <2>1, <2>2, DiscardedNat
<1>2. \A id \in Int : Local(id, d) \in LocalRecords
  BY DEF Local, LocalRecords
<1> QED
  BY <1>1, <1>2, Dropped

LEMMA MarkedIs == ASSUME Typed, NestInv PROVE Marked \in Seq(LocalRecords)
<1>1. scope \in Nat /\ locals \in Seq(LocalRecords)
  BY ScopeIsNat DEF Typed
<1> DEFINE L == Len(locals)
           r == [locals[L] EXCEPT !.depth = scope]
<1>2. Marked = [locals EXCEPT ![L] = r]
  BY DEF Marked
<1>3. L \in 1 .. L => r \in LocalRecords
  <2>1. L \in 1 .. L => locals[L] \in LocalRecords
    BY <1>1
  <2> QED
    BY <1>1, <2>1 DEF LocalRecords
<1> HIDE DEF r
<1> HIDE DEF L
<1>4. CASE L \in 1 .. L
  <2>1. r \in LocalRecords
    BY <1>3, <1>4
  <2>2. L \in 1 .. Len(locals)
    BY <1>4 DEF L
  <2>3. [locals EXCEPT ![L] = r] \in Seq(LocalRecords)
    BY <1>1, <2>1, <2>2, ExceptSeq
  <2> QED
    BY <1>2, <2>3
<1>5. CASE L \notin 1 .. L
  <2>1. L = 0 /\ Len(locals) = 0
    BY <1>1, <1>5 DEF L
  <2>2. Marked = locals
    BY <1>1, <1>2, <2>1
  <2> QED
    BY <1>1, <2>2
<1> QED
  BY <1>4, <1>5

\* Where each kind of statement stands.
LEMMA Places ==
    ASSUME Typed
    PROVE  /\ AtStat => Here \notin Structs
           /\ AtTop => nest = <<>> /\ Here = "body"
           /\ nest = <<>> => Here = "body"
           /\ "body" \notin Structs /\ "switch" \notin Structs
<1> QED
  BY DEF AtStat, AtDecl, OneStat, Structs, AtTop, Here

LEMMA DeclareTyped ==
    ASSUME Typed, NEW d \in Nat, Declare(d)
    PROVE  locals' \in Seq(LocalRecords) /\ paths' \in Frames
<1>1. SetMin(FreeIds) \in Int
  BY FreshId DEF Declare
<1> QED
  BY <1>1, FramesMove, LocalsMove DEF Declare

LEMMA FillSteps ==
    ASSUME Typed, NestInv,
           VarDecl \/ Function \/ Method \/ Return \/ Member \/ \E global \in BOOLEAN : EnumDecl(global)
    PROVE  Typed' /\ NestInv' /\ Fills
<1>1. scope \in Nat
  BY ScopeIsNat
<1>2. loops' = loops /\ scope' = scope /\ type' = type /\ (nest' = nest \/ nest' = Filled)
  BY DEF VarDecl, Function, Method, Return, Member, EnumDecl
<1>3. Fills /\ SameLoops
  BY <1>2, FilledFills DEF SameLoops
<1>4. locals' \in Seq(LocalRecords)
  <2>1. CASE VarDecl
    BY <1>1, <2>1, DeclareTyped DEF VarDecl
  <2>2. CASE Function \/ Method
    BY <2>2, MarkedIs DEF Function, Method
  <2>3. CASE Return \/ Member
    BY <2>3 DEF Return, Member, Typed
  <2>4. ASSUME NEW global \in BOOLEAN, EnumDecl(global) PROVE locals' \in Seq(LocalRecords)
    <3>1. CASE global
      BY <2>4, <3>1 DEF EnumDecl, Typed
    <3>2. CASE ~global
      BY <2>4, <3>2, FreshId, LocalsMove DEF EnumDecl
    <3> QED
      BY <2>4, <3>1, <3>2
  <2> QED
    BY <2>1, <2>2, <2>3, <2>4
<1>5. paths' \in Frames
  <2>1. CASE VarDecl
    BY <1>1, <2>1, DeclareTyped DEF VarDecl
  <2>2. CASE Function \/ Method
    BY <2>2 DEF Function, Method, Typed
  <2>3. CASE Return
    BY <2>3 DEF Return, Frames
  <2>4. CASE Member
    BY <2>4, FramesMove DEF Member, Typed
  <2>5. ASSUME NEW global \in BOOLEAN, EnumDecl(global) PROVE paths' \in Frames
    <3>1. CASE global
      <4>1. paths' = {Append(Drop(s, 1), Temp) : s \in paths}
        BY <2>5, <3>1 DEF EnumDecl
      <4>2. \A s \in paths : Drop(s, 1) \in Seq(Int)
        BY Dropped DEF Typed, Frames
      <4>3. \A s \in paths : Append(Drop(s, 1), Temp) \in Seq(Int)
        BY <4>2 DEF Temp
      <4> QED
        BY <4>1, <4>3 DEF Frames
    <3>2. CASE ~global
      BY <2>5, <3>2, FreshId, FramesMove DEF EnumDecl
    <3> QED
      BY <2>5, <3>1, <3>2
  <2> QED
    BY <2>1, <2>2, <2>3, <2>4, <2>5
<1>6. NestInv'
  BY <1>2, <1>3, NestFills
<1> QED
  BY <1>2, <1>3, <1>4, <1>5, <1>6 DEF Typed, Fills

\* break and continue, which add to what one loop waits for.
LEMMA JumpSteps ==
    ASSUME Typed, NestInv, NEW l \in 1 .. Len(loops), Break(l) \/ Continue(l)
    PROVE  /\ Typed' /\ NestInv' /\ Fills /\ SameLoops
           /\ \A m \in 1 .. Len(loops) : m # l => loops'[m] = loops[m]
           /\ loops'[l].start = loops[l].start
           /\ Break(l) => /\ loops'[l].back = loops[l].back
                          /\ loops'[l].breaks = loops[l].breaks
                                \union Popped(paths, Discarded(loops[l].scope - 1))
           /\ Continue(l) => /\ loops'[l].breaks = loops[l].breaks
                             /\ loops'[l].back = loops[l].back
                                   \union Popped(paths, Discarded(loops[l].scope))
<1>1. /\ loops \in Seq(LoopRecords) /\ loops[l] \in LoopRecords /\ loops[l].scope \in Nat
      /\ Len(loops) \in Nat
  BY LoopFields DEF Typed
<1> DEFINE B == Popped(paths, Discarded(loops[l].scope - 1))
           C == Popped(paths, Discarded(loops[l].scope))
           b == [loops[l] EXCEPT !.breaks = @ \union B]
           c == [loops[l] EXCEPT !.back = @ \union C]
<1>2. B \in Frames /\ C \in Frames
  <2>2. loops[l].scope \in Int /\ loops[l].scope - 1 \in Int /\ locals \in Seq(LocalRecords)
    BY <1>1 DEF Typed
  <2>1. Discarded(loops[l].scope - 1) \in Nat /\ Discarded(loops[l].scope) \in Nat
    BY <2>2, DiscardedNat
  <2> QED
    BY <2>1, FramesMove DEF Typed
<1> HIDE DEF B, C
<1>3. /\ b \in LoopRecords /\ c \in LoopRecords
      /\ b.kind = loops[l].kind /\ b.scope = loops[l].scope /\ b.at = loops[l].at
      /\ b.start = loops[l].start /\ b.back = loops[l].back
      /\ b.breaks = loops[l].breaks \union B
      /\ c.kind = loops[l].kind /\ c.scope = loops[l].scope /\ c.at = loops[l].at
      /\ c.start = loops[l].start /\ c.breaks = loops[l].breaks
      /\ c.back = loops[l].back \union C
  BY <1>1, <1>2 DEF LoopRecords, Frames
<1>4. /\ Break(l) => loops' = [loops EXCEPT ![l] = b]
      /\ Continue(l) => loops' = [loops EXCEPT ![l] = c]
  BY DEF Break, Continue, ContinueDiscards, B, C
<1> HIDE DEF b, c
<1>5. /\ loops' \in Seq(LoopRecords) /\ Len(loops') = Len(loops)
      /\ \A m \in 1 .. Len(loops) : m # l => loops'[m] = loops[m]
      /\ Break(l) => loops'[l] = b
      /\ Continue(l) => loops'[l] = c
  <2>1. CASE Break(l)
    <3>1. /\ loops' \in Seq(LoopRecords) /\ Len(loops') = Len(loops)
          /\ \A m \in 1 .. Len(loops) : loops'[m] = IF m = l THEN b ELSE loops[m]
      BY <1>1, <1>3, <1>4, <2>1
    <3>2. ~Continue(l) \/ b = c
      <4>1. Continue(l) => loops' = [loops EXCEPT ![l] = c]
        BY <1>4
      <4>2. Continue(l) => loops'[l] = c
        BY <1>1, <4>1
      <4> QED
        BY <3>1, <4>2
    <3> QED
      BY <2>1, <3>1, <3>2
  <2>2. CASE ~Break(l)
    <3>1. /\ loops' \in Seq(LoopRecords) /\ Len(loops') = Len(loops)
          /\ \A m \in 1 .. Len(loops) : loops'[m] = IF m = l THEN c ELSE loops[m]
      BY <1>1, <1>3, <1>4, <2>2
    <3> QED
      BY <2>2, <3>1
  <2> QED
    BY <2>1, <2>2
<1>6. \A m \in 1 .. Len(loops) : /\ loops'[m].kind = loops[m].kind
                                 /\ loops'[m].scope = loops[m].scope
                                 /\ loops'[m].at = loops[m].at
  BY <1>3, <1>5
<1>7. SameLoops
  BY <1>5, <1>6 DEF SameLoops
<1>8. /\ nest' = Filled /\ scope' = scope /\ type' = type /\ locals' = locals /\ paths' = {}
  BY DEF Break, Continue
<1>9. Fills
  BY <1>8, FilledFills
<1>10. NestInv'
  BY <1>7, <1>8, <1>9, NestFills
<1>11. Typed'
  BY <1>5, <1>8, <1>9 DEF Typed, Fills, Frames
<1> QED
  BY <1>3, <1>5, <1>7, <1>9, <1>10, <1>11 DEF B, C

LEMMA OpenSteps ==
    ASSUME Typed, NestInv
    PROVE  /\ BeginBlock => Typed' /\ NestInv' /\ Opens("block", {})
           /\ BeginIf => Typed' /\ NestInv' /\ Opens("then", paths)
           /\ BeginSwitch => Typed' /\ NestInv' /\ Opens("switch", {})
           /\ Case => Typed' /\ NestInv' /\ Opens("case", paths)
           /\ Default => Typed' /\ NestInv' /\ Opens("default", {})
<1>1. /\ "block" \in Kinds /\ "then" \in Kinds /\ "switch" \in Kinds /\ "case" \in Kinds
      /\ "default" \in Kinds
  BY DEF Kinds, OneStat, Scoped, Holders
<1>2. /\ "block" \notin LoopKinds /\ "then" \notin LoopKinds /\ "switch" \notin LoopKinds
      /\ "case" \notin LoopKinds /\ "default" \notin LoopKinds
      /\ "block" \notin Structs /\ "then" \notin Structs /\ "switch" \notin Structs
      /\ "case" \notin Structs /\ "default" \notin Structs
      /\ "block" \in Scoped /\ "then" \notin Scoped /\ "switch" \notin Scoped
      /\ "case" \notin Scoped /\ "default" \notin Scoped
  BY DEF LoopKinds, Structs, Scoped
<1>3. {} \in Frames /\ paths \in Frames /\ scope \in Nat
  BY ScopeIsNat DEF Frames, Typed
<1>4. AtStat => Here \notin Structs
  BY Places
<1>5. ASSUME BeginBlock PROVE Typed' /\ NestInv' /\ Opens("block", {})
  <2>1. Opens("block", {}) /\ LoopOpens("block")
    BY <1>1, <1>2, <1>3, <1>5, OpenOpens DEF BeginBlock, LoopOpens
  <2>2. NestInv'
    BY <1>1, <1>2, <1>4, <1>5, <2>1, NestOpens DEF BeginBlock
  <2> QED
    BY <1>5, <2>1, <2>2 DEF BeginBlock, Typed, Opens
<1>6. ASSUME BeginIf PROVE Typed' /\ NestInv' /\ Opens("then", paths)
  <2>1. Opens("then", paths) /\ LoopOpens("then")
    BY <1>1, <1>2, <1>3, <1>6, OpenOpens DEF BeginIf, LoopOpens
  <2>2. scope' = scope + 0
    BY <1>3, <1>6 DEF BeginIf
  <2>3. NestInv'
    BY <1>1, <1>2, <1>4, <1>6, <2>1, <2>2, NestOpens DEF BeginIf
  <2> QED
    BY <1>6, <2>1, <2>3 DEF BeginIf, Typed, Opens
<1>7. ASSUME BeginSwitch PROVE Typed' /\ NestInv' /\ Opens("switch", {})
  <2>1. Opens("switch", {}) /\ LoopOpens("switch")
    BY <1>1, <1>2, <1>3, <1>7, OpenOpens DEF BeginSwitch, LoopOpens
  <2>2. scope' = scope + 0
    BY <1>3, <1>7 DEF BeginSwitch
  <2>3. NestInv'
    BY <1>1, <1>2, <1>4, <1>7, <2>1, <2>2, NestOpens DEF BeginSwitch
  <2>4. paths' \in Frames
    BY <1>7, FramesMove DEF BeginSwitch, Temp
  <2> QED
    BY <1>7, <2>1, <2>3, <2>4 DEF BeginSwitch, Typed, Opens
<1>8. ASSUME Case PROVE Typed' /\ NestInv' /\ Opens("case", paths)
  <2>1. Opens("case", paths)
    BY <1>1, <1>3, <1>8, AppendOpens DEF Case
  <2>2. LoopOpens("case") /\ Here = "switch"
    BY <1>2, <1>8 DEF Case, LoopOpens, Inside
  <2>3. scope' = scope + 0
    BY <1>3, <1>8 DEF Case
  <2>4. NestInv'
    BY <1>1, <1>2, <2>1, <2>2, <2>3, NestOpens
  <2> QED
    BY <1>8, <2>1, <2>4 DEF Case, Typed, Opens
<1>9. ASSUME Default PROVE Typed' /\ NestInv' /\ Opens("default", {})
  <2>1. Opens("default", {}) /\ LoopOpens("default")
    BY <1>1, <1>2, <1>3, <1>9, OpenOpens DEF Default, LoopOpens
  <2>2. scope' = scope + 0 /\ Here = "switch"
    BY <1>3, <1>9 DEF Default, Inside
  <2>3. NestInv'
    BY <1>1, <1>2, <2>1, <2>2, NestOpens
  <2> QED
    BY <1>9, <2>1, <2>3 DEF Default, Typed, Opens
<1> QED
  BY <1>5, <1>6, <1>7, <1>8, <1>9

LEMMA StructSteps ==
    ASSUME Typed, NestInv, NEW static \in BOOLEAN, NEW global \in BOOLEAN,
           BeginStruct(static, global)
    PROVE  /\ Typed' /\ NestInv'
           /\ Opens(IF static THEN "static struct" ELSE "struct", {})
<1> DEFINE kind == IF static THEN "static struct" ELSE "struct"
<1>1. kind \in Kinds /\ kind \notin LoopKinds /\ kind # "case" /\ kind \notin Scoped
  BY DEF Kinds, Holders, Structs, LoopKinds, Scoped
<1>2. {} \in Frames /\ scope \in Nat /\ Temp \in Int /\ nest = <<>> /\ Here \notin Structs
  <2>1. AtTop
    BY DEF BeginStruct
  <2>2. nest = <<>> /\ Here \notin Structs
    BY <2>1, Places
  <2> QED
    BY <2>2, ScopeIsNat DEF Frames, Temp
<1>3. Opens(kind, {})
  <2>1. Open(kind, {})
    BY DEF BeginStruct
  <2> HIDE DEF kind
  <2> QED
    BY <1>1, <1>2, <2>1, OpenOpens
<1>4. scope' = scope + 0 /\ type' = type /\ loops' = loops
  <2>1. UNCHANGED <<type, scope, loops>>
    BY DEF BeginStruct
  <2> QED
    BY <1>2, <2>1
<1>5. LoopOpens(kind)
  BY <1>1, <1>4 DEF LoopOpens
<1>6. NestInv'
  <2> HIDE DEF kind
  <2> QED
    BY <1>1, <1>2, <1>3, <1>4, <1>5, NestOpens
<1>7. locals' \in Seq(LocalRecords) /\ paths' \in Frames
  <2>1. CASE global
    BY <1>2, <2>1, FramesMove DEF BeginStruct, Typed
  <2>2. CASE ~global
    <3>1. SetMin(FreeIds) \in Int
      BY <2>2, FreshId DEF BeginStruct
    <3>2. locals' \in Seq(LocalRecords)
      BY <2>2, <3>1, LocalsMove DEF BeginStruct
    <3>3. \A s \in paths : s \o <<SetMin(FreeIds), Temp>> \in Seq(Int)
      <4>1. <<SetMin(FreeIds), Temp>> \in Seq(Int)
        BY <1>2, <3>1
      <4>2. \A s \in paths : s \in Seq(Int)
        BY DEF Typed, Frames
      <4> QED
        BY <4>1, <4>2
    <3>4. paths' = {s \o <<SetMin(FreeIds), Temp>> : s \in paths}
      BY <2>2 DEF BeginStruct
    <3> QED
      BY <3>2, <3>3, <3>4 DEF Frames
  <2> QED
    BY <2>1, <2>2
<1> QED
  BY <1>3, <1>4, <1>6, <1>7 DEF Typed, Opens

LEMMA LoopAppended ==
    ASSUME Typed, NEW kind \in LoopKinds, NEW d \in Nat, NEW start \in Frames,
           loops' = Append(loops, Loop(kind, d, start)), scope' = d
    PROVE  /\ loops' \in Seq(LoopRecords) /\ LoopOpens(kind)
           /\ Len(loops') = Len(loops) + 1
           /\ loops'[Len(loops) + 1] = Loop(kind, d, start)
<1> DEFINE p == Loop(kind, d, start)
<1>1. p \in LoopRecords
  BY EntryFields DEF Loop, LoopRecords, Frames, Typed
<1>2. p.kind = kind /\ p.scope = d /\ p.at = Len(nest) + 1
  BY DEF Loop
<1>3. loops \in Seq(LoopRecords) /\ loops' = Append(loops, p)
  BY DEF Typed
<1> HIDE DEF p
<1>4. /\ Append(loops, p) \in Seq(LoopRecords) /\ Len(Append(loops, p)) = Len(loops) + 1
      /\ \A l \in 1 .. Len(loops) : Append(loops, p)[l] = loops[l]
      /\ Append(loops, p)[Len(loops) + 1] = p
  BY <1>1, <1>3
<1> QED
  BY <1>2, <1>3, <1>4 DEF LoopOpens, p

LEMMA LoopSteps ==
    ASSUME Typed, NestInv
    PROVE  /\ BeginLoop => /\ Typed' /\ NestInv' /\ Opens("loop", {})
                           /\ Len(loops') = Len(loops) + 1
                           /\ loops'[Len(loops) + 1] = Loop("loop", scope, paths)
                           /\ LoopOpens("loop")
           /\ BeginWhile => /\ Typed' /\ NestInv' /\ Opens("while", paths)
                            /\ Len(loops') = Len(loops) + 1
                            /\ loops'[Len(loops) + 1] = Loop("while", scope, paths)
                            /\ LoopOpens("while")
<1>1. /\ "loop" \in Kinds /\ "while" \in Kinds /\ "loop" \in LoopKinds /\ "while" \in LoopKinds
      /\ "loop" \notin Structs /\ "while" \notin Structs
      /\ "loop" \notin Scoped /\ "while" \notin Scoped
  BY DEF Kinds, OneStat, LoopKinds, Structs, Scoped
<1>2. {} \in Frames /\ paths \in Frames /\ scope \in Nat /\ (AtStat => Here \notin Structs)
  BY ScopeIsNat, Places DEF Frames, Typed
<1>3. ASSUME BeginLoop
      PROVE  /\ Typed' /\ NestInv' /\ Opens("loop", {})
             /\ Len(loops') = Len(loops) + 1
             /\ loops'[Len(loops) + 1] = Loop("loop", scope, paths)
             /\ LoopOpens("loop")
  <2>1. Opens("loop", {})
    BY <1>1, <1>2, <1>3, OpenOpens DEF BeginLoop
  <2>2. scope' = scope + 0 /\ scope' = scope
    BY <1>2, <1>3 DEF BeginLoop
  <2>3. /\ loops' \in Seq(LoopRecords) /\ LoopOpens("loop")
        /\ Len(loops') = Len(loops) + 1
        /\ loops'[Len(loops) + 1] = Loop("loop", scope, paths)
    BY <1>1, <1>2, <1>3, <2>2, LoopAppended DEF BeginLoop
  <2>4. NestInv'
    BY <1>1, <1>2, <1>3, <2>1, <2>2, <2>3, NestOpens DEF BeginLoop
  <2> QED
    BY <1>3, <2>1, <2>3, <2>4 DEF BeginLoop, Typed, Opens
<1>4. ASSUME BeginWhile
      PROVE  /\ Typed' /\ NestInv' /\ Opens("while", paths)
             /\ Len(loops') = Len(loops) + 1
             /\ loops'[Len(loops) + 1] = Loop("while", scope, paths)
             /\ LoopOpens("while")
  <2>1. Opens("while", paths)
    BY <1>1, <1>2, <1>4, OpenOpens DEF BeginWhile
  <2>2. scope' = scope + 0 /\ scope' = scope
    BY <1>2, <1>4 DEF BeginWhile
  <2>3. /\ loops' \in Seq(LoopRecords) /\ LoopOpens("while")
        /\ Len(loops') = Len(loops) + 1
        /\ loops'[Len(loops) + 1] = Loop("while", scope, paths)
    BY <1>1, <1>2, <1>4, <2>2, LoopAppended DEF BeginWhile
  <2>4. NestInv'
    BY <1>1, <1>2, <1>4, <2>1, <2>2, <2>3, NestOpens DEF BeginWhile
  <2> QED
    BY <1>4, <2>1, <2>3, <2>4 DEF BeginWhile, Typed, Opens
<1> QED
  BY <1>3, <1>4

LEMMA ForSteps ==
    ASSUME Typed, NestInv, NEW declares \in BOOLEAN, NEW cond \in BOOLEAN,
           BeginFor(declares, cond)
    PROVE  /\ Typed' /\ NestInv'
           /\ Opens("for", IF cond THEN paths' ELSE {})
           /\ Len(loops') = Len(loops) + 1
           /\ loops'[Len(loops) + 1] = Loop("for", scope + 1, paths')
           /\ LoopOpens("for")
<1>1. /\ "for" \in Kinds /\ "for" \in LoopKinds /\ "for" \notin Structs /\ "for" \in Scoped
      /\ "for" # "case"
  BY DEF Kinds, OneStat, LoopKinds, Structs, Scoped
<1>2. scope \in Nat /\ scope + 1 \in Nat /\ scope' = scope + 1 /\ Here \notin Structs
  BY ScopeIsNat, Places DEF BeginFor
<1>3. locals' \in Seq(LocalRecords) /\ paths' \in Frames
  <2>1. CASE declares
    BY <1>2, <2>1, DeclareTyped DEF BeginFor
  <2>2. CASE ~declares
    BY <2>2 DEF BeginFor, Typed
  <2> QED
    BY <2>1, <2>2
<1> DEFINE jumps == IF cond THEN paths' ELSE {}
<1>4. jumps \in Frames
  BY <1>3 DEF Frames
<1>5. Open("for", jumps)
  BY DEF BeginFor
<1>6. Opens("for", jumps)
  <2> HIDE DEF jumps
  <2> QED
    BY <1>1, <1>4, <1>5, OpenOpens
<1>7. loops' = Append(loops, Loop("for", scope + 1, paths'))
  BY DEF BeginFor
<1>8. /\ loops' \in Seq(LoopRecords) /\ LoopOpens("for")
      /\ Len(loops') = Len(loops) + 1
      /\ loops'[Len(loops) + 1] = Loop("for", scope + 1, paths')
  BY <1>1, <1>2, <1>3, <1>7, LoopAppended
<1>9. NestInv'
  <2> HIDE DEF jumps
  <2> QED
    BY <1>1, <1>2, <1>6, <1>8, NestOpens
<1> QED
  BY <1>3, <1>6, <1>8, <1>9 DEF BeginFor, Typed, Opens

\* What a step that closes leaves behind, except for the jumps of an ended case.
LEMMA CloseSteps ==
    ASSUME Typed, NestInv
    PROVE  /\ EndBlock => Typed' /\ NestInv' /\ Closes /\ Here = "block"
           /\ EndIf => Typed' /\ NestInv' /\ Closes /\ Here = "else"
           /\ EndDefault => Typed' /\ NestInv' /\ Closes /\ Here = "default"
           /\ EndSwitch => Typed' /\ NestInv' /\ Closes /\ Here = "switch"
           /\ EndStruct => Typed' /\ NestInv' /\ Closes /\ Here \in Structs
<1>1. /\ "block" \in Kinds /\ "else" \in Kinds /\ "default" \in Kinds /\ "switch" \in Kinds
      /\ \A kind \in Structs : kind \in Kinds /\ kind \notin Scoped /\ kind \notin LoopKinds
  BY DEF Kinds, OneStat, Scoped, Holders, Structs, LoopKinds
<1>2. /\ "block" \notin LoopKinds /\ "else" \notin LoopKinds /\ "default" \notin LoopKinds
      /\ "switch" \notin LoopKinds
      /\ "block" \in Scoped /\ "else" \notin Scoped /\ "default" \notin Scoped
      /\ "switch" \notin Scoped
  BY DEF LoopKinds, Scoped
<1>3. scope \in Nat /\ paths \in Frames
  BY ScopeIsNat DEF Typed
<1>4. \A kind \in Kinds : Here = kind => nest[Len(nest)].jumps \in Frames
                                          /\ Last(nest) = nest[Len(nest)]
  BY Insides
<1>5. ASSUME EndBlock PROVE Typed' /\ NestInv' /\ Closes /\ Here = "block"
  <2>1. Here = "block" /\ Closes
    BY <1>1, <1>5, CloseCloses DEF EndBlock, Inside
  <2>2. LoopCloses("block") /\ scope' = scope - (IF "block" \in Scoped THEN 1 ELSE 0)
    BY <1>2, <1>5 DEF EndBlock, LoopCloses, EndScope
  <2>3. NestInv'
    <3> DEFINE kind == "block"
    <3>1. kind \in Kinds /\ Here = kind /\ LoopCloses(kind)
      BY <1>1, <2>1, <2>2
    <3>2. scope' = scope - (IF kind \in Scoped THEN 1 ELSE 0)
      BY <2>2
    <3> HIDE DEF kind
    <3> QED
      BY <2>1, <3>1, <3>2, ClosesNest
  <2>4. locals' \in Seq(LocalRecords) /\ paths' \in Frames
    <3>1. Discarded(scope - 1) \in Nat
      BY <1>3, DiscardedUp
    <3>2. Drop(locals, Discarded(scope - 1)) \in Seq(LocalRecords)
      BY <1>3, LocalsMove
    <3>3. Popped(paths, Discarded(scope - 1)) \in Frames
      BY <1>3, <3>1, FramesMove
    <3> QED
      BY <1>5, <3>2, <3>3 DEF EndBlock, EndScope
  <2> QED
    BY <1>5, <2>1, <2>3, <2>4 DEF EndBlock, Typed, Closes
<1>6. ASSUME EndIf PROVE Typed' /\ NestInv' /\ Closes /\ Here = "else"
  <2>1. Here = "else" /\ Closes
    BY <1>1, <1>6, CloseCloses DEF EndIf, Done
  <2>2. LoopCloses("else") /\ scope' = scope - 0
    BY <1>2, <1>3, <1>6 DEF EndIf, LoopCloses
  <2>3. NestInv'
    BY <1>1, <1>2, <2>1, <2>2, ClosesNest
  <2>4. paths' \in Frames
    BY <1>1, <1>3, <1>4, <1>6, <2>1 DEF EndIf, Frames
  <2> QED
    BY <1>6, <2>1, <2>3, <2>4 DEF EndIf, Typed, Closes
<1>7. ASSUME EndDefault PROVE Typed' /\ NestInv' /\ Closes /\ Here = "default"
  <2>1. Here = "default" /\ Closes
    BY <1>7, EndDefaultCloses DEF EndDefault, Done
  <2>2. LoopCloses("default") /\ scope' = scope - 0
    BY <1>2, <1>3, <1>7 DEF EndDefault, LoopCloses
  <2>3. NestInv'
    BY <1>1, <1>2, <2>1, <2>2, ClosesNest
  <2> QED
    BY <1>7, <2>1, <2>3 DEF EndDefault, Typed, Closes
<1>8. ASSUME EndSwitch PROVE Typed' /\ NestInv' /\ Closes /\ Here = "switch"
  <2>1. Here = "switch" /\ Closes
    BY <1>1, <1>8, CloseCloses DEF EndSwitch, Inside
  <2>2. LoopCloses("switch") /\ scope' = scope - 0
    BY <1>2, <1>3, <1>8 DEF EndSwitch, LoopCloses
  <2>3. NestInv'
    BY <1>1, <1>2, <2>1, <2>2, ClosesNest
  <2>4. paths' \in Frames
    <3>1. paths \union Last(nest).jumps \in Frames
      BY <1>1, <1>3, <1>4, <2>1 DEF Frames
    <3> QED
      BY <1>8, <3>1, FramesMove DEF EndSwitch
  <2> QED
    BY <1>8, <2>1, <2>3, <2>4 DEF EndSwitch, Typed, Closes
<1>9. ASSUME EndStruct PROVE Typed' /\ NestInv' /\ Closes /\ Here \in Structs
  <2>1. Here \in Structs /\ Here \in Kinds
    BY <1>1, <1>9 DEF EndStruct, Inside, Structs
  <2>2. PICK kind \in Structs : Here = kind
    BY <2>1
  <2>3. Closes
    BY <1>1, <1>9, <2>2, CloseCloses DEF EndStruct
  <2>4. LoopCloses(kind) /\ scope' = scope - 0
    <3>1. loops' = loops /\ scope' = scope
      BY <1>9 DEF EndStruct
    <3> QED
      BY <1>1, <1>3, <2>2, <3>1 DEF LoopCloses
  <2>5. NestInv'
    BY <1>1, <2>2, <2>3, <2>4, ClosesNest
  <2>6. paths' \in Frames
    BY <1>3, <1>9, FramesMove DEF EndStruct
  <2> QED
    BY <1>9, <2>1, <2>3, <2>5, <2>6 DEF EndStruct, Typed, Closes
<1> QED
  BY <1>5, <1>6, <1>7, <1>8, <1>9

LEMMA ElseSteps ==
    ASSUME Typed, NestInv, Else
    PROVE  Typed' /\ NestInv' /\ Replaces("else", paths) /\ Here = "then"
<1>1. Replaces("else", paths) /\ Here = "then"
  BY ElseReplaces DEF Else, Done
<1>2. NestInv'
  BY <1>1, NestReplaces DEF Else
<1>3. paths' \in Frames
  <2>1. "then" \in Kinds
    BY DEF Kinds, OneStat
  <2> QED
    BY <1>1, <2>1, Insides DEF Else
<1> QED
  BY <1>1, <1>2, <1>3 DEF Else, Typed, Replaces

LEMMA CaseSteps ==
    ASSUME Typed, NestInv, EndCase
    PROVE  /\ Typed' /\ NestInv' /\ Merges(paths) /\ Here = "case"
           /\ nest[Len(nest) - 1].kind = "switch"
<1>1. Here = "case" /\ "case" \in Kinds /\ "case" \notin LoopKinds /\ "case" \notin Scoped
  BY DEF EndCase, Done, Kinds, OneStat, LoopKinds, Scoped
<1>2. /\ Len(nest) \in Nat /\ Len(nest) \in 1 .. Len(nest) /\ nest[Len(nest)].kind = "case"
      /\ Last(nest).jumps \in Frames
  BY <1>1, Insides
<1>3. Len(nest) > 1 /\ nest[Len(nest) - 1].kind = "switch"
  BY <1>2 DEF NestInv
<1>4. Merges(paths)
  BY <1>3, EndCaseMerges
<1>5. LoopCloses("case") /\ scope' = scope - 0
  BY <1>1, ScopeIsNat DEF EndCase, LoopCloses
<1>6. NestInv'
  BY <1>1, <1>4, <1>5, NestCloses DEF Merges
<1> QED
  BY <1>1, <1>2, <1>3, <1>4, <1>6 DEF EndCase, Typed, Merges

LEMMA EndLoopSteps ==
    ASSUME Typed, NestInv, EndLoop \/ EndFor
    PROVE  /\ Typed' /\ NestInv' /\ Closes
           /\ Here \in LoopKinds /\ (EndFor => Here = "for") /\ (EndLoop => Here # "for")
           /\ Len(loops) \in 1 .. Len(loops) /\ Len(loops) \in Nat
           /\ Len(loops') = Len(loops) - 1
           /\ \A l \in 1 .. Len(loops) - 1 : /\ loops'[l] = loops[l] /\ l \in 1 .. Len(loops)
                                             /\ loops[l].at \in 1 .. Len(nest) - 1
<1>1. PICK kind \in LoopKinds : Here = kind /\ (EndFor => kind = "for") /\ (EndLoop => kind # "for")
  BY DEF EndLoop, EndFor, Done, LoopKinds
<1>2. kind \in Kinds /\ (kind \in Scoped <=> kind = "for")
  BY DEF Kinds, OneStat, LoopKinds, Scoped
<1>3. /\ Len(loops) \in 1 .. Len(loops) /\ Len(loops) \in Nat
      /\ Last(loops) = loops[Len(loops)]
      /\ \A l \in 1 .. Len(loops) - 1 : loops[l].at \in 1 .. Len(nest) - 1
  BY <1>1, LastLoop
<1>4. scope \in Nat /\ paths \in Frames /\ Last(nest).jumps \in Frames
  BY <1>1, <1>2, ScopeIsNat, Insides DEF Typed
<1>5. loops' = Front(loops) /\ Close
  BY DEF EndLoop, EndFor
<1>6. Closes
  BY <1>1, <1>2, <1>5, CloseCloses
<1>7. LoopCloses(kind)
  BY <1>5 DEF LoopCloses
<1>8. scope' = scope - (IF kind \in Scoped THEN 1 ELSE 0)
  BY <1>1, <1>2, <1>4 DEF EndLoop, EndFor
<1>9. NestInv'
  BY <1>1, <1>2, <1>6, <1>7, <1>8, ClosesNest
<1>10. /\ loops' \in Seq(LoopRecords) /\ Len(loops') = Len(loops) - 1
       /\ \A l \in 1 .. Len(loops) - 1 : loops'[l] = loops[l]
  <2>1. loops \in Seq(LoopRecords) /\ Len(loops) > 0
    BY <1>3 DEF Typed
  <2> QED
    BY <1>5, <2>1, WithoutLast
<1>11. locals' \in Seq(LocalRecords) /\ paths' \in Frames
  <2>1. Last(loops).breaks \in Frames
    BY <1>3, LoopFields DEF Typed
  <2>2. CASE EndLoop
    <3>1. locals' = locals /\ paths' = Last(nest).jumps \union Last(loops).breaks
      BY <2>2 DEF EndLoop
    <3>2. Last(nest).jumps \union Last(loops).breaks \in Frames
      BY <1>4, <2>1 DEF Frames
    <3> QED
      BY <3>1, <3>2 DEF Typed
  <2>3. CASE EndFor
    <3>1. Discarded(scope - 1) \in Nat
      BY <1>4, DiscardedUp
    <3>2. Drop(locals, Discarded(scope - 1)) \in Seq(LocalRecords)
      BY <1>4, LocalsMove
    <3>3. Popped(Last(nest).jumps, Discarded(scope - 1)) \in Frames
      BY <1>4, <3>1, FramesMove
    <3> QED
      BY <2>1, <2>3, <3>2, <3>3 DEF EndFor, Frames
  <2> QED
    BY <2>2, <2>3
<1>12. type' = type
  BY DEF EndLoop, EndFor
<1>13. Typed'
  BY <1>6, <1>10, <1>11, <1>12 DEF Typed, Closes
<1>14. \A l \in 1 .. Len(loops) - 1 : l \in 1 .. Len(loops)
  BY <1>3
<1> QED
  BY <1>1, <1>3, <1>6, <1>9, <1>10, <1>13, <1>14

LEMMA TypedStep == ASSUME Typed, NestInv, [Next]_vars PROVE Typed' /\ NestInv'
<1>1. CASE UNCHANGED vars
  <2>1. Typed'
    BY <1>1 DEF vars, Typed
  <2>2. Fills /\ SameLoops
    BY <1>1, FilledFills DEF vars, SameLoops
  <2>3. NestInv'
    BY <1>1, <2>2, NestFills DEF vars
  <2> QED
    BY <2>1, <2>3
<1>2. CASE VarDecl \/ Function \/ Method \/ Return \/ Member \/ \E global \in BOOLEAN : EnumDecl(global)
  BY <1>2, FillSteps
<1>3. CASE \E l \in 1 .. Len(loops) : Break(l) \/ Continue(l)
  BY <1>3, JumpSteps
<1>4. CASE BeginBlock \/ BeginIf \/ BeginSwitch \/ Case \/ Default
  BY <1>4, OpenSteps
<1>5. CASE BeginLoop \/ BeginWhile
  BY <1>5, LoopSteps
<1>6. CASE \E declares, cond \in BOOLEAN : BeginFor(declares, cond)
  BY <1>6, ForSteps
<1>7. CASE \E static, global \in BOOLEAN : BeginStruct(static, global)
  BY <1>7, StructSteps
<1>8. CASE EndBlock \/ EndIf \/ EndDefault \/ EndSwitch \/ EndStruct
  BY <1>8, CloseSteps
<1>9. CASE Else \/ EndCase \/ EndLoop \/ EndFor
  BY <1>9, ElseSteps, CaseSteps, EndLoopSteps
<1> QED
  BY <1>1, <1>2, <1>3, <1>4, <1>5, <1>6, <1>7, <1>8, <1>9 DEF Next

LEMMA TypedInit == Init => Typed /\ NestInv
<1> SUFFICES ASSUME Init PROVE Typed /\ NestInv
  OBVIOUS
<1>1. <<Callee>> \in Seq(Int) /\ Local(Callee, 0) \in LocalRecords
  BY DEF Callee, Local, LocalRecords
<1>2. Typed
  BY <1>1 DEF Init, Typed, Frames
<1>3. Len(nest) = 0 /\ Len(loops) = 0 /\ scope = 0
  BY DEF Init
<1>4. Depth(nest, 0) = 0
  BY DepthsAre
<1>5. NestInv
  BY <1>3, <1>4 DEF NestInv
<1> QED
  BY <1>2, <1>5

\* Whatever a program contains, every loop belongs to one construct of its
\* kind, and the scope count is the number of scopes that are open.
THEOREM TypeCorrect == Spec => [](Typed /\ NestInv)
<1>1. Init => Typed /\ NestInv
  BY TypedInit
<1>2. Typed /\ NestInv /\ [Next]_vars => (Typed /\ NestInv)'
  BY TypedStep
<1> QED
  BY <1>1, <1>2, PTL DEF Spec

-----------------------------------------------------------------------------
(* Locals and their scopes, where no function marks a local of another.      *)

DepthInv ==
    /\ locals # <<>> /\ locals[1].id = Callee /\ locals[1].depth = 0
    /\ \A i \in 1 .. Len(locals) : locals[i].depth = locals[i].home
    /\ Within(locals, scope)
    /\ Rising(locals)

LEMMA MarkedSame ==
    ASSUME Typed, Last(locals).depth = scope, locals # <<>>
    PROVE  Marked = locals
<1> DEFINE L == Len(locals)
           r == [locals[L] EXCEPT !.depth = scope]
<1>1. locals \in Seq(LocalRecords) /\ L \in Nat /\ L \in 1 .. L
  BY DEF Typed
<1>2. locals[L] \in LocalRecords
  BY <1>1
<1>3. r = locals[L]
  BY <1>2 DEF Last, LocalRecords
<1>4. Marked = [locals EXCEPT ![L] = r]
  BY DEF Marked
<1> HIDE DEF r
<1> QED
  BY <1>1, <1>3, <1>4

LEMMA LocalsSame ==
    ASSUME "function" \notin Quirks, Typed,
           \/ Function \/ Method \/ Return \/ Member \/ BeginBlock \/ BeginIf \/ BeginSwitch
           \/ Case \/ Default \/ EndIf \/ EndDefault \/ EndSwitch \/ EndStruct \/ Else
           \/ EndCase \/ BeginLoop \/ BeginWhile \/ EndLoop
           \/ \E l \in 1 .. Len(loops) : Break(l) \/ Continue(l)
           \/ UNCHANGED vars
    PROVE  locals' = locals
<1>1. ASSUME Function \/ Method PROVE locals' = locals
  <2>1. locals' = Marked /\ locals # <<>> /\ Last(locals).depth = scope
    BY <1>1 DEF Function, Method, MarkFits
  <2> QED
    BY <2>1, MarkedSame
<1>2. ASSUME \/ Return \/ Member \/ BeginBlock \/ BeginIf \/ BeginSwitch \/ Case \/ Default
             \/ EndIf \/ EndDefault
      PROVE  locals' = locals
  BY <1>2 DEF Return, Member, BeginBlock, BeginIf, BeginSwitch, Case, Default, EndIf, EndDefault
<1>3. ASSUME EndSwitch \/ EndStruct \/ Else \/ EndCase \/ BeginLoop \/ BeginWhile \/ EndLoop
      PROVE  locals' = locals
  BY <1>3 DEF EndSwitch, EndStruct, Else, EndCase, BeginLoop, BeginWhile, EndLoop
<1>4. ASSUME \/ \E l \in 1 .. Len(loops) : Break(l) \/ Continue(l)
             \/ UNCHANGED vars
      PROVE  locals' = locals
  BY <1>4 DEF Break, Continue, vars
<1> QED
  BY <1>1, <1>2, <1>3, <1>4

LEMMA ScopeGrows ==
    ASSUME Typed, NestInv,
           \/ Function \/ Method \/ Return \/ Member \/ BeginBlock \/ BeginIf \/ BeginSwitch
           \/ Case \/ Default \/ EndIf \/ EndDefault \/ EndSwitch \/ EndStruct \/ Else
           \/ EndCase \/ BeginLoop \/ BeginWhile \/ EndLoop
           \/ \E l \in 1 .. Len(loops) : Break(l) \/ Continue(l)
           \/ UNCHANGED vars
    PROVE  scope' \in Nat /\ scope <= scope'
<1>1. scope \in Nat
  BY ScopeIsNat
<1>2. ASSUME \/ Function \/ Method \/ Return \/ Member \/ BeginIf \/ BeginSwitch \/ Case
             \/ Default \/ EndIf \/ EndDefault
      PROVE  scope' = scope
  BY <1>2 DEF Function, Method, Return, Member, BeginIf, BeginSwitch, Case, Default, EndIf, EndDefault
<1>3. ASSUME EndSwitch \/ EndStruct \/ Else \/ EndCase \/ BeginLoop \/ BeginWhile \/ EndLoop
      PROVE  scope' = scope
  BY <1>3 DEF EndSwitch, EndStruct, Else, EndCase, BeginLoop, BeginWhile, EndLoop
<1>4. ASSUME \/ \E l \in 1 .. Len(loops) : Break(l) \/ Continue(l)
             \/ UNCHANGED vars
      PROVE  scope' = scope
  BY <1>4 DEF Break, Continue, vars
<1>5. BeginBlock => scope' = scope + 1
  BY DEF BeginBlock
<1> QED
  BY <1>1, <1>2, <1>3, <1>4, <1>5

LEMMA DepthSame ==
    ASSUME Typed, DepthInv, locals' = locals, scope \in Nat, scope' \in Nat, scope <= scope'
    PROVE  DepthInv'
<1>1. Within(locals, scope')
  BY LocalFields DEF Typed, DepthInv, Within
<1> QED
  BY <1>1 DEF DepthInv, Rising, Within

\* A local is declared in the innermost scope ...
LEMMA DepthDeclared ==
    ASSUME Typed, DepthInv, NEW id \in Int, scope \in Nat, scope' \in Nat, scope <= scope',
           locals' = Append(locals, Local(id, scope'))
    PROVE  DepthInv'
<1> DEFINE L == Len(locals)
           r == Local(id, scope')
<1>1. /\ L \in Nat /\ L \in 1 .. L /\ 1 \in 1 .. L
      /\ \A i \in 1 .. L : locals[i].depth \in Nat
  BY LocalFields DEF Typed, DepthInv
<1>2. r \in LocalRecords /\ r.depth = scope' /\ r.home = scope'
  BY DEF Local, LocalRecords
<1>3. /\ Len(locals') = L + 1
      /\ \A i \in 1 .. L : locals'[i] = locals[i]
      /\ locals'[L + 1] = r
  <2>1. locals \in Seq(LocalRecords) /\ locals' = Append(locals, r)
    BY DEF Typed
  <2> HIDE DEF r
  <2>2. /\ Len(Append(locals, r)) = L + 1
        /\ \A i \in 1 .. L : Append(locals, r)[i] = locals[i]
        /\ Append(locals, r)[L + 1] = r
    BY <1>2, <2>1
  <2> QED
    BY <2>1, <2>2
<1> HIDE DEF r, L
<1>4. \A i \in 1 .. L : locals[i].depth <= scope'
  BY <1>1 DEF DepthInv, Within, L
<1>5. \A i \in 1 .. Len(locals') : i \in 1 .. L \/ i = L + 1
  BY <1>1, <1>3
<1>6. Within(locals', scope')
  BY <1>2, <1>3, <1>4, <1>5 DEF Within
<1>7. \A i \in 1 .. Len(locals') : locals'[i].depth = locals'[i].home
  BY <1>2, <1>3, <1>5 DEF DepthInv, L
<1>8. Rising(locals')
  <2> SUFFICES ASSUME NEW i \in 1 .. Len(locals'), NEW j \in 1 .. Len(locals'), i < j
               PROVE  locals'[i].depth <= locals'[j].depth
    BY DEF Rising
  <2>1. i \in 1 .. L
    BY <1>1, <1>3
  <2>2. CASE j \in 1 .. L
    BY <1>3, <2>1, <2>2 DEF DepthInv, Rising, L
  <2>3. CASE j = L + 1
    BY <1>2, <1>3, <1>4, <2>1, <2>3
  <2> QED
    BY <1>5, <2>2, <2>3
<1>9. locals' # <<>> /\ locals'[1] = locals[1]
  BY <1>1, <1>3
<1> QED
  BY <1>6, <1>7, <1>8, <1>9 DEF DepthInv

\* ... and goes with it: the others stay, and none of them is of that scope.
LEMMA LocalsDropped ==
    ASSUME Typed, DepthInv, NEW d \in Nat, locals' = Drop(locals, Discarded(d))
    PROVE  /\ Len(locals') \in 1 .. Len(locals) /\ Len(locals) \in Nat
           /\ \A i \in 1 .. Len(locals') : locals'[i] = locals[i] /\ i \in 1 .. Len(locals)
           /\ \A i \in 1 .. Len(locals) : i <= Len(locals') <=> locals[i].depth <= d
<1>1. locals \in Seq(LocalRecords) /\ Len(locals) \in Nat /\ 1 \in 1 .. Len(locals)
  BY DEF Typed, DepthInv
<1>2. PICK m \in 0 .. Len(locals) :
              /\ Discarded(d) = Len(locals) - m
              /\ \A i \in 1 .. Len(locals) : i <= m <=> locals[i].depth <= d
  BY DiscardedIs DEF Typed, DepthInv
<1>3. m >= 1
  BY <1>1, <1>2 DEF DepthInv
<1>4. Discarded(d) \in Nat /\ Discarded(d) <= Len(locals) /\ Len(locals) - Discarded(d) = m
  BY <1>1, <1>2
<1>5. Len(locals') = m /\ \A i \in 1 .. m : locals'[i] = locals[i]
  BY <1>1, <1>4, Dropped
<1> QED
  BY <1>1, <1>2, <1>3, <1>5

LEMMA DepthDropped ==
    ASSUME Typed, DepthInv, scope' \in Nat, locals' = Drop(locals, Discarded(scope'))
    PROVE  DepthInv'
<1>1. /\ Len(locals') \in 1 .. Len(locals) /\ Len(locals) \in Nat
      /\ \A i \in 1 .. Len(locals') : locals'[i] = locals[i] /\ i \in 1 .. Len(locals)
      /\ \A i \in 1 .. Len(locals) : i <= Len(locals') <=> locals[i].depth <= scope'
  BY LocalsDropped
<1>2. locals' # <<>> /\ 1 \in 1 .. Len(locals')
  BY <1>1
<1>3. Within(locals', scope')
  BY <1>1 DEF Within
<1>4. Rising(locals')
  BY <1>1 DEF DepthInv, Rising
<1> QED
  BY <1>1, <1>2, <1>3, <1>4 DEF DepthInv

LEMMA Downwards ==
    ASSUME Typed, NestInv, EndBlock \/ EndFor
    PROVE  /\ scope - 1 \in Nat /\ scope' = scope - 1 /\ scope \in Nat
           /\ locals' = Drop(locals, Discarded(scope'))
<1>1. /\ scope' = scope - 1 /\ locals' = Drop(locals, Discarded(scope - 1))
      /\ (Here = "block" \/ Here = "for")
  BY DEF EndBlock, EndScope, EndFor, Inside, Done
<1>2. "block" \in Kinds /\ "for" \in Kinds /\ "block" \in Scoped /\ "for" \in Scoped
  BY DEF Kinds, Scoped
<1>3. PICK kind \in Kinds : Here = kind /\ kind \in Scoped
  BY <1>1, <1>2
<1>4. Len(nest) \in Nat \ {0} /\ nest[Len(nest)].kind = kind
  BY <1>3, Insides
<1> DEFINE N == Len(nest) - 1
<1>5. N \in Nat /\ Len(nest) = N + 1
  BY <1>4
<1>6. /\ Depth(nest, N) \in Nat
      /\ Depth(nest, N + 1) = Depth(nest, N) + (IF nest[N + 1].kind \in Scoped THEN 1 ELSE 0)
  BY <1>5, DepthsAre
<1>7. scope = Depth(nest, N) + 1
  BY <1>3, <1>4, <1>5, <1>6 DEF NestInv
<1> QED
  BY <1>1, <1>6, <1>7

\* At the top of a script no scope is open.
LEMMA TopScope == ASSUME Typed, NestInv, nest = <<>> PROVE scope = 0 /\ loops = <<>>
<1>1. Len(nest) = 0 /\ Depth(nest, 0) = 0
  BY DepthsAre
<1>2. scope = 0
  BY <1>1 DEF NestInv
<1>3. Len(loops) = 0
  <2>1. \A l \in 1 .. Len(loops) : loops[l].at \in 1 .. 0
    BY <1>1 DEF NestInv, LoopPlaced
  <2>2. Len(loops) \in Nat /\ (Len(loops) # 0 => Len(loops) \in 1 .. Len(loops))
    BY LoopFields DEF Typed
  <2> QED
    BY <2>1, <2>2
<1> QED
  BY <1>2, <1>3 DEF Typed

LEMMA DepthStep ==
    ASSUME "function" \notin Quirks, Typed, NestInv, DepthInv, [Next]_vars
    PROVE  DepthInv'
<1>1. scope \in Nat
  BY ScopeIsNat
<1>2. CASE \/ Function \/ Method \/ Return \/ Member \/ BeginBlock \/ BeginIf \/ BeginSwitch
           \/ Case \/ Default \/ EndIf \/ EndDefault \/ EndSwitch \/ EndStruct \/ Else
           \/ EndCase \/ BeginLoop \/ BeginWhile \/ EndLoop
           \/ \E l \in 1 .. Len(loops) : Break(l) \/ Continue(l)
           \/ UNCHANGED vars
  BY <1>1, <1>2, LocalsSame, ScopeGrows, DepthSame
<1>3. CASE EndBlock \/ EndFor
  BY <1>3, Downwards, DepthDropped
<1>4. ASSUME VarDecl PROVE DepthInv'
  BY <1>1, <1>4, FreshId, DepthDeclared DEF VarDecl, Declare
<1>5. ASSUME NEW declares \in BOOLEAN, NEW cond \in BOOLEAN, BeginFor(declares, cond)
      PROVE  DepthInv'
  <2>1. scope' = scope + 1 /\ scope' \in Nat /\ scope <= scope'
    BY <1>1, <1>5 DEF BeginFor
  <2>2. CASE declares
    <3>1. FreeIds # {} /\ locals' = Append(locals, Local(SetMin(FreeIds), scope'))
      BY <1>5, <2>1, <2>2 DEF BeginFor, Declare
    <3> QED
      BY <1>1, <2>1, <3>1, FreshId, DepthDeclared
  <2>3. CASE ~declares
    <3>1. locals' = locals
      BY <1>5, <2>3 DEF BeginFor
    <3> QED
      BY <1>1, <2>1, <3>1, DepthSame
  <2> QED
    BY <2>2, <2>3
<1>6. ASSUME NEW static \in BOOLEAN, NEW global \in BOOLEAN,
             BeginStruct(static, global) \/ EnumDecl(global)
      PROVE  DepthInv'
  <2>1. nest = <<>> /\ scope' = scope
    BY <1>6 DEF BeginStruct, EnumDecl, AtTop
  <2>2. scope' = 0 /\ scope <= scope'
    BY <2>1, TopScope
  <2>3. CASE global
    <3>1. locals' = locals
      BY <1>6, <2>3 DEF BeginStruct, EnumDecl
    <3> QED
      BY <1>1, <2>1, <2>2, <3>1, DepthSame
  <2>4. CASE ~global
    <3>1. FreeIds # {} /\ locals' = Append(locals, Local(SetMin(FreeIds), scope'))
      BY <1>6, <2>2, <2>4 DEF BeginStruct, EnumDecl
    <3> QED
      BY <1>1, <2>1, <2>2, <3>1, FreshId, DepthDeclared
  <2> QED
    BY <2>3, <2>4
<1> QED
  BY <1>2, <1>3, <1>4, <1>5, <1>6 DEF Next

LEMMA DepthInit == Init => DepthInv
<1> SUFFICES ASSUME Init PROVE DepthInv
  OBVIOUS
<1>1. /\ Len(locals) = 1 /\ locals # <<>> /\ scope = 0
      /\ locals[1].id = Callee /\ locals[1].depth = 0 /\ locals[1].home = 0
  BY DEF Init, Local
<1> QED
  BY <1>1 DEF DepthInv, Within, Rising

\* A local lives exactly as long as the block that declared it, unless a
\* function is compiled where the last local is of another scope.
THEOREM LocalsLive == ASSUME "function" \notin Quirks PROVE Spec => []ScopesKept
<1> DEFINE IInv == Typed /\ NestInv /\ DepthInv
<1>1. Init => IInv
  BY TypedInit, DepthInit
<1>2. IInv /\ [Next]_vars => IInv'
  BY TypedStep, DepthStep
<1>3. IInv => ScopesKept
  BY DEF DepthInv, ScopesKept, Within
<1> QED
  BY <1>1, <1>2, <1>3, PTL DEF Spec

-----------------------------------------------------------------------------
(* The frames control comes with, in a program without the constructs of     *)
(* Quirks: each has the one shape its place in the program has.              *)

JumpsFit(k, ls, n) == \A s \in n[k].jumps : IsFrame(s, ls, Depth(n, k), Held(n, k))

\* The breaks of a for come after the pops of its scope.
Outside(p) == IF p.kind = "for" THEN p.scope - 1 ELSE p.scope
LoopFits(p, ls, n) ==
    /\ \A s \in p.start \union p.back : IsFrame(s, ls, p.scope, Held(n, p.at))
    /\ \A s \in p.breaks : IsFrame(s, ls, Outside(p), Held(n, p.at))

ShapeInv ==
    /\ \A s \in paths : IsFrame(s, locals, scope, Held(nest, Len(nest)))
    /\ \A k \in 1 .. Len(nest) : JumpsFit(k, locals, nest)
    /\ \A k \in 1 .. Len(nest) : nest[k].kind = "block" => nest[k].jumps = {}
    /\ \A l \in 1 .. Len(loops) : LoopFits(loops[l], locals, nest)
    /\ \A k \in 1 .. Len(nest) : nest[k].kind \in Holders => Within(locals, Depth(nest, k))

Sound == Typed /\ NestInv /\ DepthInv /\ ShapeInv
Moved == Typed' /\ NestInv' /\ DepthInv'

\* The locals up to depth d stay; what comes and goes is deeper.
Stays(d) == \E m \in Nat : /\ m <= Len(locals) /\ m <= Len(locals')
                           /\ \A i \in 1 .. m : locals'[i] = locals[i]
                           /\ \A i \in m + 1 .. Len(locals) : locals[i].depth > d
                           /\ \A i \in m + 1 .. Len(locals') : locals'[i].depth > d

LEMMA FrameStays ==
    ASSUME Sound, Moved, NEW d \in Nat, Stays(d), NEW e \in Int, e <= d, NEW t \in Nat,
           NEW s, IsFrame(s, locals, e, t)
    PROVE  IsFrame(s, locals', e, t)
<1>1. PICK m \in Nat : /\ m <= Len(locals) /\ m <= Len(locals')
                       /\ \A i \in 1 .. m : locals'[i] = locals[i]
                       /\ \A i \in m + 1 .. Len(locals) : locals[i].depth > d
                       /\ \A i \in m + 1 .. Len(locals') : locals'[i].depth > d
  BY DEF Stays
<1>2. locals \in Seq(LocalRecords) /\ locals' \in Seq(LocalRecords)
  BY DEF Sound, Moved, Typed
<1>3. /\ Len(locals) \in Nat /\ \A i \in 1 .. Len(locals) : locals[i].depth \in Nat
      /\ Len(locals') \in Nat /\ \A i \in 1 .. Len(locals') : locals'[i].depth \in Nat
  BY <1>2, LocalFields
<1>4. \A i \in m + 1 .. Len(locals) : locals[i].depth > e
  <2>1. \A i \in m + 1 .. Len(locals) : i \in 1 .. Len(locals)
    BY <1>1, <1>3
  <2> QED
    BY <1>1, <1>3, <2>1
<1>5. \A i \in m + 1 .. Len(locals') : locals'[i].depth > e
  <2>1. \A i \in m + 1 .. Len(locals') : i \in 1 .. Len(locals')
    BY <1>1, <1>3
  <2> QED
    BY <1>1, <1>3, <2>1
<1> QED
  BY <1>1, <1>2, <1>4, <1>5, FrameKept

LEMMA StaysSame == ASSUME Sound, locals' = locals PROVE \A d \in Nat : Stays(d)
<1>1. Len(locals) \in Nat
  BY LocalFields DEF Sound, Typed
<1> QED
  BY <1>1 DEF Stays

LEMMA StaysDeclared ==
    ASSUME Sound, NEW id \in Int, NEW d \in Nat, locals' = Append(locals, Local(id, d + 1))
    PROVE  Stays(d)
<1> DEFINE r == Local(id, d + 1)
<1>1. locals \in Seq(LocalRecords) /\ r \in LocalRecords /\ r.depth > d
  BY DEF Sound, Typed, Local, LocalRecords
<1>2. /\ Len(locals') = Len(locals) + 1 /\ Len(locals) \in Nat
      /\ \A i \in 1 .. Len(locals) : locals'[i] = locals[i]
      /\ locals'[Len(locals) + 1] = r
  <2>1. locals' = Append(locals, r)
    OBVIOUS
  <2> HIDE DEF r
  <2>2. /\ Len(Append(locals, r)) = Len(locals) + 1 /\ Len(locals) \in Nat
        /\ \A i \in 1 .. Len(locals) : Append(locals, r)[i] = locals[i]
        /\ Append(locals, r)[Len(locals) + 1] = r
    BY <1>1
  <2> QED
    BY <2>1, <2>2
<1> HIDE DEF r
<1>3. \A i \in Len(locals) + 1 .. Len(locals') : locals'[i].depth > d
  BY <1>1, <1>2
<1>4. \A i \in Len(locals) + 1 .. Len(locals) : locals[i].depth > d
  BY <1>2
<1> QED
  BY <1>2, <1>3, <1>4 DEF Stays

LEMMA StaysDropped ==
    ASSUME Sound, NEW d \in Nat, locals' = Drop(locals, Discarded(d))
    PROVE  Stays(d)
<1>1. /\ Len(locals') \in 1 .. Len(locals) /\ Len(locals) \in Nat
      /\ \A i \in 1 .. Len(locals') : locals'[i] = locals[i] /\ i \in 1 .. Len(locals)
      /\ \A i \in 1 .. Len(locals) : i <= Len(locals') <=> locals[i].depth <= d
  BY LocalsDropped DEF Sound
<1>2. \A i \in 1 .. Len(locals) : locals[i].depth \in Nat
  BY LocalFields DEF Sound, Typed
<1>3. \A i \in Len(locals') + 1 .. Len(locals) : locals[i].depth > d
  <2>1. \A i \in Len(locals') + 1 .. Len(locals) : i \in 1 .. Len(locals) /\ ~(i <= Len(locals'))
    BY <1>1
  <2> QED
    BY <1>1, <1>2, <2>1
<1>4. \A i \in Len(locals') + 1 .. Len(locals') : locals'[i].depth > d
  BY <1>1
<1>5. Len(locals') \in Nat /\ Len(locals') <= Len(locals)
  BY <1>1
<1> QED
  BY <1>1, <1>3, <1>4, <1>5 DEF Stays

\* What a step leaves of the constructs and loops around it still fits.
LEMMA JumpsStay ==
    ASSUME Sound, Moved, NEW K \in Nat, K <= Len(nest), SameKinds(K),
           NEW d \in Nat, Stays(d), NEW k \in 1 .. K, nest'[k].jumps = nest[k].jumps,
           Depth(nest, k) <= d \/ nest[k].jumps = {}
    PROVE  JumpsFit(k, locals', nest')
<1>1. Depth(nest', k) = Depth(nest, k) /\ Held(nest', k) = Held(nest, k)
  BY DepthsSame
<1>2. Depth(nest, k) \in Nat /\ Held(nest, k) \in Nat
  BY DepthsAre
<1>3. k \in 1 .. Len(nest)
  BY EntryFields DEF Sound, Typed
<1>4. JumpsFit(k, locals, nest)
  BY <1>3 DEF Sound, ShapeInv
<1> SUFFICES ASSUME NEW s \in nest[k].jumps PROVE IsFrame(s, locals', Depth(nest, k), Held(nest, k))
  BY <1>1 DEF JumpsFit
<1>5. IsFrame(s, locals, Depth(nest, k), Held(nest, k))
  BY <1>4 DEF JumpsFit
<1>6. Depth(nest, k) <= d
  OBVIOUS
<1> QED
  BY <1>2, <1>5, <1>6, FrameStays

LEMMA LoopsStay ==
    ASSUME Sound, Moved, NEW K \in Nat, SameKinds(K),
           NEW d \in Nat, Stays(d), NEW l \in 1 .. Len(loops), loops[l].at \in 1 .. K,
           loops[l].scope <= d
    PROVE  LoopFits(loops[l], locals', nest')
<1> DEFINE p == loops[l]
<1>1. p.at \in Nat /\ p.scope \in Nat
  BY LoopFields DEF Sound, Typed
<1>2. Held(nest', p.at) = Held(nest, p.at)
  BY DepthsSame
<1>3. Held(nest, p.at) \in Nat
  BY <1>1, DepthsAre
<1>4. LoopFits(p, locals, nest)
  BY DEF Sound, ShapeInv
<1>5. Outside(p) \in Int /\ Outside(p) <= d
  BY <1>1 DEF Outside
<1> HIDE DEF p
<1>6. \A s \in p.start \union p.back : IsFrame(s, locals', p.scope, Held(nest', p.at))
  <2> SUFFICES ASSUME NEW s \in p.start \union p.back
               PROVE  IsFrame(s, locals', p.scope, Held(nest, p.at))
    BY <1>2
  <2>1. IsFrame(s, locals, p.scope, Held(nest, p.at))
    BY <1>4 DEF LoopFits
  <2>2. p.scope <= d
    BY DEF p
  <2> QED
    BY <1>1, <1>3, <2>1, <2>2, FrameStays
<1>7. \A s \in p.breaks : IsFrame(s, locals', Outside(p), Held(nest', p.at))
  <2> SUFFICES ASSUME NEW s \in p.breaks PROVE IsFrame(s, locals', Outside(p), Held(nest, p.at))
    BY <1>2
  <2>1. IsFrame(s, locals, Outside(p), Held(nest, p.at))
    BY <1>4 DEF LoopFits
  <2> QED
    BY <1>3, <1>5, <2>1, FrameStays
<1> QED
  BY <1>6, <1>7 DEF LoopFits, p

\* No place is deeper than the innermost one.
LEMMA Depths ==
    ASSUME Sound
    PROVE  /\ scope \in Nat /\ Len(nest) \in Nat
           /\ \A k \in 1 .. Len(nest) : Depth(nest, k) \in Nat /\ Depth(nest, k) <= scope
           /\ \A l \in 1 .. Len(loops) : loops[l].scope \in Nat /\ loops[l].scope <= scope
           /\ Held(nest, Len(nest)) \in Nat
<1>1. scope \in Nat /\ Len(nest) \in Nat /\ scope = Depth(nest, Len(nest))
  BY ScopeIsNat, EntryFields DEF Sound, Typed, NestInv
<1>2. \A k \in 0 .. Len(nest) : Depth(nest, k) \in Nat /\ Depth(nest, k) <= scope
  BY <1>1, DepthsAre
<1>3. \A l \in 1 .. Len(loops) : loops[l].scope \in Nat /\ loops[l].scope <= scope
  BY <1>1, <1>2, LoopFields DEF Sound, Typed, NestInv, LoopPlaced
<1>4. Held(nest, Len(nest)) \in Nat
  BY <1>1, DepthsAre
<1> QED
  BY <1>1, <1>2, <1>3, <1>4

\* A step that leaves the locals alone.
LEMMA AllStay ==
    ASSUME Sound, Moved, locals' = locals, NEW K \in Nat, K <= Len(nest), SameKinds(K)
    PROVE  /\ \A k \in 1 .. K : nest'[k].jumps = nest[k].jumps => JumpsFit(k, locals', nest')
           /\ \A l \in 1 .. Len(loops) :
                 loops[l].at \in 1 .. K => LoopFits(loops[l], locals', nest')
           /\ \A k \in 1 .. K : nest'[k].kind \in Holders => Within(locals', Depth(nest', k))
<1>1. scope \in Nat /\ Stays(scope) /\ Len(nest) \in Nat
  BY StaysSame, Depths
<1>2. ASSUME NEW k \in 1 .. K, nest'[k].jumps = nest[k].jumps PROVE JumpsFit(k, locals', nest')
  <2>1. Depth(nest, k) <= scope
    <3>1. k \in 1 .. Len(nest)
      BY <1>1
    <3> QED
      BY <3>1, Depths
  <2> QED
    BY <1>1, <1>2, <2>1, JumpsStay
<1>3. ASSUME NEW l \in 1 .. Len(loops), loops[l].at \in 1 .. K
      PROVE  LoopFits(loops[l], locals', nest')
  <2>1. loops[l].scope <= scope
    BY Depths
  <2> QED
    BY <1>1, <1>3, <2>1, LoopsStay
<1>4. ASSUME NEW k \in 1 .. K, nest'[k].kind \in Holders PROVE Within(locals', Depth(nest', k))
  <2>1. Depth(nest', k) = Depth(nest, k)
    BY DepthsSame
  <2>2. nest'[k].kind = nest[k].kind /\ k \in 1 .. Len(nest)
    BY <1>1 DEF SameKinds
  <2> QED
    BY <1>4, <2>1, <2>2 DEF Sound, ShapeInv
<1> QED
  BY <1>2, <1>3, <1>4

LEMMA LoopsAt == ASSUME Sound PROVE \A l \in 1 .. Len(loops) : loops[l].at \in 1 .. Len(nest)
<1> QED
  BY DEF Sound, NestInv, LoopPlaced

\* Statements that begin no construct and jump nowhere.
LEMMA ShapeFills ==
    ASSUME Sound, Moved, Fills, locals' = locals, loops' = loops, scope' = scope,
           paths' \subseteq paths
    PROVE  ShapeInv'
<1>1. /\ Len(nest) \in Nat /\ Len(nest) <= Len(nest) /\ SameKinds(Len(nest)) /\ SameJumps(Len(nest))
      /\ Len(nest') = Len(nest)
  BY Depths DEF Fills
<1>2. /\ \A k \in 1 .. Len(nest) : nest'[k].jumps = nest[k].jumps /\ nest'[k].kind = nest[k].kind
      /\ Held(nest', Len(nest)) = Held(nest, Len(nest))
  BY <1>1, DepthsSame DEF SameJumps, SameKinds
<1>3. \A s \in paths' : IsFrame(s, locals', scope', Held(nest', Len(nest')))
  BY <1>1, <1>2 DEF Sound, ShapeInv
<1>4. \A k \in 1 .. Len(nest') : /\ JumpsFit(k, locals', nest')
                                 /\ nest'[k].kind \in Holders => Within(locals', Depth(nest', k))
  BY <1>1, <1>2, AllStay
<1>5. \A k \in 1 .. Len(nest') : nest'[k].kind = "block" => nest'[k].jumps = {}
  BY <1>1, <1>2 DEF Sound, ShapeInv
<1>6. \A l \in 1 .. Len(loops') : LoopFits(loops'[l], locals', nest')
  BY <1>1, AllStay, LoopsAt
<1> QED
  BY <1>3, <1>4, <1>5, <1>6 DEF ShapeInv

\* The innermost construct, with the depth of the place it is in.
LEMMA Innermost ==
    ASSUME Sound, NEW kind \in Kinds, Here = kind
    PROVE  LET N == Len(nest) - 1
           IN  /\ N \in Nat /\ Len(nest) = N + 1 /\ nest[N + 1].kind = kind
               /\ Len(nest) \in 1 .. Len(nest)
               /\ Last(nest) = nest[N + 1]
               /\ Depth(nest, N) \in Nat /\ Held(nest, N) \in Nat
               /\ scope = Depth(nest, N + 1)
               /\ scope = Depth(nest, N) + (IF kind \in Scoped THEN 1 ELSE 0)
               /\ Held(nest, N + 1) = Held(nest, N) + (IF kind \in Holders THEN 1 ELSE 0)
               /\ \A k \in 1 .. N : Depth(nest, k) \in Nat /\ Depth(nest, k) <= Depth(nest, N)
               /\ kind \notin LoopKinds => \A l \in 1 .. Len(loops) : loops[l].at \in 1 .. N
               /\ \A l \in 1 .. Len(loops) :
                     loops[l].at \in 1 .. N => loops[l].scope <= Depth(nest, N)
<1> DEFINE N == Len(nest) - 1
<1>1. /\ Len(nest) \in Nat \ {0} /\ Len(nest) \in 1 .. Len(nest)
      /\ Last(nest) = nest[Len(nest)] /\ nest[Len(nest)].kind = kind
  BY Insides DEF Sound
<1>2. N \in Nat /\ Len(nest) = N + 1
  BY <1>1
<1>3. /\ Depth(nest, N) \in Nat /\ Held(nest, N) \in Nat
      /\ Depth(nest, N + 1) = Depth(nest, N) + (IF kind \in Scoped THEN 1 ELSE 0)
      /\ Held(nest, N + 1) = Held(nest, N) + (IF kind \in Holders THEN 1 ELSE 0)
      /\ \A k \in 0 .. N : Depth(nest, k) \in Nat /\ Depth(nest, k) <= Depth(nest, N)
  BY <1>1, <1>2, DepthsAre
<1>4. scope = Depth(nest, N + 1)
  BY <1>2 DEF Sound, NestInv
<1>5. \A l \in 1 .. Len(loops) : LoopPlaced(loops[l], nest) /\ loops[l].kind \in LoopKinds
  BY LoopFields DEF Sound, NestInv, Typed
<1>6. ASSUME kind \notin LoopKinds, NEW l \in 1 .. Len(loops) PROVE loops[l].at \in 1 .. N
  BY <1>1, <1>2, <1>5, <1>6 DEF LoopPlaced
<1>7. ASSUME NEW l \in 1 .. Len(loops), loops[l].at \in 1 .. N
      PROVE  loops[l].scope <= Depth(nest, N)
  BY <1>3, <1>5, <1>7 DEF LoopPlaced
<1>8. \A k \in 1 .. N : k \in 0 .. N
  BY <1>2
<1> QED
  BY <1>1, <1>2, <1>3, <1>4, <1>6, <1>7, <1>8

\* A construct opens.
LEMMA ShapeOpens ==
    ASSUME Sound, Moved, NEW kind \in Kinds, NEW jumps, Opens(kind, jumps),
           locals' = locals, LoopOpens(kind),
           \A s \in jumps \union paths' : IsFrame(s, locals', scope', Held(nest', Len(nest'))),
           kind = "block" => jumps = {},
           kind \in LoopKinds => LoopFits(loops'[Len(loops) + 1], locals', nest')
    PROVE  ShapeInv'
<1> DEFINE N == Len(nest)
           L == Len(loops)
<1>1. /\ N \in Nat /\ N <= N /\ Len(nest') = N + 1 /\ SameKinds(N) /\ SameJumps(N)
      /\ nest'[N + 1].kind = kind /\ nest'[N + 1].jumps = jumps
  BY DEF Opens
<1>2. \A k \in 1 .. N : nest'[k].jumps = nest[k].jumps /\ nest'[k].kind = nest[k].kind
  BY <1>1 DEF SameJumps, SameKinds
<1>3. \A k \in 1 .. Len(nest') : k \in 1 .. N \/ k = N + 1
  BY <1>1
<1>4. scope' = Depth(nest', N + 1) /\ Within(locals', scope')
  BY <1>1 DEF Moved, NestInv, DepthInv
<1>5. \A k \in 1 .. N : /\ JumpsFit(k, locals', nest')
                        /\ nest'[k].kind \in Holders => Within(locals', Depth(nest', k))
  BY <1>1, <1>2, AllStay
<1>6. JumpsFit(N + 1, locals', nest')
  BY <1>1, <1>4 DEF JumpsFit
<1>7. \A k \in 1 .. Len(nest') : /\ JumpsFit(k, locals', nest')
                                 /\ nest'[k].kind \in Holders => Within(locals', Depth(nest', k))
  BY <1>3, <1>4, <1>5, <1>6
<1>8. \A k \in 1 .. Len(nest') : nest'[k].kind = "block" => nest'[k].jumps = {}
  BY <1>1, <1>2, <1>3 DEF Sound, ShapeInv
<1>9. ASSUME NEW l \in 1 .. Len(loops') PROVE LoopFits(loops'[l], locals', nest')
  <2>1. L \in Nat
    BY LoopFields DEF Sound, Typed
  <2>2. \/ l \in 1 .. L /\ loops'[l] = loops[l]
        \/ l = L + 1 /\ kind \in LoopKinds
    BY <2>1 DEF LoopOpens
  <2>3. \A m \in 1 .. L : LoopFits(loops[m], locals', nest')
    BY <1>1, AllStay, LoopsAt
  <2> QED
    BY <2>2, <2>3
<1>10. \A s \in paths' : IsFrame(s, locals', scope', Held(nest', Len(nest')))
  OBVIOUS
<1> QED
  BY <1>7, <1>8, <1>9, <1>10 DEF ShapeInv

LEMMA PathsIn ==
    ASSUME Sound, Moved, NEW kind \in Kinds, NEW jumps, Opens(kind, jumps),
           kind \notin Holders, locals' = locals
    PROVE  \A s \in paths : IsFrame(s, locals', scope', Held(nest', Len(nest')))
<1> DEFINE N == Len(nest)
<1>1. N \in Nat /\ Len(nest') = N + 1 /\ SameKinds(N) /\ nest'[N + 1].kind = kind
  BY DEF Opens
<1>2. Held(nest', N + 1) = Held(nest, N) /\ Held(nest, N) \in Nat
  <2>1. /\ Held(nest', N) \in Nat
        /\ Held(nest', N + 1) = Held(nest', N) + (IF nest'[N + 1].kind \in Holders THEN 1 ELSE 0)
    BY <1>1, DepthsAre
  <2>2. Held(nest', N) = Held(nest, N)
    BY <1>1, DepthsSame
  <2> QED
    BY <1>1, <2>1, <2>2
<1>3. /\ Within(locals, scope) /\ Within(locals, scope') /\ locals \in Seq(LocalRecords)
      /\ scope \in Nat /\ scope' \in Nat
  <2>1. scope' \in Nat
    <3>1. scope' = Depth(nest', N + 1)
      BY <1>1 DEF Moved, NestInv
    <3> QED
      BY <1>1, <3>1, DepthsAre
  <2> QED
    BY <2>1, Depths DEF Sound, Moved, DepthInv, Typed
<1>4. \A s \in paths : IsFrame(s, locals, scope, Held(nest, N))
  BY DEF Sound, ShapeInv
<1>5. \A s \in paths : IsFrame(s, locals, scope', Held(nest, N))
  BY <1>2, <1>3, <1>4, DeeperFrame
<1> QED
  BY <1>1, <1>2, <1>5

LEMMA ShapeBegins ==
    ASSUME Sound, Moved
    PROVE  /\ BeginBlock /\ Opens("block", {}) => ShapeInv'
           /\ BeginIf /\ Opens("then", paths) => ShapeInv'
           /\ Case /\ Opens("case", paths) => ShapeInv'
           /\ Default /\ Opens("default", {}) => ShapeInv'
<1>1. /\ "block" \in Kinds /\ "then" \in Kinds /\ "case" \in Kinds /\ "default" \in Kinds
      /\ "block" \notin LoopKinds /\ "then" \notin LoopKinds /\ "case" \notin LoopKinds
      /\ "default" \notin LoopKinds
      /\ "block" \notin Holders /\ "then" \notin Holders /\ "case" \notin Holders
      /\ "default" \notin Holders
  BY DEF Kinds, OneStat, Scoped, Holders, Structs, LoopKinds
<1>2. ASSUME BeginBlock, Opens("block", {}) PROVE ShapeInv'
  <2>1. locals' = locals /\ paths' = paths /\ LoopOpens("block")
    BY <1>1, <1>2 DEF BeginBlock, LoopOpens
  <2>2. \A s \in {} \union paths' : IsFrame(s, locals', scope', Held(nest', Len(nest')))
    BY <1>1, <1>2, <2>1, PathsIn
  <2> QED
    BY <1>1, <1>2, <2>1, <2>2, ShapeOpens
<1>3. ASSUME BeginIf, Opens("then", paths) PROVE ShapeInv'
  <2>1. locals' = locals /\ paths' = paths /\ LoopOpens("then")
    BY <1>1, <1>3 DEF BeginIf, LoopOpens
  <2>2. \A s \in paths \union paths' : IsFrame(s, locals', scope', Held(nest', Len(nest')))
    BY <1>1, <1>3, <2>1, PathsIn
  <2> QED
    BY <1>1, <1>3, <2>1, <2>2, ShapeOpens
<1>4. ASSUME Case, Opens("case", paths) PROVE ShapeInv'
  <2>1. locals' = locals /\ paths' = paths /\ LoopOpens("case")
    BY <1>1, <1>4 DEF Case, LoopOpens
  <2>2. \A s \in paths \union paths' : IsFrame(s, locals', scope', Held(nest', Len(nest')))
    BY <1>1, <1>4, <2>1, PathsIn
  <2> QED
    BY <1>1, <1>4, <2>1, <2>2, ShapeOpens
<1>5. ASSUME Default, Opens("default", {}) PROVE ShapeInv'
  <2>1. locals' = locals /\ paths' = paths /\ LoopOpens("default")
    BY <1>1, <1>5 DEF Default, LoopOpens
  <2>2. \A s \in {} \union paths' : IsFrame(s, locals', scope', Held(nest', Len(nest')))
    BY <1>1, <1>5, <2>1, PathsIn
  <2> QED
    BY <1>1, <1>5, <2>1, <2>2, ShapeOpens
<1> QED
  BY <1>2, <1>3, <1>4, <1>5

\* The value of a switch or struct is pushed above the locals.
LEMMA ShapeHolds ==
    ASSUME Sound, Moved, NEW kind \in Holders, Opens(kind, {}), locals' = locals,
           loops' = loops, scope' = scope, paths' = Pushed(Temp)
    PROVE  ShapeInv'
<1> DEFINE N == Len(nest)
<1>1. kind \in Kinds /\ kind \notin LoopKinds /\ kind # "block"
  BY DEF Kinds, Holders, Structs, LoopKinds
<1>2. N \in Nat /\ Len(nest') = N + 1 /\ SameKinds(N) /\ nest'[N + 1].kind = kind
  BY DEF Opens
<1>3. Held(nest', N + 1) = Held(nest, N) + 1 /\ Held(nest, N) \in Nat
  <2>1. /\ Held(nest', N) \in Nat
        /\ Held(nest', N + 1) = Held(nest', N) + (IF nest'[N + 1].kind \in Holders THEN 1 ELSE 0)
    BY <1>2, DepthsAre
  <2>2. Held(nest', N) = Held(nest, N)
    BY <1>2, DepthsSame
  <2> QED
    BY <1>2, <2>1, <2>2
<1>4. scope \in Nat /\ locals \in Seq(LocalRecords)
  BY Depths DEF Sound, Typed
<1>5. \A s \in paths : IsFrame(Append(s, Temp), locals, scope, Held(nest, N) + 1)
  <2>1. \A s \in paths : IsFrame(s, locals, scope, Held(nest, N))
    BY DEF Sound, ShapeInv
  <2> QED
    BY <1>3, <1>4, <2>1, FramePushed
<1>6. \A s \in {} \union paths' : IsFrame(s, locals', scope', Held(nest', Len(nest')))
  BY <1>2, <1>3, <1>5 DEF Pushed
<1>7. LoopOpens(kind)
  BY <1>1 DEF LoopOpens
<1> QED
  BY <1>1, <1>6, <1>7, ShapeOpens

LEMMA NewLoopFits ==
    ASSUME Moved, NEW kind \in LoopKinds, NEW jumps, Opens(kind, jumps), NEW start,
           loops'[Len(loops) + 1] = Loop(kind, scope', start),
           \A s \in start : IsFrame(s, locals', scope', Held(nest', Len(nest')))
    PROVE  LoopFits(loops'[Len(loops) + 1], locals', nest')
<1> DEFINE p == Loop(kind, scope', start)
<1>1. /\ p.start = start /\ p.back = {} /\ p.breaks = {} /\ p.scope = scope'
      /\ p.at = Len(nest')
  BY DEF Loop, Opens
<1> HIDE DEF p
<1>2. LoopFits(p, locals', nest')
  BY <1>1 DEF LoopFits
<1> QED
  BY <1>2 DEF p

LEMMA ShapeLoops ==
    ASSUME Sound, Moved
    PROVE  /\ /\ BeginLoop /\ Opens("loop", {}) /\ LoopOpens("loop")
              /\ loops'[Len(loops) + 1] = Loop("loop", scope, paths)
              => ShapeInv'
           /\ /\ BeginWhile /\ Opens("while", paths) /\ LoopOpens("while")
              /\ loops'[Len(loops) + 1] = Loop("while", scope, paths)
              => ShapeInv'
<1>1. /\ "loop" \in Kinds /\ "while" \in Kinds /\ "loop" \in LoopKinds /\ "while" \in LoopKinds
      /\ "loop" \notin Holders /\ "while" \notin Holders
  BY DEF Kinds, OneStat, LoopKinds, Holders, Structs
<1>2. ASSUME BeginLoop, Opens("loop", {}), LoopOpens("loop"),
             loops'[Len(loops) + 1] = Loop("loop", scope, paths)
      PROVE  ShapeInv'
  <2>1. locals' = locals /\ paths' = paths /\ scope' = scope
    BY <1>2 DEF BeginLoop
  <2>2. \A s \in paths : IsFrame(s, locals', scope', Held(nest', Len(nest')))
    BY <1>1, <1>2, <2>1, PathsIn
  <2>3. LoopFits(loops'[Len(loops) + 1], locals', nest')
    BY <1>1, <1>2, <2>1, <2>2, NewLoopFits
  <2>4. \A s \in {} \union paths' : IsFrame(s, locals', scope', Held(nest', Len(nest')))
    BY <2>1, <2>2
  <2> QED
    BY <1>1, <1>2, <2>1, <2>3, <2>4, ShapeOpens
<1>3. ASSUME BeginWhile, Opens("while", paths), LoopOpens("while"),
             loops'[Len(loops) + 1] = Loop("while", scope, paths)
      PROVE  ShapeInv'
  <2>1. locals' = locals /\ paths' = paths /\ scope' = scope
    BY <1>3 DEF BeginWhile
  <2>2. \A s \in paths : IsFrame(s, locals', scope', Held(nest', Len(nest')))
    BY <1>1, <1>3, <2>1, PathsIn
  <2>3. LoopFits(loops'[Len(loops) + 1], locals', nest')
    BY <1>1, <1>3, <2>1, <2>2, NewLoopFits
  <2>4. \A s \in paths \union paths' : IsFrame(s, locals', scope', Held(nest', Len(nest')))
    BY <2>1, <2>2
  <2> QED
    BY <1>1, <1>3, <2>1, <2>3, <2>4, ShapeOpens
<1> QED
  BY <1>2, <1>3

\* Where a local is declared, no value of a switch or struct is on the stack.
LEMMA NoHolders ==
    ASSUME Sound, ~InSwitch, Here \notin Structs
    PROVE  /\ \A k \in 1 .. Len(nest) : nest[k].kind \notin Holders
           /\ Held(nest, Len(nest)) = 0
<1>1. Len(nest) \in Nat
  BY Depths
<1>2. \A k \in 1 .. Len(nest) : nest[k].kind \notin Structs
  <2> SUFFICES ASSUME NEW k \in 1 .. Len(nest), nest[k].kind \in Structs PROVE FALSE
    OBVIOUS
  <2>1. Len(nest) = 1 /\ k = 1
    BY <1>1 DEF Sound, NestInv
  <2>2. nest # <<>> /\ Here = nest[1].kind
    BY <2>1 DEF Here, Last
  <2> QED
    BY <2>1, <2>2
<1>3. \A k \in 1 .. Len(nest) : nest[k].kind \notin Holders
  BY <1>2 DEF Holders, InSwitch
<1>4. Held(nest, Len(nest)) = Held(nest, 0)
  BY <1>1, <1>3, CountNone DEF Held
<1>5. Held(nest, 0) = 0
  BY DepthsAre
<1> QED
  BY <1>3, <1>4, <1>5

\* A declaration where no value is above the locals.
LEMMA PathsDeclared ==
    ASSUME Sound, NEW d \in Nat, scope <= d, Declare(d), Held(nest, Len(nest)) = 0
    PROVE  /\ \A s \in paths' : IsFrame(s, locals', d, 0)
           /\ SetMin(FreeIds) \in Int
           /\ locals' = Append(locals, Local(SetMin(FreeIds), d))
<1>1. /\ SetMin(FreeIds) \in Int
      /\ locals' = Append(locals, Local(SetMin(FreeIds), d))
      /\ paths' = Pushed(SetMin(FreeIds))
  BY FreshId DEF Declare
<1>2. scope \in Nat /\ locals \in Seq(LocalRecords) /\ Within(locals, scope)
  BY Depths DEF Sound, Typed, DepthInv
<1>3. \A s \in paths : IsFrame(s, locals, scope, 0)
  BY DEF Sound, ShapeInv
<1>4. \A s \in paths :
         IsFrame(Append(s, SetMin(FreeIds)), Append(locals, Local(SetMin(FreeIds), d)), d, 0)
  BY <1>1, <1>2, <1>3, FrameDeclared
<1> QED
  BY <1>1, <1>4 DEF Pushed

LEMMA ShapeVarDecl ==
    ASSUME Sound, Moved, VarDecl, ~InSwitch
    PROVE  ShapeInv'
<1>1. /\ Here \notin Structs /\ (Here = "body" \/ Here = "block") /\ Declare(scope)
      /\ scope' = scope /\ loops' = loops /\ nest' = nest
  BY DEF VarDecl, AtDecl, Structs
<1>2. /\ \A k \in 1 .. Len(nest) : nest[k].kind \notin Holders
      /\ Held(nest, Len(nest)) = 0
  BY <1>1, NoHolders
<1>3. scope \in Nat /\ Len(nest) \in Nat /\ scope <= scope
  BY Depths
<1>4. /\ \A s \in paths' : IsFrame(s, locals', scope, 0)
      /\ SetMin(FreeIds) \in Int
      /\ locals' = Append(locals, Local(SetMin(FreeIds), scope))
  BY <1>1, <1>2, <1>3, PathsDeclared
<1>5. CASE Here = "body"
  <2>1. nest = <<>>
    <3>1. nest # <<>> => Len(nest) \in 1 .. Len(nest) /\ nest[Len(nest)].kind \in Kinds
      BY <1>3, EntryFields DEF Sound, Typed
    <3> QED
      BY <1>5, <3>1 DEF Here, Last, Kinds, OneStat, Scoped, Holders, Structs
  <2>2. loops = <<>>
    BY <2>1, TopScope DEF Sound
  <2>3. Len(nest') = 0 /\ Len(loops') = 0
    BY <1>1, <2>1, <2>2
  <2> QED
    BY <1>1, <1>2, <1>4, <2>3 DEF ShapeInv
<1>6. CASE Here = "block"
  <2> DEFINE N == Len(nest) - 1
  <2>1. "block" \in Kinds /\ "block" \in Scoped /\ "block" \notin LoopKinds
    BY DEF Kinds, Scoped, LoopKinds
  <2>2. /\ N \in Nat /\ Len(nest) = N + 1 /\ nest[N + 1].kind = "block"
        /\ Depth(nest, N) \in Nat
        /\ scope = Depth(nest, N) + 1
        /\ \A k \in 1 .. N : Depth(nest, k) \in Nat /\ Depth(nest, k) <= Depth(nest, N)
        /\ \A l \in 1 .. Len(loops) : loops[l].at \in 1 .. N
        /\ \A l \in 1 .. Len(loops) :
              loops[l].at \in 1 .. N => loops[l].scope <= Depth(nest, N)
    BY <1>6, <2>1, Innermost
  <2> DEFINE d == Depth(nest, N)
  <2>3. Stays(d)
    <3> HIDE DEF d
    <3>1. d \in Nat /\ locals' = Append(locals, Local(SetMin(FreeIds), d + 1))
      BY <1>4, <2>2 DEF d
    <3> QED
      BY <1>4, <3>1, StaysDeclared
  <2>4. SameKinds(Len(nest)) /\ Len(nest) <= Len(nest)
    BY <1>1, <1>3 DEF SameKinds
  <2>5. ASSUME NEW k \in 1 .. Len(nest) PROVE JumpsFit(k, locals', nest')
    <3>1. Depth(nest, k) <= d \/ nest[k].jumps = {}
      <4>1. k = N + 1 => nest[k].jumps = {}
        BY <2>2 DEF Sound, ShapeInv
      <4>2. k \in 1 .. N \/ k = N + 1
        <5> HIDE DEF N
        <5> QED
          BY <2>2
      <4> QED
        BY <2>2, <4>1, <4>2
    <3>2. nest'[k].jumps = nest[k].jumps
      BY <1>1
    <3> HIDE DEF d
    <3>3. d \in Nat
      BY <2>2 DEF d
    <3> QED
      BY <1>3, <2>3, <2>4, <3>1, <3>2, <3>3, JumpsStay
  <2>6. ASSUME NEW l \in 1 .. Len(loops) PROVE LoopFits(loops[l], locals', nest')
    <3>1. loops[l].scope <= d /\ d \in Nat
      BY <2>2
    <3>2. loops[l].at \in 1 .. Len(nest)
      BY LoopsAt
    <3> HIDE DEF d
    <3> QED
      BY <1>3, <2>3, <2>4, <3>1, <3>2, LoopsStay
  <2>7. \A k \in 1 .. Len(nest') : nest'[k].kind = "block" => nest'[k].jumps = {}
    BY <1>1 DEF Sound, ShapeInv
  <2> QED
    BY <1>1, <1>2, <1>4, <2>5, <2>6, <2>7 DEF ShapeInv
<1> QED
  BY <1>1, <1>5, <1>6

LEMMA ShapeFor ==
    ASSUME Sound, Moved, NEW declares \in BOOLEAN, NEW cond \in BOOLEAN,
           BeginFor(declares, cond), declares => ~InSwitch,
           Opens("for", IF cond THEN paths' ELSE {}),
           Len(loops') = Len(loops) + 1,
           loops'[Len(loops) + 1] = Loop("for", scope + 1, paths'), LoopOpens("for")
    PROVE  ShapeInv'
<1> DEFINE jumps == IF cond THEN paths' ELSE {}
           N == Len(nest)
<1>1. /\ "for" \in Kinds /\ "for" \in LoopKinds /\ "for" \notin Holders /\ "for" # "block"
  BY DEF Kinds, OneStat, LoopKinds, Holders, Structs
<1>2. /\ scope' = scope + 1 /\ Here \notin Structs /\ scope \in Nat /\ N \in Nat
      /\ jumps \subseteq paths'
  BY Places, Depths DEF Sound, BeginFor
<1>3. Opens("for", jumps)
  OBVIOUS
<1> HIDE DEF jumps
<1>4. CASE ~declares
  <2>1. locals' = locals /\ paths' = paths
    BY <1>4 DEF BeginFor
  <2>2. \A s \in paths : IsFrame(s, locals', scope', Held(nest', Len(nest')))
    BY <1>1, <1>3, <2>1, PathsIn
  <2>3. \A s \in paths' : IsFrame(s, locals', scope', Held(nest', Len(nest')))
    BY <2>1, <2>2
  <2>4. LoopFits(loops'[Len(loops) + 1], locals', nest')
    BY <1>1, <1>2, <1>3, <2>3, NewLoopFits
  <2>5. \A s \in jumps \union paths' : IsFrame(s, locals', scope', Held(nest', Len(nest')))
    BY <1>2, <2>3
  <2> QED
    BY <1>1, <1>3, <2>1, <2>4, <2>5, ShapeOpens
<1>5. CASE declares
  <2>1. /\ \A k \in 1 .. N : nest[k].kind \notin Holders
        /\ Held(nest, N) = 0
    BY <1>2, <1>5, NoHolders
  <2>2. Declare(scope + 1) /\ scope + 1 \in Nat /\ scope <= scope + 1
    BY <1>2, <1>5 DEF BeginFor
  <2>3. /\ \A s \in paths' : IsFrame(s, locals', scope + 1, 0)
        /\ SetMin(FreeIds) \in Int
        /\ locals' = Append(locals, Local(SetMin(FreeIds), scope + 1))
    BY <2>1, <2>2, PathsDeclared
  <2>4. Stays(scope)
    BY <1>2, <2>3, StaysDeclared
  <2>5. /\ Len(nest') = N + 1 /\ SameKinds(N) /\ SameJumps(N) /\ N <= N
        /\ nest'[N + 1].kind = "for" /\ nest'[N + 1].jumps = jumps
    BY <1>2, <1>3 DEF Opens
  <2>6. \A k \in 1 .. N : nest'[k].jumps = nest[k].jumps /\ nest'[k].kind = nest[k].kind
    BY <2>5 DEF SameJumps, SameKinds
  <2>7. Held(nest', N + 1) = 0 /\ Depth(nest', N + 1) = scope'
    <3>1. Held(nest', N + 1) = Held(nest', N) + (IF nest'[N + 1].kind \in Holders THEN 1 ELSE 0)
      BY <1>2, DepthsAre
    <3>2. Held(nest', N) = Held(nest, N)
      BY <1>2, <2>5, DepthsSame
    <3> QED
      BY <1>1, <2>1, <2>5, <3>1, <3>2 DEF Moved, NestInv
  <2>8. \A s \in paths' : IsFrame(s, locals', scope', Held(nest', Len(nest')))
    BY <1>2, <2>3, <2>5, <2>7
  <2>9. LoopFits(loops'[Len(loops) + 1], locals', nest')
    BY <1>1, <1>2, <1>3, <2>8, NewLoopFits
  <2>10. \A k \in 1 .. Len(nest') : k \in 1 .. N \/ k = N + 1
    BY <1>2, <2>5
  <2>11. ASSUME NEW k \in 1 .. N PROVE JumpsFit(k, locals', nest')
    <3>1. Depth(nest, k) <= scope
      BY Depths
    <3> QED
      BY <1>2, <2>4, <2>5, <2>6, <3>1, JumpsStay
  <2>12. JumpsFit(N + 1, locals', nest')
    BY <1>2, <2>5, <2>7, <2>8 DEF JumpsFit
  <2>13. \A k \in 1 .. Len(nest') : nest'[k].kind = "block" => nest'[k].jumps = {}
    BY <1>1, <2>5, <2>6, <2>10 DEF Sound, ShapeInv
  <2>14. \A k \in 1 .. Len(nest') : nest'[k].kind \notin Holders
    BY <1>1, <2>1, <2>5, <2>6, <2>10
  <2>15. ASSUME NEW l \in 1 .. Len(loops') PROVE LoopFits(loops'[l], locals', nest')
    <3>1. Len(loops) \in Nat
      BY LoopFields DEF Sound, Typed
    <3>2. (l \in 1 .. Len(loops) /\ loops'[l] = loops[l]) \/ l = Len(loops) + 1
      BY <1>1, <3>1 DEF LoopOpens
    <3>3. ASSUME NEW m \in 1 .. Len(loops) PROVE LoopFits(loops[m], locals', nest')
      <4>1. loops[m].scope <= scope /\ loops[m].at \in 1 .. N
        BY Depths, LoopsAt
      <4> QED
        BY <1>2, <2>4, <2>5, <4>1, LoopsStay
    <3> QED
      BY <2>9, <3>2, <3>3
  <2> QED
    BY <2>8, <2>10, <2>11, <2>12, <2>13, <2>14, <2>15 DEF ShapeInv
<1> QED
  BY <1>4, <1>5

\* Structs and enums stand at the top, where nothing else waits.
LEMMA TopIs ==
    ASSUME Sound, nest = <<>>
    PROVE  /\ scope = 0 /\ loops = <<>> /\ Held(nest, Len(nest)) = 0 /\ Len(nest) = 0
           /\ \A s \in paths : IsFrame(s, locals, 0, 0)
<1>1. Len(nest) = 0 /\ Held(nest, 0) = 0
  BY DepthsAre
<1>2. scope = 0 /\ loops = <<>>
  BY TopScope DEF Sound
<1> QED
  BY <1>1, <1>2 DEF Sound, ShapeInv

LEMMA TopDeclared ==
    ASSUME Sound, nest = <<>>, NEW id \in Int
    PROVE  \A s \in paths : IsFrame(Append(s, id), Append(locals, Local(id, 0)), 0, 0)
<1>1. /\ scope = 0 /\ locals \in Seq(LocalRecords) /\ Within(locals, 0) /\ 0 \in Nat /\ 0 <= 0
      /\ \A s \in paths : IsFrame(s, locals, 0, 0)
  BY TopIs DEF Sound, Typed, DepthInv
<1> QED
  BY <1>1, FrameDeclared

LEMMA ShapeEnum ==
    ASSUME Sound, Moved, EnumDecl(FALSE)
    PROVE  ShapeInv'
<1>1. /\ nest = <<>> /\ nest' = nest /\ loops' = loops /\ scope' = scope /\ FreeIds # {}
      /\ locals' = Append(locals, Local(SetMin(FreeIds), 0))
      /\ paths' = Pushed(SetMin(FreeIds))
  BY DEF EnumDecl, AtTop
<1>2. scope = 0 /\ loops = <<>> /\ Held(nest, Len(nest)) = 0 /\ Len(nest) = 0
  BY <1>1, TopIs
<1>3. \A s \in paths' : IsFrame(s, locals', 0, 0)
  BY <1>1, FreshId, TopDeclared DEF Pushed
<1>4. Len(nest') = 0 /\ Len(loops') = 0 /\ Held(nest', Len(nest')) = 0
  BY <1>1, <1>2
<1> QED
  BY <1>1, <1>2, <1>3, <1>4 DEF ShapeInv

\* A frame with the local of a struct, and with the struct above it.
LEMMA TopHeld ==
    ASSUME Sound, nest = <<>>, NEW v \in Int, NEW s \in paths
    PROVE  IsFrame(s \o <<v, Temp>>, Append(locals, Local(v, 0)), 0, 1)
<1> DEFINE r == Append(s, v)
           ls == Append(locals, Local(v, 0))
<1>1. IsFrame(r, ls, 0, 0)
  BY TopDeclared
<1>2. s \in Seq(Int) /\ Temp \in Int
  BY DEF Sound, Typed, Frames, Temp
<1>3. Local(v, 0) \in LocalRecords /\ locals \in Seq(LocalRecords)
  BY DEF Sound, Typed, Local, LocalRecords
<1>4. ls \in Seq(LocalRecords)
  BY <1>3
<1>5. s \o <<v, Temp>> = Append(r, Temp)
  BY <1>2
<1> HIDE DEF r, ls
<1>6. IsFrame(Append(r, Temp), ls, 0, 0 + 1)
  BY <1>1, <1>4, FramePushed
<1>7. IsFrame(s \o <<v, Temp>>, ls, 0, 1)
  <2> DEFINE q == s \o <<v, Temp>>
             f == Append(r, Temp)
  <2>1. q = f /\ IsFrame(f, ls, 0, 1)
    BY <1>5, <1>6, 0 + 1 = 1
  <2> HIDE DEF q, f
  <2>2. IsFrame(q, ls, 0, 1)
    BY <2>1
  <2> QED
    BY <2>2 DEF q
<1> QED
  BY <1>7 DEF ls

LEMMA ShapeNamed ==
    ASSUME Sound, Moved, nest = <<>>, loops' = loops, scope' = scope,
           NEW kind \in Holders, Opens(kind, {}), NEW v \in Int,
           locals' = Append(locals, Local(v, 0)),
           paths' = {s \o <<v, Temp>> : s \in paths}
    PROVE  ShapeInv'
<1>1. scope = 0 /\ loops = <<>> /\ Len(nest) = 0
  BY TopIs
<1>2. Len(nest') = 1 /\ nest'[1].kind = kind /\ nest'[1].jumps = {}
  BY <1>1 DEF Opens
<1>3. Held(nest', 1) = 1
  <2>1. /\ Held(nest', 0 + 1) = Held(nest', 0) + (IF nest'[0 + 1].kind \in Holders THEN 1 ELSE 0)
        /\ Held(nest', 0) = 0
    BY DepthsAre
  <2> QED
    BY <1>2, <2>1
<1>4. \A s \in paths' : IsFrame(s, locals', 0, 1)
  BY TopHeld
<1>5. Within(locals', Depth(nest', 1))
  BY <1>2 DEF Moved, DepthInv, NestInv
<1>6. kind # "block"
  BY DEF Holders, Structs
<1>7. \A l \in 1 .. Len(loops') : LoopFits(loops'[l], locals', nest')
  BY <1>1
<1>8. ASSUME NEW k \in 1 .. Len(nest')
      PROVE  /\ JumpsFit(k, locals', nest') /\ nest'[k].kind # "block"
             /\ Within(locals', Depth(nest', k))
  <2>1. k = 1
    BY <1>2
  <2> QED
    BY <1>2, <1>5, <1>6, <2>1 DEF JumpsFit
<1>9. \A s \in paths' : IsFrame(s, locals', scope', Held(nest', Len(nest')))
  BY <1>1, <1>2, <1>3, <1>4
<1> QED
  BY <1>7, <1>8, <1>9 DEF ShapeInv

LEMMA ShapeStruct ==
    ASSUME Sound, Moved, NEW static \in BOOLEAN, NEW global \in BOOLEAN,
           BeginStruct(static, global),
           Opens(IF static THEN "static struct" ELSE "struct", {})
    PROVE  ShapeInv'
<1>1. PICK kind \in Holders : /\ kind \in Kinds /\ kind \notin LoopKinds /\ kind # "block"
                              /\ Opens(kind, {})
  BY DEF Kinds, Holders, Structs, LoopKinds
<1>2. /\ nest = <<>> /\ loops' = loops /\ scope' = scope
  BY DEF BeginStruct, AtTop
<1>3. CASE global
  <2>1. locals' = locals /\ paths' = Pushed(Temp)
    BY <1>3 DEF BeginStruct
  <2> QED
    BY <1>1, <1>2, <2>1, ShapeHolds
<1>4. CASE ~global
  <2>1. /\ FreeIds # {}
        /\ locals' = Append(locals, Local(SetMin(FreeIds), 0))
        /\ paths' = {s \o <<SetMin(FreeIds), Temp>> : s \in paths}
    BY <1>4 DEF BeginStruct
  <2>2. SetMin(FreeIds) \in Int
    BY <2>1, FreshId
  <2> QED
    BY <1>1, <1>2, <2>1, <2>2, ShapeNamed
<1> QED
  BY <1>3, <1>4

\* A jump goes to the place before or after its loop, which holds what the
\* jump's own place holds when it leaves no switch.
LEMMA LoopPlace ==
    ASSUME Sound, NEW l \in 1 .. Len(loops)
    PROVE  LET at == loops[l].at
           IN  /\ at \in 1 .. Len(nest) /\ at - 1 \in Nat /\ at \in Nat /\ Len(nest) \in Nat
               /\ nest[at].kind = loops[l].kind /\ loops[l].kind \in LoopKinds
               /\ loops[l].scope = Depth(nest, at) /\ loops[l].scope \in Nat
               /\ Outside(loops[l]) = Depth(nest, at - 1) /\ Outside(loops[l]) \in Nat
               /\ Outside(loops[l]) <= loops[l].scope /\ loops[l].scope <= scope
               /\ Held(nest, at) \in Nat
<1> DEFINE p == loops[l]
           at == p.at
<1>1. at \in 1 .. Len(nest) /\ nest[at].kind = p.kind /\ p.scope = Depth(nest, at)
  BY DEF Sound, NestInv, LoopPlaced
<1>2. p.kind \in LoopKinds /\ at \in Nat /\ p.scope \in Nat /\ p.scope <= scope
  BY LoopFields, Depths DEF Sound, Typed
<1>3. Len(nest) \in Nat
  BY Depths
<1> HIDE DEF p
<1>4. at - 1 \in Nat /\ at = at - 1 + 1
  BY <1>1, <1>2, <1>3
<1>5. /\ Depth(nest, at - 1) \in Nat
      /\ Depth(nest, at - 1 + 1) = Depth(nest, at - 1)
                                   + (IF nest[at - 1 + 1].kind \in Scoped THEN 1 ELSE 0)
  BY <1>4, DepthsAre
<1>6. Held(nest, at) \in Nat
  BY <1>2, DepthsAre
<1>7. p.scope = Depth(nest, at - 1) + (IF p.kind = "for" THEN 1 ELSE 0)
  BY <1>1, <1>2, <1>4, <1>5 DEF LoopKinds, Scoped
<1>8. Outside(p) = Depth(nest, at - 1) /\ Outside(p) <= p.scope
  BY <1>5, <1>7 DEF Outside
<1> QED
  BY <1>1, <1>2, <1>3, <1>4, <1>5, <1>6, <1>8 DEF p

LEMMA WithinMore ==
    ASSUME NEW ls \in Seq(LocalRecords), NEW d \in Int, NEW e \in Int, d <= e, Within(ls, d)
    PROVE  Within(ls, e)
<1> SUFFICES ASSUME NEW i \in 1 .. Len(ls) PROVE ls[i].depth <= e
  BY DEF Within
<1>1. ls[i].depth \in Nat /\ ls[i].depth <= d
  BY LocalFields DEF Within
<1> QED
  BY <1>1

LEMMA Between ==
    ASSUME NEW n \in Nat, NEW a \in Nat, a \in 1 .. n, NEW i \in a + 1 .. n
    PROVE  i \in a .. n /\ i \in 1 .. n /\ n # 1
<1> QED
  OBVIOUS

LEMMA JumpHeld ==
    ASSUME Sound, NEW l \in 1 .. Len(loops), ~LeavesSwitch(l)
    PROVE  Held(nest, Len(nest)) = Held(nest, loops[l].at)
<1> DEFINE at == loops[l].at
<1>1. at \in 1 .. Len(nest) /\ at \in Nat /\ Len(nest) \in Nat
  BY LoopPlace
<1> HIDE DEF at
<1>2. ASSUME NEW i \in at + 1 .. Len(nest) PROVE nest[i].kind \notin Holders
  <2>1. i \in at .. Len(nest) /\ i \in 1 .. Len(nest) /\ Len(nest) # 1
    BY <1>1, Between
  <2>2. nest[i].kind # "switch"
    BY <2>1 DEF LeavesSwitch, at
  <2>3. nest[i].kind \notin Structs
    BY <2>1 DEF Sound, NestInv
  <2> QED
    BY <2>2, <2>3 DEF Holders
<1>3. Held(nest, Len(nest)) = Held(nest, at)
  BY <1>1, <1>2, CountNone DEF Held
<1> QED
  BY <1>3 DEF at

LEMMA HeldWithin ==
    ASSUME Sound, NEW k \in 0 .. Len(nest), Held(nest, k) # 0
    PROVE  Within(locals, Depth(nest, k))
<1>1. Len(nest) \in Nat /\ k \in Nat /\ locals \in Seq(LocalRecords)
  BY Depths DEF Sound, Typed
<1>2. PICK j \in 1 .. k : nest[j].kind \in Holders
  BY <1>1, CountSome DEF Held
<1>3. Within(locals, Depth(nest, j))
  BY <1>1, <1>2 DEF Sound, ShapeInv
<1>4. /\ j \in 0 .. k
      /\ Depth(nest, k) \in Nat /\ Depth(nest, j) \in Nat /\ Depth(nest, j) <= Depth(nest, k)
  <2>1. j \in 0 .. k
    BY <1>1
  <2> QED
    BY <1>1, <2>1, DepthsAre
<1> QED
  BY <1>1, <1>3, <1>4, WithinMore

LEMMA JumpWithin ==
    ASSUME Sound, NEW l \in 1 .. Len(loops), Held(nest, loops[l].at) # 0
    PROVE  Within(locals, Outside(loops[l])) /\ Within(locals, loops[l].scope)
<1> DEFINE p == loops[l]
           at == p.at
<1>1. /\ at \in 1 .. Len(nest) /\ at - 1 \in Nat /\ Len(nest) \in Nat /\ at = at - 1 + 1
      /\ nest[at].kind = p.kind /\ p.kind \in LoopKinds
      /\ Outside(p) = Depth(nest, at - 1) /\ Outside(p) \in Nat
      /\ Outside(p) <= p.scope /\ p.scope \in Nat /\ at \in Nat
  BY LoopPlace
<1>2. locals \in Seq(LocalRecords)
  BY DEF Sound, Typed
<1>3. Held(nest, at) # 0
  OBVIOUS
<1> HIDE DEF p
<1>4. /\ Held(nest, at - 1) \in Nat
      /\ Held(nest, at - 1 + 1) = Held(nest, at - 1)
                                  + (IF nest[at - 1 + 1].kind \in Holders THEN 1 ELSE 0)
  BY <1>1, DepthsAre
<1>5. Held(nest, at - 1) # 0
  <2>1. nest[at].kind \notin Holders
    BY <1>1 DEF LoopKinds, Holders, Structs
  <2> HIDE DEF at
  <2>2. Held(nest, at) = Held(nest, at - 1) + (IF nest[at].kind \in Holders THEN 1 ELSE 0)
    BY <1>1, <1>4
  <2> QED
    BY <1>3, <1>4, <2>1, <2>2
<1>6. at - 1 \in 0 .. Len(nest)
  BY <1>1
<1>7. Within(locals, Outside(p))
  BY <1>1, <1>5, <1>6, HeldWithin
<1>8. Within(locals, p.scope)
  BY <1>1, <1>2, <1>7, WithinMore
<1> QED
  BY <1>7, <1>8 DEF p

LEMMA JumpFrames ==
    ASSUME Sound, NEW l \in 1 .. Len(loops), ~LeavesSwitch(l),
           NEW d \in {Outside(loops[l]), loops[l].scope}
    PROVE  \A s \in Popped(paths, Discarded(d)) :
              IsFrame(s, locals, d, Held(nest, loops[l].at))
<1> DEFINE t == Held(nest, loops[l].at)
<1>1. d \in Int /\ t \in Nat /\ scope \in Int
  BY LoopPlace, Depths
<1>2. locals \in Seq(LocalRecords) /\ Rising(locals) /\ Within(locals, scope)
  BY DEF Sound, Typed, DepthInv
<1>3. t > 0 => Within(locals, d)
  BY <1>1, JumpWithin
<1>4. t = Held(nest, Len(nest))
  BY JumpHeld
<1>5. \A s \in paths : IsFrame(s, locals, scope, t)
  BY <1>4 DEF Sound, ShapeInv
<1> HIDE DEF t
<1>6. \A s \in paths : IsFrame(Drop(s, Discarded(d)), locals, d, t)
  BY <1>1, <1>2, <1>3, <1>5, FrameDiscarded
<1>7. \A s \in Popped(paths, Discarded(d)) : IsFrame(s, locals, d, t)
  BY <1>6 DEF Popped
<1> QED
  BY <1>7 DEF t

LEMMA ShapeJumps ==
    ASSUME Sound, Moved, NEW l \in 1 .. Len(loops), ~LeavesSwitch(l), Fills, SameLoops,
           locals' = locals, paths' = {},
           \A m \in 1 .. Len(loops) : m # l => loops'[m] = loops[m],
           loops'[l].start = loops[l].start,
           NEW d \in {Outside(loops[l]), loops[l].scope},
           \/ /\ d = loops[l].scope
              /\ loops'[l].breaks = loops[l].breaks
              /\ loops'[l].back = loops[l].back \union Popped(paths, Discarded(d))
           \/ /\ d = Outside(loops[l])
              /\ loops'[l].back = loops[l].back
              /\ loops'[l].breaks = loops[l].breaks \union Popped(paths, Discarded(d))
    PROVE  ShapeInv'
<1> DEFINE N == Len(nest)
<1>1. /\ N \in Nat /\ N <= N /\ SameKinds(N) /\ SameJumps(N) /\ Len(nest') = N
  BY Depths DEF Fills
<1>2. \A k \in 1 .. N : nest'[k].jumps = nest[k].jumps /\ nest'[k].kind = nest[k].kind
  BY <1>1 DEF SameKinds, SameJumps
<1>3. \A m \in 1 .. Len(loops) : LoopFits(loops[m], locals', nest')
  BY <1>1, LoopsAt, AllStay
<1>4. /\ loops'[l].scope = loops[l].scope /\ loops'[l].at = loops[l].at
      /\ Outside(loops'[l]) = Outside(loops[l])
  BY DEF SameLoops, Outside
<1>5. Held(nest', loops[l].at) = Held(nest, loops[l].at)
  BY <1>1, LoopsAt, DepthsSame
<1>6. LoopFits(loops'[l], locals', nest')
  <2> DEFINE p == loops[l]
             q == loops'[l]
             t == Held(nest, p.at)
             more == Popped(paths, Discarded(d))
  <2>1. \A s \in more : IsFrame(s, locals', d, t)
    BY JumpFrames
  <2>2. /\ \A s \in p.start \union p.back : IsFrame(s, locals', p.scope, t)
        /\ \A s \in p.breaks : IsFrame(s, locals', Outside(p), t)
    BY <1>3, <1>5 DEF LoopFits
  <2>3. q.start = p.start
    OBVIOUS
  <2>4. \/ d = p.scope /\ q.breaks = p.breaks /\ q.back = p.back \union more
        \/ d = Outside(p) /\ q.back = p.back /\ q.breaks = p.breaks \union more
    OBVIOUS
  <2>5. q.scope = p.scope /\ Outside(q) = Outside(p) /\ Held(nest', q.at) = t
    BY <1>4, <1>5
  <2> HIDE DEF p, q, t, more
  <2>6. /\ \A s \in q.start \union q.back : IsFrame(s, locals', q.scope, Held(nest', q.at))
        /\ \A s \in q.breaks : IsFrame(s, locals', Outside(q), Held(nest', q.at))
    BY <2>1, <2>2, <2>3, <2>4, <2>5
  <2>7. LoopFits(q, locals', nest')
    BY <2>6 DEF LoopFits
  <2> QED
    BY <2>7 DEF q
<1>7. \A m \in 1 .. Len(loops') : LoopFits(loops'[m], locals', nest')
  BY <1>3, <1>6 DEF SameLoops
<1>8. \A k \in 1 .. Len(nest') : JumpsFit(k, locals', nest')
  BY <1>1, <1>2, AllStay
<1>9. \A k \in 1 .. Len(nest') : nest'[k].kind \in Holders => Within(locals', Depth(nest', k))
  BY <1>1, AllStay
<1>10. \A k \in 1 .. Len(nest') : nest'[k].kind = "block" => nest'[k].jumps = {}
  BY <1>1, <1>2 DEF Sound, ShapeInv
<1> QED
  BY <1>7, <1>8, <1>9, <1>10 DEF ShapeInv

LEMMA ShapeJump ==
    ASSUME Quirks = {}, Sound, Moved, NEW l \in 1 .. Len(loops), Break(l) \/ Continue(l),
           locals' = locals
    PROVE  ShapeInv'
<1>1. ~LeavesSwitch(l) /\ paths' = {}
  BY DEF Break, Continue, JumpFits
<1>2. /\ Fills /\ SameLoops
      /\ \A m \in 1 .. Len(loops) : m # l => loops'[m] = loops[m]
      /\ loops'[l].start = loops[l].start
  BY JumpSteps DEF Sound
<1>3. CASE Continue(l)
  <2>1. /\ loops'[l].breaks = loops[l].breaks
        /\ loops'[l].back = loops[l].back \union Popped(paths, Discarded(loops[l].scope))
    BY <1>3, JumpSteps DEF Sound
  <2> QED
    BY <1>1, <1>2, <2>1, ShapeJumps
<1>4. CASE Break(l)
  <2>1. /\ loops'[l].back = loops[l].back
        /\ loops'[l].breaks = loops[l].breaks
              \union Popped(paths, Discarded(loops[l].scope - 1))
    BY <1>4, JumpSteps DEF Sound
  <2>2. Discarded(loops[l].scope - 1) = Discarded(Outside(loops[l]))
    BY <1>4 DEF Break, BreakFits, Outside
  <2>3. loops'[l].breaks = loops[l].breaks \union Popped(paths, Discarded(Outside(loops[l])))
    BY <2>1, <2>2
  <2> QED
    BY <1>1, <1>2, <2>1, <2>3, ShapeJumps
<1> QED
  BY <1>3, <1>4

\* A construct closes: what the others wait for still fits.
LoopsRemain == \A l \in 1 .. Len(loops') : \E m \in 1 .. Len(loops) :
                  loops'[l] = loops[m] /\ loops[m].at \in 1 .. Len(nest) - 1

LEMMA ShapeCloses ==
    ASSUME Sound, Moved, locals' = locals, Closes, LoopsRemain,
           \A s \in paths' : IsFrame(s, locals, scope', Held(nest, Len(nest) - 1))
    PROVE  ShapeInv'
<1> DEFINE K == Len(nest) - 1
<1>1. /\ K \in Nat /\ K <= Len(nest) /\ Len(nest') = K /\ Len(nest) = K + 1
      /\ SameKinds(K) /\ SameJumps(K)
  BY DEF Closes
<1>2. \A l \in 1 .. Len(loops') : \E m \in 1 .. Len(loops) :
         loops'[l] = loops[m] /\ loops[m].at \in 1 .. K
  BY DEF LoopsRemain
<1>3. \A s \in paths' : IsFrame(s, locals, scope', Held(nest, K))
  OBVIOUS
<1> HIDE DEF K
<1>4. \A k \in 1 .. K : /\ nest'[k].jumps = nest[k].jumps /\ nest'[k].kind = nest[k].kind
                        /\ k \in 1 .. Len(nest)
  BY <1>1 DEF SameKinds, SameJumps
<1>5. /\ \A k \in 1 .. K : JumpsFit(k, locals', nest')
      /\ \A l \in 1 .. Len(loops) : loops[l].at \in 1 .. K => LoopFits(loops[l], locals', nest')
      /\ \A k \in 1 .. K : nest'[k].kind \in Holders => Within(locals', Depth(nest', k))
  BY <1>1, <1>4, AllStay
<1>6. \A l \in 1 .. Len(loops') : LoopFits(loops'[l], locals', nest')
  BY <1>2, <1>5
<1>7. \A s \in paths' : IsFrame(s, locals', scope', Held(nest', Len(nest')))
  BY <1>1, <1>3, DepthsSame
<1>8. \A k \in 1 .. K : nest'[k].kind = "block" => nest'[k].jumps = {}
  BY <1>4 DEF Sound, ShapeInv
<1> QED
  BY <1>1, <1>5, <1>6, <1>7, <1>8 DEF ShapeInv

\* What control comes with at the end of the innermost construct.
LEMMA AtEnd ==
    ASSUME Sound, NEW kind \in Kinds, Here = kind
    PROVE  /\ \A s \in paths \union Last(nest).jumps :
                 IsFrame(s, locals, scope, Held(nest, Len(nest)))
           /\ kind \notin Holders => Held(nest, Len(nest)) = Held(nest, Len(nest) - 1)
           /\ kind \in Holders => Held(nest, Len(nest)) = Held(nest, Len(nest) - 1) + 1
           /\ Held(nest, Len(nest) - 1) \in Nat
<1> DEFINE N == Len(nest) - 1
<1>1. /\ N \in Nat /\ Len(nest) = N + 1 /\ Last(nest) = nest[N + 1]
      /\ Len(nest) \in 1 .. Len(nest)
      /\ scope = Depth(nest, N + 1) /\ Held(nest, N) \in Nat
      /\ Held(nest, N + 1) = Held(nest, N) + (IF kind \in Holders THEN 1 ELSE 0)
  BY Innermost
<1>2. /\ JumpsFit(Len(nest), locals, nest)
      /\ \A s \in paths : IsFrame(s, locals, scope, Held(nest, Len(nest)))
  BY <1>1 DEF Sound, ShapeInv
<1>3. /\ Len(nest) - 1 = N
      /\ Held(nest, Len(nest)) = Held(nest, N) + (IF kind \in Holders THEN 1 ELSE 0)
      /\ scope = Depth(nest, Len(nest)) /\ Last(nest) = nest[Len(nest)]
  BY <1>1
<1> HIDE DEF N
<1>4. \A s \in Last(nest).jumps : IsFrame(s, locals, scope, Held(nest, Len(nest)))
  BY <1>2, <1>3 DEF JumpsFit
<1>5. /\ kind \notin Holders => Held(nest, Len(nest)) = Held(nest, N)
      /\ kind \in Holders => Held(nest, Len(nest)) = Held(nest, N) + 1
      /\ Held(nest, N) \in Nat
  BY <1>1, <1>3
<1> QED
  BY <1>2, <1>4, <1>5 DEF N

LEMMA LoopsUnchanged ==
    ASSUME Sound, NEW kind \in Kinds, Here = kind, kind \notin LoopKinds, loops' = loops
    PROVE  LoopsRemain
<1>1. \A l \in 1 .. Len(loops) : loops[l].at \in 1 .. Len(nest) - 1
  BY Innermost
<1> QED
  BY <1>1 DEF LoopsRemain

LEMMA ShapeEnds ==
    ASSUME Sound, Moved, Closes,
           \/ EndIf /\ Here = "else"
           \/ EndDefault /\ Here = "default"
    PROVE  ShapeInv'
<1>1. PICK kind \in {"else", "default"} : Here = kind
  OBVIOUS
<1>2. kind \in Kinds /\ kind \notin LoopKinds /\ kind \notin Holders
  BY DEF Kinds, OneStat, LoopKinds, Holders, Structs
<1>3. /\ locals' = locals /\ scope' = scope /\ loops' = loops
      /\ paths' \subseteq paths \union Last(nest).jumps
  BY DEF EndIf, EndDefault
<1>4. LoopsRemain
  BY <1>1, <1>2, <1>3, LoopsUnchanged
<1>5. \A s \in paths' : IsFrame(s, locals, scope', Held(nest, Len(nest) - 1))
  BY <1>1, <1>2, <1>3, AtEnd
<1> QED
  BY <1>3, <1>4, <1>5, ShapeCloses

\* The value of a switch or struct is popped.
LEMMA ShapeReleases ==
    ASSUME Sound, Moved, Closes,
           (EndSwitch /\ Here = "switch") \/ (EndStruct /\ Here \in Structs)
    PROVE  ShapeInv'
<1> DEFINE t == Held(nest, Len(nest) - 1)
<1>1. PICK kind \in Holders : Here = kind
  BY DEF Holders
<1>2. kind \in Kinds /\ kind \notin LoopKinds
  BY DEF Kinds, LoopKinds, Holders, Structs
<1>3. /\ locals' = locals /\ scope' = scope /\ loops' = loops
      /\ paths' \subseteq Popped(paths \union Last(nest).jumps, 1)
  BY DEF EndSwitch, EndStruct, Popped
<1>4. LoopsRemain
  BY <1>1, <1>2, <1>3, LoopsUnchanged
<1>5. locals \in Seq(LocalRecords) /\ scope \in Int
  BY Depths DEF Sound, Typed
<1>6. t \in Nat /\ \A s \in paths \union Last(nest).jumps : IsFrame(s, locals, scope, t + 1)
  BY <1>1, <1>2, AtEnd
<1> HIDE DEF t
<1>7. \A s \in paths \union Last(nest).jumps : IsFrame(Drop(s, 1), locals, scope, t)
  BY <1>5, <1>6, FramePopped
<1>8. \A s \in paths' : IsFrame(s, locals, scope', t)
  BY <1>3, <1>7 DEF Popped
<1> QED
  BY <1>3, <1>4, <1>8, ShapeCloses DEF t

LEMMA LoopsClosed ==
    ASSUME Len(loops) \in Nat, Len(loops') = Len(loops) - 1,
           \A l \in 1 .. Len(loops) - 1 : /\ loops'[l] = loops[l] /\ l \in 1 .. Len(loops)
                                          /\ loops[l].at \in 1 .. Len(nest) - 1
    PROVE  LoopsRemain
<1> QED
  BY DEF LoopsRemain

LEMMA ShapeEndLoop ==
    ASSUME Sound, Moved, EndLoop
    PROVE  ShapeInv'
<1>1. Typed /\ NestInv
  BY DEF Sound
<1>2. /\ Closes /\ Here \in LoopKinds /\ Here # "for"
      /\ Len(loops) \in 1 .. Len(loops) /\ Len(loops) \in Nat
      /\ LoopsRemain
  BY <1>1, EndLoopSteps, LoopsClosed
<1>3. Here \in Kinds /\ Here \notin Holders
  BY <1>2 DEF Kinds, OneStat, Scoped, LoopKinds, Holders, Structs
<1>4. locals' = locals /\ scope' = scope /\ paths' = Last(nest).jumps \union Last(loops).breaks
  BY DEF EndLoop
<1>5. /\ Last(loops) = loops[Len(loops)] /\ loops[Len(loops)].at = Len(nest)
      /\ loops[Len(loops)].kind = Here /\ loops[Len(loops)].scope = scope
  BY <1>1, <1>2, LastLoop
<1>6. LoopFits(loops[Len(loops)], locals, nest)
  BY <1>2 DEF Sound, ShapeInv
<1>7. \A s \in Last(loops).breaks : IsFrame(s, locals, scope, Held(nest, Len(nest)))
  BY <1>2, <1>5, <1>6 DEF LoopFits, Outside
<1>8. /\ \A s \in Last(nest).jumps : IsFrame(s, locals, scope, Held(nest, Len(nest)))
      /\ Held(nest, Len(nest)) = Held(nest, Len(nest) - 1)
  BY <1>3, AtEnd
<1>9. \A s \in paths' : IsFrame(s, locals, scope', Held(nest, Len(nest) - 1))
  BY <1>4, <1>7, <1>8
<1> QED
  BY <1>2, <1>4, <1>9, ShapeCloses

LEMMA ShapeElse ==
    ASSUME Sound, Moved, Else, Here = "then", Replaces("else", paths)
    PROVE  ShapeInv'
<1> DEFINE K == Len(nest) - 1
<1>1. /\ K \in Nat /\ K <= Len(nest) /\ Len(nest') = K + 1 /\ Len(nest) = K + 1
      /\ SameKinds(K) /\ SameJumps(K) /\ nest'[K + 1].kind = "else" /\ nest'[K + 1].jumps = paths
  <2>1. Len(nest) \in Nat /\ Len(nest) = K + 1
    BY DEF Replaces
  <2> QED
    BY <2>1 DEF Replaces
<1>2. /\ locals' = locals /\ scope' = scope /\ loops' = loops /\ paths' = Last(nest).jumps
  BY DEF Else
<1>3. /\ "then" \in Kinds /\ "then" \notin LoopKinds /\ "then" \notin Holders
      /\ "else" \notin Holders
  BY DEF Kinds, OneStat, LoopKinds, Holders, Structs
<1>4. /\ \A s \in paths \union Last(nest).jumps : IsFrame(s, locals, scope, Held(nest, K + 1))
      /\ Held(nest, K + 1) = Held(nest, K)
  BY <1>1, <1>3, AtEnd
<1>5. \A l \in 1 .. Len(loops) : loops[l].at \in 1 .. K
  BY <1>3, Innermost
<1> HIDE DEF K
<1>6. Held(nest', K + 1) = Held(nest, K) /\ Depth(nest', K + 1) = scope
  <2>1. Held(nest', K + 1) = Held(nest', K) + (IF nest'[K + 1].kind \in Holders THEN 1 ELSE 0)
    BY <1>1, DepthsAre
  <2>2. Held(nest', K) = Held(nest, K) /\ Held(nest, K) \in Nat
    BY <1>1, DepthsSame, DepthsAre
  <2>3. Held(nest', K + 1) = Held(nest, K)
    BY <1>1, <1>3, <2>1, <2>2
  <2> QED
    BY <1>1, <1>2, <2>3 DEF Moved, NestInv
<1>7. \A k \in 1 .. K : /\ nest'[k].jumps = nest[k].jumps /\ nest'[k].kind = nest[k].kind
                        /\ k \in 1 .. Len(nest)
  BY <1>1 DEF SameKinds, SameJumps
<1>8. /\ \A k \in 1 .. K : JumpsFit(k, locals', nest')
      /\ \A l \in 1 .. Len(loops) : LoopFits(loops[l], locals', nest')
      /\ \A k \in 1 .. K : nest'[k].kind \in Holders => Within(locals', Depth(nest', k))
  BY <1>1, <1>2, <1>5, <1>7, AllStay
<1>9. JumpsFit(K + 1, locals', nest')
  BY <1>1, <1>2, <1>4, <1>6 DEF JumpsFit
<1>10. \A k \in 1 .. Len(nest') : k \in 1 .. K \/ k = K + 1
  BY <1>1
<1>11. \A s \in paths' : IsFrame(s, locals', scope', Held(nest', Len(nest')))
  BY <1>1, <1>2, <1>4, <1>6
<1>12. \A k \in 1 .. K : nest'[k].kind = "block" => nest'[k].jumps = {}
  BY <1>7 DEF Sound, ShapeInv
<1>13. "else" # "block"
  OBVIOUS
<1>14. \A k \in 1 .. Len(nest') : /\ nest'[k].kind = "block" => nest'[k].jumps = {}
                                  /\ nest'[k].kind \in Holders => Within(locals', Depth(nest', k))
                                  /\ JumpsFit(k, locals', nest')
  BY <1>1, <1>3, <1>8, <1>9, <1>10, <1>12, <1>13
<1>15. \A l \in 1 .. Len(loops') : LoopFits(loops'[l], locals', nest')
  BY <1>2, <1>8
<1> QED
  BY <1>11, <1>14, <1>15 DEF ShapeInv

\* The case that ends jumps to the end of its switch.
LEMMA ShapeEndCase ==
    ASSUME Sound, Moved, EndCase, Here = "case", Merges(paths),
           nest[Len(nest) - 1].kind = "switch"
    PROVE  ShapeInv'
<1> DEFINE K == Len(nest) - 1
<1>1. K \in Nat \ {0} /\ Len(nest) = K + 1
  <2>1. Len(nest) \in Nat /\ Len(nest) - 1 \in Nat \ {0}
    BY Depths DEF Merges
  <2> QED
    BY <2>1
<1>2. /\ Len(nest') = K /\ SameKinds(K) /\ SameJumps(K - 1)
      /\ nest'[K].jumps = nest[K].jumps \union paths /\ nest[K].kind = "switch"
  BY <1>1 DEF Merges
<1>3. /\ locals' = locals /\ scope' = scope /\ loops' = loops /\ paths' = Last(nest).jumps
  BY DEF EndCase
<1>4. /\ "case" \in Kinds /\ "case" \notin LoopKinds /\ "case" \notin Holders
      /\ "case" \notin Scoped /\ "switch" # "block"
  BY DEF Kinds, OneStat, LoopKinds, Holders, Structs, Scoped
<1>5. /\ \A s \in paths \union Last(nest).jumps : IsFrame(s, locals, scope, Held(nest, K + 1))
      /\ Held(nest, K + 1) = Held(nest, K)
  BY <1>1, <1>4, AtEnd
<1>6. /\ \A l \in 1 .. Len(loops) : loops[l].at \in 1 .. K
      /\ scope = Depth(nest, K) + 0 /\ Depth(nest, K) \in Nat
  BY <1>4, Innermost
<1> HIDE DEF K
<1>7. Depth(nest', K) = scope /\ Held(nest', K) = Held(nest, K) /\ Depth(nest, K) = scope
  BY <1>1, <1>2, <1>6, DepthsSame
<1>8. K <= Len(nest) /\ K \in Nat /\ K \in 1 .. K /\ K \in 1 .. Len(nest)
  BY <1>1
<1>9. /\ \A k \in 1 .. K : /\ nest'[k].kind = nest[k].kind /\ k \in 1 .. Len(nest)
                           /\ k \in 1 .. K - 1 \/ k = K
      /\ \A k \in 1 .. K - 1 : nest'[k].jumps = nest[k].jumps /\ k \in 1 .. K
  BY <1>1, <1>2 DEF SameKinds, SameJumps
<1>10. /\ \A k \in 1 .. K - 1 : JumpsFit(k, locals', nest')
       /\ \A l \in 1 .. Len(loops) : LoopFits(loops[l], locals', nest')
       /\ \A k \in 1 .. K : nest'[k].kind \in Holders => Within(locals', Depth(nest', k))
  BY <1>2, <1>3, <1>6, <1>8, <1>9, AllStay
<1>11. JumpsFit(K, locals', nest')
  <2>1. JumpsFit(K, locals, nest)
    BY <1>8 DEF Sound, ShapeInv
  <2> QED
    BY <1>2, <1>3, <1>5, <1>7, <2>1 DEF JumpsFit
<1>12. \A s \in paths' : IsFrame(s, locals', scope', Held(nest', Len(nest')))
  BY <1>2, <1>3, <1>5, <1>7
<1>13. \A k \in 1 .. K - 1 : nest'[k].kind = "block" => nest'[k].jumps = {}
  BY <1>9 DEF Sound, ShapeInv
<1>14. \A k \in 1 .. K : /\ nest'[k].kind = "block" => nest'[k].jumps = {}
                         /\ JumpsFit(k, locals', nest')
  BY <1>2, <1>4, <1>9, <1>10, <1>11, <1>13
<1>15. \A l \in 1 .. Len(loops') : LoopFits(loops'[l], locals', nest')
  BY <1>3, <1>10
<1> QED
  BY <1>2, <1>10, <1>12, <1>14, <1>15 DEF ShapeInv

\* A scope ends, and its locals with it.
LEMMA ShapeLeaves ==
    ASSUME Sound, Moved, NEW kind \in Scoped, Here = kind, Closes, LoopsRemain,
           scope' = scope - 1, scope' \in Nat, locals' = Drop(locals, Discarded(scope')),
           NEW ps, \A s \in ps : IsFrame(s, locals, scope, Held(nest, Len(nest))),
           NEW bs, \A s \in bs : IsFrame(s, locals, scope', Held(nest, Len(nest))),
           paths' = Popped(ps, Discarded(scope')) \union bs
    PROVE  ShapeInv'
<1> DEFINE K == Len(nest) - 1
           t == Held(nest, K)
<1>1. /\ K \in Nat /\ K <= Len(nest) /\ Len(nest') = K /\ Len(nest) = K + 1
      /\ SameKinds(K) /\ SameJumps(K) /\ K \in 0 .. Len(nest)
  BY DEF Closes
<1>2. kind \in Kinds /\ kind \notin Holders
  BY DEF Kinds, Scoped, Holders, Structs
<1>3. /\ scope = Depth(nest, K) + 1 /\ Depth(nest, K) \in Nat
      /\ \A k \in 1 .. K : Depth(nest, k) <= Depth(nest, K)
      /\ \A l \in 1 .. Len(loops) : loops[l].at \in 1 .. K => loops[l].scope <= Depth(nest, K)
  BY <1>2, Innermost
<1>4. Held(nest, Len(nest)) = t /\ t \in Nat
  BY <1>2, AtEnd
<1>5. Depth(nest, K) = scope' /\ scope \in Nat
  BY <1>3
<1>6. locals \in Seq(LocalRecords) /\ Rising(locals) /\ Within(locals, scope)
  BY DEF Sound, Typed, DepthInv
<1>7. Stays(scope')
  BY StaysDropped
<1>8. \A l \in 1 .. Len(loops') : \E m \in 1 .. Len(loops) :
         loops'[l] = loops[m] /\ loops[m].at \in 1 .. K
  BY DEF LoopsRemain
<1> HIDE DEF K
<1>9. Held(nest', Len(nest')) = t
  BY <1>1, DepthsSame
<1>10. t > 0 => Within(locals, scope')
  BY <1>1, <1>4, <1>5, HeldWithin
<1>11. /\ \A s \in ps : IsFrame(s, locals, scope, t)
       /\ \A s \in bs : IsFrame(s, locals, scope', t)
  BY <1>4
<1> HIDE DEF t
<1>12. \A s \in ps : IsFrame(Drop(s, Discarded(scope')), locals, scope', t)
  BY <1>4, <1>5, <1>6, <1>10, <1>11, FrameDiscarded
<1>13. \A s \in paths' : IsFrame(s, locals, scope', t)
  BY <1>11, <1>12 DEF Popped
<1>14. \A s \in paths' : IsFrame(s, locals', scope', t)
  BY <1>4, <1>7, <1>13, FrameStays
<1>15. \A k \in 1 .. K : /\ nest'[k].jumps = nest[k].jumps /\ nest'[k].kind = nest[k].kind
                         /\ k \in 1 .. Len(nest)
  BY <1>1 DEF SameKinds, SameJumps
<1>16. ASSUME NEW k \in 1 .. K PROVE JumpsFit(k, locals', nest')
  <2>1. Depth(nest, k) <= scope' /\ nest'[k].jumps = nest[k].jumps
    BY <1>3, <1>5, <1>15
  <2> QED
    BY <1>1, <1>7, <2>1, JumpsStay
<1>17. ASSUME NEW l \in 1 .. Len(loops') PROVE LoopFits(loops'[l], locals', nest')
  <2>1. PICK m \in 1 .. Len(loops) : loops'[l] = loops[m] /\ loops[m].at \in 1 .. K
    BY <1>8
  <2>2. loops[m].scope <= scope'
    BY <1>3, <1>5, <2>1
  <2>3. LoopFits(loops[m], locals', nest')
    BY <1>1, <1>7, <2>1, <2>2, LoopsStay
  <2> QED
    BY <2>1, <2>3
<1>18. ASSUME NEW k \in 1 .. K, nest'[k].kind \in Holders PROVE Within(locals', Depth(nest', k))
  <2>1. Depth(nest', k) = Depth(nest, k)
    BY <1>1, DepthsSame
  <2>2. Within(locals, Depth(nest, k))
    BY <1>15, <1>18 DEF Sound, ShapeInv
  <2>3. \A i \in 1 .. Len(locals') : locals'[i] = locals[i] /\ i \in 1 .. Len(locals)
    BY LocalsDropped DEF Sound
  <2> QED
    BY <2>1, <2>2, <2>3 DEF Within
<1>19. \A k \in 1 .. K : nest'[k].kind = "block" => nest'[k].jumps = {}
  BY <1>15 DEF Sound, ShapeInv
<1>20. \A s \in paths' : IsFrame(s, locals', scope', Held(nest', Len(nest')))
  BY <1>9, <1>14
<1> QED
  BY <1>1, <1>16, <1>17, <1>18, <1>19, <1>20 DEF ShapeInv

LEMMA ShapeEndBlock ==
    ASSUME Sound, Moved, EndBlock, Here = "block", Closes
    PROVE  ShapeInv'
<1>1. /\ "block" \in Scoped /\ "block" \in Kinds /\ "block" \notin LoopKinds
  BY DEF Scoped, Kinds, LoopKinds
<1>2. loops' = loops /\ paths' = Popped(paths, Discarded(scope - 1))
  BY DEF EndBlock, EndScope
<1>3. /\ scope' = scope - 1 /\ scope' \in Nat
      /\ locals' = Drop(locals, Discarded(scope'))
  BY Downwards DEF Sound
<1>4. LoopsRemain
  BY <1>1, <1>2, LoopsUnchanged
<1>5. \A s \in paths : IsFrame(s, locals, scope, Held(nest, Len(nest)))
  BY DEF Sound, ShapeInv
<1> DEFINE none == {}
<1>6. paths' = Popped(paths, Discarded(scope')) \union none
  BY <1>2, <1>3
<1>7. \A s \in none : IsFrame(s, locals, scope', Held(nest, Len(nest)))
  OBVIOUS
<1> HIDE DEF none
<1> QED
  BY <1>1, <1>3, <1>4, <1>5, <1>6, <1>7, ShapeLeaves

LEMMA ShapeEndFor ==
    ASSUME Sound, Moved, EndFor
    PROVE  ShapeInv'
<1>1. Typed /\ NestInv
  BY DEF Sound
<1>2. /\ Closes /\ Here = "for"
      /\ Len(loops) \in 1 .. Len(loops) /\ Len(loops) \in Nat
      /\ LoopsRemain
  BY <1>1, EndLoopSteps, LoopsClosed
<1>3. "for" \in Scoped /\ "for" \in Kinds /\ "for" \in LoopKinds
  BY DEF Scoped, Kinds, OneStat, LoopKinds
<1>4. /\ scope' = scope - 1 /\ scope' \in Nat
      /\ locals' = Drop(locals, Discarded(scope'))
  BY <1>1, Downwards
<1>5. paths' = Popped(Last(nest).jumps, Discarded(scope')) \union Last(loops).breaks
  BY <1>4 DEF EndFor
<1>6. /\ Last(loops) = loops[Len(loops)] /\ loops[Len(loops)].at = Len(nest)
      /\ loops[Len(loops)].kind = "for" /\ loops[Len(loops)].scope = scope
  BY <1>1, <1>2, <1>3, LastLoop
<1>7. LoopFits(loops[Len(loops)], locals, nest)
  BY <1>2 DEF Sound, ShapeInv
<1>8. \A s \in Last(loops).breaks : IsFrame(s, locals, scope', Held(nest, Len(nest)))
  BY <1>4, <1>6, <1>7 DEF LoopFits, Outside
<1>9. \A s \in Last(nest).jumps : IsFrame(s, locals, scope, Held(nest, Len(nest)))
  BY <1>2, <1>3, AtEnd
<1> QED
  BY <1>2, <1>3, <1>4, <1>5, <1>8, <1>9, ShapeLeaves

LEMMA ShapeStep ==
    ASSUME Quirks = {}, Sound, [Next]_vars
    PROVE  Sound'
<1>1. Typed /\ NestInv /\ DepthInv /\ ShapeInv /\ "function" \notin Quirks
  BY DEF Sound
<1>2. Moved
  <2>1. Typed' /\ NestInv'
    BY <1>1, TypedStep
  <2>2. DepthInv'
    BY <1>1, DepthStep
  <2> QED
    BY <2>1, <2>2 DEF Moved
<1>3. CASE UNCHANGED vars
  BY <1>1, <1>3 DEF Sound, Typed, NestInv, DepthInv, ShapeInv, vars
<1>4. CASE Function \/ Method \/ Return \/ Member
  <2>1. Fills
    BY <1>1, <1>4, FillSteps
  <2>2. locals' = locals
    BY <1>1, <1>4, LocalsSame
  <2>3. loops' = loops /\ scope' = scope
    BY <1>4 DEF Function, Method, Return, Member
  <2>4. paths' \subseteq paths
    BY <1>4 DEF Function, Method, Return, Member
  <2>5. ShapeInv'
    BY <1>2, <2>1, <2>2, <2>3, <2>4, ShapeFills
  <2> QED
    BY <1>2, <2>5 DEF Sound, Moved
<1>5. CASE VarDecl
  <2>1. ~InSwitch
    BY <1>5 DEF VarDecl, Declare
  <2>2. ShapeInv'
    BY <1>2, <1>5, <2>1, ShapeVarDecl
  <2> QED
    BY <1>2, <2>2 DEF Sound, Moved
<1>6. ASSUME NEW global \in BOOLEAN, EnumDecl(global) PROVE Sound'
  <2>1. EnumDecl(FALSE)
    BY <1>6 DEF EnumDecl
  <2>2. ShapeInv'
    BY <1>2, <2>1, ShapeEnum
  <2> QED
    BY <1>2, <2>2 DEF Sound, Moved
<1>7. ASSUME NEW l \in 1 .. Len(loops), Break(l) \/ Continue(l) PROVE Sound'
  <2>1. locals' = locals
    BY <1>7 DEF Break, Continue
  <2>2. ShapeInv'
    BY <1>2, <1>7, <2>1, ShapeJump
  <2> QED
    BY <1>2, <2>2 DEF Sound, Moved
<1>8. CASE BeginBlock \/ BeginIf \/ Case \/ Default
  <2>1. ShapeInv'
    BY <1>1, <1>2, <1>8, OpenSteps, ShapeBegins
  <2> QED
    BY <1>2, <2>1 DEF Sound, Moved
<1>9. CASE BeginSwitch
  <2>1. Opens("switch", {}) /\ "switch" \in Holders
    BY <1>1, <1>9, OpenSteps DEF Holders
  <2>2. locals' = locals /\ loops' = loops /\ scope' = scope /\ paths' = Pushed(Temp)
    BY <1>9 DEF BeginSwitch
  <2>3. ShapeInv'
    BY <1>2, <2>1, <2>2, ShapeHolds
  <2> QED
    BY <1>2, <2>3 DEF Sound, Moved
<1>10. CASE BeginLoop \/ BeginWhile
  <2>1. ShapeInv'
    BY <1>1, <1>2, <1>10, LoopSteps, ShapeLoops
  <2> QED
    BY <1>2, <2>1 DEF Sound, Moved
<1>11. ASSUME NEW declares \in BOOLEAN, NEW cond \in BOOLEAN, BeginFor(declares, cond)
       PROVE  Sound'
  <2>1. declares => ~InSwitch
    BY <1>11 DEF BeginFor, Declare
  <2>2. /\ Opens("for", IF cond THEN paths' ELSE {}) /\ Len(loops') = Len(loops) + 1
        /\ loops'[Len(loops) + 1] = Loop("for", scope + 1, paths') /\ LoopOpens("for")
    BY <1>1, <1>11, ForSteps
  <2>3. ShapeInv'
    BY <1>2, <1>11, <2>1, <2>2, ShapeFor
  <2> QED
    BY <1>2, <2>3 DEF Sound, Moved
<1>12. ASSUME NEW static \in BOOLEAN, NEW global \in BOOLEAN, BeginStruct(static, global)
       PROVE  Sound'
  <2>1. Opens(IF static THEN "static struct" ELSE "struct", {})
    BY <1>1, <1>12, StructSteps
  <2>2. ShapeInv'
    BY <1>2, <1>12, <2>1, ShapeStruct
  <2> QED
    BY <1>2, <2>2 DEF Sound, Moved
<1>13. CASE EndIf \/ EndDefault
  <2>1. ShapeInv'
    BY <1>1, <1>2, <1>13, CloseSteps, ShapeEnds
  <2> QED
    BY <1>2, <2>1 DEF Sound, Moved
<1>14. CASE EndSwitch \/ EndStruct
  <2>1. ShapeInv'
    BY <1>1, <1>2, <1>14, CloseSteps, ShapeReleases
  <2> QED
    BY <1>2, <2>1 DEF Sound, Moved
<1>15. CASE EndBlock
  <2>1. ShapeInv'
    BY <1>1, <1>2, <1>15, CloseSteps, ShapeEndBlock
  <2> QED
    BY <1>2, <2>1 DEF Sound, Moved
<1>16. CASE Else \/ EndCase
  <2>1. ShapeInv'
    BY <1>1, <1>2, <1>16, ElseSteps, CaseSteps, ShapeElse, ShapeEndCase
  <2> QED
    BY <1>2, <2>1 DEF Sound, Moved
<1>17. CASE EndLoop \/ EndFor
  <2>1. ShapeInv'
    BY <1>2, <1>17, ShapeEndLoop, ShapeEndFor
  <2> QED
    BY <1>2, <2>1 DEF Sound, Moved
<1> QED
  BY <1>3, <1>4, <1>5, <1>6, <1>7, <1>8, <1>9, <1>10, <1>11, <1>12, <1>13, <1>14, <1>15,
     <1>16, <1>17 DEF Next

LEMMA ShapeInit == Init => Sound
<1> SUFFICES ASSUME Init PROVE Sound
  OBVIOUS
<1>1. Typed /\ NestInv /\ DepthInv
  BY TypedInit, DepthInit
<1>2. Len(nest) = 0 /\ Len(loops) = 0 /\ scope = 0 /\ paths = {<<Callee>>}
  BY DEF Init
<1>3. Held(nest, Len(nest)) = 0
  BY <1>2, DepthsAre
<1>4. /\ Len(locals) = 1 /\ locals[1].id = Callee /\ locals[1].depth = 0
  BY DEF Init, Local
<1>5. IsFrame(<<Callee>>, locals, 0, 0)
  <2> DEFINE s == <<Callee>>
  <2>1. s \in Seq(Int) /\ Len(s) = 1 /\ s[1] = Callee
    BY DEF Callee
  <2> HIDE DEF s
  <2>2. IsFrame(s, locals, 0, 0)
    BY <1>4, <2>1 DEF IsFrame
  <2> QED
    BY <2>2 DEF s
<1>6. ShapeInv
  BY <1>2, <1>3, <1>5 DEF ShapeInv
<1> QED
  BY <1>1, <1>6 DEF Sound

\* On every way control can come to an instruction, each local is in the slot
\* of its number and above the locals is one value for each switch and struct
\* around it: bc_get_local and the pops that discard_locals writes are right,
\* in programs of any length without the constructs Quirks names.
THEOREM InPlace == ASSUME Quirks = {} PROVE Spec => []LocalsInPlace
<1>1. Init => Sound
  BY ShapeInit
<1>2. Sound /\ [Next]_vars => Sound'
  BY ShapeStep
<1>3. Sound => LocalsInPlace
  <2> SUFFICES ASSUME Sound, NEW s \in paths
               PROVE  /\ Len(s) = Len(locals) + Cardinality(Temps)
                      /\ \A i \in 1 .. Len(locals) : s[i] = locals[i].id
    BY DEF LocalsInPlace
  <2>1. Temps = {k \in 1 .. Len(nest) : nest[k].kind \in Holders}
    BY DEF Temps, Holders, Structs
  <2>2. Cardinality(Temps) = Held(nest, Len(nest))
    BY <2>1 DEF Held, Count
  <2>3. /\ locals \in Seq(LocalRecords) /\ Within(locals, scope)
        /\ IsFrame(s, locals, scope, Held(nest, Len(nest)))
    BY DEF Sound, Typed, DepthInv, ShapeInv
  <2>4. scope \in Int /\ Held(nest, Len(nest)) \in Nat
    BY Depths
  <2> QED
    BY <2>2, <2>3, <2>4, FullFrame
<1> QED
  BY <1>1, <1>2, <1>3, PTL DEF Spec

-----------------------------------------------------------------------------
(* Loops that control never comes to: nothing in them is reached either.     *)

Dead(l, ps, n, ls) ==
    /\ ps = {}
    /\ \A k \in ls[l].at .. Len(n) : n[k].jumps = {}
    /\ \A m \in l .. Len(ls) : ls[m].start = {} /\ ls[m].back = {} /\ ls[m].breaks = {}

DeadInv == \A l \in 1 .. Len(loops) : loops[l].start = {} => Dead(l, paths, nest, loops)

\* A step that begins and ends no construct.
LEMMA DeadFills ==
    ASSUME Typed, NestInv, DeadInv, Fills, SameLoops, paths = {} => paths' = {},
           \A l \in 1 .. Len(loops) :
              /\ loops'[l].start = loops[l].start
              /\ loops[l].start = {} /\ paths = {}
                 => /\ loops'[l].back \subseteq loops[l].back
                    /\ loops'[l].breaks \subseteq loops[l].breaks
    PROVE  DeadInv'
<1> SUFFICES ASSUME NEW l \in 1 .. Len(loops'), loops'[l].start = {}
             PROVE  Dead(l, paths', nest', loops')
  BY DEF DeadInv
<1>1. /\ l \in 1 .. Len(loops) /\ Len(loops') = Len(loops) /\ loops'[l].at = loops[l].at
      /\ loops[l].start = {} /\ l \in Nat /\ Len(loops) \in Nat
  BY LoopFields DEF SameLoops, Typed
<1>2. Dead(l, paths, nest, loops)
  BY <1>1 DEF DeadInv
<1>3. Len(nest') = Len(nest) /\ SameJumps(Len(nest)) /\ loops[l].at \in 1 .. Len(nest)
      /\ Len(nest) \in Nat
  BY <1>1, EntryFields DEF Fills, NestInv, LoopPlaced, Typed
<1>4. ASSUME NEW k \in loops'[l].at .. Len(nest') PROVE nest'[k].jumps = {}
  <2>1. k \in loops[l].at .. Len(nest)
    BY <1>1, <1>3
  <2>2. k \in 1 .. Len(nest)
    BY <1>3, <2>1
  <2> QED
    BY <1>2, <1>3, <2>1, <2>2 DEF Dead, SameJumps
<1>5. ASSUME NEW m \in l .. Len(loops')
      PROVE  loops'[m].start = {} /\ loops'[m].back = {} /\ loops'[m].breaks = {}
  <2>1. m \in l .. Len(loops) /\ m \in 1 .. Len(loops)
    BY <1>1
  <2>2. loops[m].start = {} /\ loops[m].back = {} /\ loops[m].breaks = {} /\ paths = {}
    BY <1>2, <2>1 DEF Dead
  <2> QED
    BY <2>1, <2>2
<1> QED
  BY <1>2, <1>4, <1>5 DEF Dead

\* A construct opens, with a loop of its own or without.
LEMMA DeadOpens ==
    ASSUME Typed, NestInv, DeadInv, NEW kind, NEW jumps, Opens(kind, jumps),
           paths = {} => paths' = {} /\ jumps = {},
           Len(loops') \in Len(loops) .. Len(loops) + 1,
           \A l \in 1 .. Len(loops) : loops'[l] = loops[l],
           \A l \in 1 .. Len(loops') : l > Len(loops) =>
              /\ loops'[l].at = Len(nest) + 1 /\ loops'[l].back = {} /\ loops'[l].breaks = {}
              /\ loops'[l].start = {} => paths' = {} /\ jumps = {}
              /\ paths = {} => loops'[l].start = {}
    PROVE  DeadInv'
<1> SUFFICES ASSUME NEW l \in 1 .. Len(loops'), loops'[l].start = {}
             PROVE  Dead(l, paths', nest', loops')
  BY DEF DeadInv
<1> DEFINE N == Len(nest)
           L == Len(loops)
<1>1. /\ N \in Nat /\ Len(nest') = N + 1 /\ SameJumps(N) /\ nest'[N + 1].jumps = jumps
      /\ L \in Nat /\ Len(loops') \in L .. L + 1 /\ l \in Nat
  BY LoopFields DEF Opens, Typed
<1>2. CASE l > L
  <2>1. loops'[l].at = N + 1 /\ paths' = {} /\ jumps = {}
    BY <1>2
  <2>2. \A k \in loops'[l].at .. Len(nest') : k = N + 1
    BY <1>1, <2>1
  <2>3. \A m \in l .. Len(loops') : m = l
    BY <1>1, <1>2
  <2>4. loops'[l].back = {} /\ loops'[l].breaks = {}
    BY <1>2
  <2> QED
    BY <1>1, <2>1, <2>2, <2>3, <2>4 DEF Dead
<1>3. CASE l <= L
  <2>1. l \in 1 .. L /\ loops'[l] = loops[l]
    BY <1>1, <1>3
  <2>2. Dead(l, paths, nest, loops)
    BY <2>1 DEF DeadInv
  <2>3. paths = {} /\ paths' = {} /\ jumps = {}
    BY <2>2 DEF Dead
  <2>4. loops[l].at \in 1 .. N
    BY <2>1 DEF NestInv, LoopPlaced
  <2>5. ASSUME NEW k \in loops'[l].at .. Len(nest') PROVE nest'[k].jumps = {}
    <3>1. (k \in loops[l].at .. N /\ k \in 1 .. N) \/ k = N + 1
      BY <1>1, <2>1, <2>4
    <3>2. \A j \in loops[l].at .. N : nest[j].jumps = {}
      BY <2>2 DEF Dead
    <3> QED
      BY <1>1, <2>3, <3>1, <3>2 DEF SameJumps
  <2>6. ASSUME NEW m \in l .. Len(loops')
        PROVE  loops'[m].start = {} /\ loops'[m].back = {} /\ loops'[m].breaks = {}
    <3>1. m \in 1 .. Len(loops') /\ m \in l .. Len(loops')
      BY <1>1
    <3>2. CASE m > L
      BY <2>3, <3>1, <3>2
    <3>3. CASE m <= L
      <4>1. m \in l .. L /\ m \in 1 .. L
        BY <1>1, <3>1, <3>3
      <4> QED
        BY <2>2, <4>1 DEF Dead
    <3> QED
      BY <1>1, <3>1, <3>2, <3>3
  <2> QED
    BY <2>3, <2>5, <2>6 DEF Dead
<1> QED
  BY <1>1, <1>2, <1>3

\* The innermost construct closes or changes its kind.
LEMMA DeadCloses ==
    ASSUME Typed, NestInv, DeadInv, Len(nest) \in Nat \ {0},
           Len(nest') \in Nat, Len(nest') <= Len(nest),
           \A k \in 1 .. Len(nest') : nest'[k].jumps \subseteq nest[k].jumps \union paths,
           Len(loops') \in Nat, Len(loops') <= Len(loops),
           \A l \in 1 .. Len(loops') :
              loops'[l] = loops[l] /\ loops[l].at \in 1 .. Len(nest) - 1,
           /\ paths = {} /\ nest[Len(nest)].jumps = {}
           /\ Here \in LoopKinds => loops[Len(loops)].breaks = {}
           => paths' = {}
    PROVE  DeadInv'
<1> SUFFICES ASSUME NEW l \in 1 .. Len(loops'), loops'[l].start = {}
             PROVE  Dead(l, paths', nest', loops')
  BY DEF DeadInv
<1> DEFINE N == Len(nest)
           L == Len(loops)
<1>1. N \in Nat \ {0} /\ L \in Nat /\ l \in Nat /\ l \in 1 .. L
  BY LoopFields DEF Typed
<1>2. loops'[l] = loops[l] /\ loops[l].at \in 1 .. N - 1
  OBVIOUS
<1>3. Dead(l, paths, nest, loops)
  BY <1>1, <1>2 DEF DeadInv
<1>4. N \in loops[l].at .. N /\ L \in l .. L
  BY <1>1, <1>2
<1>5. paths = {} /\ nest[N].jumps = {} /\ loops[L].breaks = {}
  BY <1>3, <1>4 DEF Dead
<1>6. paths' = {}
  BY <1>5
<1>7. ASSUME NEW k \in loops'[l].at .. Len(nest') PROVE nest'[k].jumps = {}
  <2>1. k \in loops[l].at .. N /\ k \in 1 .. Len(nest')
    BY <1>1, <1>2
  <2>2. nest[k].jumps = {}
    BY <1>3, <2>1 DEF Dead
  <2> QED
    BY <1>5, <2>1, <2>2
<1>8. ASSUME NEW m \in l .. Len(loops')
      PROVE  loops'[m].start = {} /\ loops'[m].back = {} /\ loops'[m].breaks = {}
  <2>1. m \in l .. L /\ m \in 1 .. Len(loops')
    BY <1>1
  <2> QED
    BY <1>3, <2>1 DEF Dead
<1> QED
  BY <1>6, <1>7, <1>8 DEF Dead

LEMMA EmptyMoves ==
    ASSUME paths = {}
    PROVE  /\ \A v : Pushed(v) = {}
           /\ \A n : Popped(paths, n) = {}
<1> QED
  BY DEF Pushed, Popped

LEMMA DeadStill ==
    ASSUME Typed, NestInv, DeadInv,
           \/ VarDecl \/ Function \/ Method \/ Return \/ Member
           \/ (\E global \in BOOLEAN : EnumDecl(global))
           \/ UNCHANGED vars
    PROVE  DeadInv'
<1>1. Fills
  BY FillSteps, FilledFills DEF vars
<1>2. loops' = loops
  BY DEF VarDecl, Function, Method, Return, Member, EnumDecl, vars
<1>3. paths = {} => paths' = {}
  <2> SUFFICES ASSUME paths = {} PROVE paths' = {}
    OBVIOUS
  <2>1. CASE VarDecl
    BY <2>1, EmptyMoves DEF VarDecl, Declare
  <2>2. CASE Function \/ Method \/ Return \/ UNCHANGED vars
    BY <2>2 DEF Function, Method, Return, vars
  <2>3. CASE Member
    BY <2>3, EmptyMoves DEF Member
  <2>4. ASSUME NEW global \in BOOLEAN, EnumDecl(global) PROVE paths' = {}
    BY <2>4, EmptyMoves DEF EnumDecl
  <2> QED
    BY <2>1, <2>2, <2>3, <2>4
<1>4. SameLoops /\ \A l \in 1 .. Len(loops) :
         /\ loops'[l].start = loops[l].start
         /\ loops'[l].back \subseteq loops[l].back /\ loops'[l].breaks \subseteq loops[l].breaks
  BY <1>2 DEF SameLoops
<1> QED
  BY <1>1, <1>3, <1>4, DeadFills

LEMMA DeadJumps ==
    ASSUME Typed, NestInv, DeadInv, NEW j \in 1 .. Len(loops), Break(j) \/ Continue(j)
    PROVE  DeadInv'
<1>1. /\ Fills /\ SameLoops
      /\ \A m \in 1 .. Len(loops) : m # j => loops'[m] = loops[m]
      /\ loops'[j].start = loops[j].start
      /\ Break(j) => /\ loops'[j].back = loops[j].back
                     /\ loops'[j].breaks = loops[j].breaks
                           \union Popped(paths, Discarded(loops[j].scope - 1))
      /\ Continue(j) => /\ loops'[j].breaks = loops[j].breaks
                        /\ loops'[j].back = loops[j].back
                              \union Popped(paths, Discarded(loops[j].scope))
  BY JumpSteps
<1>2. paths' = {}
  BY DEF Break, Continue
<1>3. paths = {} => /\ loops'[j].back \subseteq loops[j].back
                    /\ loops'[j].breaks \subseteq loops[j].breaks
  <2> SUFFICES ASSUME paths = {}
               PROVE  /\ loops'[j].back \subseteq loops[j].back
                      /\ loops'[j].breaks \subseteq loops[j].breaks
    OBVIOUS
  <2>1. CASE Break(j)
    BY <1>1, <2>1, EmptyMoves
  <2>2. CASE Continue(j)
    BY <1>1, <2>2, EmptyMoves
  <2> QED
    BY <2>1, <2>2
<1>4. \A l \in 1 .. Len(loops) :
         /\ loops'[l].start = loops[l].start
         /\ loops[l].start = {} /\ paths = {}
            => /\ loops'[l].back \subseteq loops[l].back
               /\ loops'[l].breaks \subseteq loops[l].breaks
  BY <1>1, <1>3
<1> QED
  BY <1>1, <1>2, <1>4, DeadFills

LEMMA DeadBegins ==
    ASSUME Typed, NestInv, DeadInv,
           \/ BeginBlock \/ BeginIf \/ BeginSwitch \/ Case \/ Default
           \/ \E static, global \in BOOLEAN : BeginStruct(static, global)
    PROVE  DeadInv'
<1>1. loops' = loops /\ Len(loops) \in Nat
  BY LoopFields DEF Typed, BeginBlock, BeginIf, BeginSwitch, Case, Default, BeginStruct
<1>2. PICK kind, jumps : Opens(kind, jumps) /\ jumps \subseteq paths
  <2>1. CASE BeginBlock \/ BeginSwitch \/ Default
    BY <2>1, OpenSteps
  <2>2. CASE BeginIf \/ Case
    BY <2>2, OpenSteps
  <2>3. ASSUME NEW static \in BOOLEAN, NEW global \in BOOLEAN, BeginStruct(static, global)
        PROVE  \E kind, jumps : Opens(kind, jumps) /\ jumps \subseteq paths
    <3> DEFINE opened == IF static THEN "static struct" ELSE "struct"
               none == {}
    <3>1. Opens(opened, none) /\ none \subseteq paths
      BY <2>3, StructSteps
    <3> HIDE DEF opened, none
    <3> QED
      BY <3>1
  <2> QED
    BY <2>1, <2>2, <2>3
<1>3. paths = {} => paths' = {} /\ jumps = {}
  <2> SUFFICES ASSUME paths = {} PROVE paths' = {} /\ jumps = {}
    OBVIOUS
  <2>1. CASE BeginBlock \/ BeginIf \/ Case \/ Default
    BY <1>2, <2>1 DEF BeginBlock, BeginIf, Case, Default
  <2>2. CASE BeginSwitch
    BY <1>2, <2>2, EmptyMoves DEF BeginSwitch
  <2>3. ASSUME NEW static \in BOOLEAN, NEW global \in BOOLEAN, BeginStruct(static, global)
        PROVE  paths' = {} /\ jumps = {}
    <3>1. paths' = Pushed(Temp) \/ \A r \in paths' : \E s \in paths : TRUE
      BY <2>3 DEF BeginStruct
    <3> QED
      BY <1>2, <3>1, EmptyMoves
  <2> QED
    BY <2>1, <2>2, <2>3
<1>4. /\ Len(loops') \in Len(loops) .. Len(loops) + 1
      /\ \A l \in 1 .. Len(loops) : loops'[l] = loops[l]
      /\ \A l \in 1 .. Len(loops') : ~(l > Len(loops))
  BY <1>1
<1> QED
  BY <1>2, <1>3, <1>4, DeadOpens

LEMMA DeadNewLoop ==
    ASSUME Typed, NestInv, DeadInv, NEW kind \in LoopKinds, NEW jumps, Opens(kind, jumps),
           LoopOpens(kind), NEW d, loops'[Len(loops) + 1] = Loop(kind, d, paths'),
           jumps \subseteq paths', paths = {} => paths' = {}
    PROVE  DeadInv'
<1> DEFINE p == Loop(kind, d, paths')
<1>1. p.start = paths' /\ p.back = {} /\ p.breaks = {} /\ p.at = Len(nest) + 1
  BY DEF Loop
<1>2. loops'[Len(loops) + 1] = p
  OBVIOUS
<1>3. /\ Len(loops) \in Nat /\ Len(loops') = Len(loops) + 1
      /\ \A l \in 1 .. Len(loops) : loops'[l] = loops[l]
  BY LoopFields DEF Typed, LoopOpens
<1> HIDE DEF p
<1>4. \A l \in 1 .. Len(loops') : l > Len(loops) => l = Len(loops) + 1
  BY <1>3
<1>5. \A l \in 1 .. Len(loops') : l > Len(loops) =>
         /\ loops'[l].at = Len(nest) + 1 /\ loops'[l].back = {} /\ loops'[l].breaks = {}
         /\ loops'[l].start = {} => paths' = {} /\ jumps = {}
         /\ paths = {} => loops'[l].start = {}
  BY <1>1, <1>2, <1>4
<1>6. Len(loops') \in Len(loops) .. Len(loops) + 1
  BY <1>3
<1>7. paths = {} => paths' = {} /\ jumps = {}
  OBVIOUS
<1> QED
  BY <1>3, <1>5, <1>6, <1>7, DeadOpens

LEMMA DeadLoops ==
    ASSUME Typed, NestInv, DeadInv,
           \/ BeginLoop \/ BeginWhile
           \/ \E declares, cond \in BOOLEAN : BeginFor(declares, cond)
    PROVE  DeadInv'
<1>1. "loop" \in LoopKinds /\ "while" \in LoopKinds /\ "for" \in LoopKinds
  BY DEF LoopKinds
<1>2. CASE BeginLoop
  <2>1. /\ Opens("loop", {}) /\ LoopOpens("loop")
        /\ loops'[Len(loops) + 1] = Loop("loop", scope, paths)
    BY <1>2, LoopSteps
  <2>2. paths' = paths
    BY <1>2 DEF BeginLoop
  <2>3. loops'[Len(loops) + 1] = Loop("loop", scope, paths') /\ {} \subseteq paths'
    BY <2>1, <2>2
  <2> QED
    BY <1>1, <2>1, <2>2, <2>3, DeadNewLoop
<1>3. CASE BeginWhile
  <2>1. /\ Opens("while", paths) /\ LoopOpens("while")
        /\ loops'[Len(loops) + 1] = Loop("while", scope, paths)
    BY <1>3, LoopSteps
  <2>2. paths' = paths
    BY <1>3 DEF BeginWhile
  <2>3. loops'[Len(loops) + 1] = Loop("while", scope, paths') /\ paths \subseteq paths'
    BY <2>1, <2>2
  <2> QED
    BY <1>1, <2>1, <2>2, <2>3, DeadNewLoop
<1>4. ASSUME NEW declares \in BOOLEAN, NEW cond \in BOOLEAN, BeginFor(declares, cond)
      PROVE  DeadInv'
  <2> DEFINE jumps == IF cond THEN paths' ELSE {}
  <2>1. /\ Opens("for", jumps) /\ LoopOpens("for")
        /\ loops'[Len(loops) + 1] = Loop("for", scope + 1, paths')
    BY <1>4, ForSteps
  <2>2. paths = {} => paths' = {}
    <3>1. paths' = paths \/ \E v : paths' = Pushed(v)
      BY <1>4 DEF BeginFor, Declare
    <3> QED
      BY <3>1, EmptyMoves
  <2>3. jumps \subseteq paths'
    OBVIOUS
  <2> HIDE DEF jumps
  <2> QED
    BY <1>1, <2>1, <2>2, <2>3, DeadNewLoop
<1> QED
  BY <1>2, <1>3, <1>4

LEMMA LoopsBefore ==
    ASSUME Typed, NestInv, NEW kind \in Kinds, Here = kind, kind \notin LoopKinds
    PROVE  \A l \in 1 .. Len(loops) : loops[l].at \in 1 .. Len(nest) - 1
<1> SUFFICES ASSUME NEW l \in 1 .. Len(loops) PROVE loops[l].at \in 1 .. Len(nest) - 1
  OBVIOUS
<1>1. /\ loops[l].at \in 1 .. Len(nest) /\ nest[loops[l].at].kind = loops[l].kind
      /\ loops[l].kind \in LoopKinds
  BY LoopFields DEF Typed, NestInv, LoopPlaced
<1>2. Len(nest) \in Nat \ {0} /\ nest[Len(nest)].kind = kind
  BY Insides
<1> QED
  BY <1>1, <1>2

LEMMA DeadBlocks ==
    ASSUME Typed, NestInv, DeadInv, EndBlock \/ EndIf \/ EndDefault \/ EndSwitch \/ EndStruct
    PROVE  DeadInv'
<1>1. Closes /\ Here \in {"block", "else", "default", "switch"} \union Structs
  BY CloseSteps
<1>2. Here \in Kinds /\ Here \notin LoopKinds
  BY <1>1 DEF Kinds, OneStat, Scoped, Holders, Structs, LoopKinds
<1>3. /\ \A l \in 1 .. Len(loops) : loops[l].at \in 1 .. Len(nest) - 1
      /\ Last(nest) = nest[Len(nest)] /\ Len(loops) \in Nat
  BY <1>2, LoopsBefore, Insides, LoopFields DEF Typed
<1>4. loops' = loops
  BY DEF EndBlock, EndIf, EndDefault, EndSwitch, EndStruct
<1>5. paths = {} /\ nest[Len(nest)].jumps = {} => paths' = {}
  <2> SUFFICES ASSUME paths = {}, nest[Len(nest)].jumps = {} PROVE paths' = {}
    OBVIOUS
  <2>1. CASE EndBlock
    BY <2>1, EmptyMoves DEF EndBlock, EndScope
  <2>2. CASE EndIf \/ EndDefault
    BY <1>3, <2>2 DEF EndIf, EndDefault
  <2>3. CASE EndSwitch
    <3>1. paths \union Last(nest).jumps = paths
      BY <1>3
    <3> QED
      BY <2>3, <3>1, EmptyMoves DEF EndSwitch
  <2>4. CASE EndStruct
    BY <2>4, EmptyMoves DEF EndStruct
  <2> QED
    BY <2>1, <2>2, <2>3, <2>4
<1>6. /\ Len(nest) \in Nat \ {0} /\ Len(nest') \in Nat /\ Len(nest') <= Len(nest)
      /\ \A k \in 1 .. Len(nest') : nest'[k].jumps = nest[k].jumps
  BY <1>1 DEF Closes, SameJumps
<1>7. /\ \A k \in 1 .. Len(nest') : nest'[k].jumps \subseteq nest[k].jumps \union paths
      /\ Len(loops') \in Nat /\ Len(loops') <= Len(loops)
      /\ \A l \in 1 .. Len(loops') :
            loops'[l] = loops[l] /\ loops[l].at \in 1 .. Len(nest) - 1
  BY <1>3, <1>4, <1>6
<1> QED
  BY <1>5, <1>6, <1>7, DeadCloses

LEMMA DeadChoices ==
    ASSUME Typed, NestInv, DeadInv, Else \/ EndCase
    PROVE  DeadInv'
<1> DEFINE N == Len(nest)
<1>1. /\ Here \in {"then", "case"}
      /\ Replaces("else", paths) \/ Merges(paths)
  BY ElseSteps, CaseSteps
<1>2. Here \in Kinds /\ Here \notin LoopKinds
  BY <1>1 DEF Kinds, OneStat, LoopKinds
<1>3. /\ \A l \in 1 .. Len(loops) : loops[l].at \in 1 .. N - 1
      /\ Last(nest) = nest[N] /\ Len(loops) \in Nat /\ N \in Nat \ {0}
  BY <1>2, LoopsBefore, Insides, LoopFields DEF Typed
<1>4. loops' = loops /\ paths' = Last(nest).jumps
  BY DEF Else, EndCase
<1>5. /\ Len(nest') \in Nat /\ Len(nest') <= N
      /\ \A k \in 1 .. Len(nest') : nest'[k].jumps \subseteq nest[k].jumps \union paths
  <2>1. CASE Replaces("else", paths)
    <3>1. /\ Len(nest') = N /\ nest'[N].jumps = paths
          /\ \A k \in 1 .. N - 1 : nest'[k].jumps = nest[k].jumps
      BY <2>1 DEF Replaces, SameJumps
    <3>2. \A k \in 1 .. N : k \in 1 .. N - 1 \/ k = N
      BY <1>3
    <3> QED
      BY <1>3, <3>1, <3>2
  <2>2. CASE Merges(paths)
    <3>1. /\ Len(nest') = N - 1 /\ nest'[N - 1].jumps = nest[N - 1].jumps \union paths
          /\ \A k \in 1 .. N - 2 : nest'[k].jumps = nest[k].jumps
      BY <2>2 DEF Merges, SameJumps
    <3>2. \A k \in 1 .. N - 1 : k \in 1 .. N - 2 \/ k = N - 1
      BY <1>3
    <3> QED
      BY <1>3, <3>1, <3>2
  <2> QED
    BY <1>1, <2>1, <2>2
<1>6. paths = {} /\ nest[N].jumps = {} => paths' = {}
  BY <1>3, <1>4
<1>7. /\ Len(loops') \in Nat /\ Len(loops') <= Len(loops)
      /\ \A l \in 1 .. Len(loops') :
            loops'[l] = loops[l] /\ loops[l].at \in 1 .. Len(nest) - 1
  BY <1>3, <1>4
<1> QED
  BY <1>3, <1>5, <1>6, <1>7, DeadCloses

LEMMA DeadEnds ==
    ASSUME Typed, NestInv, DeadInv, EndLoop \/ EndFor
    PROVE  DeadInv'
<1>1. /\ Closes /\ Here \in LoopKinds
      /\ Len(loops) \in 1 .. Len(loops) /\ Len(loops) \in Nat /\ Len(loops') = Len(loops) - 1
      /\ \A l \in 1 .. Len(loops) - 1 :
            loops'[l] = loops[l] /\ loops[l].at \in 1 .. Len(nest) - 1
  BY EndLoopSteps
<1>2. Here \in Kinds
  BY <1>1 DEF Kinds, OneStat, Scoped, LoopKinds
<1>3. Last(nest) = nest[Len(nest)] /\ Last(loops) = loops[Len(loops)]
  BY <1>1, <1>2, Insides, LastLoop
<1>4. /\ paths = {} /\ nest[Len(nest)].jumps = {}
      /\ Here \in LoopKinds => loops[Len(loops)].breaks = {}
      => paths' = {}
  <2> SUFFICES ASSUME nest[Len(nest)].jumps = {}, loops[Len(loops)].breaks = {}
               PROVE  paths' = {}
    BY <1>1
  <2>1. CASE EndLoop
    BY <1>3, <2>1 DEF EndLoop
  <2>2. CASE EndFor
    <3>1. Popped(Last(nest).jumps, Discarded(scope - 1)) = {}
      BY <1>3 DEF Popped
    <3> QED
      BY <1>3, <2>2, <3>1 DEF EndFor
  <2> QED
    BY <2>1, <2>2
<1>5. /\ Len(nest) \in Nat \ {0} /\ Len(nest') \in Nat /\ Len(nest') <= Len(nest)
      /\ \A k \in 1 .. Len(nest') : nest'[k].jumps \subseteq nest[k].jumps \union paths
  BY <1>1 DEF Closes, SameJumps
<1>6. /\ Len(loops') \in Nat /\ Len(loops') <= Len(loops)
      /\ \A l \in 1 .. Len(loops') :
            loops'[l] = loops[l] /\ loops[l].at \in 1 .. Len(nest) - 1
  BY <1>1
<1> QED
  BY <1>4, <1>5, <1>6, DeadCloses

LEMMA DeadStep == ASSUME Typed, NestInv, DeadInv, [Next]_vars PROVE DeadInv'
<1>1. CASE \/ VarDecl \/ Function \/ Method \/ Return \/ Member
           \/ (\E global \in BOOLEAN : EnumDecl(global))
           \/ UNCHANGED vars
  BY <1>1, DeadStill
<1>2. ASSUME NEW l \in 1 .. Len(loops), Break(l) \/ Continue(l) PROVE DeadInv'
  BY <1>2, DeadJumps
<1>3. CASE \/ BeginBlock \/ BeginIf \/ BeginSwitch \/ Case \/ Default
           \/ \E static, global \in BOOLEAN : BeginStruct(static, global)
  BY <1>3, DeadBegins
<1>4. CASE \/ BeginLoop \/ BeginWhile
           \/ \E declares, cond \in BOOLEAN : BeginFor(declares, cond)
  BY <1>4, DeadLoops
<1>5. CASE EndBlock \/ EndIf \/ EndDefault \/ EndSwitch \/ EndStruct
  BY <1>5, DeadBlocks
<1>6. CASE Else \/ EndCase \/ EndLoop \/ EndFor
  BY <1>6, DeadChoices, DeadEnds
<1> QED
  BY <1>1, <1>2, <1>3, <1>4, <1>5, <1>6 DEF Next

\* Only the end of a loop takes it from loops.
LEMMA LoopEnds ==
    ASSUME Typed, NestInv, [Next]_vars, Len(loops') < Len(loops)
    PROVE  EndLoop \/ EndFor
<1>1. Len(loops) \in Nat
  BY LoopFields DEF Typed
<1>2. CASE \/ VarDecl \/ Function \/ Method \/ Return \/ Member
           \/ (\E global \in BOOLEAN : EnumDecl(global))
           \/ BeginBlock \/ BeginIf \/ BeginSwitch \/ Case \/ Default
           \/ (\E static, global \in BOOLEAN : BeginStruct(static, global))
           \/ EndBlock \/ EndIf \/ EndDefault \/ EndSwitch \/ EndStruct \/ Else \/ EndCase
           \/ UNCHANGED vars
  <2>1. loops' = loops
    BY <1>2 DEF VarDecl, Function, Method, Return, Member, EnumDecl, BeginBlock, BeginIf,
                BeginSwitch, Case, Default, BeginStruct, EndBlock, EndIf, EndDefault,
                EndSwitch, EndStruct, Else, EndCase, vars
  <2> QED
    BY <1>1, <2>1
<1>3. ASSUME NEW l \in 1 .. Len(loops), Break(l) \/ Continue(l) PROVE FALSE
  <2>1. SameLoops
    BY <1>3, JumpSteps
  <2> QED
    BY <1>1, <2>1 DEF SameLoops
<1>4. CASE BeginLoop \/ BeginWhile
  <2>1. Len(loops') = Len(loops) + 1
    BY <1>4, LoopSteps
  <2> QED
    BY <1>1, <2>1
<1>5. ASSUME NEW declares \in BOOLEAN, NEW cond \in BOOLEAN, BeginFor(declares, cond)
      PROVE  FALSE
  <2>1. Len(loops') = Len(loops) + 1
    BY <1>5, ForSteps
  <2> QED
    BY <1>1, <2>1
<1> QED
  BY <1>2, <1>3, <1>4, <1>5 DEF Next

\* Control comes back to the start of a loop, from its end and from every
\* continue, with the one frame it first came with, in programs of any length
\* without the constructs Quirks names.
THEOREM Reenter == ASSUME Quirks = {} PROVE Spec => LoopsReenter
<1> DEFINE IInv == Sound /\ DeadInv
           Kept == Len(loops') < Len(loops) =>
                      paths \union Last(loops).back \subseteq Last(loops).start
<1>1. Init => IInv
  <2>1. Init => DeadInv
    BY DEF Init, DeadInv
  <2> QED
    BY <2>1, ShapeInit
<1>2. IInv /\ [Next]_vars => IInv'
  BY ShapeStep, DeadStep DEF Sound
<1>3. IInv /\ [Next]_vars => Kept
  <2> SUFFICES ASSUME Sound, DeadInv, [Next]_vars, Len(loops') < Len(loops),
                      NEW s \in paths \union Last(loops).back
               PROVE  s \in Last(loops).start
    OBVIOUS
  <2> DEFINE p == loops[Len(loops)]
             t == Held(nest, Len(nest))
  <2>1. Typed /\ NestInv /\ ShapeInv
    BY DEF Sound
  <2>2. EndLoop \/ EndFor
    BY <2>1, LoopEnds
  <2>3. Here \in LoopKinds /\ Len(loops) \in 1 .. Len(loops)
    BY <2>1, <2>2, EndLoopSteps
  <2>4. Last(loops) = p /\ p.at = Len(nest) /\ p.scope = scope
    BY <2>1, <2>3, LastLoop
  <2>5. Dead(Len(loops), paths, nest, loops) \/ p.start # {}
    BY <2>3 DEF DeadInv
  <2>6. p.start = {} => paths = {} /\ p.back = {}
    <3>1. Len(loops) \in Len(loops) .. Len(loops)
      BY <2>3
    <3> QED
      BY <2>5, <3>1 DEF Dead
  <2>7. PICK r \in p.start : TRUE
    BY <2>4, <2>6
  <2>8. /\ \A q \in p.start \union p.back : IsFrame(q, locals, scope, t)
        /\ \A q \in paths : IsFrame(q, locals, scope, t)
    BY <2>1, <2>3, <2>4 DEF ShapeInv, LoopFits
  <2>9. /\ locals \in Seq(LocalRecords) /\ scope \in Int /\ t \in Nat
    BY Depths DEF Sound, Typed
  <2> HIDE DEF p, t
  <2>10. IsFrame(r, locals, scope, t) /\ IsFrame(s, locals, scope, t)
    BY <2>4, <2>7, <2>8
  <2>11. s = r
    BY <2>9, <2>10, OneFrame
  <2> QED
    BY <2>4, <2>7, <2>11
<1>4. [Kept]_vars = (Kept \/ UNCHANGED vars)
  OBVIOUS
<1>5. IInv /\ [Next]_vars => [Kept]_vars
  BY <1>3
<1> QED
  BY <1>1, <1>2, <1>5, PTL DEF Spec, LoopsReenter

=============================================================================
