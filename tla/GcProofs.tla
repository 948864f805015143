------------------------------ MODULE GcProofs ------------------------------
(* Theorems about Gc, for any number of objects: no collection frees an      *)
(* object the program can reach, or a string the intern table still offers;  *)
(* and Gc implements AbstractHeap: a collection, with its marks, its gray    *)
(* stack and its walk over the list, is one step to the program, the one at  *)
(* the end of the marking.                                                   *)
EXTENDS Gc, SequenceTheorems, FiniteSetTheorems, TLAPS

-----------------------------------------------------------------------------
(* The least closed set, for any roots R and references rf.                 *)

ReachSet(R, rf) ==
    {o \in Objs : \A S \in SUBSET Objs :
                      R \subseteq S /\ (\A x \in S : rf[x] \subseteq S) => o \in S}

LEMMA ReachableIsReachSet == /\ Reachable = ReachSet(Rooted, refs)
                             /\ Reachable' = ReachSet(Rooted', refs')
<1> QED
  BY DEF Reachable, ReachSet, Closed

\* It holds the roots and is closed ...
LEMMA ReachSetCloses ==
    ASSUME NEW R \in SUBSET Objs, NEW rf \in [Objs -> SUBSET Objs]
    PROVE  /\ ReachSet(R, rf) \subseteq Objs
           /\ R \subseteq ReachSet(R, rf)
           /\ \A x \in ReachSet(R, rf) : rf[x] \subseteq ReachSet(R, rf)
<1> QED
  BY DEF ReachSet

\* ... and lies within every other set that does and is.
LEMMA ReachSetLeast ==
    ASSUME NEW R, NEW rf, NEW S \in SUBSET Objs,
           R \subseteq S, \A x \in S : rf[x] \subseteq S
    PROVE  ReachSet(R, rf) \subseteq S
<1> QED
  BY DEF ReachSet

\* What the program can reach, in a state of the right types.
LEMMA ReachableCloses ==
    ASSUME refs \in [Objs -> SUBSET Objs], roots \in [Sources -> SUBSET Objs]
    PROVE  /\ Reachable \subseteq Objs
           /\ \A s \in Sources : roots[s] \subseteq Reachable
           /\ \A x \in Reachable : refs[x] \subseteq Reachable
<1>1. Rooted \in SUBSET Objs
  BY DEF Rooted
<1>2. \A s \in Sources : roots[s] \subseteq Rooted
  BY DEF Rooted
<1> QED
  BY <1>1, <1>2, ReachSetCloses, ReachableIsReachSet

\* After a step the program can reach only T, if the new roots lie in T and the
\* new references do not lead out of it.
LEMMA ReachesWithin ==
    ASSUME NEW T \in SUBSET Objs, \A s \in Sources : roots'[s] \subseteq T,
           \A x \in T : refs'[x] \subseteq T
    PROVE  Reachable' \subseteq T
<1>1. Rooted' \subseteq T
  BY DEF Rooted
<1> QED
  BY <1>1, ReachSetLeast, ReachableIsReachSet

LEMMA SameReach == ASSUME UNCHANGED <<refs, roots>> PROVE Reachable' = Reachable
<1> QED
  BY DEF Reachable, Rooted, Closed

-----------------------------------------------------------------------------
(* The list of objects.                                                     *)

Elements(s) == {s[p] : p \in 1 .. Len(s)}

Distinct(s) == \A p, q \in 1 .. Len(s) : s[p] = s[q] => p = q

\* A position cuts a list in two parts that share nothing.
UpTo(s, a) == {s[p] : p \in 1 .. (a - 1)}
From(s, a) == {s[p] : p \in a .. Len(s)}

LEMMA CutList ==
    ASSUME NEW s, Len(s) \in Nat, Distinct(s), NEW a \in 1 .. Len(s) + 1
    PROVE  /\ Elements(s) = UpTo(s, a) \union From(s, a)
           /\ UpTo(s, a) \intersect From(s, a) = {}
<1>1. Elements(s) = UpTo(s, a) \union From(s, a)
  BY DEF Elements, UpTo, From
<1>2. UpTo(s, a) \intersect From(s, a) = {}
  <2> SUFFICES ASSUME NEW p \in 1 .. (a - 1), NEW q \in a .. Len(s), s[p] = s[q]
               PROVE  FALSE
    BY DEF UpTo, From
  <2> QED
    BY DEF Distinct
<1> QED
  BY <1>1, <1>2

LEMMA LinkList ==
    ASSUME NEW s \in Seq(Objs), Distinct(s), NEW o \in Objs, o \notin Elements(s)
    PROVE  LET t == <<o>> \o s
           IN  t \in Seq(Objs) /\ Distinct(t) /\ Elements(t) = Elements(s) \union {o}
<1> DEFINE t == <<o>> \o s
<1>1. t \in Seq(Objs) /\ Len(t) = Len(s) + 1 /\ Len(s) \in Nat
  BY LenProperties, ConcatProperties
<1>2. t[1] = o /\ \A p \in 1 .. Len(s) : t[p + 1] = s[p]
  BY ConcatProperties
<1>3. \A p \in 1 .. Len(t) : p = 1 \/ (p - 1 \in 1 .. Len(s) /\ t[p] = s[p - 1])
  BY <1>1, <1>2
<1> HIDE DEF t
<1>4. \A p \in 1 .. Len(s) : s[p] # o
  BY DEF Elements
<1>5. Distinct(t)
  <2> SUFFICES ASSUME NEW p \in 1 .. Len(t), NEW q \in 1 .. Len(t), t[p] = t[q]
               PROVE  p = q
    BY DEF Distinct
  <2>1. CASE p = 1 \/ q = 1
    BY <1>1, <1>2, <1>3, <1>4, <2>1
  <2>2. CASE p # 1 /\ q # 1
    <3>1. /\ p - 1 \in 1 .. Len(s) /\ q - 1 \in 1 .. Len(s)
          /\ s[p - 1] = s[q - 1]
      BY <1>3, <2>2
    <3>2. p - 1 = q - 1
      BY <3>1 DEF Distinct
    <3> QED
      BY <1>1, <3>2
  <2> QED
    BY <2>1, <2>2
<1>6. Elements(t) = Elements(s) \union {o}
  <2>1. Elements(t) \subseteq Elements(s) \union {o}
    BY <1>1, <1>2, <1>3 DEF Elements
  <2>2. o \in Elements(t)
    BY <1>1, <1>2 DEF Elements
  <2>3. \A p \in 1 .. Len(s) : p + 1 \in 1 .. Len(t)
    BY <1>1
  <2>4. Elements(s) \subseteq Elements(t)
    BY <1>2, <2>3 DEF Elements
  <2> QED
    BY <2>1, <2>2, <2>4
<1> QED
  BY <1>1, <1>5, <1>6 DEF t

LEMMA UnlinkList ==
    ASSUME NEW k \in 1 .. Len(objs), objs \in Seq(Objs), Distinct(objs)
    PROVE  /\ Unlink(k) \in Seq(Objs)
           /\ Len(Unlink(k)) = Len(objs) - 1
           /\ Distinct(Unlink(k))
           /\ Elements(Unlink(k)) = Elements(objs) \ {objs[k]}
           /\ \A p \in 1 .. (k - 1) : Unlink(k)[p] = objs[p]
<1> DEFINE u == Unlink(k)
<1>1. Len(objs) \in Nat /\ \A p \in 1 .. Len(objs) : objs[p] \in Objs
  BY LenProperties
<1>2. /\ \A p \in 1 .. (Len(objs) - 1) :
            u[p] = IF p < k THEN objs[p] ELSE objs[p + 1]
      /\ u \in [1 .. (Len(objs) - 1) -> Objs]
  BY <1>1 DEF Unlink
<1>3. u \in Seq(Objs) /\ Len(u) = Len(objs) - 1
  BY <1>1, <1>2, LenProperties
<1> HIDE DEF u
<1>4. Distinct(u)
  BY <1>1, <1>2, <1>3 DEF Distinct
<1>5. Elements(u) = Elements(objs) \ {objs[k]}
  <2>1. \A p \in 1 .. Len(objs) : p # k =>
           \E q \in 1 .. Len(u) : u[q] = objs[p]
    <3> SUFFICES ASSUME NEW p \in 1 .. Len(objs), p # k
                 PROVE  \E q \in 1 .. Len(u) : u[q] = objs[p]
      OBVIOUS
    <3>1. CASE p < k
      BY <1>1, <1>2, <1>3, <3>1
    <3>2. CASE p > k
      <4>1. p - 1 \in 1 .. Len(u) /\ u[p - 1] = objs[p]
        BY <1>1, <1>2, <1>3, <3>2
      <4> QED
        BY <4>1
    <3> QED
      BY <1>1, <3>1, <3>2
  <2>2. \A q \in 1 .. Len(u) : \E p \in 1 .. Len(objs) : p # k /\ u[q] = objs[p]
    BY <1>1, <1>2, <1>3
  <2> QED
    BY <2>1, <2>2 DEF Elements, Distinct
<1> QED
  BY <1>2, <1>3, <1>4, <1>5 DEF u

-----------------------------------------------------------------------------
(* The inductive invariant.  While marking, the marks lie within what is    *)
(* reachable, which makes them objects of the list; in the sweep, what is   *)
(* reachable is still marked or has been passed, and every mark left is     *)
(* ahead, so that none remains at the end.                                  *)

Passed == UpTo(objs, at)
Ahead == From(objs, at)

StringsAreLeaves == \A o \in Strings : refs[o] = {}

MarkedReachable == pc \in {"mark", "trace"} => marked \subseteq Reachable

SweepInv == pc = "sweep" => /\ gray = {}
                           /\ Reachable \subseteq marked \union Passed
                           /\ strs \subseteq marked \union Passed
                           /\ marked \subseteq Ahead

\* The step that is running, or that goes on after the collection.
Doing(step) == pc = step \/ (pc \in Collecting /\ resume = step)

PendFits == /\ Doing("link") => pend \in Objs \ OnHeap
            /\ Doing("intern") \/ Doing("enter") => pend \in Strings \intersect Reachable

IInv == /\ TypeOK /\ StringsAreLeaves /\ PendFits
        /\ LiveKept /\ InternedAlive
        /\ MarksCleared /\ TriColour /\ MarkedReachable /\ SweepInv

LEMMA SourcesOrdered ==
    /\ Len(SourceOrder) = 6
    /\ \A s \in Sources : \E n \in 1 .. 6 : SourceOrder[n] = s
    /\ \A n \in 1 .. 6 : SourceOrder[n] \in Sources
<1>1. Len(SourceOrder) = 6
  BY DEF SourceOrder
<1>2. /\ SourceOrder[1] = "stack" /\ SourceOrder[2] = "frames"
      /\ SourceOrder[3] = "open_upvals" /\ SourceOrder[4] = "globals"
      /\ SourceOrder[5] = "files" /\ SourceOrder[6] = "compiler"
  BY DEF SourceOrder
<1> HIDE DEF SourceOrder
<1> QED
  BY <1>1, <1>2 DEF Sources

LEMMA InitIInv == Init => IInv
<1> SUFFICES ASSUME Init PROVE IInv
  OBVIOUS
<1>1. TypeOK /\ OnHeap = {}
  BY EmptySeq, SourcesOrdered DEF Init, TypeOK, OnHeap, Collecting
<1>2. Reachable \subseteq {}
  BY ReachSetLeast, ReachableIsReachSet DEF Init, Rooted
<1>3. StringsAreLeaves /\ PendFits
  BY GcAssumption DEF Init, StringsAreLeaves, PendFits, Doing, Collecting
<1> QED
  BY <1>1, <1>2, <1>3 DEF Init, IInv, LiveKept, InternedAlive, MarksCleared, TriColour,
     MarkedReachable, SweepInv, Collecting

\* The facts of the invariant most steps use.
LEMMA Facts ==
    ASSUME IInv
    PROVE  /\ objs \in Seq(Objs) /\ Distinct(objs) /\ OnHeap = Elements(objs)
           /\ Reachable \subseteq OnHeap /\ OnHeap \subseteq Objs
           /\ refs \in [Objs -> SUBSET Objs] /\ roots \in [Sources -> SUBSET Objs]
           /\ \A s \in Sources : roots[s] \subseteq Reachable
           /\ \A x \in Reachable : refs[x] \subseteq Reachable
           /\ Len(objs) \in Nat
<1>1. objs \in Seq(Objs) /\ Distinct(objs) /\ OnHeap = Elements(objs)
  BY DEF IInv, TypeOK, Distinct, OnHeap, Elements
<1>2. OnHeap \subseteq Objs /\ Len(objs) \in Nat
  BY <1>1, LenProperties DEF Elements
<1> QED
  BY <1>1, <1>2, ReachableCloses DEF IInv, TypeOK, LiveKept

\* A step of the program between collections, which rearranges references and
\* roots within what it reaches and what the intern table offers.
LEMMA ProgramStep ==
    ASSUME IInv, pc = "idle",
           UNCHANGED <<objs, strs, marked, gray, pc, src, at, pend, resume>>,
           refs' \in [Objs -> SUBSET Objs], roots' \in [Sources -> SUBSET Objs],
           \A o \in Strings : refs'[o] = {},
           \A s \in Sources : roots'[s] \subseteq Reachable \union strs,
           \A x \in Reachable : refs'[x] \subseteq Reachable \union strs
    PROVE  IInv'
<1>1. TypeOK'
  BY DEF IInv, TypeOK
<1>2. /\ Reachable \union strs \in SUBSET Objs
      /\ Reachable \union strs \subseteq OnHeap
      /\ strs \subseteq Strings
  BY Facts DEF IInv, TypeOK, InternedAlive
<1>3. Reachable' \subseteq Reachable \union strs
  BY <1>2, ReachesWithin
<1>4. OnHeap' = OnHeap
  BY DEF OnHeap
<1>5. LiveKept' /\ InternedAlive'
  BY <1>2, <1>3, <1>4 DEF LiveKept, InternedAlive
<1>6. StringsAreLeaves' /\ PendFits'
  BY DEF StringsAreLeaves, PendFits, Doing, Collecting
<1>7. MarksCleared' /\ TriColour' /\ MarkedReachable' /\ SweepInv'
  BY DEF IInv, MarksCleared, TriColour, MarkedReachable, SweepInv, Collecting
<1> QED
  BY <1>1, <1>5, <1>6, <1>7 DEF IInv

\* The start of a collection: nothing is marked yet.
LEMMA CollectStart ==
    ASSUME IInv, NEW next \in {"idle", "link", "enter"}, Collect(next),
           pc \notin Collecting,
           UNCHANGED <<objs, refs, roots, strs, marked, gray, at>>,
           pend' \in Objs \union {NoObj},
           next = "link" => pend' \in Objs \ OnHeap,
           next = "enter" => pend' \in Strings \intersect Reachable
    PROVE  IInv'
<1>1. pc' = "mark" /\ src' = 1 /\ resume' = next
  BY DEF Collect
<1>2. Reachable' = Reachable /\ OnHeap' = OnHeap
  BY SameReach DEF OnHeap
<1>3. marked = {} /\ gray = {}
  BY DEF IInv, MarksCleared
<1>4. TypeOK'
  BY <1>1, SourcesOrdered DEF IInv, TypeOK, Collecting
<1>5. LiveKept' /\ InternedAlive' /\ StringsAreLeaves'
  BY <1>2 DEF IInv, LiveKept, InternedAlive, StringsAreLeaves
<1>6. PendFits'
  BY <1>1, <1>2 DEF PendFits, Doing
<1>7. MarksCleared' /\ TriColour' /\ MarkedReachable' /\ SweepInv'
  BY <1>1, <1>3, SourcesOrdered
  DEF MarksCleared, TriColour, MarkedReachable, SweepInv, Collecting
<1> QED
  BY <1>4, <1>5, <1>6, <1>7 DEF IInv

-----------------------------------------------------------------------------
(* One lemma per step of an allocation and of a collection.                 *)

LEMMA LinkStep == ASSUME IInv, Link PROVE IInv'
<1>1. /\ pc = "link" /\ pend \in Objs /\ pend \notin OnHeap
      /\ marked = {} /\ gray = {}
  BY DEF IInv, Link, PendFits, Doing, MarksCleared, Collecting
<1>2. /\ objs' = <<pend>> \o objs
      /\ roots' = [roots EXCEPT !["stack"] = @ \union {pend}]
      /\ UNCHANGED <<strs, marked, gray, src, at, resume>>
      /\ \/ pend \in Strings /\ pc' = "intern" /\ pend' = pend
         \/ pc' = "idle" /\ pend' = NoObj
  BY DEF Link, colours
<1>3. PICK R \in SUBSET (Reachable \ {pend}) :
         /\ pend \in Strings => R = {}
         /\ refs' = [refs EXCEPT ![pend] = R]
  BY DEF Link
<1>4. objs' \in Seq(Objs) /\ Distinct(objs') /\ Elements(objs') = Elements(objs) \union {pend}
  BY <1>1, <1>2, Facts, LinkList
<1>5. OnHeap' = OnHeap \union {pend}
  BY <1>4, Facts DEF OnHeap, Elements
<1>6. /\ refs' \in [Objs -> SUBSET Objs] /\ roots' \in [Sources -> SUBSET Objs]
      /\ pend \in roots'["stack"] /\ "stack" \in Sources
  BY <1>1, <1>2, <1>3, Facts DEF Sources
<1>7. Reachable' \subseteq Reachable \union {pend}
  <2>1. \A s \in Sources : roots'[s] \subseteq Reachable \union {pend}
    BY <1>2, Facts
  <2>2. \A x \in Reachable \union {pend} : refs'[x] \subseteq Reachable \union {pend}
    BY <1>1, <1>3, Facts
  <2>3. Reachable \union {pend} \in SUBSET Objs
    BY <1>1, Facts
  <2> QED
    BY <2>1, <2>2, <2>3, ReachesWithin
<1>8. pend \in Reachable'
  <2>1. Rooted' \in SUBSET Objs /\ pend \in Rooted'
    BY <1>6 DEF Rooted
  <2> QED
    BY <1>6, <2>1, ReachSetCloses, ReachableIsReachSet
<1>9. TypeOK'
  <2>1. \A p, q \in 1 .. Len(objs') : objs'[p] = objs'[q] => p = q
    BY <1>4 DEF Distinct
  <2>2. at' \in 1 .. Len(objs') + 1
    <3>1. Len(objs') = Len(objs) + 1 /\ Len(objs) \in Nat
      BY <1>1, <1>2, LenProperties, ConcatProperties, Facts
    <3> QED
      BY <1>2, <3>1 DEF IInv, TypeOK
  <2> QED
    BY <1>1, <1>2, <1>4, <1>6, <2>1, <2>2 DEF IInv, TypeOK
<1>10. LiveKept' /\ InternedAlive' /\ StringsAreLeaves'
  BY <1>1, <1>2, <1>3, <1>5, <1>7, Facts, GcAssumption
  DEF IInv, LiveKept, InternedAlive, StringsAreLeaves
<1>11. PendFits'
  BY <1>2, <1>8 DEF PendFits, Doing, Collecting
<1>12. MarksCleared' /\ TriColour' /\ MarkedReachable' /\ SweepInv'
  BY <1>1, <1>2 DEF MarksCleared, TriColour, MarkedReachable, SweepInv, Collecting
<1> QED
  BY <1>9, <1>10, <1>11, <1>12 DEF IInv

LEMMA EnterStep == ASSUME IInv, Enter PROVE IInv'
<1>1. /\ pc \in {"intern", "enter"} /\ pend \in Strings \intersect Reachable
      /\ marked = {} /\ gray = {}
  BY DEF IInv, Enter, PendFits, Doing, MarksCleared, Collecting
<1>2. /\ strs' = strs \union {pend} /\ pend' = NoObj /\ pc' = "idle"
      /\ UNCHANGED <<objs, refs, roots, marked, gray, src, at, resume>>
  BY DEF Enter, colours
<1>3. Reachable' = Reachable /\ OnHeap' = OnHeap
  BY <1>2, SameReach DEF OnHeap
<1>4. TypeOK' /\ StringsAreLeaves'
  BY <1>1, <1>2 DEF IInv, TypeOK, StringsAreLeaves
<1>5. LiveKept' /\ InternedAlive'
  BY <1>1, <1>2, <1>3 DEF IInv, LiveKept, InternedAlive
<1>6. PendFits'
  BY <1>2 DEF PendFits, Doing, Collecting
<1>7. MarksCleared' /\ TriColour' /\ MarkedReachable' /\ SweepInv'
  BY <1>1, <1>2 DEF MarksCleared, TriColour, MarkedReachable, SweepInv, Collecting
<1> QED
  BY <1>4, <1>5, <1>6, <1>7 DEF IInv

\* A step of the collection that leaves heap and list alone and stays within
\* the collection keeps what the invariant says of them.
LEMMA MarkingFrame ==
    ASSUME IInv, pc \in Collecting, pc' \in Collecting,
           UNCHANGED <<objs, refs, roots, pend, resume>>
    PROVE  /\ Reachable' = Reachable /\ OnHeap' = OnHeap
           /\ StringsAreLeaves' /\ PendFits' /\ LiveKept' /\ MarksCleared'
<1>1. Reachable' = Reachable /\ OnHeap' = OnHeap
  BY SameReach DEF OnHeap
<1> QED
  BY <1>1 DEF IInv, StringsAreLeaves, PendFits, Doing, LiveKept, MarksCleared, Collecting

LEMMA MarkRootsStep == ASSUME IInv, MarkRoots PROVE IInv'
<1> DEFINE S == roots[SourceOrder[src]]
<1>1. /\ pc = "mark" /\ pc' = "mark" /\ src \in 1 .. 6 /\ src' = src + 1
      /\ marked' = marked \union S /\ gray' = gray \union (S \ marked)
      /\ UNCHANGED <<objs, refs, roots, strs, at, pend, resume>>
  BY SourcesOrdered DEF IInv, TypeOK, MarkRoots, Mark, heap
<1>2. S \subseteq Reachable
  BY <1>1, SourcesOrdered, Facts
<1>3. /\ Reachable' = Reachable /\ OnHeap' = OnHeap
      /\ StringsAreLeaves' /\ PendFits' /\ LiveKept' /\ MarksCleared'
  BY <1>1, MarkingFrame DEF Collecting
<1>4. TypeOK'
  BY <1>1, <1>2, SourcesOrdered, Facts DEF IInv, TypeOK
<1>5. TriColour'
  <2>1. \A o \in marked' \ gray' : refs'[o] \subseteq marked'
    BY <1>1 DEF IInv, TriColour
  <2>2. \A n \in 1 .. Len(SourceOrder) :
           n < src' => roots'[SourceOrder[n]] \subseteq marked'
    BY <1>1, SourcesOrdered DEF IInv, TriColour
  <2> QED
    BY <1>1, <2>1, <2>2 DEF TriColour
<1>6. InternedAlive' /\ MarkedReachable' /\ SweepInv'
  BY <1>1, <1>2, <1>3 DEF IInv, InternedAlive, MarkedReachable, SweepInv
<1> QED
  BY <1>3, <1>4, <1>5, <1>6 DEF IInv

LEMMA RootsMarkedStep == ASSUME IInv, RootsMarked PROVE IInv'
<1>1. /\ pc = "mark" /\ pc' = "trace" /\ src > 6 /\ src' = 1
      /\ UNCHANGED <<objs, refs, roots, strs, marked, gray, at, pend, resume>>
  BY SourcesOrdered DEF RootsMarked, heap, colours
<1>2. /\ Reachable' = Reachable /\ OnHeap' = OnHeap
      /\ StringsAreLeaves' /\ PendFits' /\ LiveKept' /\ MarksCleared'
  BY <1>1, MarkingFrame DEF Collecting
<1>3. TypeOK'
  BY <1>1, SourcesOrdered DEF IInv, TypeOK, Collecting
<1>4. TriColour'
  BY <1>1, SourcesOrdered DEF IInv, TypeOK, TriColour
<1>5. InternedAlive' /\ MarkedReachable' /\ SweepInv'
  BY <1>1, <1>2 DEF IInv, InternedAlive, MarkedReachable, SweepInv
<1> QED
  BY <1>2, <1>3, <1>4, <1>5 DEF IInv

LEMMA BlackenStep == ASSUME IInv, NEW o \in Objs, Blacken(o) PROVE IInv'
<1>1. /\ pc = "trace" /\ pc' = "trace" /\ o \in gray /\ o \in marked
      /\ marked' = marked \union refs[o]
      /\ gray' = (gray \ {o}) \union (refs[o] \ marked)
      /\ UNCHANGED <<objs, refs, roots, strs, src, at, pend, resume>>
  BY DEF IInv, TypeOK, Blacken, heap
<1>2. refs[o] \subseteq Reachable
  BY <1>1, Facts DEF IInv, MarkedReachable
<1>3. /\ Reachable' = Reachable /\ OnHeap' = OnHeap
      /\ StringsAreLeaves' /\ PendFits' /\ LiveKept' /\ MarksCleared'
  BY <1>1, MarkingFrame DEF Collecting
<1>4. TypeOK'
  BY <1>1, <1>2, Facts DEF IInv, TypeOK
<1>5. TriColour'
  <2>1. \A x \in marked' \ gray' : refs'[x] \subseteq marked'
    BY <1>1 DEF IInv, TriColour
  <2>2. \A n \in 1 .. Len(SourceOrder) : roots'[SourceOrder[n]] \subseteq marked'
    BY <1>1 DEF IInv, TriColour
  <2> QED
    BY <2>1, <2>2 DEF TriColour
<1>6. InternedAlive' /\ MarkedReachable' /\ SweepInv'
  BY <1>1, <1>2, <1>3 DEF IInv, InternedAlive, MarkedReachable, SweepInv
<1> QED
  BY <1>3, <1>4, <1>5, <1>6 DEF IInv

\* The marking is over: everything reachable is marked, and everything marked
\* lies ahead of the sweep.
LEMMA RemBlackMapStep == ASSUME IInv, RemBlackMap PROVE IInv'
<1>1. /\ pc = "trace" /\ pc' = "sweep" /\ gray = {} /\ at' = 1
      /\ strs' = strs \intersect marked
      /\ UNCHANGED <<objs, refs, roots, marked, gray, src, pend, resume>>
  BY DEF RemBlackMap, colours
<1>2. /\ Reachable' = Reachable /\ OnHeap' = OnHeap
      /\ StringsAreLeaves' /\ PendFits' /\ LiveKept' /\ MarksCleared'
  BY <1>1, MarkingFrame DEF Collecting
<1>3. Reachable \subseteq marked
  <2>1. \A x \in marked : refs[x] \subseteq marked
    BY <1>1 DEF IInv, TriColour
  <2>2. \A s \in Sources : roots[s] \subseteq marked
    BY <1>1, SourcesOrdered DEF IInv, TriColour
  <2>3. marked \in SUBSET Objs /\ Rooted \subseteq marked
    BY <2>2 DEF IInv, TypeOK, Rooted
  <2> QED
    BY <2>1, <2>3, ReachSetLeast, ReachableIsReachSet
<1>4. marked \subseteq OnHeap
  BY <1>1, Facts DEF IInv, MarkedReachable
<1>5. Ahead' = OnHeap
  BY <1>1 DEF Ahead, From, OnHeap
<1>6. TypeOK'
  BY <1>1, Facts DEF IInv, TypeOK, Collecting
<1>7. SweepInv'
  BY <1>1, <1>2, <1>3, <1>4, <1>5 DEF SweepInv
<1>8. InternedAlive' /\ MarkedReachable' /\ TriColour'
  BY <1>1, <1>2 DEF IInv, InternedAlive, MarkedReachable, TriColour
<1> QED
  BY <1>2, <1>6, <1>7, <1>8 DEF IInv

LEMMA KeepStep == ASSUME IInv, Keep PROVE IInv'
<1>1. /\ pc = "sweep" /\ pc' = "sweep" /\ at \in 1 .. Len(objs) /\ at' = at + 1
      /\ objs[at] \in marked /\ marked' = marked \ {objs[at]}
      /\ UNCHANGED <<objs, refs, roots, strs, gray, src, pend, resume>>
  BY Facts DEF IInv, TypeOK, Keep, heap
<1>2. /\ Reachable' = Reachable /\ OnHeap' = OnHeap
      /\ StringsAreLeaves' /\ PendFits' /\ LiveKept' /\ MarksCleared'
  BY <1>1, MarkingFrame DEF Collecting
<1>3. gray = {}
  BY <1>1 DEF IInv, SweepInv
<1>4. TypeOK'
  BY <1>1, <1>3, Facts DEF IInv, TypeOK
<1>5. Passed' = Passed \union {objs[at]}
  BY <1>1, Facts DEF Passed, UpTo
<1>6. Ahead \subseteq Ahead' \union {objs[at]}
  BY <1>1, Facts DEF Ahead, From
<1>7. SweepInv'
  BY <1>1, <1>2, <1>3, <1>5, <1>6 DEF IInv, SweepInv
<1>8. InternedAlive' /\ MarkedReachable' /\ TriColour'
  BY <1>1, <1>2 DEF IInv, InternedAlive, MarkedReachable, TriColour
<1> QED
  BY <1>2, <1>4, <1>7, <1>8 DEF IInv

\* What is freed has no mark and has not been passed, so nothing reaches it.
LEMMA FreeStep == ASSUME IInv, Free PROVE IInv'
<1> DEFINE o == objs[at]
<1>1. /\ pc = "sweep" /\ pc' = "sweep" /\ at \in 1 .. Len(objs)
      /\ o \notin marked /\ objs' = Unlink(at)
      /\ refs' = [refs EXCEPT ![o] = {}]
      /\ UNCHANGED <<roots, strs, marked, gray, src, at, pend, resume>>
  BY Facts DEF IInv, TypeOK, Free, colours
<1>2. /\ objs' \in Seq(Objs) /\ Len(objs') = Len(objs) - 1 /\ Distinct(objs')
      /\ Elements(objs') = Elements(objs) \ {o}
      /\ \A p \in 1 .. (at - 1) : objs'[p] = objs[p]
  BY <1>1, Facts, UnlinkList
<1>3. o \notin Passed
  BY <1>1, Facts DEF Passed, UpTo, Distinct
<1>4. o \notin Reachable /\ o \notin strs
  BY <1>1, <1>3 DEF IInv, SweepInv
<1>5. refs' \in [Objs -> SUBSET Objs] /\ o \in Objs /\ o \in OnHeap
  BY <1>1, Facts DEF OnHeap
<1>6. Reachable' \subseteq Reachable
  <2>1. \A x \in Reachable : refs'[x] \subseteq Reachable
    BY <1>1, Facts
  <2> QED
    BY <1>1, <2>1, Facts, ReachesWithin
<1>7. OnHeap' = OnHeap \ {o}
  BY <1>2, Facts DEF OnHeap, Elements
<1>8. Passed' = Passed
  BY <1>1, <1>2 DEF Passed, UpTo
<1>9. Ahead' = Ahead \ {o}
  <2>1. Elements(objs') = Passed' \union Ahead' /\ Passed' \intersect Ahead' = {}
    <3>1. at' \in 1 .. Len(objs') + 1 /\ Len(objs') \in Nat /\ Distinct(objs')
      BY <1>1, <1>2, Facts
    <3>2. Passed' = UpTo(objs', at') /\ Ahead' = From(objs', at')
      BY DEF Passed, Ahead
    <3> QED
      BY <3>1, <3>2, CutList
  <2>2. Elements(objs) = Passed \union Ahead /\ Passed \intersect Ahead = {}
    BY <1>1, Facts, CutList DEF Passed, Ahead
  <2> QED
    BY <1>2, <1>3, <1>8, <2>1, <2>2
<1>10. TypeOK'
  <2>1. \A p, q \in 1 .. Len(objs') : objs'[p] = objs'[q] => p = q
    BY <1>2 DEF Distinct
  <2> QED
    BY <1>1, <1>2, <1>5, <2>1, Facts DEF IInv, TypeOK
<1>11. StringsAreLeaves' /\ LiveKept' /\ InternedAlive'
  BY <1>1, <1>4, <1>6, <1>7, Facts, GcAssumption
  DEF IInv, TypeOK, StringsAreLeaves, LiveKept, InternedAlive
<1>12. PendFits'
  <2>1. resume = "link" => pend \in Objs \ OnHeap'
    BY <1>1, <1>7 DEF IInv, PendFits, Doing, Collecting
  <2>2. resume = "enter" \/ resume = "intern" => pend \in Strings \intersect Reachable'
    <3>1. Reachable' = Reachable
      <4>1. \A x \in Reachable' : refs[x] \subseteq Reachable'
        <5>1. \A x \in Reachable' : refs'[x] = refs[x]
          BY <1>1, <1>4, <1>6, Facts
        <5>2. Rooted' \in SUBSET Objs
          BY <1>1, Facts DEF Rooted
        <5>3. \A x \in Reachable' : refs'[x] \subseteq Reachable'
          BY <1>5, <5>2, ReachSetCloses, ReachableIsReachSet
        <5> QED
          BY <5>1, <5>3
      <4>2. Rooted \subseteq Reachable' /\ Reachable' \in SUBSET Objs
        <5>1. Rooted' = Rooted /\ Rooted' \in SUBSET Objs
          BY <1>1, Facts DEF Rooted
        <5> QED
          BY <1>5, <5>1, ReachSetCloses, ReachableIsReachSet
      <4>3. Reachable \subseteq Reachable'
        BY <4>1, <4>2, ReachSetLeast, ReachableIsReachSet
      <4> QED
        BY <1>6, <4>3
    <3> QED
      BY <1>1, <3>1 DEF IInv, PendFits, Doing, Collecting
  <2> QED
    BY <1>1, <2>1, <2>2 DEF PendFits, Doing
<1>13. SweepInv'
  BY <1>1, <1>6, <1>8, <1>9 DEF IInv, SweepInv
<1>14. MarksCleared' /\ TriColour' /\ MarkedReachable'
  BY <1>1 DEF MarksCleared, TriColour, MarkedReachable, Collecting
<1> QED
  BY <1>10, <1>11, <1>12, <1>13, <1>14 DEF IInv

LEMMA EndSweepStep == ASSUME IInv, EndSweep PROVE IInv'
<1>1. /\ pc = "sweep" /\ pc' = resume /\ at' = 1 /\ resume' = "idle"
      /\ UNCHANGED <<objs, refs, roots, strs, marked, gray, src, pend>>
      /\ resume \in {"idle", "link", "enter"} /\ at > Len(objs)
  BY DEF IInv, TypeOK, EndSweep, heap, colours
<1>2. Reachable' = Reachable /\ OnHeap' = OnHeap
  BY <1>1, SameReach DEF OnHeap
<1>3. marked = {} /\ gray = {}
  <2>1. Ahead = {}
    BY <1>1, Facts DEF IInv, TypeOK, Ahead, From
  <2> QED
    BY <1>1, <2>1 DEF IInv, SweepInv
<1>4. TypeOK'
  BY <1>1, Facts DEF IInv, TypeOK
<1>5. StringsAreLeaves' /\ LiveKept' /\ InternedAlive'
  BY <1>1, <1>2 DEF IInv, StringsAreLeaves, LiveKept, InternedAlive
<1>6. PendFits'
  BY <1>1, <1>2 DEF IInv, PendFits, Doing, Collecting
<1>7. MarksCleared' /\ TriColour' /\ MarkedReachable' /\ SweepInv'
  BY <1>1, <1>3 DEF MarksCleared, TriColour, MarkedReachable, SweepInv, Collecting
<1> QED
  BY <1>4, <1>5, <1>6, <1>7 DEF IInv

\* Every step keeps the invariant.
LEMMA NextIInv == IInv /\ [Next]_vars => IInv'
<1> SUFFICES ASSUME IInv, [Next]_vars PROVE IInv'
  OBVIOUS
<1>0. /\ StringsAreLeaves /\ strs \subseteq Strings
      /\ \A o \in strs : o \in Objs
  BY GcAssumption DEF IInv, TypeOK
<1>1. CASE UNCHANGED vars
  <2>1. UNCHANGED <<objs, refs, roots, strs, marked, gray, pc, src, at, pend, resume>>
    BY <1>1 DEF vars
  <2>2. Reachable' = Reachable /\ OnHeap' = OnHeap /\ Passed' = Passed /\ Ahead' = Ahead
    BY <2>1, SameReach DEF OnHeap, Passed, Ahead, UpTo, From
  <2> QED
    BY <2>1, <2>2 DEF IInv, TypeOK, StringsAreLeaves, PendFits, Doing, LiveKept,
       InternedAlive, MarksCleared, TriColour, MarkedReachable, SweepInv
<1>2. ASSUME NEW o \in Objs, NEW p \in Objs, Write(o, p) PROVE IInv'
  BY <1>0, <1>2, Facts, ProgramStep DEF Write, colours, StringsAreLeaves
<1>3. ASSUME NEW o \in Objs, NEW p \in Objs, Erase(o, p) PROVE IInv'
  BY <1>0, <1>3, Facts, ProgramStep DEF Erase, colours, StringsAreLeaves
<1>4. ASSUME NEW s \in Sources, NEW o \in Objs, Hold(s, o) PROVE IInv'
  BY <1>0, <1>4, Facts, ProgramStep DEF Hold, colours, StringsAreLeaves
<1>5. ASSUME NEW s \in Sources, NEW o \in Objs, Drop(s, o) PROVE IInv'
  BY <1>0, <1>5, Facts, ProgramStep DEF Drop, colours, StringsAreLeaves
<1>6. ASSUME NEW o \in Objs, FindInterned(o) PROVE IInv'
  BY <1>0, <1>6, Facts, ProgramStep DEF FindInterned, colours, StringsAreLeaves
<1>7. ASSUME NEW o \in Objs, Alloc(o) PROVE IInv'
  <2>1. /\ pc = "idle" /\ o \notin OnHeap /\ pend' = o
        /\ UNCHANGED <<objs, refs, roots, strs, marked, gray, at>>
        /\ Collect("link") \/ (pc' = "link" /\ UNCHANGED <<src, resume>>)
    BY <1>7 DEF Alloc, heap, colours
  <2>2. CASE Collect("link")
    BY <2>1, <2>2, CollectStart DEF Collecting
  <2>3. CASE pc' = "link" /\ UNCHANGED <<src, resume>>
    <3>1. Reachable' = Reachable /\ OnHeap' = OnHeap
      BY <2>1, SameReach DEF OnHeap
    <3> QED
      BY <2>1, <2>3, <3>1 DEF IInv, TypeOK, StringsAreLeaves, PendFits, Doing, LiveKept,
         InternedAlive, MarksCleared, TriColour, MarkedReachable, SweepInv, Collecting
  <2> QED
    BY <2>1, <2>2, <2>3
<1>8. CASE AllocArray
  BY <1>8, CollectStart DEF AllocArray, heap, colours, Collecting, IInv, TypeOK
<1>9. CASE Link
  BY <1>9, LinkStep
<1>10. CASE GrowStrs
  <2>1. pend \in Strings \intersect Reachable /\ pend \in Objs
    BY <1>10, GcAssumption DEF IInv, PendFits, Doing, GrowStrs
  <2> QED
    BY <1>10, <2>1, CollectStart DEF GrowStrs, heap, colours, Collecting
<1>11. CASE Enter
  BY <1>11, EnterStep
<1>12. CASE CollectStep
  BY <1>12, MarkRootsStep, RootsMarkedStep, BlackenStep, RemBlackMapStep, KeepStep,
     FreeStep, EndSweepStep DEF CollectStep
<1> QED
  BY <1>1, <1>2, <1>3, <1>4, <1>5, <1>6, <1>7, <1>8, <1>9, <1>10, <1>11, <1>12
  DEF Next

LEMMA AlwaysIInv == Spec => []IInv
<1> QED
  BY InitIInv, NextIInv, PTL DEF Spec

-----------------------------------------------------------------------------
(* The theorems.                                                            *)

\* The list of objects, the marks and the state of the collection keep their
\* types, and no object is ever on the list twice.
THEOREM TypeCorrect == Spec => []TypeOK
<1>1. IInv => TypeOK
  BY DEF IInv
<1> QED
  BY AlwaysIInv, <1>1, PTL

\* gc never frees an object that the stack, the frames, the open upvalues, the
\* globals, the files or the compiler lead to, however many objects there are.
THEOREM LiveObjectsKept == Spec => []LiveKept
<1>1. IInv => LiveKept
  BY DEF IInv
<1> QED
  BY AlwaysIInv, <1>1, PTL

\* copy_str and take_str never hand out a string that has been freed.
THEOREM InternedStringsAlive == Spec => []InternedAlive
<1>1. IInv => InternedAlive
  BY DEF IInv
<1> QED
  BY AlwaysIInv, <1>1, PTL

\* While gc marks, a black object refers to marked objects only.
THEOREM MarkingCorrect == Spec => []TriColour
<1>1. IInv => TriColour
  BY DEF IInv
<1> QED
  BY AlwaysIInv, <1>1, PTL

\* sweep clears the mark of what it keeps: none outlives its collection.
THEOREM MarksGone == Spec => []MarksCleared
<1>1. IInv => MarksCleared
  BY DEF IInv
<1> QED
  BY AlwaysIInv, <1>1, PTL

-----------------------------------------------------------------------------
(* A collection ends: Left counts the steps there may still be.             *)

\* The list is finite, and so are the sets of its objects Left counts.
LEMMA Countable ==
    ASSUME IInv
    PROVE  /\ IsFiniteSet(OnHeap)
           /\ \A S \in SUBSET OnHeap : IsFiniteSet(S) /\ Cardinality(S) \in Nat
<1>1. objs \in Surjection(1 .. Len(objs), OnHeap)
  BY Facts DEF Surjection, OnHeap
<1>2. IsFiniteSet(1 .. Len(objs))
  BY Facts, FS_Interval
<1>3. IsFiniteSet(OnHeap)
  BY <1>1, <1>2, FS_Surjection
<1> QED
  BY <1>3, FS_Subset, FS_CardinalityType

LEMMA MarkedOnHeap ==
    ASSUME IInv, pc \in {"mark", "trace"}
    PROVE  marked \subseteq OnHeap /\ gray \subseteq marked /\ gray \subseteq OnHeap
<1> QED
  BY DEF IInv, TypeOK, MarkedReachable, LiveKept

LEMMA DisjointUnion ==
    ASSUME NEW A, IsFiniteSet(A), NEW B, IsFiniteSet(B), A \cap B = {}
    PROVE  Cardinality(A \cup B) = Cardinality(A) + Cardinality(B)
<1>1. Cardinality(A \cup B) = Cardinality(A) + Cardinality(B) - Cardinality(A \cap B)
  BY FS_Union
<1>2. Cardinality(A \cap B) = 0
  BY FS_EmptySet
<1>3. Cardinality(A) \in Nat /\ Cardinality(B) \in Nat
  BY FS_CardinalityType
<1> QED
  BY <1>1, <1>2, <1>3

\* What is marked anew is no longer to be marked, but to be blackened.
LEMMA MarksCount ==
    ASSUME IInv, pc \in {"mark", "trace"}, NEW S \in SUBSET OnHeap, NEW G \in SUBSET gray
    PROVE  /\ Cardinality(S \ marked) \in Nat /\ Cardinality(G) \in Nat
           /\ Cardinality(OnHeap \ marked) \in Nat
           /\ Cardinality(OnHeap \ (marked \union S)) \in Nat
           /\ Cardinality(OnHeap \ marked)
                 = Cardinality(OnHeap \ (marked \union S)) + Cardinality(S \ marked)
           /\ Cardinality(G \union (S \ marked)) = Cardinality(G) + Cardinality(S \ marked)
<1> DEFINE A == OnHeap \ (marked \union S)
           N == S \ marked
<1>1. /\ IsFiniteSet(A) /\ IsFiniteSet(N) /\ IsFiniteSet(G)
      /\ Cardinality(A) \in Nat /\ Cardinality(N) \in Nat /\ Cardinality(G) \in Nat
      /\ Cardinality(OnHeap \ marked) \in Nat
  BY Countable, MarkedOnHeap
<1>2. A \union N = OnHeap \ marked /\ A \cap N = {} /\ G \cap N = {}
  BY MarkedOnHeap
<1> HIDE DEF A, N
<1>3. Cardinality(A \union N) = Cardinality(A) + Cardinality(N)
  BY <1>1, <1>2, DisjointUnion
<1>4. Cardinality(G \union N) = Cardinality(G) + Cardinality(N)
  BY <1>1, <1>2, DisjointUnion
<1>5. Cardinality(OnHeap \ marked) = Cardinality(A) + Cardinality(N)
  BY <1>2, <1>3
<1> QED
  BY <1>1, <1>4, <1>5 DEF A, N

\* Of what is left to trace, an object counts twice until it is marked, and once
\* until it is black.
LEMMA StepShrinks ==
    ASSUME IInv, CollectStep
    PROVE  Left \in Nat /\ Left' \in 0 .. Left - 1
<1>1. /\ Len(objs) \in Nat /\ at \in 1 .. Len(objs) + 1 /\ src \in 1 .. 7
      /\ Len(SourceOrder) = 6
  BY Facts, SourcesOrdered DEF IInv, TypeOK
<1>2. CASE MarkRoots
  <2> DEFINE S == roots[SourceOrder[src]]
  <2>1. /\ pc = "mark" /\ pc' = "mark" /\ src \in 1 .. 6 /\ src' = src + 1
        /\ marked' = marked \union S /\ gray' = gray \union (S \ marked)
        /\ Len(objs') = Len(objs) /\ OnHeap' = OnHeap
    BY <1>1, <1>2 DEF MarkRoots, Mark, heap, OnHeap
  <2>2. S \in SUBSET OnHeap
    BY <2>1, SourcesOrdered, Facts DEF IInv, LiveKept
  <2> HIDE DEF S
  <2>3. /\ Cardinality(S \ marked) \in Nat /\ Cardinality(gray) \in Nat
        /\ Cardinality(OnHeap \ marked') \in Nat
        /\ Cardinality(OnHeap \ marked)
              = Cardinality(OnHeap \ marked') + Cardinality(S \ marked)
        /\ Cardinality(gray') = Cardinality(gray) + Cardinality(S \ marked)
    BY <2>1, <2>2, MarksCount
  <2> DEFINE w == Cardinality(OnHeap \ marked)
             w2 == Cardinality(OnHeap \ marked')
             g == Cardinality(gray)
             g2 == Cardinality(gray')
             n == Cardinality(S \ marked)
             len == Len(objs)
  <2>4. /\ Left = 2 * w + g + len + (7 - src) + 3
        /\ Left' = 2 * w2 + g2 + len + (7 - src') + 3
    BY <1>1, <2>1 DEF Left, Tracing
  <2>5. /\ w \in Nat /\ w2 \in Nat /\ g \in Nat /\ g2 \in Nat /\ n \in Nat /\ len \in Nat
        /\ w = w2 + n /\ g2 = g + n
    BY <1>1, <2>3
  <2> HIDE DEF w, w2, g, g2, n, len
  <2> QED
    BY <2>1, <2>4, <2>5
<1>3. CASE RootsMarked
  <2>1. /\ pc = "mark" /\ pc' = "trace" /\ src = 7
        /\ UNCHANGED <<marked, gray>> /\ Len(objs') = Len(objs) /\ OnHeap' = OnHeap
    BY <1>1, <1>3 DEF RootsMarked, heap, colours, OnHeap
  <2>2. Cardinality(OnHeap \ marked) \in Nat /\ Cardinality(gray) \in Nat
    BY <2>1, Countable, MarkedOnHeap
  <2> QED
    BY <1>1, <2>1, <2>2 DEF Left, Tracing
<1>4. CASE \E o \in Objs : Blacken(o)
  <2>1. PICK o \in Objs : Blacken(o)
    BY <1>4
  <2>2. /\ pc = "trace" /\ pc' = "trace" /\ o \in gray
        /\ marked' = marked \union refs[o]
        /\ gray' = (gray \ {o}) \union (refs[o] \ marked)
        /\ Len(objs') = Len(objs) /\ OnHeap' = OnHeap
    BY <2>1 DEF Blacken, heap, OnHeap
  <2>3. refs[o] \in SUBSET OnHeap
    BY <2>2, Facts, MarkedOnHeap DEF IInv, MarkedReachable, LiveKept
  <2>4. Cardinality(gray \ {o}) = Cardinality(gray) - 1 /\ Cardinality(gray) \in Nat
    BY <2>2, Countable, MarkedOnHeap, FS_RemoveElement
  <2>5. gray \ {o} \in SUBSET gray
    OBVIOUS
  <2>6. /\ Cardinality(refs[o] \ marked) \in Nat
        /\ Cardinality(OnHeap \ marked') \in Nat
        /\ Cardinality(OnHeap \ marked)
              = Cardinality(OnHeap \ marked') + Cardinality(refs[o] \ marked)
        /\ Cardinality(gray') = Cardinality(gray \ {o}) + Cardinality(refs[o] \ marked)
        /\ Cardinality(gray \ {o}) \in Nat
    BY <2>2, <2>3, <2>5, MarksCount
  <2> DEFINE w == Cardinality(OnHeap \ marked)
             w2 == Cardinality(OnHeap \ marked')
             g == Cardinality(gray)
             g2 == Cardinality(gray')
             n == Cardinality(refs[o] \ marked)
             len == Len(objs)
  <2>7. Left = 2 * w + g + len + 2 /\ Left' = 2 * w2 + g2 + len + 2
    BY <2>2 DEF Left, Tracing
  <2>8. /\ w \in Nat /\ w2 \in Nat /\ g \in Nat /\ g2 \in Nat /\ n \in Nat /\ len \in Nat
        /\ w = w2 + n /\ g2 = g - 1 + n
    BY <1>1, <2>4, <2>6
  <2> HIDE DEF w, w2, g, g2, n, len
  <2> QED
    BY <2>7, <2>8
<1>5. CASE RemBlackMap
  <2>1. pc = "trace" /\ pc' = "sweep" /\ at' = 1 /\ Len(objs') = Len(objs)
    BY <1>5 DEF RemBlackMap
  <2>2. Cardinality(OnHeap \ marked) \in Nat /\ Cardinality(gray) \in Nat
    BY <2>1, Countable, MarkedOnHeap
  <2> QED
    BY <1>1, <2>1, <2>2 DEF Left, Tracing
<1>6. CASE Keep
  <2>1. pc = "sweep" /\ pc' = "sweep" /\ at <= Len(objs) /\ at' = at + 1
        /\ Len(objs') = Len(objs)
    BY <1>6 DEF Keep, heap
  <2> QED
    BY <1>1, <2>1 DEF Left
<1>7. CASE Free
  <2>1. /\ pc = "sweep" /\ pc' = "sweep" /\ at \in 1 .. Len(objs) /\ at' = at
        /\ objs' = Unlink(at)
    BY <1>1, <1>7 DEF Free
  <2>2. Len(objs') = Len(objs) - 1
    BY <2>1, Facts, UnlinkList
  <2> QED
    BY <1>1, <2>1, <2>2 DEF Left
<1>8. CASE EndSweep
  <2>1. pc = "sweep" /\ pc' \in {"idle", "link", "enter"} /\ at > Len(objs)
    BY <1>8 DEF EndSweep, IInv, TypeOK
  <2> QED
    BY <1>1, <2>1 DEF Left
<1> QED
  BY <1>2, <1>3, <1>4, <1>5, <1>6, <1>7, <1>8 DEF CollectStep

\* A collection takes no more steps than are known when it begins, for every heap:
\* each object is marked, blackened and passed by the sweep once at most, also on
\* cycles, which mark_obj only leaves because of the mark.
THEOREM EveryStepCounts == Spec => CollectionShrinks
<1>1. IInv /\ [Next]_vars
      => [(pc \in Collecting) => Left \in Nat /\ Left' \in 0 .. Left - 1]_vars
  <2> SUFFICES ASSUME IInv, Next, pc \in Collecting
               PROVE  Left \in Nat /\ Left' \in 0 .. Left - 1
    OBVIOUS
  <2>1. CollectStep
    BY DEF Next, Collecting, Write, Erase, Hold, Drop, FindInterned, Alloc, AllocArray,
           Link, GrowStrs, Enter
  <2> QED
    BY <2>1, StepShrinks
<1> QED
  BY AlwaysIInv, <1>1, PTL DEF Spec, CollectionShrinks

-----------------------------------------------------------------------------
(* The heap as the program sees it.  In the sweep, what is neither marked    *)
(* nor passed is gone already.                                               *)

Alive == {o \in OnHeap : Survives(o)}
Seen == [o \in Objs |-> IF o \in OnHeap /\ Survives(o) THEN refs[o] ELSE {}]

LEMMA Mapping == /\ Heap!vars = <<Alive, Seen, roots, strs>>
                 /\ Heap!vars' = <<Alive', Seen', roots', strs'>>
<1> QED
  BY DEF Heap!vars, Alive, Seen

\* When no sweep runs, that is the list of objects; in a sweep, what is marked
\* or passed.
LEMMA AliveIs ==
    ASSUME objs \in Seq(Objs), at \in 1 .. Len(objs) + 1
    PROVE  Alive = IF pc = "sweep" THEN OnHeap \intersect (marked \union Passed) ELSE OnHeap
<1> QED
  BY DEF Alive, Survives, Passed, UpTo

LEMMA SeenIs == Seen = [o \in Objs |-> IF o \in Alive THEN refs[o] ELSE {}]
<1> QED
  BY DEF Seen, Alive

\* References that agree on what they reach reach the same.
LEMMA SameReachSet ==
    ASSUME NEW R \in SUBSET Objs, NEW rf \in [Objs -> SUBSET Objs],
           NEW rg \in [Objs -> SUBSET Objs],
           \A x \in ReachSet(R, rf) : rg[x] = rf[x]
    PROVE  ReachSet(R, rg) = ReachSet(R, rf)
<1>1. ReachSet(R, rg) \subseteq ReachSet(R, rf)
  <2>1. /\ ReachSet(R, rf) \in SUBSET Objs /\ R \subseteq ReachSet(R, rf)
        /\ \A x \in ReachSet(R, rf) : rg[x] \subseteq ReachSet(R, rf)
    BY ReachSetCloses
  <2> QED
    BY <2>1, ReachSetLeast
<1>2. ReachSet(R, rf) \subseteq ReachSet(R, rg)
  <2>1. /\ ReachSet(R, rg) \in SUBSET Objs /\ R \subseteq ReachSet(R, rg)
        /\ \A x \in ReachSet(R, rg) : rg[x] \subseteq ReachSet(R, rg)
    BY ReachSetCloses
  <2>2. \A x \in ReachSet(R, rg) : rf[x] \subseteq ReachSet(R, rg)
    BY <1>1, <2>1
  <2> QED
    BY <2>1, <2>2, ReachSetLeast
<1> QED
  BY <1>1, <1>2

\* What the program sees it reaches is what it reaches.
LEMMA ReachesSame == ASSUME IInv PROVE Heap!Reachable = Reachable /\ Reachable \subseteq Alive
<1>1. Reachable \subseteq Alive
  BY Facts, AliveIs DEF IInv, TypeOK, SweepInv
<1>2. Seen \in [Objs -> SUBSET Objs] /\ \A x \in Reachable : Seen[x] = refs[x]
  BY <1>1, Facts, SeenIs
<1>3. Heap!Reachable = ReachSet(Rooted, Seen)
  BY DEF Heap!Reachable, Heap!Rooted, Heap!Closed, Rooted, ReachSet, Seen
<1>4. Rooted \in SUBSET Objs
  BY Facts DEF Rooted
<1>5. ReachSet(Rooted, Seen) = ReachSet(Rooted, refs)
  BY <1>2, <1>4, Facts, SameReachSet, ReachableIsReachSet
<1> QED
  BY <1>1, <1>3, <1>5, ReachableIsReachSet

\* A state with the same list, outside of a sweep, in which the references are
\* those given.
LEMMA OutsideSweep ==
    ASSUME IInv', pc' # "sweep"
    PROVE  Alive' = OnHeap' /\ Seen' = [o \in Objs |-> IF o \in OnHeap' THEN refs'[o] ELSE {}]
<1> QED
  BY DEF Alive, Seen, Survives

LEMMA Outside ==
    ASSUME IInv, pc # "sweep"
    PROVE  Alive = OnHeap /\ Seen = [o \in Objs |-> IF o \in OnHeap THEN refs[o] ELSE {}]
<1> QED
  BY DEF Alive, Seen, Survives

-----------------------------------------------------------------------------
(* The program's steps, with no sweep running.                               *)

\* A rearrangement of references.
LEMMA MutateRefines ==
    ASSUME IInv, IInv', pc = "idle", pc' = "idle", UNCHANGED <<objs, roots, strs>>,
           NEW o \in Reachable, NEW R \in SUBSET Reachable,
           refs' = [refs EXCEPT ![o] = R]
    PROVE  Heap!Mutate
<1>0. OnHeap' = OnHeap
  BY DEF OnHeap
<1>1. Alive' = Alive /\ OnHeap' = OnHeap /\ Alive = OnHeap
  BY <1>0, Outside, OutsideSweep
<1>2. Seen' = [Seen EXCEPT ![o] = R]
  BY <1>1, Facts, Outside, OutsideSweep
<1>3. o \in Heap!Reachable /\ R \in SUBSET Heap!Reachable
  BY ReachesSame
<1> QED
  BY <1>1, <1>2, <1>3 DEF Heap!Mutate, Alive, Seen

LEMMA RootRefines ==
    ASSUME IInv, IInv', pc = "idle", pc' = "idle", UNCHANGED <<objs, refs, strs>>,
           NEW s \in Sources, NEW R \in SUBSET Reachable,
           roots' = [roots EXCEPT ![s] = R]
    PROVE  Heap!Root(s)
<1>0. OnHeap' = OnHeap
  BY DEF OnHeap
<1>1. Alive' = Alive /\ Seen' = Seen
  BY <1>0, Outside, OutsideSweep
<1>2. R \in SUBSET Heap!Reachable
  BY ReachesSame
<1> QED
  BY <1>1, <1>2 DEF Heap!Root, Alive, Seen

LEMMA FindRefines ==
    ASSUME IInv, IInv', NEW o \in Objs, FindInterned(o)
    PROVE  Heap!Find(o, "stack")
<1>0. OnHeap' = OnHeap
  BY DEF FindInterned, OnHeap
<1>1. Alive' = Alive /\ Seen' = Seen
  BY <1>0, Outside, OutsideSweep DEF FindInterned
<1> QED
  BY <1>1 DEF Heap!Find, FindInterned, Alive, Seen

LEMMA LinkRefines == ASSUME IInv, IInv', Link PROVE Heap!New(pend, "stack")
<1>1. /\ pc = "link" /\ pc' # "sweep" /\ pend \in Objs /\ pend \notin OnHeap
      /\ objs' = <<pend>> \o objs /\ strs' = strs
      /\ roots' = [roots EXCEPT !["stack"] = @ \union {pend}]
  BY DEF IInv, Link, PendFits, Doing
<1>2. PICK R \in SUBSET (Reachable \ {pend}) : refs' = [refs EXCEPT ![pend] = R]
  BY DEF Link
<1>3. OnHeap' = OnHeap \union {pend}
  <2>1. Elements(objs') = Elements(objs) \union {pend}
    BY <1>1, Facts, LinkList
  <2> QED
    BY <2>1, Facts DEF OnHeap, Elements
<1>4. Alive = OnHeap /\ Alive' = Alive \union {pend}
  BY <1>1, <1>3, Outside, OutsideSweep
<1>5. Seen' = [Seen EXCEPT ![pend] = R]
  BY <1>1, <1>2, <1>3, Facts, Outside, OutsideSweep
<1>6. R \in SUBSET Heap!Reachable
  BY ReachesSame
<1> QED
  BY <1>1, <1>4, <1>5, <1>6 DEF Heap!New, Alive, Seen

LEMMA EnterRefines == ASSUME IInv, IInv', Enter PROVE Heap!Enter(pend)
<1>0. OnHeap' = OnHeap
  BY DEF Enter, OnHeap
<1>1. Alive' = Alive /\ Seen' = Seen
  BY <1>0, Outside, OutsideSweep DEF Enter
<1>2. pend \in Heap!Reachable \intersect Strings
  BY ReachesSame DEF IInv, Enter, PendFits, Doing
<1> QED
  BY <1>1, <1>2 DEF Heap!Enter, Enter, Alive, Seen

-----------------------------------------------------------------------------
(* The collection.  What it marks is what is reachable, so that it collects  *)
(* when the sweep begins; nothing else of it is seen.                        *)

\* A step that leaves the heap alone, with no sweep before or after it.
LEMMA Unseen ==
    ASSUME IInv, IInv', pc # "sweep", pc' # "sweep", UNCHANGED <<objs, refs, roots, strs>>
    PROVE  UNCHANGED Heap!vars
<1>0. OnHeap' = OnHeap
  BY DEF OnHeap
<1>1. Alive' = Alive /\ Seen' = Seen
  BY <1>0, Outside, OutsideSweep
<1> QED
  BY <1>1, Mapping

LEMMA MarkedIsReachable == ASSUME IInv, pc = "trace", gray = {} PROVE marked = Reachable
<1>1. marked \subseteq Reachable
  BY DEF IInv, MarkedReachable
<1>2. /\ \A x \in marked : refs[x] \subseteq marked
      /\ \A s \in Sources : roots[s] \subseteq marked
  BY SourcesOrdered DEF IInv, TriColour
<1>3. marked \in SUBSET Objs /\ Rooted \subseteq marked
  BY <1>2 DEF IInv, TypeOK, Rooted
<1> QED
  BY <1>1, <1>2, <1>3, ReachSetLeast, ReachableIsReachSet

LEMMA RemBlackMapRefines == ASSUME IInv, IInv', RemBlackMap PROVE Heap!Collect
<1>1. /\ pc = "trace" /\ pc' = "sweep" /\ gray = {} /\ at' = 1
      /\ strs' = strs \intersect marked
      /\ UNCHANGED <<objs, refs, roots, marked>>
  BY DEF RemBlackMap, colours
<1>2. marked = Reachable /\ Heap!Reachable = Reachable /\ OnHeap' = OnHeap
  BY <1>1, MarkedIsReachable, ReachesSame DEF OnHeap
<1>3. Passed' = {}
  BY <1>1 DEF Passed, UpTo
<1>4. Alive' = OnHeap' \intersect (marked' \union Passed')
  BY <1>1, AliveIs DEF IInv, TypeOK, Alive, Survives, Passed, UpTo
<1>5. Alive' = Heap!Reachable /\ Alive = OnHeap
  BY <1>1, <1>2, <1>3, <1>4, Facts, Outside
<1>6. Seen' = [o \in Objs |-> IF o \in Alive' THEN refs'[o] ELSE {}]
  BY DEF Seen, Alive
<1>7. Seen' = [o \in Objs |-> IF o \in Heap!Reachable THEN Seen[o] ELSE {}]
  BY <1>1, <1>2, <1>5, <1>6, Facts, SeenIs
<1> QED
  BY <1>1, <1>2, <1>5, <1>7 DEF Heap!Collect, Alive, Seen

\* Marked or passed, before a step and after it.
LEMMA InSweep ==
    /\ pc = "sweep" => Alive = OnHeap \intersect (marked \union Passed)
    /\ pc' = "sweep" => Alive' = OnHeap' \intersect (marked' \union Passed')
<1> QED
  BY DEF Alive, Survives, Passed, UpTo

LEMMA KeepUnseen == ASSUME IInv, Keep PROVE UNCHANGED Heap!vars
<1>1. /\ pc = "sweep" /\ pc' = "sweep" /\ at \in 1 .. Len(objs) /\ at' = at + 1
      /\ objs[at] \in marked /\ marked' = marked \ {objs[at]}
      /\ UNCHANGED <<objs, refs, roots, strs>>
  BY Facts DEF IInv, TypeOK, Keep, heap
<1>2. OnHeap' = OnHeap /\ Passed' = Passed \union {objs[at]}
  BY <1>1, Facts DEF OnHeap, Passed, UpTo
<1>3. Alive' = Alive
  BY <1>1, <1>2, InSweep
<1>4. Seen' = Seen
  BY <1>1, <1>3 DEF Seen, Alive
<1> QED
  BY <1>1, <1>3, <1>4, Mapping

\* What is freed had been gone for the program since the end of the marking.
LEMMA FreeUnseen == ASSUME IInv, Free PROVE UNCHANGED Heap!vars
<1> DEFINE o == objs[at]
<1>1. /\ pc = "sweep" /\ pc' = "sweep" /\ at \in 1 .. Len(objs)
      /\ o \notin marked /\ objs' = Unlink(at)
      /\ refs' = [refs EXCEPT ![o] = {}]
      /\ UNCHANGED <<roots, strs, marked, at>>
  BY Facts DEF IInv, TypeOK, Free, colours
<1>2. /\ Elements(objs') = Elements(objs) \ {o}
      /\ \A p \in 1 .. (at - 1) : objs'[p] = objs[p]
  BY <1>1, Facts, UnlinkList
<1>3. OnHeap' = OnHeap \ {o}
  BY <1>2, Facts DEF OnHeap, Elements
<1>4. Passed' = Passed /\ o \notin Passed
  BY <1>1, <1>2, Facts DEF Passed, UpTo, Distinct
<1>5. Alive' = Alive /\ o \notin Alive
  BY <1>1, <1>3, <1>4, InSweep
<1>6. Seen' = Seen
  <2>1. /\ Seen = [x \in Objs |-> IF x \in Alive THEN refs[x] ELSE {}]
        /\ Seen' = [x \in Objs |-> IF x \in Alive' THEN refs'[x] ELSE {}]
    BY DEF Seen, Alive
  <2> QED
    BY <1>1, <1>5, <2>1, Facts
<1> QED
  BY <1>1, <1>5, <1>6, Mapping

LEMMA EndSweepUnseen == ASSUME IInv, IInv', EndSweep PROVE UNCHANGED Heap!vars
<1>1. /\ pc = "sweep" /\ pc' # "sweep" /\ at > Len(objs)
      /\ UNCHANGED <<objs, refs, roots, strs>>
  BY DEF IInv, TypeOK, EndSweep, heap, Collecting
<1>2. OnHeap' = OnHeap
  BY <1>1 DEF OnHeap
<1>3. OnHeap \subseteq Passed
  <2>1. at - 1 = Len(objs)
    BY <1>1, Facts DEF IInv, TypeOK
  <2> QED
    BY <2>1 DEF OnHeap, Passed, UpTo
<1>4. Alive = OnHeap /\ Alive' = Alive
  BY <1>1, <1>2, <1>3, InSweep, OutsideSweep
<1>5. Seen' = Seen
  BY <1>1, <1>4 DEF Seen, Alive
<1> QED
  BY <1>1, <1>4, <1>5, Mapping

-----------------------------------------------------------------------------
(* The refinement.                                                           *)

LEMMA InitRefines == Init => Heap!Init
<1> SUFFICES ASSUME Init PROVE Heap!Init
  OBVIOUS
<1>1. OnHeap = {}
  BY EmptySeq DEF Init, OnHeap
<1> QED
  BY <1>1 DEF Init, Heap!Init

LEMMA CollectStepRefines ==
    ASSUME IInv, IInv', CollectStep
    PROVE  Heap!Collect \/ UNCHANGED Heap!vars
<1>1. CASE MarkRoots \/ RootsMarked \/ \E o \in Objs : Blacken(o)
  BY <1>1, Unseen DEF MarkRoots, RootsMarked, Blacken, heap
<1> QED
  BY <1>1, RemBlackMapRefines, KeepUnseen, FreeUnseen, EndSweepUnseen DEF CollectStep

LEMMA StepRefines == IInv /\ IInv' /\ [Next]_vars => [Heap!Next]_(Heap!vars)
<1> SUFFICES ASSUME IInv, IInv', [Next]_vars
             PROVE  Heap!Next \/ UNCHANGED Heap!vars
  OBVIOUS
<1>1. CASE UNCHANGED vars
  BY <1>1 DEF vars, Heap!vars, OnHeap, Survives
<1>2. ASSUME NEW o \in Objs, NEW p \in Objs, Write(o, p) \/ Erase(o, p)
      PROVE  Heap!Next
  <2>1. PICK R \in SUBSET Reachable : o \in Reachable /\ refs' = [refs EXCEPT ![o] = R]
    BY <1>2, Facts DEF Write, Erase
  <2>2. Heap!Mutate
    BY <1>2, <2>1, MutateRefines DEF Write, Erase
  <2> QED
    BY <2>2 DEF Heap!Next
<1>3. ASSUME NEW s \in Sources, NEW o \in Objs, Hold(s, o) \/ Drop(s, o)
      PROVE  Heap!Next
  <2>1. PICK R \in SUBSET Reachable : roots' = [roots EXCEPT ![s] = R]
    BY <1>3, Facts DEF Hold, Drop
  <2>2. Heap!Root(s)
    BY <1>3, <2>1, RootRefines DEF Hold, Drop
  <2> QED
    BY <2>2 DEF Heap!Next
<1>4. ASSUME NEW o \in Objs, FindInterned(o) PROVE Heap!Next
  BY <1>4, FindRefines DEF Heap!Next, Sources
<1>5. ASSUME NEW o \in Objs, Alloc(o) PROVE UNCHANGED Heap!vars
  BY <1>5, Unseen DEF Alloc, Collect, heap
<1>6. CASE AllocArray \/ GrowStrs
  BY <1>6, Unseen DEF AllocArray, GrowStrs, Collect, heap
<1>7. CASE Link
  <2>1. pend \in Objs
    BY <1>7 DEF IInv, Link, PendFits, Doing
  <2> QED
    BY <1>7, <2>1, LinkRefines DEF Heap!Next, Sources
<1>8. CASE Enter
  <2>1. pend \in Objs
    BY <1>8, GcAssumption DEF IInv, Enter, PendFits, Doing
  <2> QED
    BY <1>8, <2>1, EnterRefines DEF Heap!Next
<1>9. CASE CollectStep
  BY <1>9, CollectStepRefines DEF Heap!Next
<1> QED
  BY <1>1, <1>2, <1>3, <1>4, <1>5, <1>6, <1>7, <1>8, <1>9 DEF Next

\* For any number of objects and any references among them, the program cannot
\* tell a collection of gc, stage by stage, from one step that removes what it
\* does not reach, nor meet a freed object or string after it (mem.c, obj.c).
THEOREM Refinement == Spec => ImplementsHeap
<1>1. IInv /\ IInv' /\ [Next]_vars => [Heap!Next]_(Heap!vars)
  BY StepRefines
<1> QED
  BY <1>1, InitRefines, AlwaysIInv, PTL DEF Spec, ImplementsHeap, Heap!Spec
=============================================================================
