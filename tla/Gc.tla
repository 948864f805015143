--------------------------------- MODULE Gc ---------------------------------
(* The collector of src/src/mem.c, with the allocation of objects and       *)
(* strings of obj.c that starts it: a stop-the-world mark and sweep.  The   *)
(* program runs only when no collection does; a collection runs inside an   *)
(* allocation, before the allocated object is on the list of objects.       *)
(*                                                                          *)
(* An object is its identity and its set of references; the heap is h->objs *)
(* as a sequence, newest first.  Whether an allocation collects depends on  *)
(* byte counts (or on the hbs_stress_gc build): here any one may.           *)
EXTENDS Integers, Sequences, FiniteSets

CONSTANTS
    Objs,       \* the identities of objects
    Strings,    \* those that are strings: they refer to nothing
    NoObj,
    MaxRoots,   \* bound: references held by roots
    MaxRefs     \* bound: references held by objects

ASSUME GcAssumption ==
    /\ Strings \subseteq Objs
    /\ NoObj \notin Objs

\* Faulty variant of SourceOrder: passes over the captured variables.
SourceOrderNoUpvals == <<"stack", "frames", "globals", "files", "compiler">>

\* The order in which mark_roots visits the roots.
SourceOrder == <<"stack", "frames", "open_upvals", "globals", "files", "compiler">>
Sources == {"stack", "frames", "open_upvals", "globals", "files", "compiler"}

VARIABLES
    objs,     \* h->objs
    refs,     \* refs[o], the objects o refers to
    roots,    \* roots[s], the objects root source s refers to
    strs,     \* the intern table, which holds its strings weakly
    marked,   \* the objects with the mark bit set
    gray,     \* the gray stack
    pc,       \* where the allocation or the collection is
    src,      \* the next source mark_roots visits
    at,       \* the position sweep has come to
    pend,     \* the object being allocated
    resume    \* where the allocation goes on when the collection is over

vars == <<objs, refs, roots, strs, marked, gray, pc, src, at, pend, resume>>
heap == <<objs, refs, roots, strs>>
colours == <<marked, gray>>

OnHeap == {objs[p] : p \in 1 .. Len(objs)}

Rooted == UNION {roots[s] : s \in Sources}

Closed(S) == \A o \in S : refs[o] \subseteq S

\* The least closed set that holds the roots.
Reachable == {o \in Objs : \A S \in SUBSET Objs :
                               Rooted \subseteq S /\ Closed(S) => o \in S}

Init == /\ objs = <<>>
        /\ refs = [o \in Objs |-> {}]
        /\ roots = [s \in Sources |-> {}]
        /\ strs = {}
        /\ marked = {} /\ gray = {}
        /\ pc = "idle" /\ src = 1 /\ at = 1
        /\ pend = NoObj /\ resume = "idle"

RootCount == Cardinality({h \in Sources \X Objs : h[2] \in roots[h[1]]})
RefCount == Cardinality({r \in Objs \X Objs : r[2] \in refs[r[1]]})

-----------------------------------------------------------------------------
(* The program, between collections.  It touches only what it can reach.    *)

\* A value is stored into, or dropped from, a field, an element, an upvalue...
Write(o, p) == /\ pc = "idle"
               /\ o \in Reachable \ Strings /\ p \in Reachable
               /\ RefCount < MaxRefs
               /\ refs' = [refs EXCEPT ![o] = @ \union {p}]
               /\ UNCHANGED <<objs, roots, strs, colours, pc, src, at, pend, resume>>

Erase(o, p) == /\ pc = "idle"
               /\ o \in Reachable
               /\ p \in refs[o]
               /\ refs' = [refs EXCEPT ![o] = @ \ {p}]
               /\ UNCHANGED <<objs, roots, strs, colours, pc, src, at, pend, resume>>

\* A root takes up a value or drops one: push and pop, a call and a return, a
\* captured local, a global, an imported file, a function being compiled.
Hold(s, o) == /\ pc = "idle"
              /\ o \in Reachable
              /\ RootCount < MaxRoots
              /\ roots' = [roots EXCEPT ![s] = @ \union {o}]
              /\ UNCHANGED <<objs, refs, strs, colours, pc, src, at, pend, resume>>

Drop(s, o) == /\ pc = "idle"
              /\ o \in roots[s]
              /\ roots' = [roots EXCEPT ![s] = @ \ {o}]
              /\ UNCHANGED <<objs, refs, strs, colours, pc, src, at, pend, resume>>

\* copy_str and take_str find the string in the intern table: it may be one
\* that nothing refers to any more and that no collection has met yet.
FindInterned(o) == /\ pc = "idle"
                   /\ o \in strs
                   /\ RootCount < MaxRoots
                   /\ roots' = [roots EXCEPT !["stack"] = @ \union {o}]
                   /\ UNCHANGED <<objs, refs, strs, colours, pc, src, at, pend, resume>>

-----------------------------------------------------------------------------
(* Allocation: reallocate collects, or not, before it allocates.            *)

\* gc starts; when it is over the allocation goes on at step next.
Collect(next) == /\ pc' = "mark"
                 /\ src' = 1
                 /\ resume' = next

\* alloc_obj_impl for a new object o.
Alloc(o) == /\ pc = "idle"
            /\ o \notin OnHeap
            /\ RootCount < MaxRoots
            /\ pend' = o
            /\ \/ Collect("link")
               \/ pc' = "link" /\ UNCHANGED <<src, resume>>
            /\ UNCHANGED <<heap, colours, at>>

\* Memory for an array, a map or a chunk: there is no object to link.
AllocArray == /\ pc = "idle"
              /\ Collect("idle")
              /\ UNCHANGED <<heap, colours, at, pend>>

\* The object goes to the front of the list; its creator fills in references
\* to what it holds itself and puts it on the stack before it allocates again.
Link == /\ pc = "link"
        /\ objs' = <<pend>> \o objs
        /\ \E R \in SUBSET (Reachable \ {pend}) :
              /\ pend \in Strings => R = {}
              /\ RefCount + Cardinality(R) <= MaxRefs
              /\ refs' = [refs EXCEPT ![pend] = R]
        /\ roots' = [roots EXCEPT !["stack"] = @ \union {pend}]
        /\ IF pend \in Strings
           THEN pc' = "intern" /\ UNCHANGED pend
           ELSE pc' = "idle" /\ pend' = NoObj
        /\ UNCHANGED <<strs, colours, src, at, resume>>

\* alloc_str enters the new string into the intern table, which may have to
\* grow for it, and so collect while the table does not hold it yet.
GrowStrs == /\ pc = "intern"
            /\ Collect("enter")
            /\ UNCHANGED <<heap, colours, at, pend>>

Enter == /\ pc \in {"intern", "enter"}
         /\ strs' = strs \union {pend}
         /\ pend' = NoObj
         /\ pc' = "idle"
         /\ UNCHANGED <<objs, refs, roots, colours, src, at, resume>>

-----------------------------------------------------------------------------
(* gc: mark_roots, trace_refs, rem_black_map on strs, sweep.                *)

\* Faulty variant of Mark: a place on the gray stack, but no mark.
MarkGrayOnly(S) == /\ gray' = gray \union (S \ marked)
                   /\ UNCHANGED marked

\* mark_obj on each member of S: those that have no mark yet get one, and a
\* place on the gray stack.
Mark(S) == /\ marked' = marked \union S
           /\ gray' = gray \union (S \ marked)

MarkRoots == /\ pc = "mark"
             /\ src <= Len(SourceOrder)
             /\ Mark(roots[SourceOrder[src]])
             /\ src' = src + 1
             /\ UNCHANGED <<heap, pc, at, pend, resume>>

RootsMarked == /\ pc = "mark"
               /\ src > Len(SourceOrder)
               /\ pc' = "trace"
               /\ src' = 1
               /\ UNCHANGED <<heap, colours, at, pend, resume>>

\* Faulty variant of Blacken: leaves the object gray.
BlackenStaysGray(o) == /\ pc = "trace"
                       /\ o \in gray
                       /\ Mark(refs[o])
                       /\ UNCHANGED <<heap, pc, src, at, pend, resume>>


\* Faulty variant of Blacken: what is marked already becomes gray again.
BlackenAgain(o) == /\ pc = "trace"
                   /\ o \in gray
                   /\ marked' = marked \union refs[o]
                   /\ gray' = (gray \ {o}) \union refs[o]
                   /\ UNCHANGED <<heap, pc, src, at, pend, resume>>

\* blacken_obj: o leaves the gray stack, what it refers to is marked.
Blacken(o) == /\ pc = "trace"
              /\ o \in gray
              /\ marked' = marked \union refs[o]
              /\ gray' = (gray \ {o}) \union (refs[o] \ marked)
              /\ UNCHANGED <<heap, pc, src, at, pend, resume>>

RemBlackMap == /\ pc = "trace"
               /\ gray = {}
               /\ strs' = strs \intersect marked
               /\ pc' = "sweep"
               /\ at' = 1
               /\ UNCHANGED <<objs, refs, roots, colours, src, pend, resume>>

\* Faulty variant of Keep: leaves the mark.
KeepMarked == /\ pc = "sweep"
              /\ at <= Len(objs)
              /\ objs[at] \in marked
              /\ at' = at + 1
              /\ UNCHANGED <<heap, colours, pc, src, pend, resume>>

\* One object of the list: unmarked for the next collection, or unlinked and
\* freed.
Keep == /\ pc = "sweep"
        /\ at <= Len(objs)
        /\ objs[at] \in marked
        /\ marked' = marked \ {objs[at]}
        /\ at' = at + 1
        /\ UNCHANGED <<heap, gray, pc, src, pend, resume>>

\* Faulty variant of Unlink: the head of the list is moved in every case.
UnlinkHead(p) == [q \in 1 .. (Len(objs) - p) |-> objs[q + p]]

Unlink(p) == [q \in 1 .. (Len(objs) - 1) |-> IF q < p THEN objs[q] ELSE objs[q + 1]]

Free == /\ pc = "sweep"
        /\ at <= Len(objs)
        /\ objs[at] \notin marked
        /\ objs' = Unlink(at)
        /\ refs' = [refs EXCEPT ![objs[at]] = {}]
        /\ UNCHANGED <<roots, strs, colours, pc, src, at, pend, resume>>

EndSweep == /\ pc = "sweep"
            /\ at > Len(objs)
            /\ pc' = resume
            /\ at' = 1
            /\ resume' = "idle"
            /\ UNCHANGED <<heap, colours, src, pend>>

Collecting == {"mark", "trace", "sweep"}

CollectStep == \/ MarkRoots \/ RootsMarked
               \/ \E o \in Objs : Blacken(o)
               \/ RemBlackMap \/ Keep \/ Free \/ EndSweep

Next == \/ \E o, p \in Objs : Write(o, p) \/ Erase(o, p)
        \/ \E s \in Sources, o \in Objs : Hold(s, o) \/ Drop(s, o)
        \/ \E o \in Objs : FindInterned(o) \/ Alloc(o)
        \/ AllocArray \/ Link \/ GrowStrs \/ Enter
        \/ CollectStep

Spec == Init /\ [][Next]_vars

\* A collection runs to its end before the program goes on.
FairSpec == Spec /\ WF_vars(CollectStep)

-----------------------------------------------------------------------------
(* Properties.                                                              *)

\* An object is on the list once: freeing it frees it once.
TypeOK ==
    /\ objs \in Seq(Objs)
    /\ \A p, q \in 1 .. Len(objs) : objs[p] = objs[q] => p = q
    /\ refs \in [Objs -> SUBSET Objs]
    /\ roots \in [Sources -> SUBSET Objs]
    /\ strs \subseteq Strings
    /\ marked \subseteq Objs /\ gray \subseteq marked
    /\ pc \in Collecting \union {"idle", "link", "intern", "enter"}
    /\ src \in 1 .. Len(SourceOrder) + 1 /\ at \in 1 .. Len(objs) + 1
    /\ pend \in Objs \union {NoObj}
    /\ resume \in {"idle", "link", "enter"}

\* No object the program can reach has been freed, at any point of any
\* collection: neither one reached by the root source marked last, nor one whose
\* only reference is held by an object late on the list.
LiveKept == Reachable \subseteq OnHeap

\* The intern table never offers a freed string: rem_black_map drops it before
\* sweep frees it.
InternedAlive == strs \subseteq OnHeap

\* While marking, what a black object or a visited root refers to is marked; and
\* when the gray stack is empty, that makes everything reachable marked.
TriColour ==
    pc \in {"mark", "trace"} =>
        /\ \A o \in marked \ gray : refs[o] \subseteq marked
        /\ \A n \in 1 .. Len(SourceOrder) :
              pc = "trace" \/ n < src => roots[SourceOrder[n]] \subseteq marked

\* Between collections no mark is left: a stale mark would make the next
\* collection pass over the object and free what only it refers to.
MarksCleared == pc \notin Collecting => marked = {} /\ gray = {}

\* A collection as the program sees it: one step, at the end of marking, that
\* removes exactly what nothing reaches.
Survives(o) == pc = "sweep" => \/ o \in marked
                              \/ \E p \in 1 .. (at - 1) : objs[p] = o

Heap == INSTANCE AbstractHeap WITH
    heap <- {o \in OnHeap : Survives(o)},
    refs <- [o \in Objs |-> IF o \in OnHeap /\ Survives(o) THEN refs[o] ELSE {}]

ImplementsHeap == Heap!Spec

\* What is left of a collection, in steps: an object that has no mark may still be
\* marked and then blackened, and each is passed once by the sweep.
Tracing == 2 * Cardinality(OnHeap \ marked) + Cardinality(gray) + Len(objs)
Left == CASE pc = "mark" -> Tracing + (Len(SourceOrder) + 1 - src) + 3
          [] pc = "trace" -> Tracing + 2
          [] pc = "sweep" -> Len(objs) - at + 2
          [] OTHER -> 0

\* Every step of a collection leaves less of it, whatever cycles the heap has: no
\* object becomes gray a second time, and the sweep does not lose its place when
\* it unlinks the object it stands at.
CollectionShrinks == [][(pc \in Collecting) => Left \in Nat /\ Left' \in 0 .. Left - 1]_vars

\* A collection that started ends.
CollectionEnds == pc = "mark" ~> pc \notin Collecting
=============================================================================
