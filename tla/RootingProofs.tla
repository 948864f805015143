--------------------------- MODULE RootingProofs ---------------------------
(* Theorems about Rooting, for any number of objects and any bounds: every  *)
(* operation uses live objects only, whatever is collected under it, and    *)
(* takes off the stack what it pushed.                                      *)
(*                                                                          *)
(* The programs are followed symbolically.  What is known at a step is a    *)
(* record of facts: how many values are on the stack above what was there   *)
(* before, which variables hold something those values or the other roots   *)
(* lead to, which ones hold something that has not been freed.  Permits     *)
(* says which facts a step takes to which, for any memory; Runs says that a *)
(* program, by whatever way through its jumps, takes facts x to facts y.    *)
(* The first part shows that the machine obeys the facts, the second how    *)
(* the facts of programs are put together, the third that every operation   *)
(* runs from its operands to its results.                                   *)
EXTENDS Rooting, SequenceTheorems, TLAPS

-----------------------------------------------------------------------------
(* Facts.                                                                   *)

\* height: the values of the operation on the stack.  on: <<j, v>> when the j-th
\* of them leads to what v holds.  in: the variables that hold an object another
\* root refers to.  live: those that hold no freed object.  made: those that are
\* not Nil.  apart: <<u, v>> when u does not hold the object v holds.
Facts(height, on, in, live, made, apart) ==
    [height |-> height, on |-> on, in |-> in, live |-> live, made |-> made, apart |-> apart]

Live(x, v) == v \in x.live \/ v \in x.in \/ \E j : <<j, v>> \in x.on

\* y asks no more than x.
Weaker(x, y) == /\ y.height = x.height
                /\ y.on \subseteq x.on /\ y.in \subseteq x.in /\ y.live \subseteq x.live
                /\ y.made \subseteq x.made /\ y.apart \subseteq x.apart

\* The variables a step follows, as in Uses.
UsesOf(s) == CASE s.do \in {"push", "put", "use", "keep", "enter"} -> {s.v}
               [] s.do = "link" -> {s.v, s.w}
               [] s.do \in {"get", "ifstr"} -> {s.w}
               [] s.do = "make" -> s.of
               [] OTHER -> {}

\* A step that does not assign leaves these facts as they are.
Keeps(s, x, y) == /\ y.in \subseteq x.in
                  /\ y.made \subseteq x.made /\ y.apart \subseteq x.apart
                  /\ \A v \in y.live : Live(x, v) \/ v \in UsesOf(s)

\* One that assigns v leaves those of the other variables.
Assigns(v, s, x, y) ==
    /\ y.height = x.height
    /\ \A j, u : <<j, u>> \in y.on => u = v \/ <<j, u>> \in x.on
    /\ \A u \in y.in : u = v \/ u \in x.in
    /\ \A u \in y.live : u = v \/ Live(x, u) \/ u \in UsesOf(s)
    /\ \A u \in y.made : u = v \/ u \in x.made
    /\ \A u, w : <<u, w>> \in y.apart => u = v \/ w = v \/ <<u, w>> \in x.apart

Apart(v, y) == \E u : <<u, v>> \in y.apart \/ <<v, u>> \in y.apart

Jumps == {"either", "skip", "find", "ifstr"}

\* A step s, with or without its jump, that makes y of x.
PermitsStack(s, x, y) ==
    \/ /\ s.do = "push" /\ Keeps(s, x, y)
       /\ y.height = x.height + 1
       /\ \A j, v : <<j, v>> \in y.on => <<j, v>> \in x.on \/ (j = y.height /\ v = s.v)
    \/ /\ s.do = "pop" /\ Keeps(s, x, y)
       /\ x.height >= 1 /\ y.height = x.height - 1
       /\ \A j, v : <<j, v>> \in y.on => <<j, v>> \in x.on /\ j # x.height
    \/ /\ s.do = "put" /\ Keeps(s, x, y)
       /\ x.height >= 1 /\ y.height = x.height
       /\ \A j, v : <<j, v>> \in y.on => \/ <<j, v>> \in x.on /\ j # x.height
                                         \/ j = x.height /\ v = s.v

PermitsRead(s, jump, x, y) ==
    \/ /\ s.do = "peek" /\ Assigns(s.v, s, x, y)
       /\ s.dist \in Nat /\ s.dist < x.height
       /\ s.v \notin y.in /\ s.v \notin y.made /\ ~Apart(s.v, y)
       /\ \A j : <<j, s.v>> \in y.on => j = x.height - s.dist
    \/ /\ s.do = "get" /\ Assigns(s.v, s, x, y)
       /\ s.v \notin y.in /\ s.v \notin y.made /\ ~Apart(s.v, y)
       /\ \A j : <<j, s.v>> \in y.on => <<j, s.w>> \in x.on
    \/ /\ s.do = "const" /\ Assigns(s.v, s, x, y)
       /\ s.v \notin y.made /\ ~Apart(s.v, y) /\ \A j : <<j, s.v>> \notin y.on
    \/ /\ s.do = "builtin" /\ Assigns(s.v, s, x, y)
       /\ s.v \notin y.in /\ s.v \notin y.live /\ s.v \notin y.made /\ ~Apart(s.v, y)
       /\ \A j : <<j, s.v>> \notin y.on
    \/ /\ s.do = "find" /\ jump /\ Assigns(s.v, s, x, y)
       /\ s.v \notin y.in /\ s.v \notin y.made /\ ~Apart(s.v, y)
       /\ \A j : <<j, s.v>> \notin y.on
    \/ /\ s.do = "ifstr" /\ jump /\ Assigns(s.v, s, x, y)
       /\ s.v \in y.in => s.w \in x.in
       /\ s.v \notin y.made /\ ~Apart(s.v, y)
       /\ \A j : <<j, s.v>> \in y.on => <<j, s.w>> \in x.on

PermitsMemory(s, x, y) ==
    \/ /\ s.do = "alloc"
       /\ y.height = x.height /\ y.on \subseteq x.on /\ y.in \subseteq x.in /\ y.live = {}
       /\ y.made \subseteq x.made /\ y.apart \subseteq x.apart
    \/ /\ s.do = "make" /\ Assigns(s.v, s, x, y)
       /\ s.v \notin y.in /\ (\A j : <<j, s.v>> \notin y.on)
       /\ \A u : /\ <<s.v, u>> \notin y.apart
                 /\ <<u, s.v>> \in y.apart => Live(x, u) \/ u \in UsesOf(s)
    \/ /\ s.do = "link" /\ Keeps(s, x, y)
       /\ y.height = x.height /\ y.on \subseteq x.on
    \/ /\ s.do = "keep"
       /\ y.height = x.height /\ y.on \subseteq x.on /\ y.in \subseteq x.in \union {s.v}
       /\ y.made \subseteq x.made /\ y.apart \subseteq x.apart
       /\ \A v \in y.live : Live(x, v) \/ v \in UsesOf(s)
    \/ /\ s.do = "drop" /\ Keeps(s, x, y)
       /\ y.height = x.height /\ y.on \subseteq x.on
       /\ \A u \in y.in : <<u, s.v>> \in x.apart
    \/ /\ s.do \in {"enter", "set_builtin"} /\ Keeps(s, x, y)
       /\ y.height = x.height /\ y.on \subseteq x.on
       /\ s.v \in x.made

PermitsOther(s, jump, x, y) ==
    \/ /\ s.do \in {"use", "either", "skip"} /\ Keeps(s, x, y)
       /\ y.height = x.height /\ y.on \subseteq x.on
    \/ /\ s.do \in {"find", "ifstr"} /\ ~jump /\ Keeps(s, x, y)
       /\ y.height = x.height /\ y.on \subseteq x.on
    \/ /\ s.do = "leave" /\ Keeps(s, x, y)
       /\ y.height = x.height /\ y.on \subseteq x.on
       /\ y.made \intersect s.locals = {}
       /\ \A u, w : <<u, w>> \in y.apart => u \notin s.locals /\ w \notin s.locals

\* What it uses is live, or one of X.
Permits(X, s, jump, x, y) ==
    /\ \A v \in UsesOf(s) : Live(x, v) \/ v \in X
    /\ \/ PermitsStack(s, x, y) \/ PermitsRead(s, jump, x, y)
       \/ PermitsMemory(s, x, y) \/ PermitsOther(s, jump, x, y)

\* c[i] is known before step i of P, however it is reached.
FollowsAt(X, P, c, i) ==
    /\ P[i].do # "skip" => Permits(X, P[i], FALSE, c[i], c[i + 1])
    /\ P[i].do \in Jumps => /\ P[i].by \in Int
                            /\ i + 1 + P[i].by \in 1 .. Len(P) + 1
                            /\ Permits(X, P[i], TRUE, c[i], c[i + 1 + P[i].by])

Follows(X, P, c) == \A i \in 1 .. Len(P) : FollowsAt(X, P, c, i)

IsSeq(P) == \E S : P \in Seq(S)

Runs(X, P, x, y) ==
    /\ IsSeq(P)
    /\ \E c : Weaker(x, c[1]) /\ Follows(X, P, c) /\ Weaker(c[Len(P) + 1], y)

-----------------------------------------------------------------------------
(* The machine obeys the facts.                                             *)

\* What r refers to, directly or not: o is in every closed set that r is in.
Leads(r, o) == /\ r \in heap
               /\ \A C \in SUBSET Objs : r \in C /\ (\A p \in C : refs[p] \subseteq C) => o \in C

Obeys(x) ==
    /\ x.height \in Nat /\ Len(stack) = Len(below) + x.height
    /\ SubSeq(stack, 1, Len(below)) = below
    /\ \A j, v : <<j, v>> \in x.on => /\ j \in 1 .. x.height
                                      /\ \/ Val(v) = Nil
                                        \/ Leads(stack[Len(below) + j], Val(v))
    /\ \A v \in x.in : Val(v) \in kept \union {Nil}
    /\ \A v \in x.live : Val(v) # Freed
    /\ \A v \in x.made : Val(v) # Nil
    /\ \A u, v : <<u, v>> \in x.apart => Val(u) # Val(v) \/ Val(u) = Freed

\* Objects refer to objects that exist; those that do not exist to none.
HeapOK == /\ \A o \in heap : refs[o] \subseteq heap
          /\ \A o \in Objs \ heap : refs[o] = {}

\* What an operation ends with, and what it starts with: no variable is set.
\* These two are pushed and never set.
Values(n) == Facts(n, {}, {}, {}, {}, {})
Operands(n) == Facts(n, {}, {"null", "res"}, {}, {}, {})

\* The variables of an operation that Unrooted lists.
Exempt(o) == {u[2] : u \in {w \in Unrooted : w[1] = o}}

Following ==
    /\ op = "idle" => DOMAIN held = {}
    /\ op \in DOMAIN Code =>
           /\ Length \in Nat
           /\ \E c : /\ Follows(Exempt(op), Code[op].code, c)
                     /\ Weaker(c[Length + 1], Values(Code[op].gives))
                     /\ Obeys(c[pc])

Inv == TypeOK /\ HeapOK /\ Following

LEMMA ExemptIs == ASSUME NEW o, NEW v PROVE v \in Exempt(o) <=> <<o, v>> \in Unrooted
<1>1. \A u \in Unrooted : u = <<u[1], u[2]>>
  BY DEF Unrooted
<1>2. <<o, v>>[1] = o /\ <<o, v>>[2] = v
  OBVIOUS
<1> QED
  BY <1>1, <1>2 DEF Exempt

LEMMA LeadsWithin ==
    ASSUME TypeOK, HeapOK, NEW r, NEW o, Leads(r, o)
    PROVE  o \in heap
<1> QED
  BY DEF TypeOK, HeapOK, Leads

\* What is known to be live has not been freed.
LEMMA LiveIs ==
    ASSUME TypeOK, HeapOK, NEW x, Obeys(x), NEW v, Live(x, v)
    PROVE  Val(v) \in heap \union {Nil}
<1>1. Freed \notin heap /\ Nil # Freed
  BY RootingAssumption DEF TypeOK
<1>2. Val(v) \in heap \union {Nil, Freed}
  BY DEF TypeOK, Val
<1>3. CASE v \in x.live
  BY <1>2, <1>3 DEF Obeys
<1>4. CASE v \in x.in
  BY <1>4 DEF Obeys, TypeOK
<1>5. CASE \E j : <<j, v>> \in x.on
  <2>1. PICK j : <<j, v>> \in x.on
    BY <1>5
  <2>2. Val(v) = Nil \/ Leads(stack[Len(below) + j], Val(v))
    BY <2>1 DEF Obeys
  <2> QED
    BY <2>2, LeadsWithin
<1> QED
  BY <1>3, <1>4, <1>5 DEF Live

\* A variable is assigned.
LEMMA SetVal ==
    ASSUME NEW v, NEW w, Set(v, w)
    PROVE  /\ Val(v)' = w
           /\ \A u : u # v => Val(u)' = Val(u)
           /\ DOMAIN held' = {v} \union DOMAIN held
           /\ \A u \in DOMAIN held' : held'[u] = IF u = v THEN w ELSE held[u]
<1> QED
  BY DEF Set, Val

\* Facts that only speak of less hold on, as long as what the values on the
\* stack lead to does.
LEMMA KeepsObeys ==
    ASSUME NEW s, NEW x, NEW y, TypeOK, HeapOK, Obeys(x), Keeps(s, x, y),
           y.height = x.height, y.on \subseteq x.on,
           \A v \in UsesOf(s) : Val(v) # Freed,
           UNCHANGED <<heap, refs, stack, below, held>>,
           \A v \in y.in : Val(v) \in kept => Val(v) \in kept'
    PROVE  Obeys(y)'
<1>1. \A v : Val(v)' = Val(v)
  BY DEF Val
<1>2. \A r, o : Leads(r, o)' <=> Leads(r, o)
  BY DEF Leads
<1>3. \A v \in y.live : Val(v) # Freed
  <2>1. Freed \notin heap /\ Nil # Freed
    BY RootingAssumption DEF TypeOK
  <2> QED
    BY <2>1, LiveIs DEF Keeps
<1>4. \A v \in y.in : Val(v)' \in kept' \union {Nil}
  BY <1>1 DEF Keeps, Obeys
<1>5. \A v \in y.made : Val(v)' # Nil
  BY <1>1 DEF Keeps, Obeys
<1>6. \A u, v : <<u, v>> \in y.apart => Val(u)' # Val(v)' \/ Val(u)' = Freed
  BY <1>1 DEF Keeps, Obeys
<1>7. \A j, v : <<j, v>> \in y.on =>
          /\ j \in 1 .. y.height
          /\ Val(v)' = Nil \/ Leads(stack[Len(below) + j], Val(v))'
  BY <1>1, <1>2 DEF Obeys
<1>8. y.height \in Nat /\ Len(stack') = Len(below') + y.height
      /\ SubSeq(stack', 1, Len(below')) = below'
  BY DEF Obeys
<1> QED
  BY <1>1, <1>3, <1>4, <1>5, <1>6, <1>7, <1>8 DEF Obeys

\* So do those about other variables when v is assigned w, and those about v if
\* they hold of w.
LEMMA AssignsObeys ==
    ASSUME NEW s, NEW x, NEW y, NEW v, NEW w, TypeOK, HeapOK, Obeys(x), Assigns(v, s, x, y),
           \A u \in UsesOf(s) : Val(u) # Freed, Set(v, w),
           \A r, o : Leads(r, o) => Leads(r, o)',
           UNCHANGED <<stack, below, kept>>,
           \A j : <<j, v>> \in y.on =>
               j \in 1 .. x.height /\ (w = Nil \/ Leads(stack[Len(below) + j], w)),
           v \in y.in => w \in kept \union {Nil},
           v \in y.live => w # Freed,
           v \in y.made => w # Nil,
           \A u : <<u, v>> \in y.apart \/ <<v, u>> \in y.apart => u # v /\ Val(u) # w
    PROVE  Obeys(y)'
<1>1. Val(v)' = w /\ \A u : u # v => Val(u)' = Val(u)
  BY SetVal
<1>2. \A u \in y.live : Val(u)' # Freed
  <2>1. Freed \notin heap /\ Nil # Freed
    BY RootingAssumption DEF TypeOK
  <2>2. ASSUME NEW u \in y.live, u # v PROVE Val(u) # Freed
    <3>1. Live(x, u) \/ u \in UsesOf(s)
      BY <2>2 DEF Assigns
    <3> QED
      BY <2>1, <3>1, LiveIs
  <2> QED
    BY <1>1, <2>2
<1>3. \A u \in y.in : Val(u)' \in kept' \union {Nil}
  BY <1>1 DEF Assigns, Obeys
<1>4. \A u \in y.made : Val(u)' # Nil
  BY <1>1 DEF Assigns, Obeys
<1>5. ASSUME NEW u, NEW z, <<u, z>> \in y.apart
      PROVE  Val(u)' # Val(z)' \/ Val(u)' = Freed
  <2>1. CASE u = v
    BY <1>1, <1>5, <2>1
  <2>2. CASE z = v
    BY <1>1, <1>5, <2>2
  <2>3. CASE u # v /\ z # v
    BY <1>1, <1>5, <2>3 DEF Assigns, Obeys
  <2> QED
    BY <2>1, <2>2, <2>3
<1>6. ASSUME NEW j, NEW u, <<j, u>> \in y.on
      PROVE  j \in 1 .. y.height /\ (Val(u)' = Nil \/ Leads(stack[Len(below) + j], Val(u))')
  <2>1. PICK z : z = Val(u)'
    OBVIOUS
  <2>2. j \in 1 .. x.height /\ (z = Nil \/ Leads(stack[Len(below) + j], z))
    <3>1. CASE u = v
      BY <1>1, <1>6, <2>1, <3>1
    <3>2. CASE u # v
      BY <1>1, <1>6, <2>1, <3>2 DEF Assigns, Obeys
    <3> QED
      BY <3>1, <3>2
  <2>3. PICK r : r = stack[Len(below) + j]
    OBVIOUS
  <2>4. Leads(r, z) => Leads(r, z)'
    OBVIOUS
  <2>5. r = stack'[Len(below') + j]
    BY <2>3
  <2>6. Leads(r, z)' <=> Leads(stack[Len(below) + j], Val(u))'
    BY <2>1, <2>5 DEF Leads
  <2>7. y.height = x.height
    BY DEF Assigns
  <2> QED
    BY <2>1, <2>2, <2>3, <2>4, <2>6, <2>7
<1>7. y.height \in Nat /\ Len(stack') = Len(below') + y.height
      /\ SubSeq(stack', 1, Len(below')) = below'
  BY DEF Assigns, Obeys
<1> QED
  BY <1>2, <1>3, <1>4, <1>5, <1>6, <1>7 DEF Obeys

-----------------------------------------------------------------------------
(* Each kind of step, from facts x that the machine obeys to facts y that    *)
(* the step permits.                                                        *)

MemOK ==
    /\ heap \subseteq Objs /\ strs \subseteq heap /\ kept \subseteq heap
    /\ refs \in [Objs -> SUBSET Objs]
    /\ stack \in Seq(heap \union {Nil}) /\ below \in Seq(Objs \union {Nil})
    /\ builtin \in heap \union {Freed}
    /\ \A v \in DOMAIN held : held[v] \in heap \union {Nil, Freed}
    /\ HeapOK

\* What a step does not follow may have been freed; what it follows has not.
LEMMA UsesNotFreed ==
    ASSUME Inv, NEW do, Running(do)
    PROVE  /\ Step.do = do /\ \A v \in UsesOf(Step) : Val(v) \in heap \union {Nil}
           /\ \A v \in UsesOf(Step) : Val(v) # Freed
           /\ UNCHANGED below
<1>1. UsesOf(Step) = Uses
  <2>1. pc \in 1 .. Length + 1 /\ pc <= Length
    BY DEF Running, TypeOK, Inv
  <2>2. ~(pc > Length)
    <3>1. Length \in Nat
      BY DEF Following, Running, Inv
    <3> QED
      BY <2>1, <3>1
  <2> QED
    BY <2>2 DEF Uses, UsesOf, Running
<1>2. \A v \in UsesOf(Step) : Val(v) # Freed
  BY <1>1 DEF Running, Stale
<1>3. \A v : Val(v) \in heap \union {Nil, Freed}
  BY DEF TypeOK, Val, Inv
<1> QED
  BY <1>2, <1>3 DEF Running


LEMMA SameFront ==
    ASSUME NEW S, NEW T, NEW a \in Seq(S), NEW b \in Seq(T), NEW n \in Nat,
           n <= Len(a), n <= Len(b), \A i \in 1 .. n : a[i] = b[i]
    PROVE  SubSeq(a, 1, n) = SubSeq(b, 1, n)
<1>1. /\ SubSeq(a, 1, n) = [i \in 1 .. n |-> a[i]]
      /\ SubSeq(b, 1, n) = [i \in 1 .. n |-> b[i]]
  OBVIOUS
<1> QED
  BY <1>1

\* Values are pushed or popped.
LEMMA StackObeys ==
    ASSUME NEW s, NEW x, NEW y, Inv, Obeys(x), Keeps(s, x, y),
           \A v \in UsesOf(s) : Val(v) # Freed,
           UNCHANGED <<heap, refs, below, held, kept>>,
           y.height \in Nat, Len(stack') = Len(below) + y.height,
           SubSeq(stack', 1, Len(below)) = below,
           \A j, v : <<j, v>> \in y.on =>
               j \in 1 .. y.height /\ (Val(v) = Nil \/ Leads(stack'[Len(below) + j], Val(v)))
    PROVE  Obeys(y)'
<1>1. \A v : Val(v)' = Val(v)
  BY DEF Val
<1>2. \A r, o : Leads(r, o) => Leads(r, o)'
  BY DEF Leads
<1>3. \A v \in y.live : Val(v)' # Freed
  <2>1. Freed \notin heap /\ Nil # Freed
    BY RootingAssumption DEF TypeOK, Inv
  <2> QED
    BY <1>1, <2>1, LiveIs DEF Keeps, Inv
<1>4. \A v \in y.in : Val(v)' \in kept' \union {Nil}
  BY <1>1 DEF Keeps, Obeys
<1>5. \A v \in y.made : Val(v)' # Nil
  BY <1>1 DEF Keeps, Obeys
<1>6. \A u, v : <<u, v>> \in y.apart => Val(u)' # Val(v)' \/ Val(u)' = Freed
  BY <1>1 DEF Keeps, Obeys
<1>7. ASSUME NEW j, NEW v, <<j, v>> \in y.on
      PROVE  j \in 1 .. y.height /\ (Val(v)' = Nil \/ Leads(stack[Len(below) + j], Val(v))')
  <2>1. PICK r : r = stack'[Len(below) + j]
    OBVIOUS
  <2>2. PICK z : z = Val(v)
    OBVIOUS
  <2>3. j \in 1 .. y.height /\ (z = Nil \/ Leads(r, z))
    BY <1>7, <2>1, <2>2
  <2>4. Leads(r, z) => Leads(r, z)'
    BY <1>2
  <2>5. z = Val(v)' /\ r = stack'[Len(below') + j]
    BY <1>1, <2>1, <2>2
  <2>6. Leads(r, z)' <=> Leads(stack[Len(below) + j], Val(v))'
    BY <2>5 DEF Leads
  <2> QED
    BY <2>3, <2>4, <2>5, <2>6
<1> QED
  BY <1>3, <1>4, <1>5, <1>6, <1>7 DEF Obeys

LEMMA PushObeys ==
    ASSUME Inv, NEW x, NEW y, NEW jump, Obeys(x), Permits(Exempt(op), Step, jump, x, y), DoPush
    PROVE  Obeys(y)' /\ MemOK'
<1> DEFINE a == Val(Step.v)
<1>1. Step.do = "push" /\ UNCHANGED below /\ a \in heap \union {Nil}
      /\ \A v \in UsesOf(Step) : Val(v) # Freed
  <2>1. Running("push")
    BY DEF DoPush
  <2> QED
    BY <2>1, UsesNotFreed DEF UsesOf
<1>2. stack' = Append(stack, a) /\ UNCHANGED <<heap, refs, strs, kept, builtin, held>>
  BY DEF DoPush, mem
<1>3. PICK s : s = Step
  OBVIOUS
<1>4. /\ Keeps(s, x, y) /\ y.height = x.height + 1
      /\ \A j, v : <<j, v>> \in y.on => <<j, v>> \in x.on \/ (j = y.height /\ v = s.v)
  BY <1>1, <1>3 DEF Permits, PermitsStack, PermitsRead, PermitsMemory, PermitsOther
<1> HIDE DEF a
<1>5. /\ stack \in Seq(heap \union {Nil}) /\ below \in Seq(Objs \union {Nil})
      /\ Len(stack) \in Nat /\ Len(below) \in Nat
  BY DEF Inv, TypeOK
<1>6. /\ x.height \in Nat /\ Len(stack) = Len(below) + x.height
      /\ SubSeq(stack, 1, Len(below)) = below
  BY DEF Obeys
<1>7. /\ stack' \in Seq(heap \union {Nil}) /\ Len(stack') = Len(stack) + 1
      /\ stack'[Len(stack) + 1] = a
      /\ \A i \in 1 .. Len(stack) : stack'[i] = stack[i]
  BY <1>1, <1>2, <1>5
<1>8. SubSeq(stack', 1, Len(below)) = below
  <2>1. Len(below) <= Len(stack)
    BY <1>5, <1>6
  <2>2. SubSeq(stack', 1, Len(below)) = SubSeq(stack, 1, Len(below))
    BY <1>5, <1>7, <2>1, SameFront
  <2> QED
    BY <1>6, <2>2
<1>9. ASSUME NEW j, NEW v, <<j, v>> \in y.on
      PROVE  j \in 1 .. y.height /\ (Val(v) = Nil \/ Leads(stack'[Len(below) + j], Val(v)))
  <2>1. CASE <<j, v>> \in x.on
    <3>1. j \in 1 .. x.height /\ (Val(v) = Nil \/ Leads(stack[Len(below) + j], Val(v)))
      BY <2>1 DEF Obeys
    <3>2. Len(below) + j \in 1 .. Len(stack)
      BY <1>5, <1>6, <3>1
    <3> QED
      BY <1>4, <1>6, <1>7, <3>1, <3>2
  <2>2. CASE j = y.height /\ v = s.v
    <3>1. Len(below) + j = Len(stack) + 1 /\ j \in 1 .. y.height
      BY <1>4, <1>5, <1>6, <2>2
    <3>2. a = Nil \/ Leads(a, a)
      BY <1>1 DEF Leads
    <3>3. Val(v) = a
      BY <1>3, <2>2 DEF a
    <3> QED
      BY <1>7, <3>1, <3>2, <3>3
  <2> QED
    BY <1>4, <1>9, <2>1, <2>2
<1>10. y.height \in Nat /\ Len(stack') = Len(below) + y.height
  BY <1>4, <1>5, <1>6, <1>7
<1>11. \A v \in UsesOf(s) : Val(v) # Freed
  BY <1>1, <1>3
<1>12. Obeys(y)'
  BY <1>1, <1>2, <1>4, <1>8, <1>9, <1>10, <1>11, StackObeys
<1>13. MemOK'
  BY <1>1, <1>2, <1>5, <1>7 DEF MemOK, Inv, TypeOK, HeapOK
<1> QED
  BY <1>12, <1>13

LEMMA PopObeys ==
    ASSUME Inv, NEW x, NEW y, NEW jump, Obeys(x), Permits(Exempt(op), Step, jump, x, y), DoPop
    PROVE  Obeys(y)' /\ MemOK'
<1>1. Step.do = "pop" /\ UNCHANGED below /\ \A v \in UsesOf(Step) : Val(v) # Freed
  <2>1. Running("pop")
    BY DEF DoPop
  <2> QED
    BY <2>1, UsesNotFreed
<1>2. /\ stack' = SubSeq(stack, 1, Len(stack) - 1)
      /\ UNCHANGED <<heap, refs, strs, kept, builtin, held>>
  BY DEF DoPop, mem
<1>3. PICK s : s = Step
  OBVIOUS
<1>4. /\ Keeps(s, x, y) /\ x.height >= 1 /\ y.height = x.height - 1
      /\ \A j, v : <<j, v>> \in y.on => <<j, v>> \in x.on /\ j # x.height
  BY <1>1, <1>3 DEF Permits, PermitsStack, PermitsRead, PermitsMemory, PermitsOther
<1>5. /\ stack \in Seq(heap \union {Nil}) /\ below \in Seq(Objs \union {Nil})
      /\ Len(stack) \in Nat /\ Len(below) \in Nat
  BY DEF Inv, TypeOK
<1>6. /\ x.height \in Nat /\ Len(stack) = Len(below) + x.height
      /\ SubSeq(stack, 1, Len(below)) = below
  BY DEF Obeys
<1>7. /\ stack' \in Seq(heap \union {Nil}) /\ Len(stack') = Len(stack) - 1
      /\ \A i \in 1 .. Len(stack) - 1 : stack'[i] = stack[i]
  BY <1>2, <1>4, <1>5, <1>6
<1>8. SubSeq(stack', 1, Len(below)) = below
  <2>1. Len(below) <= Len(stack) - 1
    BY <1>4, <1>5, <1>6
  <2>2. SubSeq(stack', 1, Len(below)) = SubSeq(stack, 1, Len(below))
    BY <1>5, <1>7, <2>1, SameFront
  <2> QED
    BY <1>6, <2>2
<1>9. ASSUME NEW j, NEW v, <<j, v>> \in y.on
      PROVE  j \in 1 .. y.height /\ (Val(v) = Nil \/ Leads(stack'[Len(below) + j], Val(v)))
  <2>1. <<j, v>> \in x.on /\ j # x.height
    BY <1>4, <1>9
  <2>2. j \in 1 .. x.height /\ (Val(v) = Nil \/ Leads(stack[Len(below) + j], Val(v)))
    BY <2>1 DEF Obeys
  <2>3. j \in 1 .. y.height /\ Len(below) + j \in 1 .. Len(stack) - 1
    BY <1>4, <1>5, <1>6, <2>1, <2>2
  <2> QED
    BY <1>7, <2>2, <2>3
<1>10. y.height \in Nat /\ Len(stack') = Len(below) + y.height
  BY <1>4, <1>5, <1>6, <1>7
<1>11. \A v \in UsesOf(s) : Val(v) # Freed
  BY <1>1, <1>3
<1>12. Obeys(y)'
  BY <1>1, <1>2, <1>4, <1>8, <1>9, <1>10, <1>11, StackObeys
<1>13. MemOK'
  BY <1>1, <1>2, <1>5, <1>7 DEF MemOK, Inv, TypeOK, HeapOK
<1> QED
  BY <1>12, <1>13

LEMMA PutObeys ==
    ASSUME Inv, NEW x, NEW y, NEW jump, Obeys(x), Permits(Exempt(op), Step, jump, x, y), DoPut
    PROVE  Obeys(y)' /\ MemOK'
<1> DEFINE a == Val(Step.v)
           n == Len(stack)
<1>1. Step.do = "put" /\ UNCHANGED below /\ a \in heap \union {Nil}
      /\ \A v \in UsesOf(Step) : Val(v) # Freed
  <2>1. Running("put")
    BY DEF DoPut
  <2> QED
    BY <2>1, UsesNotFreed DEF UsesOf
<1>2. stack' = [stack EXCEPT ![n] = a] /\ UNCHANGED <<heap, refs, strs, kept, builtin, held>>
  BY DEF DoPut, mem
<1>3. PICK s : s = Step
  OBVIOUS
<1>4. /\ Keeps(s, x, y) /\ x.height >= 1 /\ y.height = x.height
      /\ \A j, v : <<j, v>> \in y.on => \/ <<j, v>> \in x.on /\ j # x.height
                                        \/ j = x.height /\ v = s.v
  BY <1>1, <1>3 DEF Permits, PermitsStack, PermitsRead, PermitsMemory, PermitsOther
<1> HIDE DEF a
<1>5. /\ stack \in Seq(heap \union {Nil}) /\ below \in Seq(Objs \union {Nil})
      /\ n \in Nat /\ Len(below) \in Nat
  BY DEF Inv, TypeOK
<1>6. /\ x.height \in Nat /\ n = Len(below) + x.height
      /\ SubSeq(stack, 1, Len(below)) = below
  BY DEF Obeys
<1>7. /\ stack' \in Seq(heap \union {Nil}) /\ Len(stack') = n /\ stack'[n] = a
      /\ \A i \in 1 .. n : i # n => stack'[i] = stack[i]
  <2>1. n \in 1 .. Len(stack)
    BY <1>4, <1>5, <1>6
  <2> QED
    BY <1>1, <1>2, <1>5, <2>1
<1>8. SubSeq(stack', 1, Len(below)) = below
  <2>1. Len(below) < n
    BY <1>4, <1>5, <1>6
  <2>2. SubSeq(stack', 1, Len(below)) = SubSeq(stack, 1, Len(below))
    BY <1>5, <1>7, <2>1, SameFront
  <2> QED
    BY <1>6, <2>2
<1>9. ASSUME NEW j, NEW v, <<j, v>> \in y.on
      PROVE  j \in 1 .. y.height /\ (Val(v) = Nil \/ Leads(stack'[Len(below) + j], Val(v)))
  <2>1. CASE <<j, v>> \in x.on /\ j # x.height
    <3>1. j \in 1 .. x.height /\ (Val(v) = Nil \/ Leads(stack[Len(below) + j], Val(v)))
      BY <2>1 DEF Obeys
    <3>2. Len(below) + j \in 1 .. n /\ Len(below) + j # n
      BY <1>5, <1>6, <2>1, <3>1
    <3> QED
      BY <1>4, <1>7, <3>1, <3>2
  <2>2. CASE j = x.height /\ v = s.v
    <3>1. Len(below) + j = n /\ j \in 1 .. y.height
      BY <1>4, <1>5, <1>6, <2>2
    <3>2. a = Nil \/ Leads(a, a)
      BY <1>1 DEF Leads
    <3>3. Val(v) = a
      BY <1>3, <2>2 DEF a
    <3> QED
      BY <1>7, <3>1, <3>2, <3>3
  <2> QED
    BY <1>4, <1>9, <2>1, <2>2
<1>10. y.height \in Nat /\ Len(stack') = Len(below) + y.height
  BY <1>4, <1>5, <1>6, <1>7
<1>11. \A v \in UsesOf(s) : Val(v) # Freed
  BY <1>1, <1>3
<1>12. Obeys(y)'
  BY <1>1, <1>2, <1>4, <1>8, <1>9, <1>10, <1>11, StackObeys
<1>13. MemOK'
  BY <1>1, <1>2, <1>5, <1>7 DEF MemOK, Inv, TypeOK, HeapOK
<1> QED
  BY <1>12, <1>13

\* Nothing but a variable changes.
LEMMA ReadKeepsMemory ==
    ASSUME Inv, UNCHANGED <<heap, refs, strs, stack, kept, builtin, below>>,
           NEW v, NEW w \in heap \union {Nil, Freed}, Set(v, w)
    PROVE  /\ MemOK'
           /\ \A r, o : Leads(r, o) => Leads(r, o)'
<1>1. \A u \in DOMAIN held' : held'[u] \in heap \union {Nil, Freed}
  BY SetVal DEF Inv, TypeOK
<1> QED
  BY <1>1 DEF MemOK, Inv, TypeOK, HeapOK, Leads

LEMMA PeekObeys ==
    ASSUME Inv, NEW x, NEW y, NEW jump, Obeys(x), Permits(Exempt(op), Step, jump, x, y),
           Running("peek"), Set(Step.v, stack[Len(stack) - Step.dist]),
           UNCHANGED <<heap, refs, strs, stack, kept, builtin>>
    PROVE  Obeys(y)' /\ MemOK'
<1>1. Step.do = "peek" /\ UNCHANGED below /\ \A v \in UsesOf(Step) : Val(v) # Freed
  BY UsesNotFreed
<1>2. PICK s : s = Step
  OBVIOUS
<1>3. /\ Assigns(s.v, s, x, y) /\ s.dist \in Nat /\ s.dist < x.height
      /\ s.v \notin y.in /\ s.v \notin y.made /\ ~Apart(s.v, y)
      /\ \A j : <<j, s.v>> \in y.on => j = x.height - s.dist
  BY <1>1, <1>2 DEF Permits, PermitsStack, PermitsRead, PermitsMemory, PermitsOther
<1>4. PICK w : w = stack[Len(stack) - s.dist]
  OBVIOUS
<1>5. /\ stack \in Seq(heap \union {Nil}) /\ Len(stack) \in Nat /\ Len(below) \in Nat
  BY DEF Inv, TypeOK
<1>6. x.height \in Nat /\ Len(stack) = Len(below) + x.height
  BY DEF Obeys
<1>7. Len(stack) - s.dist \in 1 .. Len(stack)
      /\ Len(stack) - s.dist = Len(below) + (x.height - s.dist)
      /\ x.height - s.dist \in 1 .. x.height
  BY <1>3, <1>5, <1>6
<1>8. w \in heap \union {Nil} /\ w = stack[Len(below) + (x.height - s.dist)]
  BY <1>4, <1>5, <1>7
<1>9. w # Freed
  BY <1>8, RootingAssumption DEF Inv, TypeOK
<1>10. Set(s.v, w)
  BY <1>2, <1>4
<1>11. MemOK' /\ \A r, o : Leads(r, o) => Leads(r, o)'
  BY <1>1, <1>8, <1>10, ReadKeepsMemory
<1>12. ASSUME NEW j, <<j, s.v>> \in y.on
       PROVE  j \in 1 .. x.height /\ (w = Nil \/ Leads(stack[Len(below) + j], w))
  <2>1. j = x.height - s.dist
    BY <1>3, <1>12
  <2>2. w = Nil \/ Leads(w, w)
    BY <1>8 DEF Leads
  <2> QED
    BY <1>7, <1>8, <2>1, <2>2
<1>13. \A u \in UsesOf(s) : Val(u) # Freed
  BY <1>1, <1>2
<1>14. \A u : ~(<<u, s.v>> \in y.apart \/ <<s.v, u>> \in y.apart)
  BY <1>3 DEF Apart
<1>15. PICK v : v = s.v
  OBVIOUS
<1>16. Obeys(y)'
  BY <1>1, <1>3, <1>9, <1>10, <1>11, <1>12, <1>13, <1>14, <1>15, AssignsObeys DEF Inv
<1> QED
  BY <1>11, <1>16

LEMMA GetObeys ==
    ASSUME Inv, NEW x, NEW y, NEW jump, Obeys(x), Permits(Exempt(op), Step, jump, x, y),
           Running("get"), NEW w \in Fields(Val(Step.w)) \union {Nil}, Set(Step.v, w),
           UNCHANGED <<heap, refs, strs, stack, kept, builtin>>
    PROVE  Obeys(y)' /\ MemOK'
<1>1. Step.do = "get" /\ UNCHANGED below /\ Val(Step.w) \in heap \union {Nil}
      /\ \A v \in UsesOf(Step) : Val(v) # Freed
  BY UsesNotFreed DEF UsesOf
<1>2. PICK s : s = Step
  OBVIOUS
<1>3. /\ Assigns(s.v, s, x, y)
      /\ s.v \notin y.in /\ s.v \notin y.made /\ ~Apart(s.v, y)
      /\ \A j : <<j, s.v>> \in y.on => <<j, s.w>> \in x.on
  BY <1>1, <1>2 DEF Permits, PermitsStack, PermitsRead, PermitsMemory, PermitsOther
<1>4. w = Nil \/ (Val(s.w) \in heap /\ w \in refs[Val(s.w)])
  BY <1>1, <1>2 DEF Fields
<1>5. w \in heap \union {Nil}
  BY <1>4 DEF Inv, HeapOK
<1>6. w # Freed
  BY <1>5, RootingAssumption DEF Inv, TypeOK
<1>7. Set(s.v, w)
  BY <1>2
<1>8. MemOK' /\ \A r, o : Leads(r, o) => Leads(r, o)'
  BY <1>1, <1>5, <1>7, ReadKeepsMemory
<1>9. ASSUME NEW j, <<j, s.v>> \in y.on
      PROVE  j \in 1 .. x.height /\ (w = Nil \/ Leads(stack[Len(below) + j], w))
  <2>1. <<j, s.w>> \in x.on
    BY <1>3, <1>9
  <2>2. PICK r : r = stack[Len(below) + j]
    OBVIOUS
  <2>3. PICK o : o = Val(s.w)
    OBVIOUS
  <2>4. j \in 1 .. x.height /\ (o = Nil \/ Leads(r, o))
    BY <2>1, <2>2, <2>3 DEF Obeys
  <2>5. Nil \notin heap
    BY RootingAssumption DEF Inv, TypeOK
  <2>6. CASE w # Nil
    <3>1. o \in heap /\ w \in refs[o] /\ Leads(r, o)
      BY <1>4, <2>3, <2>4, <2>5, <2>6
    <3>2. Leads(r, w)
      BY <3>1 DEF Leads
    <3> QED
      BY <2>2, <2>4, <3>2
  <2> QED
    BY <2>4, <2>6
<1>10. \A u \in UsesOf(s) : Val(u) # Freed
  BY <1>1, <1>2
<1>11. \A u : ~(<<u, s.v>> \in y.apart \/ <<s.v, u>> \in y.apart)
  BY <1>3 DEF Apart
<1>12. PICK v : v = s.v
  OBVIOUS
<1>13. Obeys(y)'
  BY <1>1, <1>3, <1>6, <1>7, <1>8, <1>9, <1>10, <1>11, <1>12, AssignsObeys DEF Inv
<1> QED
  BY <1>8, <1>13

LEMMA ConstObeys ==
    ASSUME Inv, NEW x, NEW y, NEW jump, Obeys(x), Permits(Exempt(op), Step, jump, x, y),
           Running("const"), NEW w \in kept, Set(Step.v, w),
           UNCHANGED <<heap, refs, strs, stack, kept, builtin>>
    PROVE  Obeys(y)' /\ MemOK'
<1>1. Step.do = "const" /\ UNCHANGED below /\ \A v \in UsesOf(Step) : Val(v) # Freed
  BY UsesNotFreed
<1>2. PICK s : s = Step
  OBVIOUS
<1>3. /\ Assigns(s.v, s, x, y)
      /\ s.v \notin y.made /\ ~Apart(s.v, y) /\ \A j : <<j, s.v>> \notin y.on
  BY <1>1, <1>2 DEF Permits, PermitsStack, PermitsRead, PermitsMemory, PermitsOther
<1>4. w \in heap /\ w # Freed
  BY RootingAssumption DEF Inv, TypeOK
<1>5. Set(s.v, w)
  BY <1>2
<1>6. MemOK' /\ \A r, o : Leads(r, o) => Leads(r, o)'
  BY <1>1, <1>4, <1>5, ReadKeepsMemory
<1>7. \A u \in UsesOf(s) : Val(u) # Freed
  BY <1>1, <1>2
<1>8. \A u : ~(<<u, s.v>> \in y.apart \/ <<s.v, u>> \in y.apart)
  BY <1>3 DEF Apart
<1>9. PICK v : v = s.v
  OBVIOUS
<1>10. Obeys(y)'
  BY <1>1, <1>3, <1>4, <1>5, <1>6, <1>7, <1>8, <1>9, AssignsObeys DEF Inv
<1> QED
  BY <1>6, <1>10

LEMMA BuiltinObeys ==
    ASSUME Inv, NEW x, NEW y, NEW jump, Obeys(x), Permits(Exempt(op), Step, jump, x, y),
           Running("builtin"), Set(Step.v, builtin),
           UNCHANGED <<heap, refs, strs, stack, kept, builtin>>
    PROVE  Obeys(y)' /\ MemOK'
<1>1. Step.do = "builtin" /\ UNCHANGED below /\ \A v \in UsesOf(Step) : Val(v) # Freed
  BY UsesNotFreed
<1>2. PICK s : s = Step
  OBVIOUS
<1>3. /\ Assigns(s.v, s, x, y) /\ s.v \notin y.in /\ s.v \notin y.live /\ s.v \notin y.made
      /\ ~Apart(s.v, y) /\ \A j : <<j, s.v>> \notin y.on
  BY <1>1, <1>2 DEF Permits, PermitsStack, PermitsRead, PermitsMemory, PermitsOther
<1>4. PICK w : w = builtin
  OBVIOUS
<1>5. w \in heap \union {Nil, Freed}
  BY <1>4 DEF Inv, TypeOK
<1>6. Set(s.v, w)
  BY <1>2, <1>4
<1>7. MemOK' /\ \A r, o : Leads(r, o) => Leads(r, o)'
  BY <1>1, <1>5, <1>6, ReadKeepsMemory
<1>8. \A u \in UsesOf(s) : Val(u) # Freed
  BY <1>1, <1>2
<1>9. \A u : ~(<<u, s.v>> \in y.apart \/ <<s.v, u>> \in y.apart)
  BY <1>3 DEF Apart
<1>10. PICK v : v = s.v
  OBVIOUS
<1>11. Obeys(y)'
  BY <1>1, <1>3, <1>6, <1>7, <1>8, <1>9, <1>10, AssignsObeys DEF Inv
<1> QED
  BY <1>7, <1>11

\* Steps that change nothing.
LEMMA PassObeys ==
    ASSUME Inv, NEW x, NEW y, NEW jump, Obeys(x), Permits(Exempt(op), Step, jump, x, y),
           NEW do, Running(do),
           do \in {"use", "either", "skip"} \/ (do \in {"find", "ifstr"} /\ ~jump),
           UNCHANGED <<heap, refs, strs, stack, kept, builtin, held>>
    PROVE  Obeys(y)' /\ MemOK'
<1>1. Step.do = do /\ UNCHANGED below /\ \A v \in UsesOf(Step) : Val(v) # Freed
  BY UsesNotFreed
<1>2. PICK s : s = Step
  OBVIOUS
<1>3. Keeps(s, x, y) /\ y.height = x.height /\ y.on \subseteq x.on
  BY <1>1, <1>2 DEF Permits, PermitsStack, PermitsRead, PermitsMemory, PermitsOther
<1>4. \A v \in UsesOf(s) : Val(v) # Freed
  BY <1>1, <1>2
<1>5. Obeys(y)'
  BY <1>1, <1>3, <1>4, KeepsObeys DEF Inv
<1>6. MemOK'
  BY <1>1 DEF MemOK, Inv, TypeOK, HeapOK
<1> QED
  BY <1>5, <1>6

LEMMA FindObeys ==
    ASSUME Inv, NEW x, NEW y, Obeys(x), Permits(Exempt(op), Step, TRUE, x, y),
           Running("find"), NEW w \in strs, Set(Step.v, w),
           UNCHANGED <<heap, refs, strs, stack, kept, builtin>>
    PROVE  Obeys(y)' /\ MemOK'
<1>1. Step.do = "find" /\ UNCHANGED below /\ \A v \in UsesOf(Step) : Val(v) # Freed
  BY UsesNotFreed
<1>2. PICK s : s = Step
  OBVIOUS
<1>3. /\ Assigns(s.v, s, x, y) /\ s.v \notin y.in
      /\ s.v \notin y.made /\ ~Apart(s.v, y) /\ \A j : <<j, s.v>> \notin y.on
  BY <1>1, <1>2 DEF Permits, PermitsStack, PermitsRead, PermitsMemory, PermitsOther
<1>4. w \in heap /\ w # Freed
  BY RootingAssumption DEF Inv, TypeOK
<1>5. Set(s.v, w)
  BY <1>2
<1>6. MemOK' /\ \A r, o : Leads(r, o) => Leads(r, o)'
  BY <1>1, <1>4, <1>5, ReadKeepsMemory
<1>7. \A u \in UsesOf(s) : Val(u) # Freed
  BY <1>1, <1>2
<1>8. \A u : ~(<<u, s.v>> \in y.apart \/ <<s.v, u>> \in y.apart)
  BY <1>3 DEF Apart
<1>9. PICK v : v = s.v
  OBVIOUS
<1>10. Obeys(y)'
  BY <1>1, <1>3, <1>4, <1>5, <1>6, <1>7, <1>8, <1>9, AssignsObeys DEF Inv
<1> QED
  BY <1>6, <1>10

LEMMA IfStrObeys ==
    ASSUME Inv, NEW x, NEW y, Obeys(x), Permits(Exempt(op), Step, TRUE, x, y),
           Running("ifstr"), Val(Step.w) \in strs, Set(Step.v, Val(Step.w)),
           UNCHANGED <<heap, refs, strs, stack, kept, builtin>>
    PROVE  Obeys(y)' /\ MemOK'
<1>1. Step.do = "ifstr" /\ UNCHANGED below /\ \A v \in UsesOf(Step) : Val(v) # Freed
  BY UsesNotFreed
<1>2. PICK s : s = Step
  OBVIOUS
<1>3. /\ Assigns(s.v, s, x, y)
      /\ s.v \in y.in => s.w \in x.in
      /\ s.v \notin y.made /\ ~Apart(s.v, y)
      /\ \A j : <<j, s.v>> \in y.on => <<j, s.w>> \in x.on
  BY <1>1, <1>2 DEF Permits, PermitsStack, PermitsRead, PermitsMemory, PermitsOther
<1>4. PICK w : w = Val(s.w)
  OBVIOUS
<1>5. w \in heap /\ w # Freed
  BY <1>2, <1>4, RootingAssumption DEF Inv, TypeOK
<1>6. Set(s.v, w)
  BY <1>2, <1>4
<1>7. MemOK' /\ \A r, o : Leads(r, o) => Leads(r, o)'
  BY <1>1, <1>5, <1>6, ReadKeepsMemory
<1>8. \A u \in UsesOf(s) : Val(u) # Freed
  BY <1>1, <1>2
<1>9. \A u : ~(<<u, s.v>> \in y.apart \/ <<s.v, u>> \in y.apart)
  BY <1>3 DEF Apart
<1>10. \A j : <<j, s.v>> \in y.on =>
           j \in 1 .. x.height /\ (w = Nil \/ Leads(stack[Len(below) + j], w))
  BY <1>3, <1>4 DEF Obeys
<1>11. s.v \in y.in => w \in kept \union {Nil}
  BY <1>3, <1>4 DEF Obeys
<1>12. PICK v : v = s.v
  OBVIOUS
<1>13. Obeys(y)'
  BY <1>1, <1>3, <1>5, <1>6, <1>7, <1>8, <1>9, <1>10, <1>11, <1>12, AssignsObeys DEF Inv
<1> QED
  BY <1>7, <1>13

LEMMA LeaveObeys ==
    ASSUME Inv, NEW x, NEW y, NEW jump, Obeys(x), Permits(Exempt(op), Step, jump, x, y),
           Running("leave"), held' = [v \in DOMAIN held \ Step.locals |-> held[v]],
           UNCHANGED <<heap, refs, strs, stack, kept, builtin>>
    PROVE  Obeys(y)' /\ MemOK'
<1>1. Step.do = "leave" /\ UNCHANGED below /\ \A v \in UsesOf(Step) : Val(v) # Freed
  BY UsesNotFreed
<1>2. PICK s : s = Step
  OBVIOUS
<1>3. /\ Keeps(s, x, y) /\ y.height = x.height /\ y.on \subseteq x.on
      /\ y.made \intersect s.locals = {}
      /\ \A u, w : <<u, w>> \in y.apart => u \notin s.locals /\ w \notin s.locals
  BY <1>1, <1>2 DEF Permits, PermitsStack, PermitsRead, PermitsMemory, PermitsOther
<1>4. \A v : Val(v)' = IF v \in s.locals THEN Nil ELSE Val(v)
  BY <1>2 DEF Val
<1>5. Nil # Freed
  BY RootingAssumption
<1>6. \A v \in y.live : Val(v)' # Freed
  BY <1>1, <1>2, <1>3, <1>4, <1>5, LiveIs, RootingAssumption DEF Keeps, Inv, TypeOK
<1>7. \A v \in y.in : Val(v)' \in kept' \union {Nil}
  BY <1>3, <1>4 DEF Keeps, Obeys
<1>8. \A v \in y.made : Val(v)' # Nil
  BY <1>3, <1>4 DEF Keeps, Obeys
<1>9. \A u, v : <<u, v>> \in y.apart => Val(u)' # Val(v)' \/ Val(u)' = Freed
  BY <1>3, <1>4 DEF Keeps, Obeys
<1>10. \A r, o : Leads(r, o)' <=> Leads(r, o)
  BY DEF Leads
<1>11. ASSUME NEW j, NEW v, <<j, v>> \in y.on
       PROVE  /\ j \in 1 .. y.height
              /\ (Val(v) = Nil \/ Leads(stack[Len(below) + j], Val(v)))'
  <2>1. PICK r : r = stack[Len(below) + j]
    OBVIOUS
  <2>2. PICK z : z = Val(v)
    OBVIOUS
  <2>3. j \in 1 .. y.height /\ (z = Nil \/ Leads(r, z))
    BY <1>3, <1>11, <2>1, <2>2 DEF Obeys
  <2>4. CASE v \in s.locals
    BY <1>4, <2>3, <2>4
  <2>5. CASE v \notin s.locals
    <3>1. z = Val(v)' /\ r = stack'[Len(below') + j]
      BY <1>1, <1>4, <2>1, <2>2, <2>5
    <3>2. Leads(r, z)' <=> Leads(stack[Len(below) + j], Val(v))'
      BY <3>1 DEF Leads
    <3> QED
      BY <1>10, <2>3, <3>1, <3>2
  <2> QED
    BY <2>4, <2>5
<1>12. /\ y.height \in Nat /\ Len(stack') = Len(below') + y.height
       /\ SubSeq(stack', 1, Len(below')) = below'
  BY <1>1, <1>3 DEF Obeys
<1>13. Obeys(y)'
  BY <1>6, <1>7, <1>8, <1>9, <1>11, <1>12 DEF Obeys
<1>14. MemOK'
  BY <1>1 DEF MemOK, Inv, TypeOK, HeapOK
<1> QED
  BY <1>13, <1>14

\* A reference is added: what was led to still is.
LEMMA LinkObeys ==
    ASSUME Inv, NEW x, NEW y, NEW jump, Obeys(x), Permits(Exempt(op), Step, jump, x, y), DoLink
    PROVE  Obeys(y)' /\ MemOK'
<1>1. /\ Step.do = "link" /\ UNCHANGED below /\ \A v \in UsesOf(Step) : Val(v) # Freed
      /\ Val(Step.v) \in heap \union {Nil} /\ Val(Step.w) \in heap \union {Nil}
  <2>1. Running("link")
    BY DEF DoLink
  <2> QED
    BY <2>1, UsesNotFreed DEF UsesOf
<1>2. PICK s : s = Step
  OBVIOUS
<1>3. Keeps(s, x, y) /\ y.height = x.height /\ y.on \subseteq x.on
  BY <1>1, <1>2 DEF Permits, PermitsStack, PermitsRead, PermitsMemory, PermitsOther
<1>4. PICK a : a = Val(s.v)
  OBVIOUS
<1>5. PICK b : b = Val(s.w)
  OBVIOUS
<1>6. /\ refs' = [refs EXCEPT ![a] = @ \union ({b} \ {Nil})]
      /\ UNCHANGED <<heap, strs, stack, kept, builtin, held>>
  BY <1>2, <1>4, <1>5 DEF DoLink
<1>7. a \in heap \union {Nil} /\ b \in heap \union {Nil}
  BY <1>1, <1>2, <1>4, <1>5
<1>8. /\ Nil \notin Objs /\ heap \subseteq Objs /\ refs \in [Objs -> SUBSET Objs] /\ HeapOK
  BY RootingAssumption DEF Inv, TypeOK
<1>9. \A o \in Objs : refs'[o] = IF o = a THEN refs[o] \union ({b} \ {Nil}) ELSE refs[o]
  BY <1>6, <1>8
<1>10. refs' \in [Objs -> SUBSET Objs]
  BY <1>6, <1>7, <1>8
<1>11. HeapOK'
  BY <1>6, <1>7, <1>8, <1>9 DEF HeapOK
<1>12. \A r, o : Leads(r, o) => Leads(r, o)'
  BY <1>6, <1>8, <1>9 DEF Leads
<1>13. \A v : Val(v)' = Val(v)
  BY <1>6 DEF Val
<1>14. \A v \in y.live : Val(v)' # Freed
  BY <1>1, <1>2, <1>3, <1>13, LiveIs, RootingAssumption DEF Keeps, Inv, TypeOK
<1>15. \A v \in y.in : Val(v)' \in kept' \union {Nil}
  BY <1>3, <1>6, <1>13 DEF Keeps, Obeys
<1>16. \A v \in y.made : Val(v)' # Nil
  BY <1>3, <1>13 DEF Keeps, Obeys
<1>17. \A u, v : <<u, v>> \in y.apart => Val(u)' # Val(v)' \/ Val(u)' = Freed
  BY <1>3, <1>13 DEF Keeps, Obeys
<1>18. ASSUME NEW j, NEW v, <<j, v>> \in y.on
       PROVE  /\ j \in 1 .. y.height
              /\ (Val(v) = Nil \/ Leads(stack[Len(below) + j], Val(v)))'
  <2>1. PICK r : r = stack[Len(below) + j]
    OBVIOUS
  <2>2. PICK z : z = Val(v)
    OBVIOUS
  <2>3. j \in 1 .. y.height /\ (z = Nil \/ Leads(r, z)')
    BY <1>3, <1>12, <1>18, <2>1, <2>2 DEF Obeys
  <2>4. z = Val(v)' /\ r = stack'[Len(below') + j]
    BY <1>1, <1>6, <1>13, <2>1, <2>2
  <2>5. Leads(r, z)' <=> Leads(stack[Len(below) + j], Val(v))'
    BY <2>4 DEF Leads
  <2> QED
    BY <2>3, <2>4, <2>5
<1>19. /\ y.height \in Nat /\ Len(stack') = Len(below') + y.height
       /\ SubSeq(stack', 1, Len(below')) = below'
  BY <1>1, <1>3, <1>6 DEF Obeys
<1>20. Obeys(y)'
  BY <1>14, <1>15, <1>16, <1>17, <1>18, <1>19 DEF Obeys
<1>21. MemOK'
  BY <1>1, <1>6, <1>10, <1>11 DEF MemOK, Inv, TypeOK
<1> QED
  BY <1>20, <1>21

LEMMA KeepObeys ==
    ASSUME Inv, NEW x, NEW y, NEW jump, Obeys(x), Permits(Exempt(op), Step, jump, x, y),
           Running("keep"), kept' = kept \union ({Val(Step.v)} \ {Nil}),
           UNCHANGED <<heap, refs, strs, stack, builtin, held>>
    PROVE  Obeys(y)' /\ MemOK'
<1>1. /\ Step.do = "keep" /\ UNCHANGED below /\ Val(Step.v) \in heap \union {Nil}
      /\ \A v \in UsesOf(Step) : Val(v) # Freed
  BY UsesNotFreed DEF UsesOf
<1>2. PICK s : s = Step
  OBVIOUS
<1>3. /\ y.height = x.height /\ y.on \subseteq x.on /\ y.in \subseteq x.in \union {s.v}
      /\ y.made \subseteq x.made /\ y.apart \subseteq x.apart
      /\ \A v \in y.live : Live(x, v) \/ v \in UsesOf(s)
  BY <1>1, <1>2 DEF Permits, PermitsStack, PermitsRead, PermitsMemory, PermitsOther, Keeps
<1>4. \A v : Val(v)' = Val(v)
  BY DEF Val
<1>5. \A v \in y.live : Val(v)' # Freed
  BY <1>1, <1>2, <1>3, <1>4, LiveIs, RootingAssumption DEF Inv, TypeOK
<1>6. \A v \in y.in : Val(v)' \in kept' \union {Nil}
  BY <1>1, <1>2, <1>3, <1>4 DEF Obeys
<1>7. \A v \in y.made : Val(v)' # Nil
  BY <1>3, <1>4 DEF Obeys
<1>8. \A u, v : <<u, v>> \in y.apart => Val(u)' # Val(v)' \/ Val(u)' = Freed
  BY <1>3, <1>4 DEF Obeys
<1>9. \A j, v : <<j, v>> \in y.on => /\ j \in 1 .. y.height
                                     /\ (Val(v) = Nil \/ Leads(stack[Len(below) + j], Val(v)))'
  BY <1>1, <1>3, <1>4 DEF Obeys, Leads
<1>10. /\ y.height \in Nat /\ Len(stack') = Len(below') + y.height
       /\ SubSeq(stack', 1, Len(below')) = below'
  BY <1>1, <1>3 DEF Obeys
<1>11. Obeys(y)'
  BY <1>5, <1>6, <1>7, <1>8, <1>9, <1>10 DEF Obeys
<1>12. MemOK'
  BY <1>1 DEF MemOK, Inv, TypeOK, HeapOK
<1> QED
  BY <1>11, <1>12

LEMMA DropObeys ==
    ASSUME Inv, NEW x, NEW y, NEW jump, Obeys(x), Permits(Exempt(op), Step, jump, x, y),
           Running("drop"), kept' = kept \ {Val(Step.v)},
           UNCHANGED <<heap, refs, strs, stack, builtin, held>>
    PROVE  Obeys(y)' /\ MemOK'
<1>1. Step.do = "drop" /\ UNCHANGED below /\ \A v \in UsesOf(Step) : Val(v) # Freed
  BY UsesNotFreed
<1>2. PICK s : s = Step
  OBVIOUS
<1>3. /\ Keeps(s, x, y) /\ y.height = x.height /\ y.on \subseteq x.on
      /\ \A u \in y.in : <<u, s.v>> \in x.apart
  BY <1>1, <1>2 DEF Permits, PermitsStack, PermitsRead, PermitsMemory, PermitsOther
<1>4. \A u \in y.in : Val(u) \in kept => Val(u) \in kept'
  BY <1>2, <1>3, RootingAssumption DEF Obeys, Inv, TypeOK
<1>5. \A v \in UsesOf(s) : Val(v) # Freed
  BY <1>1, <1>2
<1>6. Obeys(y)'
  BY <1>1, <1>3, <1>4, <1>5, KeepsObeys DEF Inv
<1>7. MemOK'
  BY <1>1 DEF MemOK, Inv, TypeOK, HeapOK
<1> QED
  BY <1>6, <1>7

\* The object is not Nil, and not freed.
LEMMA MadeIs ==
    ASSUME Inv, NEW x, Obeys(x), NEW do \in {"enter", "set_builtin"}, Running(do),
           NEW y, NEW jump, Permits(Exempt(op), Step, jump, x, y)
    PROVE  /\ Keeps(Step, x, y) /\ y.height = x.height /\ y.on \subseteq x.on
           /\ Val(Step.v) \in heap \union {Freed}
           /\ do = "enter" => Val(Step.v) \in heap
<1>1. Step.do = do /\ \A v \in UsesOf(Step) : Val(v) \in heap \union {Nil}
  BY UsesNotFreed
<1>2. PICK s : s = Step
  OBVIOUS
<1>3. Keeps(s, x, y) /\ y.height = x.height /\ y.on \subseteq x.on /\ s.v \in x.made
  BY <1>1, <1>2 DEF Permits, PermitsStack, PermitsRead, PermitsMemory, PermitsOther
<1>4. Val(s.v) # Nil /\ Val(s.v) \in heap \union {Nil, Freed}
  BY <1>3 DEF Obeys, Inv, TypeOK, Val
<1>5. do = "enter" => Val(s.v) \in heap \union {Nil}
  BY <1>1, <1>2 DEF UsesOf
<1> QED
  BY <1>2, <1>3, <1>4, <1>5

LEMMA SetBuiltinObeys ==
    ASSUME Inv, NEW x, NEW y, NEW jump, Obeys(x), Permits(Exempt(op), Step, jump, x, y),
           DoSetBuiltin
    PROVE  Obeys(y)' /\ MemOK'
<1>1. Running("set_builtin") /\ UNCHANGED <<heap, refs, strs, stack, kept, held>>
      /\ builtin' = Val(Step.v)
  BY DEF DoSetBuiltin, mem
<1>2. UNCHANGED below /\ \A v \in UsesOf(Step) : Val(v) # Freed
  BY <1>1, UsesNotFreed
<1>3. PICK s : s = Step
  OBVIOUS
<1>4. /\ Keeps(s, x, y) /\ y.height = x.height /\ y.on \subseteq x.on
      /\ Val(s.v) \in heap \union {Freed}
  BY <1>1, <1>3, MadeIs
<1>5. \A v \in UsesOf(s) : Val(v) # Freed
  BY <1>2, <1>3
<1>6. Obeys(y)'
  BY <1>1, <1>2, <1>4, <1>5, KeepsObeys DEF Inv
<1>7. MemOK'
  BY <1>1, <1>2, <1>3, <1>4 DEF MemOK, Inv, TypeOK, HeapOK
<1> QED
  BY <1>6, <1>7

LEMMA EnterObeys ==
    ASSUME Inv, NEW x, NEW y, NEW jump, Obeys(x), Permits(Exempt(op), Step, jump, x, y),
           DoEnter
    PROVE  Obeys(y)' /\ MemOK'
<1>1. Running("enter") /\ UNCHANGED <<heap, refs, builtin, stack, kept, held>>
      /\ strs' = strs \union {Val(Step.v)}
  BY DEF DoEnter
<1>2. UNCHANGED below /\ \A v \in UsesOf(Step) : Val(v) # Freed
  BY <1>1, UsesNotFreed
<1>3. PICK s : s = Step
  OBVIOUS
<1>4. /\ Keeps(s, x, y) /\ y.height = x.height /\ y.on \subseteq x.on
      /\ Val(s.v) \in heap
  BY <1>1, <1>3, MadeIs
<1>5. \A v \in UsesOf(s) : Val(v) # Freed
  BY <1>2, <1>3
<1>6. Obeys(y)'
  BY <1>1, <1>2, <1>4, <1>5, KeepsObeys DEF Inv
<1>7. MemOK'
  BY <1>1, <1>2, <1>3, <1>4 DEF MemOK, Inv, TypeOK, HeapOK
<1> QED
  BY <1>6, <1>7

\* What the roots lead to exists, and is kept by a collection.
LEMMA CollectKeeps ==
    ASSUME Inv, Collect
    PROVE  /\ heap' \subseteq heap /\ strs' = strs \intersect heap'
           /\ \A i \in 1 .. Len(stack) : stack[i] \in heap' \union {Nil}
           /\ kept \subseteq heap'
           /\ \A o \in heap' : refs[o] \subseteq heap'
           /\ refs' = [o \in Objs |-> IF o \in heap' THEN refs[o] ELSE {}]
           /\ \A r, o : r \in heap' /\ Leads(r, o) => o \in heap' /\ Leads(r, o)'
<1>1. /\ heap \subseteq Objs /\ refs \in [Objs -> SUBSET Objs] /\ kept \subseteq heap /\ HeapOK
      /\ stack \in Seq(heap \union {Nil}) /\ Nil \notin Objs
  BY RootingAssumption DEF Inv, TypeOK
<1>2. /\ heap' = Heap!Reachable /\ strs' = strs \intersect heap'
      /\ refs' = [o \in Objs |-> IF o \in heap' THEN refs[o] ELSE {}]
  BY DEF Collect, Heap!Collect
<1> DEFINE R == Heap!Rooted
<1>3. R = ({stack[i] : i \in DOMAIN stack} \union kept) \ {Nil}
  BY DEF Heap!Rooted, Roots, Sources
<1>4. R \subseteq heap
  BY <1>1, <1>3
<1>5. heap' = {o \in Objs : \A S \in SUBSET Objs :
                   R \subseteq S /\ (\A p \in S : refs[p] \subseteq S) => o \in S}
  BY <1>2 DEF Heap!Reachable, Heap!Closed
<1> HIDE DEF R
<1>6. heap' \subseteq heap
  BY <1>1, <1>4, <1>5 DEF HeapOK
<1>7. R \subseteq heap'
  BY <1>1, <1>4, <1>5
<1>8. \A o \in heap' : refs[o] \subseteq heap'
  <2>1. ASSUME NEW o \in heap', NEW p \in refs[o] PROVE p \in heap'
    <3>1. o \in Objs /\ p \in Objs
      BY <1>1, <1>5
    <3>2. ASSUME NEW S \in SUBSET Objs, R \subseteq S, \A q \in S : refs[q] \subseteq S
          PROVE  p \in S
      BY <1>5, <3>2
    <3> QED
      BY <1>5, <3>1, <3>2
  <2> QED
    BY <2>1
<1>9. \A i \in 1 .. Len(stack) : stack[i] \in heap' \union {Nil}
  BY <1>1, <1>3, <1>7
<1>10. kept \subseteq heap'
  BY <1>1, <1>3, <1>7
<1>11. ASSUME NEW r \in heap', NEW o, Leads(r, o) PROVE o \in heap' /\ Leads(r, o)'
  <2>1. heap' \in SUBSET Objs
    BY <1>1, <1>6
  <2>2. o \in heap'
    BY <1>8, <1>11, <2>1 DEF Leads
  <2>3. ASSUME NEW C \in SUBSET Objs, r \in C, \A p \in C : refs'[p] \subseteq C PROVE o \in C
    <3>1. C \intersect heap' \in SUBSET Objs /\ r \in C \intersect heap'
      BY <2>3
    <3>2. \A p \in C \intersect heap' : refs[p] \subseteq C \intersect heap'
      BY <1>2, <1>8, <2>1, <2>3
    <3> QED
      BY <1>11, <3>1, <3>2 DEF Leads
  <2> QED
    BY <2>2, <2>3 DEF Leads
<1> QED
  BY <1>2, <1>6, <1>8, <1>9, <1>10, <1>11

LEMMA AllocObeys ==
    ASSUME Inv, NEW x, NEW y, NEW jump, Obeys(x), Permits(Exempt(op), Step, jump, x, y), DoAlloc
    PROVE  Obeys(y)' /\ MemOK'
<1>1. Running("alloc")
  BY DEF DoAlloc
<1>2. Step.do = "alloc" /\ UNCHANGED below
  BY <1>1, UsesNotFreed
<1>3. PICK s : s = Step
  OBVIOUS
<1>4. /\ y.height = x.height /\ y.on \subseteq x.on /\ y.in \subseteq x.in /\ y.live = {}
      /\ y.made \subseteq x.made /\ y.apart \subseteq x.apart
  BY <1>2, <1>3 DEF Permits, PermitsStack, PermitsRead, PermitsMemory, PermitsOther
<1>5. CASE UNCHANGED <<mem, stack, kept, builtin, held>>
  <2>1. UNCHANGED <<heap, refs, strs, stack, kept, builtin, held, below>>
    BY <1>2, <1>5 DEF mem
  <2>2. \A v : Val(v)' = Val(v)
    BY <2>1 DEF Val
  <2>3. Obeys(y)'
    BY <1>4, <2>1, <2>2 DEF Obeys, Leads
  <2>4. MemOK'
    BY <2>1 DEF MemOK, Inv, TypeOK, HeapOK
  <2> QED
    BY <2>3, <2>4
<1>6. CASE Collect
  <2>1. /\ heap' \subseteq heap /\ strs' = strs \intersect heap'
        /\ \A i \in 1 .. Len(stack) : stack[i] \in heap' \union {Nil}
        /\ kept \subseteq heap'
        /\ \A o \in heap' : refs[o] \subseteq heap'
        /\ refs' = [o \in Objs |-> IF o \in heap' THEN refs[o] ELSE {}]
        /\ \A r, o : r \in heap' /\ Leads(r, o) => o \in heap' /\ Leads(r, o)'
    BY <1>6, CollectKeeps
  <2>2. /\ UNCHANGED <<stack, kept, below>>
        /\ held' = [v \in DOMAIN held |-> IF held[v] \in heap \ heap' THEN Freed ELSE held[v]]
        /\ builtin' = IF builtin \in heap' THEN builtin ELSE Freed
    BY <1>2, <1>6 DEF Collect
  <2>3. /\ heap \subseteq Objs /\ refs \in [Objs -> SUBSET Objs] /\ kept \subseteq heap /\ HeapOK
        /\ stack \in Seq(heap \union {Nil}) /\ Nil \notin Objs /\ Freed \notin Objs /\ Nil # Freed
        /\ \A v \in DOMAIN held : held[v] \in heap \union {Nil, Freed}
        /\ below \in Seq(Objs \union {Nil}) /\ strs \subseteq heap
    BY RootingAssumption DEF Inv, TypeOK
  <2>4. \A v : Val(v)' = IF Val(v) \in heap \ heap' THEN Freed ELSE Val(v)
    BY <2>2, <2>3 DEF Val
  <2>5. stack \in Seq(heap' \union {Nil})
    BY <2>1, <2>3
  <2>6. MemOK'
    <3>1. /\ heap' \subseteq Objs /\ strs' \subseteq heap' /\ kept' \subseteq heap'
          /\ refs' \in [Objs -> SUBSET Objs]
      BY <2>1, <2>2, <2>3
    <3>2. \A v \in DOMAIN held' : held'[v] \in heap' \union {Nil, Freed}
      BY <2>2, <2>3
    <3>3. HeapOK'
      BY <2>1, <2>3 DEF HeapOK
    <3> QED
      BY <2>2, <2>3, <2>5, <3>1, <3>2, <3>3 DEF MemOK
  <2>7. \A v \in y.in : Val(v)' \in kept' \union {Nil}
    BY <1>4, <2>1, <2>2, <2>3, <2>4 DEF Obeys
  <2>8. \A v \in y.made : Val(v)' # Nil
    BY <1>4, <2>3, <2>4 DEF Obeys
  <2>9. ASSUME NEW j, NEW v, <<j, v>> \in y.on
        PROVE  /\ j \in 1 .. y.height
               /\ (Val(v) = Nil \/ Leads(stack[Len(below) + j], Val(v)))'
    <3>1. PICK r : r = stack[Len(below) + j]
      OBVIOUS
    <3>2. PICK z : z = Val(v)
      OBVIOUS
    <3>3. j \in 1 .. y.height /\ (z = Nil \/ Leads(r, z))
      BY <1>4, <2>9, <3>1, <3>2 DEF Obeys
    <3>4. x.height \in Nat /\ Len(stack) = Len(below) + x.height /\ Len(below) \in Nat
      BY <2>3 DEF Obeys
    <3>5. Len(below) + j \in 1 .. Len(stack)
      BY <1>4, <3>3, <3>4
    <3>6. Leads(r, z) => z \in heap' /\ Leads(r, z)'
      <4>1. r \in heap' \union {Nil}
        BY <2>1, <3>1, <3>5
      <4>2. Leads(r, z) => r \in heap
        BY DEF Leads
      <4>3. Nil \notin heap
        BY <2>3
      <4> QED
        BY <2>1, <4>1, <4>2, <4>3
    <3>7. z = Nil => z \notin heap
      BY <2>3
    <3>8. z = Val(v)' /\ r = stack'[Len(below') + j]
      BY <2>2, <2>4, <3>1, <3>2, <3>3, <3>6, <3>7
    <3>9. Leads(r, z)' <=> Leads(stack[Len(below) + j], Val(v))'
      BY <3>8 DEF Leads
    <3> QED
      BY <3>3, <3>6, <3>8, <3>9
  <2>10. ASSUME NEW u, NEW v, <<u, v>> \in y.apart
         PROVE  Val(u)' # Val(v)' \/ Val(u)' = Freed
    <3>1. Val(u) # Val(v) \/ Val(u) = Freed
      BY <1>4, <2>10 DEF Obeys
    <3> QED
      BY <2>3, <2>4, <3>1
  <2>11. /\ y.height \in Nat /\ Len(stack') = Len(below') + y.height
         /\ SubSeq(stack', 1, Len(below')) = below'
    BY <1>4, <2>2 DEF Obeys
  <2>12. Obeys(y)'
    BY <1>4, <2>7, <2>8, <2>9, <2>10, <2>11 DEF Obeys
  <2> QED
    BY <2>6, <2>12
<1> QED
  BY <1>5, <1>6 DEF DoAlloc

LEMMA MakeObeys ==
    ASSUME Inv, NEW x, NEW y, NEW jump, Obeys(x), Permits(Exempt(op), Step, jump, x, y), DoMake
    PROVE  Obeys(y)' /\ MemOK'
<1>1. /\ Step.do = "make" /\ UNCHANGED below /\ \A v \in UsesOf(Step) : Val(v) # Freed
      /\ \A v \in Step.of : Val(v) \in heap \union {Nil}
  <2>1. Running("make")
    BY DEF DoMake
  <2> QED
    BY <2>1, UsesNotFreed DEF UsesOf
<1>2. PICK s : s = Step
  OBVIOUS
<1>3. /\ Assigns(s.v, s, x, y)
      /\ s.v \notin y.in /\ (\A j : <<j, s.v>> \notin y.on)
      /\ \A u : /\ <<s.v, u>> \notin y.apart
                /\ <<u, s.v>> \in y.apart => Live(x, u) \/ u \in UsesOf(s)
  BY <1>1, <1>2 DEF Permits, PermitsStack, PermitsRead, PermitsMemory, PermitsOther
<1>4. PICK o : o = Unused(heap)
  OBVIOUS
<1>5. PICK T : T = {Val(v) : v \in s.of} \ {Nil}
  OBVIOUS
<1>6. /\ heap # Objs /\ heap' = heap \union {o} /\ refs' = [refs EXCEPT ![o] = T]
      /\ Set(s.v, o) /\ UNCHANGED <<strs, stack, kept, builtin>>
  BY <1>2, <1>4, <1>5 DEF DoMake
<1>7. /\ heap \subseteq Objs /\ refs \in [Objs -> SUBSET Objs] /\ kept \subseteq heap /\ HeapOK
      /\ stack \in Seq(heap \union {Nil}) /\ Nil \notin Objs /\ Freed \notin Objs /\ Nil # Freed
      /\ below \in Seq(Objs \union {Nil}) /\ strs \subseteq heap
      /\ builtin \in heap \union {Freed}
      /\ \A v \in DOMAIN held : held[v] \in heap \union {Nil, Freed}
  BY RootingAssumption DEF Inv, TypeOK
<1>8. o \in Objs /\ o \notin heap
  BY <1>4, <1>6, <1>7 DEF Unused
<1>9. T \subseteq heap
  BY <1>1, <1>2, <1>5
<1>10. refs' \in [Objs -> SUBSET Objs] /\ refs'[o] = T /\ refs[o] = {}
       /\ \A p \in Objs : p # o => refs'[p] = refs[p]
  BY <1>6, <1>7, <1>8, <1>9 DEF HeapOK
<1>11. HeapOK'
  BY <1>6, <1>7, <1>8, <1>9, <1>10 DEF HeapOK
<1>12. \A r, z : Leads(r, z) => Leads(r, z)'
  <2> SUFFICES ASSUME NEW r, NEW z, Leads(r, z) PROVE Leads(r, z)'
    OBVIOUS
  <2>1. ASSUME NEW C \in SUBSET Objs, r \in C, \A p \in C : refs'[p] \subseteq C PROVE z \in C
    <3>1. \A p \in C : refs[p] \subseteq C
      BY <1>10, <2>1
    <3> QED
      BY <2>1, <3>1 DEF Leads
  <2> QED
    BY <1>6, <2>1 DEF Leads
<1>13. stack' \in Seq(heap' \union {Nil})
  BY <1>6, <1>7
<1>14. \A v \in DOMAIN held' : held'[v] \in heap' \union {Nil, Freed}
  <2>1. /\ DOMAIN held' = {s.v} \union DOMAIN held
        /\ \A u \in DOMAIN held' : held'[u] = IF u = s.v THEN o ELSE held[u]
    BY <1>6, SetVal
  <2> QED
    BY <1>6, <1>7, <2>1
<1>15. MemOK'
  BY <1>1, <1>6, <1>7, <1>8, <1>10, <1>11, <1>13, <1>14 DEF MemOK
<1>16. \A u \in UsesOf(s) : Val(u) # Freed
  BY <1>1, <1>2
<1>17. \A u : <<u, s.v>> \in y.apart \/ <<s.v, u>> \in y.apart => u # s.v /\ Val(u) # o
  <2>1. \A u \in UsesOf(s) : Val(u) \in heap \union {Nil}
    BY <1>1, <1>2 DEF UsesOf
  <2>2. \A u : Live(x, u) => Val(u) \in heap \union {Nil}
    BY LiveIs DEF Inv
  <2>3. o # Nil
    BY <1>7, <1>8
  <2> QED
    BY <1>3, <1>8, <2>1, <2>2, <2>3
<1>18. PICK v : v = s.v
  OBVIOUS
<1>19. o # Freed /\ o # Nil
  BY <1>7, <1>8
<1>20. Obeys(y)'
  <2>1. TypeOK /\ HeapOK
    BY DEF Inv
  <2>2. \A j : <<j, v>> \notin y.on
    BY <1>3, <1>18
  <2>3. v \notin y.in /\ Assigns(v, s, x, y) /\ Set(v, o)
    BY <1>3, <1>6, <1>18
  <2>4. \A u : <<u, v>> \in y.apart \/ <<v, u>> \in y.apart => u # v /\ Val(u) # o
    BY <1>17, <1>18
  <2>5. UNCHANGED <<stack, below, kept>>
    BY <1>1, <1>6
  <2> QED
    BY <1>12, <1>16, <1>19, <2>1, <2>2, <2>3, <2>4, <2>5, AssignsObeys
<1> QED
  BY <1>15, <1>20

-----------------------------------------------------------------------------
(* The invariant is kept, if every operation runs from its operands to its  *)
(* results.                                                                 *)

Operations ==
    \A o \in DOMAIN Code : Runs(Exempt(o), Code[o].code,
                                Operands(Len(Code[o].takes)), Values(Code[o].gives))

LEMMA WeakerObeys == ASSUME NEW x, NEW y, Obeys(x), Weaker(x, y) PROVE Obeys(y)
<1> QED
  BY DEF Obeys, Weaker

\* The step an operation is at, and what is known before it and after it.
LEMMA AtStep ==
    ASSUME Inv, op \in DOMAIN Code
    PROVE  \E c : /\ Follows(Exempt(op), Code[op].code, c)
                  /\ Weaker(c[Length + 1], Values(Code[op].gives))
                  /\ Obeys(c[pc])
                  /\ pc <= Length /\ Step.do # "skip" =>
                         Permits(Exempt(op), Step, FALSE, c[pc], c[pc + 1])
                  /\ pc <= Length /\ Step.do \in Jumps =>
                         /\ Step.by \in Int /\ pc + 1 + Step.by \in 1 .. Length + 1
                         /\ Permits(Exempt(op), Step, TRUE, c[pc], c[pc + 1 + Step.by])
<1>1. Length \in Nat /\ pc \in 1 .. Length + 1
  BY DEF Inv, TypeOK, Following
<1>2. pc <= Length => pc \in 1 .. Length
  BY <1>1
<1>3. PICK c : /\ Follows(Exempt(op), Code[op].code, c)
               /\ Weaker(c[Length + 1], Values(Code[op].gives))
               /\ Obeys(c[pc])
  BY DEF Inv, Following
<1>4. PICK i : i = pc
  OBVIOUS
<1>5. ASSUME i \in 1 .. Length
      PROVE  /\ Step.do # "skip" => Permits(Exempt(op), Step, FALSE, c[i], c[i + 1])
             /\ Step.do \in Jumps =>
                    /\ Step.by \in Int /\ i + 1 + Step.by \in 1 .. Length + 1
                    /\ Permits(Exempt(op), Step, TRUE, c[i], c[i + 1 + Step.by])
  BY <1>3, <1>4, <1>5 DEF Follows, FollowsAt, Step, Length
<1> QED
  BY <1>2, <1>3, <1>4, <1>5

\* A step goes on to j, where the machine obeys what is known there.
LEMMA GoesOn ==
    ASSUME Inv, op \in DOMAIN Code, NEW c, NEW j, UNCHANGED <<op, ops>>, pc' = j,
           j \in 1 .. Length + 1, MemOK', Obeys(c[j])',
           Follows(Exempt(op), Code[op].code, c),
           Weaker(c[Length + 1], Values(Code[op].gives))
    PROVE  Inv'
<1>1. Length' = Length /\ Length \in Nat
  BY DEF Length, Inv, Following
<1>2. Following'
  <2>1. op' # "idle"
    BY DEF Code
  <2> QED
    BY <1>1, <2>1 DEF Following
<1>3. TypeOK'
  BY <1>1 DEF MemOK, TypeOK, Inv
<1> QED
  BY <1>2, <1>3 DEF MemOK, Inv

\* A step that does not jump.
LEMMA StraightKeeps ==
    ASSUME Inv, NEW do, Running(do), Go(0), do # "skip",
           \A x, y : Obeys(x) /\ Permits(Exempt(op), Step, FALSE, x, y) => Obeys(y)' /\ MemOK'
    PROVE  Inv'
<1>1. /\ op \in DOMAIN Code /\ pc <= Length /\ Step.do = do /\ UNCHANGED <<op, below, ops>>
  BY DEF Running
<1>2. PICK c : /\ Follows(Exempt(op), Code[op].code, c)
               /\ Weaker(c[Length + 1], Values(Code[op].gives))
               /\ Obeys(c[pc])
               /\ Permits(Exempt(op), Step, FALSE, c[pc], c[pc + 1])
  BY <1>1, AtStep
<1>3. PICK j : j = pc + 1
  OBVIOUS
<1>4. j \in 1 .. Length + 1 /\ pc' = j
  BY <1>1, <1>3 DEF Go, Inv, TypeOK, Following
<1>5. PICK x, y : x = c[pc] /\ y = c[j]
  OBVIOUS
<1>6. Obeys(y)' /\ MemOK'
  BY <1>2, <1>3, <1>5
<1>7. Obeys(c[j])'
  BY <1>5, <1>6
<1> QED
  BY <1>1, <1>2, <1>4, <1>6, <1>7, GoesOn

\* One that does.
LEMMA JumpKeeps ==
    ASSUME Inv, NEW do \in Jumps, Running(do), Go(Step.by),
           \A x, y : Obeys(x) /\ Permits(Exempt(op), Step, TRUE, x, y) => Obeys(y)' /\ MemOK'
    PROVE  Inv'
<1>1. /\ op \in DOMAIN Code /\ pc <= Length /\ Step.do = do /\ UNCHANGED <<op, below, ops>>
  BY DEF Running
<1>2. PICK c : /\ Follows(Exempt(op), Code[op].code, c)
               /\ Weaker(c[Length + 1], Values(Code[op].gives))
               /\ Obeys(c[pc])
               /\ pc + 1 + Step.by \in 1 .. Length + 1
               /\ Permits(Exempt(op), Step, TRUE, c[pc], c[pc + 1 + Step.by])
  BY <1>1, AtStep
<1>3. PICK j : j = pc + 1 + Step.by
  OBVIOUS
<1>4. j \in 1 .. Length + 1 /\ pc' = j
  BY <1>2, <1>3 DEF Go
<1>5. PICK x, y : x = c[pc] /\ y = c[j]
  OBVIOUS
<1>6. Obeys(y)' /\ MemOK'
  BY <1>2, <1>3, <1>5
<1>7. Obeys(c[j])'
  BY <1>5, <1>6
<1> QED
  BY <1>1, <1>2, <1>4, <1>6, <1>7, GoesOn

LEMMA ReadKeeps == ASSUME Inv, DoRead PROVE Inv'
<1>1. Go(0) /\ UNCHANGED <<heap, refs, strs, stack, kept, builtin>>
  BY DEF DoRead, mem
<1>2. CASE Running("peek") /\ Set(Step.v, stack[Len(stack) - Step.dist])
  BY <1>1, <1>2, PeekObeys, StraightKeeps
<1>3. CASE Running("get") /\ \E x \in Fields(Val(Step.w)) \union {Nil} : Set(Step.v, x)
  BY <1>1, <1>3, GetObeys, StraightKeeps
<1>4. CASE Running("const") /\ \E x \in kept \intersect OfKind(Step.of) : Set(Step.v, x)
  BY <1>1, <1>4, ConstObeys, StraightKeeps
<1>5. CASE Running("builtin") /\ Set(Step.v, builtin)
  BY <1>1, <1>5, BuiltinObeys, StraightKeeps
<1>6. CASE Running("use") /\ UNCHANGED held
  BY <1>1, <1>6, PassObeys, StraightKeeps
<1> QED
  BY <1>2, <1>3, <1>4, <1>5, <1>6 DEF DoRead

LEMMA FindKeeps == ASSUME Inv, DoFind PROVE Inv'
<1>1. Running("find") /\ UNCHANGED <<heap, refs, strs, stack, kept, builtin>>
  BY DEF DoFind, mem
<1>2. CASE Go(0) /\ UNCHANGED held
  BY <1>1, <1>2, PassObeys, StraightKeeps
<1>3. CASE Go(Step.by) /\ \E x \in strs : Set(Step.v, x)
  BY <1>1, <1>3, FindObeys, JumpKeeps DEF Jumps
<1> QED
  BY <1>2, <1>3 DEF DoFind

LEMMA JumpsKeep == ASSUME Inv, DoJump PROVE Inv'
<1>1. UNCHANGED <<heap, refs, strs, stack, kept, builtin>>
  BY DEF DoJump, mem
<1>2. CASE Running("either") /\ (Go(0) \/ Go(Step.by)) /\ UNCHANGED held
  <2>1. CASE Go(0)
    BY <1>1, <1>2, <2>1, PassObeys, StraightKeeps
  <2>2. CASE Go(Step.by)
    BY <1>1, <1>2, <2>2, PassObeys, JumpKeeps DEF Jumps
  <2> QED
    BY <1>2, <2>1, <2>2
<1>3. CASE Running("skip") /\ Go(Step.by) /\ UNCHANGED held
  BY <1>1, <1>3, PassObeys, JumpKeeps DEF Jumps
<1>4. CASE /\ Running("leave") /\ Go(0)
           /\ held' = [v \in DOMAIN held \ Step.locals |-> held[v]]
  BY <1>1, <1>4, LeaveObeys, StraightKeeps
<1>5. CASE /\ Running("ifstr")
           /\ IF Val(Step.w) \in strs THEN Go(Step.by) /\ Set(Step.v, Val(Step.w))
                                      ELSE Go(0) /\ UNCHANGED held
  <2>1. CASE Val(Step.w) \in strs
    <3>1. Go(Step.by) /\ Set(Step.v, Val(Step.w))
      BY <1>5, <2>1
    <3> QED
      BY <1>1, <1>5, <2>1, <3>1, IfStrObeys, JumpKeeps DEF Jumps
  <2>2. CASE Val(Step.w) \notin strs
    <3>1. Go(0) /\ UNCHANGED held
      BY <1>5, <2>2
    <3> QED
      BY <1>1, <1>5, <3>1, PassObeys, StraightKeeps
  <2> QED
    BY <2>1, <2>2
<1> QED
  BY <1>2, <1>3, <1>4, <1>5 DEF DoJump

LEMMA RootKeeps == ASSUME Inv, DoRoot PROVE Inv'
<1>1. Go(0) /\ UNCHANGED <<heap, refs, strs, stack, builtin, held>>
  BY DEF DoRoot, mem
<1>2. CASE Running("keep") /\ kept' = kept \union ({Val(Step.v)} \ {Nil})
  BY <1>1, <1>2, KeepObeys, StraightKeeps
<1>3. CASE Running("drop") /\ kept' = kept \ {Val(Step.v)}
  BY <1>1, <1>3, DropObeys, StraightKeeps
<1> QED
  BY <1>2, <1>3 DEF DoRoot

LEMMA OthersKeep ==
    ASSUME Inv, DoAlloc \/ DoMake \/ DoPush \/ DoPop \/ DoPut \/ DoLink \/ DoSetBuiltin \/ DoEnter
    PROVE  Inv'
<1>1. CASE DoAlloc
  BY <1>1, AllocObeys, StraightKeeps DEF DoAlloc
<1>2. CASE DoMake
  BY <1>2, MakeObeys, StraightKeeps DEF DoMake
<1>3. CASE DoPush
  BY <1>3, PushObeys, StraightKeeps DEF DoPush
<1>4. CASE DoPop
  BY <1>4, PopObeys, StraightKeeps DEF DoPop
<1>5. CASE DoPut
  BY <1>5, PutObeys, StraightKeeps DEF DoPut
<1>6. CASE DoLink
  BY <1>6, LinkObeys, StraightKeeps DEF DoLink
<1>7. CASE DoSetBuiltin
  BY <1>7, SetBuiltinObeys, StraightKeeps DEF DoSetBuiltin
<1>8. CASE DoEnter
  BY <1>8, EnterObeys, StraightKeeps DEF DoEnter
<1> QED
  BY <1>1, <1>2, <1>3, <1>4, <1>5, <1>6, <1>7, <1>8

LEMMA InitInv == ASSUME Init PROVE Inv
<1> DEFINE f == Unused({})
           s == Unused({f})
           b == Unused({f, s})
<1>1. f \in Objs
  BY RootingAssumption DEF Unused
<1>2. s \in Objs /\ s # f
  <2> HIDE DEF f
  <2> QED
    BY RootingAssumption DEF Unused
<1>3. b \in Objs /\ b # f /\ b # s
  <2> HIDE DEF f, s
  <2> QED
    BY RootingAssumption DEF Unused
<1>4. /\ heap = {f, s, b} /\ kept = heap /\ strs = {s} /\ builtin = b
      /\ refs = [o \in Objs |-> IF o \in {f, b} THEN {s} ELSE {}]
      /\ stack = <<>> /\ below = <<>> /\ held = <<>> /\ op = "idle" /\ pc = 0 /\ ops = 0
  BY DEF Init
<1> HIDE DEF f, s, b
<1>5. TypeOK
  <2>1. op \notin DOMAIN Code
    BY <1>4 DEF Code
  <2>2. refs \in [Objs -> SUBSET Objs]
    BY <1>1, <1>2, <1>3, <1>4
  <2> QED
    BY <1>1, <1>2, <1>3, <1>4, <2>1, <2>2, RootingAssumption DEF TypeOK
<1>6. HeapOK
  BY <1>1, <1>2, <1>3, <1>4 DEF HeapOK
<1>7. Following
  BY <1>4 DEF Following, Code
<1> QED
  BY <1>5, <1>6, <1>7 DEF Inv

LEMMA StartKeeps == ASSUME Inv, Operations, NEW o \in DOMAIN Code, Start(o) PROVE Inv'
<1> DEFINE takes == Code[o].takes
           deep == Len(stack) - Len(takes)
<1>1. /\ op = "idle" /\ ops < MaxOps /\ deep >= 0
      /\ below' = SubSeq(stack, 1, deep) /\ op' = o /\ pc' = 1
      /\ ops' = IF o \in Builders THEN ops + 1 ELSE MaxOps
      /\ UNCHANGED <<heap, refs, strs, stack, kept, builtin, held>>
  BY DEF Start, Idle
<1>2. PICK c : /\ Weaker(Operands(Len(takes)), c[1])
               /\ Follows(Exempt(o), Code[o].code, c)
               /\ Weaker(c[Len(Code[o].code) + 1], Values(Code[o].gives))
  BY DEF Operations, Runs
<1>3. IsSeq(Code[o].code)
  BY DEF Operations, Runs
<1>4. Len(Code[o].code) \in Nat
  BY <1>3 DEF IsSeq
<1>5. Len(takes) \in Nat
  BY DEF Code, Operation
<1>6. /\ stack \in Seq(heap \union {Nil}) /\ heap \subseteq Objs /\ Len(stack) \in Nat
      /\ ops \in 0 .. MaxOps /\ MaxOps \in Nat
  BY RootingAssumption DEF Inv, TypeOK
<1> HIDE DEF takes
<1>7. deep \in Nat /\ deep <= Len(stack)
  BY <1>1, <1>5, <1>6
<1> HIDE DEF deep
<1>8. below' \in Seq(Objs \union {Nil}) /\ Len(below') = deep
  BY <1>1, <1>6, <1>7
<1>9. SubSeq(stack, 1, Len(below')) = below'
  BY <1>1, <1>8
<1>10. Length' = Len(Code[o].code) /\ Length' \in Nat
  BY <1>1, <1>4 DEF Length
<1>11. TypeOK'
  BY <1>1, <1>6, <1>8, <1>10 DEF Inv, TypeOK
<1>12. HeapOK'
  BY <1>1 DEF Inv, HeapOK
<1>13. Obeys(Operands(Len(takes)))'
  <2>1. Len(stack') = Len(below') + Len(takes)
    BY <1>1, <1>5, <1>6, <1>8 DEF deep
  <2>2. \A v : Val(v)' = Nil
    BY <1>1 DEF Inv, Following, Val
  <2> QED
    BY <1>1, <1>5, <1>9, <2>1, <2>2 DEF Obeys, Operands, Facts
<1>14. Obeys(c[1])'
  BY <1>2, <1>13 DEF Obeys, Weaker
<1>15. Following'
  <2>1. c[pc'] = c[1]
    BY <1>1
  <2>2. Obeys(c[pc])'
    BY <1>14, <2>1
  <2>3. op' # "idle"
    BY <1>1 DEF Code
  <2> QED
    BY <1>1, <1>2, <1>10, <2>2, <2>3 DEF Following
<1> QED
  BY <1>11, <1>12, <1>15 DEF Inv

\* Between operations, and when the program ends.
LEMMA BetweenKeeps ==
    ASSUME Inv, Return \/ Discard \/ Exit \/ Stopped \/ \E o \in Objs : Release(o)
    PROVE  Inv'
<1>1. "idle" \notin DOMAIN Code /\ "exit" \notin DOMAIN Code
  BY DEF Code
<1>2. UNCHANGED <<heap, refs, strs, builtin, ops>>
  BY DEF Return, Discard, Exit, Stopped, Release, vars, mem
<1>3. HeapOK'
  BY <1>2 DEF Inv, HeapOK
<1>4. CASE Stopped
  <2>1. UNCHANGED vars
    BY <1>4 DEF Stopped
  <2> QED
    BY <2>1 DEF vars, Inv, TypeOK, HeapOK, Following, Length, Obeys, Val, Leads
<1>5. CASE Return \/ Discard \/ Exit \/ \E o \in Objs : Release(o)
  <2>1. op' \notin DOMAIN Code /\ op' \in {"idle", "exit"}
    BY <1>1, <1>5 DEF Return, Discard, Exit, Release, Idle
  <2>2. Following'
    <3>1. op' = "idle" => DOMAIN held' = {}
      BY <1>5 DEF Return, Discard, Exit, Release, Inv, Following, Idle
    <3> QED
      BY <2>1, <3>1 DEF Following
  <2>3. stack' \in Seq(heap \union {Nil})
    <3>1. stack' = stack \/ stack' = SubSeq(stack, 1, Len(stack) - 1)
      BY <1>5 DEF Return, Discard, Exit, Release
    <3>2. stack \in Seq(heap \union {Nil})
      BY DEF Inv, TypeOK
    <3> QED
      BY <3>1, <3>2
  <2>4. below' \in Seq(Objs \union {Nil})
    <3>1. below' = below \/ below' = <<>>
      BY <1>5 DEF Return, Discard, Exit, Release
    <3>2. below \in Seq(Objs \union {Nil}) /\ <<>> \in Seq(Objs \union {Nil})
      BY DEF Inv, TypeOK
    <3> QED
      BY <3>1, <3>2
  <2>5. kept' \subseteq heap
    BY <1>5 DEF Return, Discard, Exit, Release, Inv, TypeOK
  <2>6. \A v \in DOMAIN held' : held'[v] \in heap \union {Nil, Freed}
    BY <1>5 DEF Return, Discard, Exit, Release, Inv, TypeOK
  <2>7. TypeOK'
    BY <1>2, <2>1, <2>3, <2>4, <2>5, <2>6 DEF Inv, TypeOK
  <2> QED
    BY <1>3, <2>2, <2>7 DEF Inv
<1> QED
  BY <1>4, <1>5

LEMMA NextKeeps == ASSUME Inv, Operations, [Next]_vars PROVE Inv'
<1>1. CASE \E o \in DOMAIN Code : Start(o)
  BY <1>1, StartKeeps
<1>2. CASE Return \/ Discard \/ Exit \/ Stopped \/ \E o \in Objs : Release(o)
  BY <1>2, BetweenKeeps
<1>3. CASE DoRead \/ DoRoot \/ DoFind \/ DoJump
  BY <1>3, ReadKeeps, RootKeeps, FindKeeps, JumpsKeep
<1>4. CASE DoAlloc \/ DoMake \/ DoPush \/ DoPop \/ DoPut \/ DoLink \/ DoSetBuiltin \/ DoEnter
  BY <1>4, OthersKeep
<1>5. CASE UNCHANGED vars
  BY <1>5 DEF vars, Inv, TypeOK, HeapOK, Following, Length, Obeys, Val, Leads
<1> QED
  BY <1>1, <1>2, <1>3, <1>4, <1>5 DEF Next

\* What the invariant says of the stack when an operation ends, and of what a
\* step is about to use.
LEMMA InvBalanced == ASSUME Inv PROVE Balanced
<1> SUFFICES ASSUME op \in DOMAIN Code, pc = Length + 1
             PROVE  /\ Len(stack) = Len(below) + Code[op].gives
                    /\ SubSeq(stack, 1, Len(below)) = below
  BY DEF Balanced
<1>1. PICK c : Weaker(c[Length + 1], Values(Code[op].gives)) /\ Obeys(c[pc])
  BY DEF Inv, Following
<1>2. Obeys(Values(Code[op].gives))
  BY <1>1, WeakerObeys
<1> QED
  BY <1>2 DEF Obeys, Values, Facts

LEMMA InvUsesLive == ASSUME Inv PROVE UsesLive
<1> SUFFICES ASSUME NEW v \in Stale PROVE <<op, v>> \in Unrooted
  BY DEF UsesLive
<1>1. v \in Uses /\ Val(v) = Freed /\ op \in DOMAIN Code /\ ~(pc > Length)
  BY DEF Stale, Uses
<1>2. PICK c : /\ Obeys(c[pc])
               /\ pc <= Length /\ Step.do # "skip" =>
                      Permits(Exempt(op), Step, FALSE, c[pc], c[pc + 1])
  BY <1>1, AtStep
<1>3. pc <= Length /\ v \in UsesOf(Step)
  <2>1. pc \in Nat /\ Length \in Nat
    BY <1>1 DEF Inv, TypeOK, Following
  <2> QED
    BY <1>1, <2>1 DEF Uses, UsesOf
<1>4. Step.do # "skip"
  BY <1>3 DEF UsesOf
<1>5. Live(c[pc], v) \/ v \in Exempt(op)
  BY <1>2, <1>3, <1>4 DEF Permits
<1>6. ~Live(c[pc], v)
  BY <1>1, <1>2, LiveIs, RootingAssumption DEF Inv, TypeOK
<1> QED
  BY <1>5, <1>6, ExemptIs

-----------------------------------------------------------------------------
(* How the facts of programs are put together.                              *)

LEMMA WeakerIs ==
    /\ \A x : Weaker(x, x)
    /\ \A x, y, z : Weaker(x, y) /\ Weaker(y, z) => Weaker(x, z)
<1> QED
  BY DEF Weaker

LEMMA PermitsWeaker ==
    ASSUME NEW X, NEW s, NEW jump, NEW x, NEW y, NEW z,
           Permits(X, s, jump, x, y), Weaker(y, z)
    PROVE  Permits(X, s, jump, x, z)
<1>1. Keeps(s, x, y) => Keeps(s, x, z)
  BY DEF Weaker, Keeps
<1>2. \A v : Assigns(v, s, x, y) => Assigns(v, s, x, z)
  BY DEF Weaker, Assigns
<1>3. ~Apart(s.v, y) => ~Apart(s.v, z)
  BY DEF Weaker, Apart
<1>4. /\ z.height = y.height
      /\ z.on \subseteq y.on /\ z.in \subseteq y.in /\ z.live \subseteq y.live
      /\ z.made \subseteq y.made /\ z.apart \subseteq y.apart
  BY DEF Weaker
<1>5. PermitsStack(s, x, y) => PermitsStack(s, x, z)
  BY <1>1, <1>4 DEF PermitsStack
<1>6. PermitsRead(s, jump, x, y) => PermitsRead(s, jump, x, z)
  BY <1>2, <1>3, <1>4 DEF PermitsRead
<1>7. PermitsMemory(s, x, y) => PermitsMemory(s, x, z)
  BY <1>1, <1>2, <1>4 DEF PermitsMemory
<1>8. PermitsOther(s, jump, x, y) => PermitsOther(s, jump, x, z)
  BY <1>1, <1>4 DEF PermitsOther
<1> QED
  BY <1>5, <1>6, <1>7, <1>8 DEF Permits

LEMMA JoinIs ==
    ASSUME NEW P, NEW R, IsSeq(P), IsSeq(R)
    PROVE  /\ IsSeq(P \o R) /\ Len(P) \in Nat /\ Len(R) \in Nat
           /\ Len(P \o R) = Len(P) + Len(R)
           /\ \A i \in 1 .. Len(P) : (P \o R)[i] = P[i]
           /\ \A i \in 1 .. Len(R) : (P \o R)[Len(P) + i] = R[i]
<1>1. PICK S : P \in Seq(S)
  BY DEF IsSeq
<1>2. PICK T : R \in Seq(T)
  BY DEF IsSeq
<1>3. P \in Seq(S \union T) /\ R \in Seq(S \union T)
  BY <1>1, <1>2
<1>4. P \o R \in Seq(S \union T)
  BY <1>3
<1> QED
  BY <1>3, <1>4 DEF IsSeq

LEMMA OneIs == ASSUME NEW s PROVE IsSeq(<<s>>) /\ Len(<<s>>) = 1 /\ <<s>>[1] = s
<1>1. <<s>> \in Seq({s})
  OBVIOUS
<1> QED
  BY <1>1 DEF IsSeq

\* P is part of R, k steps into it.
LEMMA PartFollows ==
    ASSUME NEW X, NEW P, NEW R, NEW c, NEW d, NEW k \in Nat, Follows(X, P, c),
           Len(P) \in Nat, Len(R) \in Nat, k + Len(P) <= Len(R),
           \A i \in 1 .. Len(P) : R[k + i] = P[i] /\ d[k + i] = c[i],
           \A i \in 1 .. Len(P) + 1 : Weaker(c[i], d[k + i])
    PROVE  \A i \in 1 .. Len(P) : FollowsAt(X, R, d, k + i)
<1> SUFFICES ASSUME NEW i \in 1 .. Len(P) PROVE FollowsAt(X, R, d, k + i)
  OBVIOUS
<1>1. FollowsAt(X, P, c, i)
  BY DEF Follows
<1>2. R[k + i] = P[i] /\ d[k + i] = c[i]
  OBVIOUS
<1>3. P[i].do # "skip" => Permits(X, P[i], FALSE, c[i], d[k + i + 1])
  <2>1. Weaker(c[i + 1], d[k + (i + 1)]) /\ k + (i + 1) = k + i + 1
    OBVIOUS
  <2> QED
    BY <1>1, <2>1, PermitsWeaker DEF FollowsAt
<1>4. ASSUME P[i].do \in Jumps
      PROVE  /\ P[i].by \in Int
             /\ k + i + 1 + P[i].by \in 1 .. Len(R) + 1
             /\ Permits(X, P[i], TRUE, c[i], d[k + i + 1 + P[i].by])
  <2>1. /\ P[i].by \in Int /\ i + 1 + P[i].by \in 1 .. Len(P) + 1
        /\ Permits(X, P[i], TRUE, c[i], c[i + 1 + P[i].by])
    BY <1>1, <1>4 DEF FollowsAt
  <2>2. PICK j \in 1 .. Len(P) + 1 : j = i + 1 + P[i].by
    BY <2>1
  <2>3. k + i + 1 + P[i].by = k + j /\ k + j \in 1 .. Len(R) + 1
    <3>1. PICK b \in Int : b = P[i].by
      BY <2>1
    <3>2. j = i + 1 + b
      BY <2>2, <3>1
    <3>3. k + i + 1 + b = k + j /\ k + j \in 1 .. Len(R) + 1
      BY <3>2
    <3> QED
      BY <3>1, <3>3
  <2>4. Weaker(c[j], d[k + j])
    OBVIOUS
  <2> QED
    BY <2>1, <2>2, <2>3, <2>4, PermitsWeaker
<1> QED
  BY <1>2, <1>3, <1>4 DEF FollowsAt

LEMMA RunsWeaker ==
    ASSUME NEW X, NEW P, NEW w, NEW x, NEW y, NEW z, Runs(X, P, x, y),
           Weaker(w, x), Weaker(y, z)
    PROVE  Runs(X, P, w, z)
<1> QED
  BY WeakerIs DEF Runs

\* One step without a jump.
LEMMA One ==
    ASSUME NEW X, NEW s, NEW x, NEW y, s.do \notin Jumps, Permits(X, s, FALSE, x, y)
    PROVE  Runs(X, <<s>>, x, y)
<1> DEFINE c == [i \in {1, 2} |-> IF i = 1 THEN x ELSE y]
<1>1. c[1] = x /\ c[2] = y
  OBVIOUS
<1> HIDE DEF c
<1>2. IsSeq(<<s>>) /\ Len(<<s>>) = 1 /\ <<s>>[1] = s
  BY OneIs
<1>3. FollowsAt(X, <<s>>, c, 1)
  <2>1. 1 + 1 = 2
    OBVIOUS
  <2>2. Permits(X, s, FALSE, c[1], c[1 + 1])
    BY <1>1, <2>1
  <2> QED
    BY <1>2, <2>2 DEF FollowsAt
<1>4. Follows(X, <<s>>, c)
  <2>1. \A i \in 1 .. Len(<<s>>) : i = 1
    BY <1>2
  <2> QED
    BY <1>3, <2>1 DEF Follows
<1>5. Weaker(x, c[1]) /\ Weaker(c[Len(<<s>>) + 1], y)
  <2>1. Len(<<s>>) + 1 = 2
    BY <1>2
  <2> QED
    BY <1>1, <2>1, WeakerIs
<1> QED
  BY <1>2, <1>4, <1>5 DEF Runs

\* One program after another.
LEMMA Then ==
    ASSUME NEW X, NEW P, NEW R, NEW x, NEW y, NEW z, Runs(X, P, x, y), Runs(X, R, y, z)
    PROVE  Runs(X, P \o R, x, z)
<1> DEFINE n == Len(P)
           m == Len(R)
<1>1. /\ IsSeq(P) /\ IsSeq(R) /\ IsSeq(P \o R) /\ n \in Nat /\ m \in Nat
      /\ Len(P \o R) = n + m
      /\ \A i \in 1 .. n : (P \o R)[i] = P[i]
      /\ \A i \in 1 .. m : (P \o R)[n + i] = R[i]
  BY JoinIs DEF Runs
<1>2. PICK c : Weaker(x, c[1]) /\ Follows(X, P, c) /\ Weaker(c[n + 1], y)
  BY DEF Runs
<1>3. PICK d : Weaker(y, d[1]) /\ Follows(X, R, d) /\ Weaker(d[m + 1], z)
  BY DEF Runs
<1> DEFINE e == [i \in 1 .. n + m + 1 |-> IF i <= n THEN c[i] ELSE d[i - n]]
<1> HIDE DEF n, m
<1>4. \A i \in 1 .. n : e[i] = c[i]
  BY <1>1
<1>5. \A i \in 1 .. m + 1 : e[n + i] = d[i]
  BY <1>1
<1> HIDE DEF e
<1>6. Weaker(c[n + 1], e[n + 1])
  BY <1>1, <1>2, <1>3, <1>5, WeakerIs
<1>7. \A i \in 1 .. n + 1 : Weaker(c[i], e[i])
  BY <1>1, <1>4, <1>6, WeakerIs
<1>8. \A i \in 1 .. m + 1 : Weaker(d[i], e[n + i])
  BY <1>5, WeakerIs
<1>9. ASSUME NEW i \in 1 .. n PROVE FollowsAt(X, P \o R, e, i)
  <2>1. \A k \in 1 .. Len(P) : (P \o R)[0 + k] = P[k] /\ e[0 + k] = c[k]
    BY <1>1, <1>4 DEF n
  <2>2. \A k \in 1 .. Len(P) + 1 : Weaker(c[k], e[0 + k])
    BY <1>1, <1>7 DEF n
  <2>3. 0 + Len(P) <= Len(P \o R) /\ Len(P) \in Nat /\ Len(P \o R) \in Nat
    BY <1>1 DEF n
  <2>4. \A k \in 1 .. Len(P) : FollowsAt(X, P \o R, e, 0 + k)
    BY <1>2, <2>1, <2>2, <2>3, PartFollows
  <2> QED
    BY <1>1, <2>4 DEF n
<1>10. ASSUME NEW i \in 1 .. m PROVE FollowsAt(X, P \o R, e, n + i)
  <2>1. \A k \in 1 .. Len(R) : (P \o R)[n + k] = R[k] /\ e[n + k] = d[k]
    BY <1>1, <1>5 DEF m
  <2>2. \A k \in 1 .. Len(R) + 1 : Weaker(d[k], e[n + k])
    BY <1>8 DEF m
  <2>3. n + Len(R) <= Len(P \o R) /\ Len(R) \in Nat /\ Len(P \o R) \in Nat
    BY <1>1 DEF m
  <2>4. \A k \in 1 .. Len(R) : FollowsAt(X, P \o R, e, n + k)
    BY <1>1, <1>3, <2>1, <2>2, <2>3, PartFollows
  <2> QED
    BY <2>4 DEF m
<1>11. Follows(X, P \o R, e)
  <2> SUFFICES ASSUME NEW i \in 1 .. n + m PROVE FollowsAt(X, P \o R, e, i)
    BY <1>1 DEF Follows
  <2>1. CASE i \in 1 .. n
    BY <1>9, <2>1
  <2>2. CASE i - n \in 1 .. m
    <3>1. FollowsAt(X, P \o R, e, n + (i - n))
      BY <1>10, <2>2
    <3>2. n + (i - n) = i
      BY <1>1
    <3> QED
      BY <3>1, <3>2
  <2> QED
    BY <1>1, <2>1, <2>2
<1>12. Weaker(x, e[1])
  <2>1. 1 \in 1 .. n + 1
    BY <1>1
  <2> QED
    BY <1>2, <1>7, <2>1, WeakerIs
<1>13. Weaker(e[n + m + 1], z)
  <2>1. n + (m + 1) = n + m + 1 /\ m + 1 \in 1 .. m + 1
    BY <1>1
  <2> QED
    BY <1>3, <1>5, <2>1
<1> QED
  BY <1>1, <1>11, <1>12, <1>13 DEF Runs

\* A step that may jump over P.
LEMMA Over ==
    ASSUME NEW X, NEW s, NEW P, NEW x, NEW w, NEW y, s.do \in Jumps \ {"skip"}, s.by = Len(P),
           Permits(X, s, FALSE, x, w), Runs(X, P, w, y), Permits(X, s, TRUE, x, y)
    PROVE  Runs(X, <<s>> \o P, x, y)
<1> DEFINE n == Len(P)
           R == <<s>> \o P
<1>1. /\ IsSeq(P) /\ IsSeq(R) /\ n \in Nat /\ Len(R) = n + 1 /\ R[1] = s
      /\ \A i \in 1 .. n : R[1 + i] = P[i]
  <2>1. IsSeq(<<s>>) /\ Len(<<s>>) = 1 /\ <<s>>[1] = s
    BY OneIs
  <2>2. IsSeq(P)
    BY DEF Runs
  <2> QED
    BY <2>1, <2>2, JoinIs
<1>2. PICK c : Weaker(w, c[1]) /\ Follows(X, P, c) /\ Weaker(c[n + 1], y)
  BY DEF Runs
<1> DEFINE e == [i \in 1 .. n + 2 |-> IF i = 1 THEN x ELSE IF i = n + 2 THEN y ELSE c[i - 1]]
<1> HIDE DEF n, R
<1>3. e[1] = x /\ e[n + 2] = y /\ \A i \in 1 .. n : e[1 + i] = c[i]
  BY <1>1
<1> HIDE DEF e
<1>4. \A i \in 1 .. n + 1 : Weaker(c[i], e[1 + i])
  <2>1. 1 + (n + 1) = n + 2
    BY <1>1
  <2> QED
    BY <1>1, <1>2, <1>3, <2>1, WeakerIs
<1>5. ASSUME NEW i \in 1 .. n PROVE FollowsAt(X, R, e, 1 + i)
  <2>1. \A k \in 1 .. Len(P) : R[1 + k] = P[k] /\ e[1 + k] = c[k]
    BY <1>1, <1>3 DEF n
  <2>2. \A k \in 1 .. Len(P) + 1 : Weaker(c[k], e[1 + k])
    BY <1>4 DEF n
  <2>3. 1 + Len(P) <= Len(R) /\ Len(P) \in Nat /\ Len(R) \in Nat
    BY <1>1 DEF n
  <2>4. \A k \in 1 .. Len(P) : FollowsAt(X, R, e, 1 + k)
    BY <1>2, <2>1, <2>2, <2>3, PartFollows
  <2> QED
    BY <2>4 DEF n
<1>6. FollowsAt(X, R, e, 1)
  <2>1. Weaker(w, e[2])
    <3>1. Weaker(c[1], e[1 + 1])
      BY <1>1, <1>4
    <3> QED
      BY <1>2, <3>1, WeakerIs
  <2>2. Permits(X, s, FALSE, x, e[2])
    BY <2>1, PermitsWeaker
  <2>3. /\ s.by \in Int /\ 1 + 1 + s.by \in 1 .. Len(R) + 1
        /\ Permits(X, s, TRUE, x, e[1 + 1 + s.by])
    <3>1. s.by = n /\ 1 + 1 + n = n + 2
      BY <1>1 DEF n
    <3>2. 1 + 1 + s.by = n + 2
      BY <3>1
    <3>3. s.by \in Int /\ n + 2 \in 1 .. Len(R) + 1
      BY <1>1, <3>1
    <3>4. Permits(X, s, TRUE, x, e[n + 2])
      BY <1>3
    <3> QED
      BY <3>2, <3>3, <3>4
  <2>4. Permits(X, s, FALSE, x, e[1 + 1])
    <3>1. 1 + 1 = 2
      OBVIOUS
    <3> QED
      BY <2>2, <3>1
  <2> QED
    BY <1>1, <1>3, <2>3, <2>4 DEF FollowsAt
<1>7. Follows(X, R, e)
  <2> SUFFICES ASSUME NEW i \in 1 .. n + 1 PROVE FollowsAt(X, R, e, i)
    BY <1>1 DEF Follows
  <2>1. CASE i = 1
    BY <1>6, <2>1
  <2>2. CASE i - 1 \in 1 .. n
    BY <1>5, <2>2
  <2> QED
    BY <1>1, <2>1, <2>2
<1>8. Weaker(x, e[1]) /\ Weaker(e[Len(R) + 1], y)
  <2>1. Len(R) + 1 = n + 2
    BY <1>1
  <2> QED
    BY <1>3, <2>1, WeakerIs
<1> QED
  BY <1>1, <1>7, <1>8 DEF Runs, R

LEMMA EitherSteps ==
    /\ \A X, x, y : Weaker(x, y) =>
           \A by, jump : Permits(X, [do |-> "either", by |-> by], jump, x, y)
    /\ \A X, x, y : Weaker(x, y) =>
           \A by, jump : Permits(X, [do |-> "skip", by |-> by], jump, x, y)
<1> QED
  BY DEF Permits, PermitsOther, Keeps, UsesOf, Weaker, Live

\* P, or nothing.
LEMMA RunsMaybe ==
    ASSUME NEW X, NEW P, NEW x, NEW y, Runs(X, P, x, y), Weaker(x, y)
    PROVE  Runs(X, Maybe(P), x, y)
<1> DEFINE s == [do |-> "either", by |-> Len(P)]
<1>1. Permits(X, s, FALSE, x, x) /\ Permits(X, s, TRUE, x, y)
  BY EitherSteps, WeakerIs
<1>2. s.do \in Jumps \ {"skip"} /\ s.by = Len(P)
  BY DEF Jumps
<1>3. Maybe(P) = <<s>> \o P
  BY DEF Maybe
<1> HIDE DEF s
<1> QED
  BY <1>1, <1>2, <1>3, Over

\* P, or Q.
LEMMA RunsEither ==
    ASSUME NEW X, NEW P, NEW Q, NEW x, NEW y, Runs(X, P, x, y), Runs(X, Q, x, y)
    PROVE  Runs(X, Either(P, Q), x, y)
<1> DEFINE n == Len(P)
           m == Len(Q)
           a == [do |-> "either", by |-> n + 1]
           b == [do |-> "skip", by |-> m]
           R == Either(P, Q)
<1>1. /\ IsSeq(P) /\ IsSeq(Q) /\ IsSeq(R) /\ n \in Nat /\ m \in Nat
      /\ Len(R) = n + m + 2
      /\ R[1] = a /\ R[n + 2] = b
      /\ \A i \in 1 .. n : R[1 + i] = P[i]
      /\ \A i \in 1 .. m : R[n + 2 + i] = Q[i]
  <2>1. IsSeq(P) /\ IsSeq(Q)
    BY DEF Runs
  <2> DEFINE A == <<a>> \o P
             B == A \o <<b>>
  <2>2. R = B \o Q
    BY DEF Either
  <2> HIDE DEF a, b, R
  <2>3. /\ IsSeq(A) /\ Len(A) = n + 1 /\ n \in Nat /\ m \in Nat /\ A[1] = a
        /\ \A i \in 1 .. n : A[1 + i] = P[i]
    <3>1. IsSeq(<<a>>) /\ Len(<<a>>) = 1 /\ <<a>>[1] = a
      BY OneIs
    <3> QED
      BY <2>1, <3>1, JoinIs
  <2> HIDE DEF A
  <2>4. /\ IsSeq(B) /\ Len(B) = n + 2 /\ B[n + 2] = b /\ B[1] = a
        /\ \A i \in 1 .. n : B[1 + i] = P[i]
    <3>1. IsSeq(<<b>>) /\ Len(<<b>>) = 1 /\ <<b>>[1] = b
      BY OneIs
    <3>2. /\ IsSeq(B) /\ Len(B) = Len(A) + 1 /\ B[Len(A) + 1] = b
          /\ \A i \in 1 .. Len(A) : B[i] = A[i]
      BY <2>3, <3>1, JoinIs
    <3>3. \A i \in 1 .. n : B[1 + i] = A[1 + i]
      BY <2>3, <3>2
    <3>4. B[1] = A[1] /\ Len(A) + 1 = n + 2
      BY <2>3, <3>2
    <3> QED
      BY <2>3, <3>2, <3>3, <3>4
  <2> HIDE DEF B
  <2>5. /\ IsSeq(R) /\ Len(R) = n + 2 + m
        /\ \A i \in 1 .. n + 2 : R[i] = B[i]
        /\ \A i \in 1 .. m : R[n + 2 + i] = Q[i]
    <3>1. /\ IsSeq(R) /\ Len(R) = Len(B) + m
          /\ \A i \in 1 .. Len(B) : R[i] = B[i]
          /\ \A i \in 1 .. m : R[Len(B) + i] = Q[i]
      <4>1. IsSeq(B) /\ IsSeq(Q)
        BY <2>1, <2>4
      <4> HIDE DEF m
      <4>2. /\ IsSeq(B \o Q) /\ Len(B \o Q) = Len(B) + Len(Q)
            /\ \A i \in 1 .. Len(B) : (B \o Q)[i] = B[i]
            /\ \A i \in 1 .. Len(Q) : (B \o Q)[Len(B) + i] = Q[i]
        BY <4>1, JoinIs
      <4> QED
        BY <2>2, <4>2 DEF m
    <3>2. Len(B) = n + 2
      BY <2>4
    <3> QED
      BY <3>1, <3>2
  <2>6. \A i \in 1 .. n : R[1 + i] = B[1 + i]
    BY <2>3, <2>5
  <2>7. R[1] = B[1] /\ R[n + 2] = B[n + 2] /\ n + 2 + m = n + m + 2
    BY <2>3, <2>5
  <2> QED
    BY <2>1, <2>3, <2>4, <2>5, <2>6, <2>7
<1>2. PICK c : Weaker(x, c[1]) /\ Follows(X, P, c) /\ Weaker(c[n + 1], y)
  BY DEF Runs
<1>3. PICK d : Weaker(x, d[1]) /\ Follows(X, Q, d) /\ Weaker(d[m + 1], y)
  BY DEF Runs
<1> DEFINE e == [i \in 1 .. n + m + 3 |-> IF i = 1 THEN x
                                          ELSE IF i <= n + 2 THEN c[i - 1]
                                          ELSE IF i <= n + m + 2 THEN d[i - (n + 2)]
                                          ELSE y]
<1>4. a.do = "either" /\ a.by = n + 1 /\ b.do = "skip" /\ b.by = m
  OBVIOUS
<1>5. /\ \A w : Weaker(x, w) => Permits(X, a, FALSE, x, w) /\ Permits(X, a, TRUE, x, w)
      /\ Permits(X, b, TRUE, c[n + 1], y)
  BY <1>2, EitherSteps
<1> HIDE DEF n, m, a, b, R
<1>6. /\ e[1] = x /\ e[n + m + 3] = y
      /\ \A i \in 1 .. n + 1 : e[1 + i] = c[i]
      /\ \A i \in 1 .. m : e[n + 2 + i] = d[i]
  BY <1>1
<1> HIDE DEF e
<1>7. \A i \in 1 .. n + 1 : Weaker(c[i], e[1 + i])
  BY <1>6, WeakerIs
<1>8. \A i \in 1 .. m + 1 : Weaker(d[i], e[n + 2 + i])
  <2>1. n + 2 + (m + 1) = n + m + 3
    BY <1>1
  <2>2. Weaker(d[m + 1], e[n + 2 + (m + 1)])
    BY <1>3, <1>6, <2>1 DEF m
  <2>3. \A i \in 1 .. m : Weaker(d[i], e[n + 2 + i])
    BY <1>6, WeakerIs
  <2>4. \A i \in 1 .. m + 1 : i \in 1 .. m \/ i = m + 1
    BY <1>1
  <2> QED
    BY <2>2, <2>3, <2>4
<1>9. ASSUME NEW i \in 1 .. n PROVE FollowsAt(X, R, e, 1 + i)
  <2>1. \A k \in 1 .. Len(P) : R[1 + k] = P[k] /\ e[1 + k] = c[k]
    <3>1. \A k \in 1 .. n : R[1 + k] = P[k]
      BY <1>1
    <3>2. \A k \in 1 .. n : k \in 1 .. n + 1
      BY <1>1
    <3>3. \A k \in 1 .. n : e[1 + k] = c[k]
      BY <1>6, <3>2
    <3>4. n = Len(P)
      BY DEF n
    <3> QED
      BY <3>1, <3>3, <3>4
  <2>2. \A k \in 1 .. Len(P) + 1 : Weaker(c[k], e[1 + k])
    BY <1>7 DEF n
  <2>3. 1 + Len(P) <= Len(R) /\ Len(P) \in Nat /\ Len(R) \in Nat
    BY <1>1 DEF n
  <2>4. \A k \in 1 .. Len(P) : FollowsAt(X, R, e, 1 + k)
    BY <1>2, <2>1, <2>2, <2>3, PartFollows
  <2> QED
    BY <2>4 DEF n
<1>10. ASSUME NEW i \in 1 .. m PROVE FollowsAt(X, R, e, n + 2 + i)
  <2>1. \A k \in 1 .. Len(Q) : R[n + 2 + k] = Q[k] /\ e[n + 2 + k] = d[k]
    <3>1. \A k \in 1 .. m : R[n + 2 + k] = Q[k]
      BY <1>1
    <3>2. \A k \in 1 .. m : e[n + 2 + k] = d[k]
      BY <1>6
    <3>3. m = Len(Q)
      BY DEF m
    <3> QED
      BY <3>1, <3>2, <3>3
  <2>2. \A k \in 1 .. Len(Q) + 1 : Weaker(d[k], e[n + 2 + k])
    BY <1>8 DEF m
  <2>3. /\ n + 2 + Len(Q) <= Len(R) /\ Len(Q) \in Nat /\ Len(R) \in Nat
        /\ n + 2 \in Nat
    BY <1>1 DEF m
  <2>4. \A k \in 1 .. Len(Q) : FollowsAt(X, R, e, n + 2 + k)
    BY <1>3, <2>1, <2>2, <2>3, PartFollows
  <2> QED
    BY <2>4 DEF m
<1>11. FollowsAt(X, R, e, 1)
  <2>1. Weaker(x, e[1 + 1])
    BY <1>1, <1>2, <1>6
  <2>2. 1 + 1 + a.by = n + 3 /\ a.by \in Int /\ n + 3 \in 1 .. Len(R) + 1
    BY <1>1, <1>4
  <2>3. Weaker(x, e[n + 3])
    <3>1. Weaker(d[1], e[n + 2 + 1]) /\ n + 2 + 1 = n + 3
      BY <1>1, <1>8
    <3> QED
      BY <1>3, <3>1, WeakerIs
  <2>4. Permits(X, a, FALSE, x, e[1 + 1]) /\ Permits(X, a, TRUE, x, e[n + 3])
    BY <1>5, <2>1, <2>3
  <2> QED
    BY <1>1, <1>6, <2>2, <2>4 DEF FollowsAt
<1>12. FollowsAt(X, R, e, n + 2)
  <2>1. n + 2 + 1 + b.by = n + m + 3 /\ b.by \in Int /\ n + m + 3 \in 1 .. Len(R) + 1
    BY <1>1, <1>4
  <2>2. e[n + 2] = c[n + 1]
    <3>1. n + 1 \in 1 .. n + 1 /\ 1 + (n + 1) = n + 2
      BY <1>1
    <3> QED
      BY <1>6, <3>1
  <2>3. Permits(X, b, TRUE, e[n + 2], e[n + m + 3])
    BY <1>5, <1>6, <2>2
  <2> QED
    BY <1>1, <1>4, <2>1, <2>3 DEF FollowsAt
<1>13. Follows(X, R, e)
  <2> SUFFICES ASSUME NEW i \in 1 .. n + m + 2 PROVE FollowsAt(X, R, e, i)
    BY <1>1 DEF Follows
  <2>1. CASE i = 1
    BY <1>11, <2>1
  <2>2. CASE i - 1 \in 1 .. n
    <3>1. FollowsAt(X, R, e, 1 + (i - 1)) /\ 1 + (i - 1) = i
      BY <1>9, <2>2
    <3> QED
      BY <3>1
  <2>3. CASE i = n + 2
    BY <1>12, <2>3
  <2>4. CASE i - (n + 2) \in 1 .. m
    <3>1. FollowsAt(X, R, e, n + 2 + (i - (n + 2)))
      BY <1>10, <2>4
    <3>2. n + 2 + (i - (n + 2)) = i
      BY <1>1
    <3> QED
      BY <3>1, <3>2
  <2> QED
    BY <1>1, <2>1, <2>2, <2>3, <2>4
<1>14. Weaker(x, e[1]) /\ Weaker(e[Len(R) + 1], y)
  <2>1. Len(R) + 1 = n + m + 3
    BY <1>1
  <2> QED
    BY <1>6, <2>1, WeakerIs
<1> QED
  BY <1>1, <1>13, <1>14 DEF Runs, R

\* P, as often as may be.
LEMMA RunsLoop ==
    ASSUME NEW X, NEW P, NEW x, Runs(X, P, x, x)
    PROVE  Runs(X, Loop(P), x, x)
<1> DEFINE n == Len(P)
           a == [do |-> "either", by |-> n + 1]
           b == [do |-> "skip", by |-> -(n + 2)]
           R == Loop(P)
<1>1. /\ IsSeq(P) /\ IsSeq(R) /\ n \in Nat /\ Len(R) = n + 2
      /\ R[1] = a /\ R[n + 2] = b
      /\ \A i \in 1 .. n : R[1 + i] = P[i]
  <2>1. IsSeq(P)
    BY DEF Runs
  <2> DEFINE A == <<a>> \o P
  <2>2. R = A \o <<b>>
    BY DEF Loop
  <2> HIDE DEF a, b, R
  <2>3. /\ IsSeq(A) /\ Len(A) = n + 1 /\ n \in Nat /\ A[1] = a
        /\ \A i \in 1 .. n : A[1 + i] = P[i]
    <3>1. IsSeq(<<a>>) /\ Len(<<a>>) = 1 /\ <<a>>[1] = a
      BY OneIs
    <3> QED
      BY <2>1, <3>1, JoinIs
  <2> HIDE DEF A
  <2>4. /\ IsSeq(R) /\ Len(R) = Len(A) + 1 /\ R[Len(A) + 1] = b
        /\ \A i \in 1 .. Len(A) : R[i] = A[i]
    <3>1. IsSeq(<<b>>) /\ Len(<<b>>) = 1 /\ <<b>>[1] = b
      BY OneIs
    <3> QED
      BY <2>2, <2>3, <3>1, JoinIs
  <2>5. \A i \in 1 .. n : R[1 + i] = A[1 + i]
    BY <2>3, <2>4
  <2>6. R[1] = A[1] /\ Len(A) + 1 = n + 2
    BY <2>3, <2>4
  <2> QED
    BY <2>1, <2>3, <2>4, <2>5, <2>6
<1>2. PICK c : Weaker(x, c[1]) /\ Follows(X, P, c) /\ Weaker(c[n + 1], x)
  BY DEF Runs
<1> DEFINE e == [i \in 1 .. n + 3 |-> IF i = 1 \/ i = n + 3 THEN x ELSE c[i - 1]]
<1>3. a.do = "either" /\ a.by = n + 1 /\ b.do = "skip" /\ b.by = -(n + 2)
  OBVIOUS
<1>4. /\ \A w : Weaker(x, w) => Permits(X, a, FALSE, x, w) /\ Permits(X, a, TRUE, x, w)
      /\ Permits(X, b, TRUE, c[n + 1], x)
  BY <1>2, EitherSteps
<1> HIDE DEF n, a, b, R
<1>5. e[1] = x /\ e[n + 3] = x /\ \A i \in 1 .. n + 1 : e[1 + i] = c[i]
  BY <1>1
<1> HIDE DEF e
<1>6. \A i \in 1 .. n + 1 : Weaker(c[i], e[1 + i])
  BY <1>5, WeakerIs
<1>7. ASSUME NEW i \in 1 .. n PROVE FollowsAt(X, R, e, 1 + i)
  <2>1. \A k \in 1 .. Len(P) : R[1 + k] = P[k] /\ e[1 + k] = c[k]
    BY <1>1, <1>5 DEF n
  <2>2. \A k \in 1 .. Len(P) + 1 : Weaker(c[k], e[1 + k])
    BY <1>6 DEF n
  <2>3. 1 + Len(P) <= Len(R) /\ Len(P) \in Nat /\ Len(R) \in Nat
    BY <1>1 DEF n
  <2>4. \A k \in 1 .. Len(P) : FollowsAt(X, R, e, 1 + k)
    BY <1>2, <2>1, <2>2, <2>3, PartFollows
  <2> QED
    BY <2>4 DEF n
<1>8. FollowsAt(X, R, e, 1)
  <2>1. Weaker(x, e[1 + 1])
    BY <1>1, <1>2, <1>5
  <2>2. 1 + 1 + a.by = n + 3 /\ a.by \in Int /\ n + 3 \in 1 .. Len(R) + 1
    BY <1>1, <1>3
  <2>3. Permits(X, a, FALSE, x, e[1 + 1]) /\ Permits(X, a, TRUE, x, e[n + 3])
    BY <1>4, <1>5, <2>1, WeakerIs
  <2> QED
    BY <1>1, <1>5, <2>2, <2>3 DEF FollowsAt
<1>9. FollowsAt(X, R, e, n + 2)
  <2>1. n + 2 + 1 + b.by = 1 /\ b.by \in Int /\ 1 \in 1 .. Len(R) + 1
    BY <1>1, <1>3
  <2>2. e[n + 2] = c[n + 1]
    <3>1. n + 1 \in 1 .. n + 1 /\ 1 + (n + 1) = n + 2
      BY <1>1
    <3> QED
      BY <1>5, <3>1
  <2>3. Permits(X, b, TRUE, e[n + 2], e[1])
    BY <1>4, <1>5, <2>2
  <2> QED
    BY <1>1, <1>3, <2>1, <2>3 DEF FollowsAt
<1>10. Follows(X, R, e)
  <2> SUFFICES ASSUME NEW i \in 1 .. n + 2 PROVE FollowsAt(X, R, e, i)
    BY <1>1 DEF Follows
  <2>1. CASE i = 1
    BY <1>8, <2>1
  <2>2. CASE i - 1 \in 1 .. n
    <3>1. FollowsAt(X, R, e, 1 + (i - 1)) /\ 1 + (i - 1) = i
      BY <1>7, <2>2
    <3> QED
      BY <3>1
  <2>3. CASE i = n + 2
    BY <1>9, <2>3
  <2> QED
    BY <1>1, <2>1, <2>2, <2>3
<1>11. Weaker(x, e[1]) /\ Weaker(e[Len(R) + 1], x)
  <2>1. Len(R) + 1 = n + 3
    BY <1>1
  <2> QED
    BY <1>5, <2>1, WeakerIs
<1> QED
  BY <1>1, <1>10, <1>11 DEF Runs, R

-----------------------------------------------------------------------------
(* The steps as programs of their own.                                      *)

\* The facts of Live, given one by one.
Lives(v, on, in, live) == v \in live \/ v \in in \/ \E j : <<j, v>> \in on

\* Nothing is known of v.
Fresh(v, on, in, made, apart) ==
    /\ \A j : <<j, v>> \notin on
    /\ v \notin in /\ v \notin made
    /\ \A u : <<u, v>> \notin apart /\ <<v, u>> \notin apart

LEMMA FactsAre ==
    ASSUME NEW h, NEW on, NEW in, NEW live, NEW made, NEW apart, NEW x,
           x = Facts(h, on, in, live, made, apart)
    PROVE  /\ x.height = h /\ x.on = on /\ x.in = in /\ x.live = live
           /\ x.made = made /\ x.apart = apart
           /\ \A v : Live(x, v) <=> Lives(v, on, in, live)
<1> QED
  BY DEF Facts, Live, Lives

LEMMA AllocRuns ==
    ASSUME NEW X, NEW h, NEW on, NEW in, NEW live, NEW made, NEW apart
    PROVE  Runs(X, Alloc,
                Facts(h, on, in, live, made, apart),
                Facts(h, on, in, {}, made, apart))
<1> DEFINE s == [do |-> "alloc"]
<1>1. PICK x : x = Facts(h, on, in, live, made, apart)
  OBVIOUS
<1>2. PICK y : y = Facts(h, on, in, {}, made, apart)
  OBVIOUS
<1>3. /\ x.height = h /\ x.on = on /\ x.in = in /\ x.made = made /\ x.apart = apart
      /\ y.height = h /\ y.on = on /\ y.in = in /\ y.live = {} /\ y.made = made
      /\ y.apart = apart
  BY <1>1, <1>2, FactsAre
<1>4. s.do = "alloc" /\ s.do \notin Jumps /\ UsesOf(s) = {}
  BY DEF Jumps, UsesOf
<1>5. Alloc = <<s>>
  BY DEF Alloc
<1> HIDE DEF s
<1>6. Permits(X, s, FALSE, x, y)
  BY <1>3, <1>4 DEF Permits, PermitsMemory
<1> QED
  BY <1>1, <1>2, <1>4, <1>5, <1>6, One

LEMMA PushRuns ==
    ASSUME NEW X, NEW v, NEW h, NEW on, NEW in, NEW live, NEW made, NEW apart,
           NEW h2, NEW on2, NEW live2,
           Lives(v, on, in, live) \/ v \in X, h2 = h + 1,
           \A j, u : <<j, u>> \in on2 => <<j, u>> \in on \/ (j = h2 /\ u = v),
           \A u \in live2 : u = v \/ Lives(u, on, in, live)
    PROVE  Runs(X, Push(v), Facts(h, on, in, live, made, apart),
                            Facts(h2, on2, in, live2, made, apart))
<1> DEFINE s == [do |-> "push", v |-> v]
<1>1. PICK x : x = Facts(h, on, in, live, made, apart)
  OBVIOUS
<1>2. PICK y : y = Facts(h2, on2, in, live2, made, apart)
  OBVIOUS
<1>3. /\ x.height = h /\ x.on = on /\ x.in = in /\ x.made = made /\ x.apart = apart
      /\ \A u : Live(x, u) <=> Lives(u, on, in, live)
  BY <1>1, FactsAre
<1>4. /\ y.height = h2 /\ y.on = on2 /\ y.in = in /\ y.live = live2 /\ y.made = made
      /\ y.apart = apart
  BY <1>2, FactsAre
<1>5. s.do = "push" /\ s.v = v /\ s.do \notin Jumps /\ UsesOf(s) = {v}
  BY DEF Jumps, UsesOf
<1>6. Push(v) = <<s>>
  BY DEF Push
<1> HIDE DEF s
<1>7. Permits(X, s, FALSE, x, y)
  BY <1>3, <1>4, <1>5 DEF Permits, PermitsStack, Keeps
<1> QED
  BY <1>1, <1>2, <1>5, <1>6, <1>7, One

LEMMA PopRuns ==
    ASSUME NEW X, NEW h, NEW on, NEW in, NEW live, NEW made, NEW apart,
           NEW h2, NEW on2, NEW live2,
           h \in Nat, h >= 1, h2 = h - 1,
           \A j, u : <<j, u>> \in on2 => <<j, u>> \in on /\ j # h,
           \A u \in live2 : Lives(u, on, in, live)
    PROVE  Runs(X, Pop, Facts(h, on, in, live, made, apart),
                     Facts(h2, on2, in, live2, made, apart))
<1> DEFINE s == [do |-> "pop"]
<1>1. PICK x : x = Facts(h, on, in, live, made, apart)
  OBVIOUS
<1>2. PICK y : y = Facts(h2, on2, in, live2, made, apart)
  OBVIOUS
<1>3. /\ x.height = h /\ x.on = on /\ x.in = in /\ x.made = made /\ x.apart = apart
      /\ \A u : Live(x, u) <=> Lives(u, on, in, live)
  BY <1>1, FactsAre
<1>4. /\ y.height = h2 /\ y.on = on2 /\ y.in = in /\ y.live = live2
      /\ y.made = made /\ y.apart = apart
  BY <1>2, FactsAre
<1>5. s.do = "pop" /\ s.do \notin Jumps /\ UsesOf(s) = {}
  BY DEF Jumps, UsesOf
<1>6. Pop = <<s>>
  BY DEF Pop
<1> HIDE DEF s
<1>7. Permits(X, s, FALSE, x, y)
  BY <1>3, <1>4, <1>5 DEF Permits, PermitsStack, Keeps
<1> QED
  BY <1>1, <1>2, <1>5, <1>6, <1>7, One

LEMMA PutRuns ==
    ASSUME NEW X, NEW v, NEW h, NEW on, NEW in, NEW live, NEW made, NEW apart,
           NEW on2, NEW live2,
           h \in Nat, h >= 1, Lives(v, on, in, live) \/ v \in X,
           \A j, u : <<j, u>> \in on2 => (<<j, u>> \in on /\ j # h) \/ (j = h /\ u = v),
           \A u \in live2 : u = v \/ Lives(u, on, in, live)
    PROVE  Runs(X, Put(v), Facts(h, on, in, live, made, apart),
                        Facts(h, on2, in, live2, made, apart))
<1> DEFINE s == [do |-> "put", v |-> v]
<1>1. PICK x : x = Facts(h, on, in, live, made, apart)
  OBVIOUS
<1>2. PICK y : y = Facts(h, on2, in, live2, made, apart)
  OBVIOUS
<1>3. /\ x.height = h /\ x.on = on /\ x.in = in /\ x.made = made /\ x.apart = apart
      /\ \A u : Live(x, u) <=> Lives(u, on, in, live)
  BY <1>1, FactsAre
<1>4. /\ y.height = h /\ y.on = on2 /\ y.in = in /\ y.live = live2
      /\ y.made = made /\ y.apart = apart
  BY <1>2, FactsAre
<1>5. s.do = "put" /\ s.v = v /\ s.do \notin Jumps /\ UsesOf(s) = {v}
  BY DEF Jumps, UsesOf
<1>6. Put(v) = <<s>>
  BY DEF Put
<1> HIDE DEF s
<1>7. Permits(X, s, FALSE, x, y)
  BY <1>3, <1>4, <1>5 DEF Permits, PermitsStack, Keeps
<1> QED
  BY <1>1, <1>2, <1>5, <1>6, <1>7, One

LEMMA PeekRuns ==
    ASSUME NEW X, NEW v, NEW dist, NEW h, NEW on, NEW in, NEW live, NEW made, NEW apart,
           NEW on2, NEW in2, NEW live2,
           h \in Nat, dist \in Nat, dist < h,
           v \notin made,
           \A u : <<u, v>> \notin apart /\ <<v, u>> \notin apart,
           \A j, u : <<j, u>> \in on2 => (<<j, u>> \in on /\ u # v) \/ (j = h - dist /\ u = v),
           \A u \in in2 : u \in in /\ u # v,
           \A u \in live2 : u = v \/ Lives(u, on, in, live)
    PROVE  Runs(X, Peek(v, dist), Facts(h, on, in, live, made, apart),
                               Facts(h, on2, in2, live2, made, apart))
<1> DEFINE s == [do |-> "peek", v |-> v, dist |-> dist]
<1>1. PICK x : x = Facts(h, on, in, live, made, apart)
  OBVIOUS
<1>2. PICK y : y = Facts(h, on2, in2, live2, made, apart)
  OBVIOUS
<1>3. /\ x.height = h /\ x.on = on /\ x.in = in /\ x.made = made /\ x.apart = apart
      /\ \A u : Live(x, u) <=> Lives(u, on, in, live)
  BY <1>1, FactsAre
<1>4. /\ y.height = h /\ y.on = on2 /\ y.in = in2 /\ y.live = live2
      /\ y.made = made /\ y.apart = apart
  BY <1>2, FactsAre
<1>5. s.do = "peek" /\ s.v = v /\ s.dist = dist /\ s.do \notin Jumps /\ UsesOf(s) = {}
  BY DEF Jumps, UsesOf
<1>6. Peek(v, dist) = <<s>>
  BY DEF Peek
<1> HIDE DEF s
<1>7. Permits(X, s, FALSE, x, y)
  BY <1>3, <1>4, <1>5 DEF Permits, PermitsRead, Assigns, Apart
<1> QED
  BY <1>1, <1>2, <1>5, <1>6, <1>7, One

LEMMA UseRuns ==
    ASSUME NEW X, NEW v, NEW h, NEW on, NEW in, NEW live, NEW made, NEW apart,
           NEW live2,
           Lives(v, on, in, live) \/ v \in X,
           \A u \in live2 : u = v \/ Lives(u, on, in, live)
    PROVE  Runs(X, Use(v), Facts(h, on, in, live, made, apart),
                        Facts(h, on, in, live2, made, apart))
<1> DEFINE s == [do |-> "use", v |-> v]
<1>1. PICK x : x = Facts(h, on, in, live, made, apart)
  OBVIOUS
<1>2. PICK y : y = Facts(h, on, in, live2, made, apart)
  OBVIOUS
<1>3. /\ x.height = h /\ x.on = on /\ x.in = in /\ x.made = made /\ x.apart = apart
      /\ \A u : Live(x, u) <=> Lives(u, on, in, live)
  BY <1>1, FactsAre
<1>4. /\ y.height = h /\ y.on = on /\ y.in = in /\ y.live = live2
      /\ y.made = made /\ y.apart = apart
  BY <1>2, FactsAre
<1>5. s.do = "use" /\ s.v = v /\ s.do \notin Jumps /\ UsesOf(s) = {v}
  BY DEF Jumps, UsesOf
<1>6. Use(v) = <<s>>
  BY DEF Use
<1> HIDE DEF s
<1>7. Permits(X, s, FALSE, x, y)
  BY <1>3, <1>4, <1>5 DEF Permits, PermitsOther, Keeps
<1> QED
  BY <1>1, <1>2, <1>5, <1>6, <1>7, One

LEMMA GetRuns ==
    ASSUME NEW X, NEW v, NEW w, NEW h, NEW on, NEW in, NEW live, NEW made, NEW apart,
           NEW on2, NEW in2, NEW live2,
           Lives(w, on, in, live) \/ w \in X,
           v \notin made,
           \A u : <<u, v>> \notin apart /\ <<v, u>> \notin apart,
           \A j, u : <<j, u>> \in on2 => (<<j, u>> \in on /\ u # v) \/ (<<j, w>> \in on /\ u = v),
           \A u \in in2 : u \in in /\ u # v,
           \A u \in live2 : u = v \/ u = w \/ Lives(u, on, in, live)
    PROVE  Runs(X, Get(v, w), Facts(h, on, in, live, made, apart),
                           Facts(h, on2, in2, live2, made, apart))
<1> DEFINE s == [do |-> "get", v |-> v, w |-> w]
<1>1. PICK x : x = Facts(h, on, in, live, made, apart)
  OBVIOUS
<1>2. PICK y : y = Facts(h, on2, in2, live2, made, apart)
  OBVIOUS
<1>3. /\ x.height = h /\ x.on = on /\ x.in = in /\ x.made = made /\ x.apart = apart
      /\ \A u : Live(x, u) <=> Lives(u, on, in, live)
  BY <1>1, FactsAre
<1>4. /\ y.height = h /\ y.on = on2 /\ y.in = in2 /\ y.live = live2
      /\ y.made = made /\ y.apart = apart
  BY <1>2, FactsAre
<1>5. s.do = "get" /\ s.v = v /\ s.w = w /\ s.do \notin Jumps /\ UsesOf(s) = {w}
  BY DEF Jumps, UsesOf
<1>6. Get(v, w) = <<s>>
  BY DEF Get
<1> HIDE DEF s
<1>7. Permits(X, s, FALSE, x, y)
  BY <1>3, <1>4, <1>5 DEF Permits, PermitsRead, Assigns, Apart
<1> QED
  BY <1>1, <1>2, <1>5, <1>6, <1>7, One

LEMMA LinkRuns ==
    ASSUME NEW X, NEW v, NEW w, NEW h, NEW on, NEW in, NEW live, NEW made, NEW apart,
           NEW live2,
           Lives(v, on, in, live) \/ v \in X,
           Lives(w, on, in, live) \/ w \in X,
           \A u \in live2 : u = v \/ u = w \/ Lives(u, on, in, live)
    PROVE  Runs(X, Link(v, w), Facts(h, on, in, live, made, apart),
                            Facts(h, on, in, live2, made, apart))
<1> DEFINE s == [do |-> "link", v |-> v, w |-> w]
<1>1. PICK x : x = Facts(h, on, in, live, made, apart)
  OBVIOUS
<1>2. PICK y : y = Facts(h, on, in, live2, made, apart)
  OBVIOUS
<1>3. /\ x.height = h /\ x.on = on /\ x.in = in /\ x.made = made /\ x.apart = apart
      /\ \A u : Live(x, u) <=> Lives(u, on, in, live)
  BY <1>1, FactsAre
<1>4. /\ y.height = h /\ y.on = on /\ y.in = in /\ y.live = live2
      /\ y.made = made /\ y.apart = apart
  BY <1>2, FactsAre
<1>5. s.do = "link" /\ s.v = v /\ s.w = w /\ s.do \notin Jumps /\ UsesOf(s) = {v, w}
  BY DEF Jumps, UsesOf
<1>6. Link(v, w) = <<s>>
  BY DEF Link
<1> HIDE DEF s
<1>7. Permits(X, s, FALSE, x, y)
  BY <1>3, <1>4, <1>5 DEF Permits, PermitsMemory, Keeps
<1> QED
  BY <1>1, <1>2, <1>5, <1>6, <1>7, One

LEMMA KeepRuns ==
    ASSUME NEW X, NEW v, NEW h, NEW on, NEW in, NEW live, NEW made, NEW apart,
           NEW in2, NEW live2,
           Lives(v, on, in, live) \/ v \in X,
           in2 \subseteq in \union {v},
           \A u \in live2 : u = v \/ Lives(u, on, in, live)
    PROVE  Runs(X, Keep(v), Facts(h, on, in, live, made, apart),
                         Facts(h, on, in2, live2, made, apart))
<1> DEFINE s == [do |-> "keep", v |-> v]
<1>1. PICK x : x = Facts(h, on, in, live, made, apart)
  OBVIOUS
<1>2. PICK y : y = Facts(h, on, in2, live2, made, apart)
  OBVIOUS
<1>3. /\ x.height = h /\ x.on = on /\ x.in = in /\ x.made = made /\ x.apart = apart
      /\ \A u : Live(x, u) <=> Lives(u, on, in, live)
  BY <1>1, FactsAre
<1>4. /\ y.height = h /\ y.on = on /\ y.in = in2 /\ y.live = live2
      /\ y.made = made /\ y.apart = apart
  BY <1>2, FactsAre
<1>5. s.do = "keep" /\ s.v = v /\ s.do \notin Jumps /\ UsesOf(s) = {v}
  BY DEF Jumps, UsesOf
<1>6. Keep(v) = <<s>>
  BY DEF Keep
<1> HIDE DEF s
<1>7. Permits(X, s, FALSE, x, y)
  BY <1>3, <1>4, <1>5 DEF Permits, PermitsMemory, Keeps
<1> QED
  BY <1>1, <1>2, <1>5, <1>6, <1>7, One

LEMMA DropRuns ==
    ASSUME NEW X, NEW v, NEW h, NEW on, NEW in, NEW live, NEW made, NEW apart,
           NEW in2, NEW live2,
           \A u \in in2 : u \in in /\ <<u, v>> \in apart,
           \A u \in live2 : Lives(u, on, in, live)
    PROVE  Runs(X, Drop(v), Facts(h, on, in, live, made, apart),
                         Facts(h, on, in2, live2, made, apart))
<1> DEFINE s == [do |-> "drop", v |-> v]
<1>1. PICK x : x = Facts(h, on, in, live, made, apart)
  OBVIOUS
<1>2. PICK y : y = Facts(h, on, in2, live2, made, apart)
  OBVIOUS
<1>3. /\ x.height = h /\ x.on = on /\ x.in = in /\ x.made = made /\ x.apart = apart
      /\ \A u : Live(x, u) <=> Lives(u, on, in, live)
  BY <1>1, FactsAre
<1>4. /\ y.height = h /\ y.on = on /\ y.in = in2 /\ y.live = live2
      /\ y.made = made /\ y.apart = apart
  BY <1>2, FactsAre
<1>5. s.do = "drop" /\ s.v = v /\ s.do \notin Jumps /\ UsesOf(s) = {}
  BY DEF Jumps, UsesOf
<1>6. Drop(v) = <<s>>
  BY DEF Drop
<1> HIDE DEF s
<1>7. Permits(X, s, FALSE, x, y)
  BY <1>3, <1>4, <1>5 DEF Permits, PermitsMemory, Keeps
<1> QED
  BY <1>1, <1>2, <1>5, <1>6, <1>7, One

LEMMA ConstRuns ==
    ASSUME NEW X, NEW v, NEW h, NEW on, NEW in, NEW live, NEW made, NEW apart,
           NEW on2, NEW in2, NEW live2,
           v \notin made,
           \A u : <<u, v>> \notin apart /\ <<v, u>> \notin apart,
           \A j, u : <<j, u>> \in on2 => <<j, u>> \in on /\ u # v,
           in2 \subseteq in \union {v},
           \A u \in live2 : u = v \/ Lives(u, on, in, live)
    PROVE  Runs(X, Const(v), Facts(h, on, in, live, made, apart),
                          Facts(h, on2, in2, live2, made, apart))
<1> DEFINE s == [do |-> "const", v |-> v, of |-> "str"]
<1>1. PICK x : x = Facts(h, on, in, live, made, apart)
  OBVIOUS
<1>2. PICK y : y = Facts(h, on2, in2, live2, made, apart)
  OBVIOUS
<1>3. /\ x.height = h /\ x.on = on /\ x.in = in /\ x.made = made /\ x.apart = apart
      /\ \A u : Live(x, u) <=> Lives(u, on, in, live)
  BY <1>1, FactsAre
<1>4. /\ y.height = h /\ y.on = on2 /\ y.in = in2 /\ y.live = live2
      /\ y.made = made /\ y.apart = apart
  BY <1>2, FactsAre
<1>5. s.do = "const" /\ s.v = v /\ s.do \notin Jumps /\ UsesOf(s) = {}
  BY DEF Jumps, UsesOf
<1>6. Const(v) = <<s>>
  BY DEF Const
<1> HIDE DEF s
<1>7. Permits(X, s, FALSE, x, y)
  BY <1>3, <1>4, <1>5 DEF Permits, PermitsRead, Assigns, Apart
<1> QED
  BY <1>1, <1>2, <1>5, <1>6, <1>7, One

LEMMA FnRuns ==
    ASSUME NEW X, NEW v, NEW h, NEW on, NEW in, NEW live, NEW made, NEW apart,
           NEW on2, NEW in2, NEW live2,
           v \notin made,
           \A u : <<u, v>> \notin apart /\ <<v, u>> \notin apart,
           \A j, u : <<j, u>> \in on2 => <<j, u>> \in on /\ u # v,
           in2 \subseteq in \union {v},
           \A u \in live2 : u = v \/ Lives(u, on, in, live)
    PROVE  Runs(X, Fn(v), Facts(h, on, in, live, made, apart),
                       Facts(h, on2, in2, live2, made, apart))
<1> DEFINE s == [do |-> "const", v |-> v, of |-> "obj"]
<1>1. PICK x : x = Facts(h, on, in, live, made, apart)
  OBVIOUS
<1>2. PICK y : y = Facts(h, on2, in2, live2, made, apart)
  OBVIOUS
<1>3. /\ x.height = h /\ x.on = on /\ x.in = in /\ x.made = made /\ x.apart = apart
      /\ \A u : Live(x, u) <=> Lives(u, on, in, live)
  BY <1>1, FactsAre
<1>4. /\ y.height = h /\ y.on = on2 /\ y.in = in2 /\ y.live = live2
      /\ y.made = made /\ y.apart = apart
  BY <1>2, FactsAre
<1>5. s.do = "const" /\ s.v = v /\ s.do \notin Jumps /\ UsesOf(s) = {}
  BY DEF Jumps, UsesOf
<1>6. Fn(v) = <<s>>
  BY DEF Fn
<1> HIDE DEF s
<1>7. Permits(X, s, FALSE, x, y)
  BY <1>3, <1>4, <1>5 DEF Permits, PermitsRead, Assigns, Apart
<1> QED
  BY <1>1, <1>2, <1>5, <1>6, <1>7, One

LEMMA GlobalRuns ==
    ASSUME NEW X, NEW v, NEW h, NEW on, NEW in, NEW live, NEW made, NEW apart,
           NEW on2, NEW in2, NEW live2,
           v \notin made,
           \A u : <<u, v>> \notin apart /\ <<v, u>> \notin apart,
           \A j, u : <<j, u>> \in on2 => <<j, u>> \in on /\ u # v,
           in2 \subseteq in \union {v},
           \A u \in live2 : u = v \/ Lives(u, on, in, live)
    PROVE  Runs(X, Global(v), Facts(h, on, in, live, made, apart),
                           Facts(h, on2, in2, live2, made, apart))
<1> DEFINE s == [do |-> "const", v |-> v, of |-> "any"]
<1>1. PICK x : x = Facts(h, on, in, live, made, apart)
  OBVIOUS
<1>2. PICK y : y = Facts(h, on2, in2, live2, made, apart)
  OBVIOUS
<1>3. /\ x.height = h /\ x.on = on /\ x.in = in /\ x.made = made /\ x.apart = apart
      /\ \A u : Live(x, u) <=> Lives(u, on, in, live)
  BY <1>1, FactsAre
<1>4. /\ y.height = h /\ y.on = on2 /\ y.in = in2 /\ y.live = live2
      /\ y.made = made /\ y.apart = apart
  BY <1>2, FactsAre
<1>5. s.do = "const" /\ s.v = v /\ s.do \notin Jumps /\ UsesOf(s) = {}
  BY DEF Jumps, UsesOf
<1>6. Global(v) = <<s>>
  BY DEF Global
<1> HIDE DEF s
<1>7. Permits(X, s, FALSE, x, y)
  BY <1>3, <1>4, <1>5 DEF Permits, PermitsRead, Assigns, Apart
<1> QED
  BY <1>1, <1>2, <1>5, <1>6, <1>7, One

LEMMA LeaveRuns ==
    ASSUME NEW X, NEW locals, NEW h, NEW on, NEW in, NEW live, NEW made, NEW apart,
           NEW on2, NEW in2, NEW live2, NEW made2, NEW apart2,
           made \intersect locals = {},
           \A u, w : <<u, w>> \in apart2 =>
               <<u, w>> \in apart /\ u \notin locals /\ w \notin locals,
           on2 \subseteq on, in2 \subseteq in, made2 \subseteq made, apart2 \subseteq apart,
           \A u \in live2 : Lives(u, on, in, live)
    PROVE  Runs(X, Leave(locals), Facts(h, on, in, live, made, apart),
                               Facts(h, on2, in2, live2, made2, apart2))
<1> DEFINE s == [do |-> "leave", locals |-> locals]
<1>1. PICK x : x = Facts(h, on, in, live, made, apart)
  OBVIOUS
<1>2. PICK y : y = Facts(h, on2, in2, live2, made2, apart2)
  OBVIOUS
<1>3. /\ x.height = h /\ x.on = on /\ x.in = in /\ x.made = made /\ x.apart = apart
      /\ \A u : Live(x, u) <=> Lives(u, on, in, live)
  BY <1>1, FactsAre
<1>4. /\ y.height = h /\ y.on = on2 /\ y.in = in2 /\ y.live = live2
      /\ y.made = made2 /\ y.apart = apart2
  BY <1>2, FactsAre
<1>5. s.do = "leave" /\ s.locals = locals /\ s.do \notin Jumps /\ UsesOf(s) = {}
  BY DEF Jumps, UsesOf
<1>6. Leave(locals) = <<s>>
  BY DEF Leave
<1> HIDE DEF s
<1>7. Permits(X, s, FALSE, x, y)
  BY <1>3, <1>4, <1>5 DEF Permits, PermitsOther, Keeps
<1> QED
  BY <1>1, <1>2, <1>5, <1>6, <1>7, One

LEMMA EnterRuns ==
    ASSUME NEW X, NEW v, NEW h, NEW on, NEW in, NEW live, NEW made, NEW apart,
           NEW live2, NEW made2,
           Lives(v, on, in, live) \/ v \in X, v \in made,
           made2 \subseteq made,
           \A u \in live2 : u = v \/ Lives(u, on, in, live)
    PROVE  Runs(X, <<[do |-> "enter", v |-> v]>>, Facts(h, on, in, live, made, apart),
                                               Facts(h, on, in, live2, made2, apart))
<1> DEFINE s == [do |-> "enter", v |-> v]
<1>1. PICK x : x = Facts(h, on, in, live, made, apart)
  OBVIOUS
<1>2. PICK y : y = Facts(h, on, in, live2, made2, apart)
  OBVIOUS
<1>3. /\ x.height = h /\ x.on = on /\ x.in = in /\ x.made = made /\ x.apart = apart
      /\ \A u : Live(x, u) <=> Lives(u, on, in, live)
  BY <1>1, FactsAre
<1>4. /\ y.height = h /\ y.on = on /\ y.in = in /\ y.live = live2
      /\ y.made = made2 /\ y.apart = apart
  BY <1>2, FactsAre
<1>5. s.do = "enter" /\ s.v = v /\ s.do \notin Jumps /\ UsesOf(s) = {v}
  BY DEF Jumps, UsesOf
<1>6. <<[do |-> "enter", v |-> v]>> = <<s>>
  OBVIOUS
<1> HIDE DEF s
<1>7. Permits(X, s, FALSE, x, y)
  BY <1>3, <1>4, <1>5 DEF Permits, PermitsMemory, Keeps
<1> QED
  BY <1>1, <1>2, <1>5, <1>6, <1>7, One

LEMMA SetBuiltinRuns ==
    ASSUME NEW X, NEW v, NEW h, NEW on, NEW in, NEW live, NEW made, NEW apart,
           NEW live2, NEW made2,
           v \in made,
           made2 \subseteq made,
           \A u \in live2 : Lives(u, on, in, live)
    PROVE  Runs(X, <<[do |-> "set_builtin", v |-> v]>>, Facts(h, on, in, live, made, apart),
                                                     Facts(h, on, in, live2, made2, apart))
<1> DEFINE s == [do |-> "set_builtin", v |-> v]
<1>1. PICK x : x = Facts(h, on, in, live, made, apart)
  OBVIOUS
<1>2. PICK y : y = Facts(h, on, in, live2, made2, apart)
  OBVIOUS
<1>3. /\ x.height = h /\ x.on = on /\ x.in = in /\ x.made = made /\ x.apart = apart
      /\ \A u : Live(x, u) <=> Lives(u, on, in, live)
  BY <1>1, FactsAre
<1>4. /\ y.height = h /\ y.on = on /\ y.in = in /\ y.live = live2
      /\ y.made = made2 /\ y.apart = apart
  BY <1>2, FactsAre
<1>5. s.do = "set_builtin" /\ s.v = v /\ s.do \notin Jumps /\ UsesOf(s) = {}
  BY DEF Jumps, UsesOf
<1>6. <<[do |-> "set_builtin", v |-> v]>> = <<s>>
  OBVIOUS
<1> HIDE DEF s
<1>7. Permits(X, s, FALSE, x, y)
  BY <1>3, <1>4, <1>5 DEF Permits, PermitsMemory, Keeps
<1> QED
  BY <1>1, <1>2, <1>5, <1>6, <1>7, One

LEMMA BuiltinRuns ==
    ASSUME NEW X, NEW v, NEW h, NEW on, NEW in, NEW live, NEW made, NEW apart,
           NEW on2, NEW in2, NEW live2,
           v \notin made,
           \A u : <<u, v>> \notin apart /\ <<v, u>> \notin apart,
           \A j, u : <<j, u>> \in on2 => <<j, u>> \in on /\ u # v,
           \A u \in in2 : u \in in /\ u # v,
           \A u \in live2 : u # v /\ Lives(u, on, in, live)
    PROVE  Runs(X, <<[do |-> "builtin", v |-> v]>>, Facts(h, on, in, live, made, apart),
                                                 Facts(h, on2, in2, live2, made, apart))
<1> DEFINE s == [do |-> "builtin", v |-> v]
<1>1. PICK x : x = Facts(h, on, in, live, made, apart)
  OBVIOUS
<1>2. PICK y : y = Facts(h, on2, in2, live2, made, apart)
  OBVIOUS
<1>3. /\ x.height = h /\ x.on = on /\ x.in = in /\ x.made = made /\ x.apart = apart
      /\ \A u : Live(x, u) <=> Lives(u, on, in, live)
  BY <1>1, FactsAre
<1>4. /\ y.height = h /\ y.on = on2 /\ y.in = in2 /\ y.live = live2
      /\ y.made = made /\ y.apart = apart
  BY <1>2, FactsAre
<1>5. s.do = "builtin" /\ s.v = v /\ s.do \notin Jumps /\ UsesOf(s) = {}
  BY DEF Jumps, UsesOf
<1>6. <<[do |-> "builtin", v |-> v]>> = <<s>>
  OBVIOUS
<1> HIDE DEF s
<1>7. Permits(X, s, FALSE, x, y)
  BY <1>3, <1>4, <1>5 DEF Permits, PermitsRead, Assigns, Apart
<1> QED
  BY <1>1, <1>2, <1>5, <1>6, <1>7, One

\* What the new object refers to is live; nothing else holds it.
LEMMA MakeRuns ==
    ASSUME NEW X, NEW v, NEW of, NEW h, NEW on, NEW in, NEW live, NEW made, NEW apart,
           NEW on2, NEW in2, NEW live2, NEW made2, NEW apart2,
           \A u \in of : Lives(u, on, in, live) \/ u \in X,
           \A j, u : <<j, u>> \in on2 => <<j, u>> \in on /\ u # v,
           \A u \in in2 : u \in in /\ u # v,
           \A u \in live2 : u = v \/ Lives(u, on, in, live),
           \A u \in made2 : u = v \/ u \in made,
           \A u, w : <<u, w>> \in apart2 =>
               u # v /\ IF w = v THEN Lives(u, on, in, live) ELSE <<u, w>> \in apart
    PROVE  Runs(X, <<[do |-> "make", v |-> v, of |-> of]>>,
                Facts(h, on, in, live, made, apart),
                Facts(h, on2, in2, live2, made2, apart2))
<1> DEFINE s == [do |-> "make", v |-> v, of |-> of]
<1>1. PICK x : x = Facts(h, on, in, live, made, apart)
  OBVIOUS
<1>2. PICK y : y = Facts(h, on2, in2, live2, made2, apart2)
  OBVIOUS
<1>3. /\ x.height = h /\ x.on = on /\ x.in = in /\ x.made = made /\ x.apart = apart
      /\ \A u : Live(x, u) <=> Lives(u, on, in, live)
  BY <1>1, FactsAre
<1>4. /\ y.height = h /\ y.on = on2 /\ y.in = in2 /\ y.live = live2
      /\ y.made = made2 /\ y.apart = apart2
  BY <1>2, FactsAre
<1>5. s.do = "make" /\ s.v = v /\ s.of = of /\ s.do \notin Jumps /\ UsesOf(s) = of
  BY DEF Jumps, UsesOf
<1>6. <<[do |-> "make", v |-> v, of |-> of]>> = <<s>>
  OBVIOUS
<1> HIDE DEF s
<1>7. Permits(X, s, FALSE, x, y)
  BY <1>3, <1>4, <1>5 DEF Permits, PermitsMemory, Assigns
<1> QED
  BY <1>1, <1>2, <1>5, <1>6, <1>7, One

-----------------------------------------------------------------------------
(* The programs that others are made of, whatever is known when they begin. *)

\* What is known of the stack is of the values of the operation.
Room(h, on) == h \in Nat /\ \A j, u : <<j, u>> \in on => j \in 1 .. h

On(v, on) == \E j : <<j, v>> \in on

LEMMA UnlessRuns ==
    ASSUME NEW X, NEW v, NEW P, NEW h, NEW on, NEW in, NEW live, NEW made, NEW apart,
           Fresh(v, on, in, made, apart),
           Runs(X, P,
                Facts(h, on, in, live, made, apart),
                Facts(h, on, in, {v}, made, apart))
    PROVE  Runs(X, Unless(v, P), Facts(h, on, in, live, made, apart),
                                 Facts(h, on, in, {v}, made, apart))
<1> DEFINE s == [do |-> "find", v |-> v, by |-> Len(P)]
<1>1. PICK x : x = Facts(h, on, in, live, made, apart)
  OBVIOUS
<1>2. PICK y : y = Facts(h, on, in, {v}, made, apart)
  OBVIOUS
<1>3. /\ x.height = h /\ x.on = on /\ x.in = in /\ x.made = made /\ x.apart = apart
      /\ \A u : Live(x, u) <=> Lives(u, on, in, live)
  BY <1>1, FactsAre
<1>a. \A u \in x.live : Live(x, u)
  BY DEF Live
<1>4. /\ y.height = h /\ y.on = on /\ y.in = in /\ y.live = {v} /\ y.made = made
      /\ y.apart = apart
  BY <1>2, FactsAre
<1>5. /\ s.do = "find" /\ s.v = v /\ s.by = Len(P) /\ UsesOf(s) = {}
      /\ s.do \in Jumps \ {"skip"}
  BY DEF Jumps, UsesOf
<1>6. Unless(v, P) = <<s>> \o P
  BY DEF Unless
<1> HIDE DEF s
<1>7. Permits(X, s, FALSE, x, x)
  BY <1>3, <1>a, <1>5 DEF Permits, PermitsOther, Keeps
<1>8. Permits(X, s, TRUE, x, y)
  BY <1>3, <1>4, <1>5 DEF Permits, PermitsRead, Assigns, Apart, Fresh
<1> QED
  BY <1>1, <1>2, <1>5, <1>6, <1>7, <1>8, Over

LEMMA IfStringRuns ==
    ASSUME NEW X, NEW v, NEW w, NEW P, NEW h, NEW on, NEW in, NEW live, NEW made, NEW apart,
           Fresh(v, on, in, made, apart), On(w, on),
           Runs(X, P,
                Facts(h, on, in, live, made, apart),
                Facts(h, on, in, {v}, made, apart))
    PROVE  Runs(X, IfString(v, w, P), Facts(h, on, in, live, made, apart),
                                      Facts(h, on, in, {v}, made, apart))
<1> DEFINE s == [do |-> "ifstr", v |-> v, w |-> w, by |-> Len(P)]
<1>1. PICK x : x = Facts(h, on, in, live, made, apart)
  OBVIOUS
<1>2. PICK y : y = Facts(h, on, in, {v}, made, apart)
  OBVIOUS
<1>3. /\ x.height = h /\ x.on = on /\ x.in = in /\ x.made = made /\ x.apart = apart
      /\ \A u : Live(x, u) <=> Lives(u, on, in, live)
  BY <1>1, FactsAre
<1>a. \A u \in x.live : Live(x, u)
  BY DEF Live
<1>4. /\ y.height = h /\ y.on = on /\ y.in = in /\ y.live = {v} /\ y.made = made
      /\ y.apart = apart
  BY <1>2, FactsAre
<1>5. /\ s.do = "ifstr" /\ s.v = v /\ s.w = w /\ s.by = Len(P) /\ UsesOf(s) = {w}
      /\ s.do \in Jumps \ {"skip"}
  BY DEF Jumps, UsesOf
<1>6. IfString(v, w, P) = <<s>> \o P
  BY DEF IfString
<1> HIDE DEF s
<1>7. Live(x, w)
  BY <1>3 DEF Lives, On
<1>8. Permits(X, s, FALSE, x, x)
  BY <1>3, <1>a, <1>5, <1>7 DEF Permits, PermitsOther, Keeps
<1>9. Permits(X, s, TRUE, x, y)
  BY <1>3, <1>4, <1>5, <1>7 DEF Permits, PermitsRead, Assigns, Apart, Fresh
<1> QED
  BY <1>1, <1>2, <1>5, <1>6, <1>8, <1>9, Over

LEMMA NewRuns ==
    ASSUME NEW X, NEW v, NEW of, NEW h, NEW on, NEW in, NEW live, NEW made, NEW apart,
        NEW made2, NEW apart2,
           Fresh(v, on, in, made, apart),
           \A u \in of : Lives(u, on, in, {}) \/ u \in X,
           made2 \subseteq made \union {v},
           \A u, w : <<u, w>> \in apart2 =>
               u # v /\ IF w = v THEN Lives(u, on, in, {}) ELSE <<u, w>> \in apart
    PROVE  Runs(X, New(v, of),
                Facts(h, on, in, live, made, apart), Facts(h, on, in, {v}, made2, apart2))
<1>1. Runs(X, Alloc, Facts(h, on, in, live, made, apart), Facts(h, on, in, {}, made, apart))
  BY AllocRuns
<1>2. Runs(X, <<[do |-> "make", v |-> v, of |-> of]>>,
           Facts(h, on, in, {}, made, apart),
           Facts(h, on, in, {v}, made2, apart2))
  BY MakeRuns DEF Fresh
<1> QED
  BY <1>1, <1>2, Then DEF New

LEMMA AllocStrRuns ==
    ASSUME NEW X, NEW v, NEW h, NEW on, NEW in, NEW live, NEW made, NEW apart,
           Room(h, on), Fresh(v, on, in, made, apart)
    PROVE  Runs(X, AllocStr(v),
                Facts(h, on, in, live, made, apart), Facts(h, on, in, {v}, made, apart))
<1>1. Runs(X, New(v, {}),
           Facts(h, on, in, live, made, apart),
           Facts(h, on, in, {v}, made \union {v}, apart))
  BY NewRuns DEF Fresh
<1>2. Runs(X, Push(v),
           Facts(h, on, in, {v}, made \union {v}, apart),
           Facts(h + 1, on \union {<<h + 1, v>>}, in, {v}, made \union {v}, apart))
  BY PushRuns DEF Lives
<1>3. Runs(X, Alloc,
           Facts(h + 1, on \union {<<h + 1, v>>}, in, {v}, made \union {v}, apart),
           Facts(h + 1, on \union {<<h + 1, v>>}, in, {}, made \union {v}, apart))
  BY AllocRuns
<1>4. Runs(X, <<[do |-> "enter", v |-> v]>>,
           Facts(h + 1, on \union {<<h + 1, v>>}, in, {}, made \union {v}, apart),
           Facts(h + 1, on \union {<<h + 1, v>>}, in, {v}, made, apart))
  BY EnterRuns DEF Lives
<1>5. Runs(X, Pop,
           Facts(h + 1, on \union {<<h + 1, v>>}, in, {v}, made, apart),
           Facts(h, on, in, {v}, made, apart))
  <2>1. PICK g : g = h + 1
    OBVIOUS
  <2>2. /\ g \in Nat /\ g >= 1 /\ h = g - 1
        /\ \A j, u : <<j, u>> \in on => <<j, u>> \in on \union {<<g, v>>} /\ j # g
    BY <2>1 DEF Room
  <2>3. \A u \in {v} : Lives(u, on \union {<<g, v>>}, in, {v})
    BY DEF Lives
  <2>4. Runs(X, Pop,
             Facts(g, on \union {<<g, v>>}, in, {v}, made, apart),
             Facts(h, on, in, {v}, made, apart))
    BY <2>2, <2>3, PopRuns
  <2> QED
    BY <2>1, <2>4
<1> QED
  BY <1>1, <1>2, <1>3, <1>4, <1>5, Then DEF AllocStr

LEMMA TakeStrRuns ==
    ASSUME NEW X, NEW v, NEW h, NEW on, NEW in, NEW live, NEW made, NEW apart,
           Room(h, on), Fresh(v, on, in, made, apart)
    PROVE  Runs(X, TakeStr(v), Facts(h, on, in, live, made, apart),
                               Facts(h, on, in, {v}, made, apart))
<1> QED
  BY AllocStrRuns, UnlessRuns DEF TakeStr

LEMMA CopyStrRuns ==
    ASSUME NEW X, NEW v, NEW h, NEW on, NEW in, NEW live, NEW made, NEW apart,
           Room(h, on), Fresh(v, on, in, made, apart)
    PROVE  Runs(X, CopyStr(v), Facts(h, on, in, live, made, apart),
                               Facts(h, on, in, {v}, made, apart))
<1>1. Runs(X, Alloc \o AllocStr(v), Facts(h, on, in, live, made, apart),
                                    Facts(h, on, in, {v}, made, apart))
  BY AllocRuns, AllocStrRuns, Then
<1> QED
  BY <1>1, UnlessRuns DEF CopyStr

\* The text of w is read twice: w is on the stack, or one of those that
\* are not protected.
LEMMA CopyOfRuns ==
    ASSUME NEW X, NEW v, NEW w, NEW h, NEW on, NEW in, NEW live, NEW made, NEW apart,
           Room(h, on), Fresh(v, on, in, made, apart),
           Lives(w, on, in, live) \/ w \in X,
           On(w, on) \/ w \in X
    PROVE  Runs(X, CopyOf(v, w),
                Facts(h, on, in, live, made, apart), Facts(h, on, in, {v}, made, apart))
<1>1. Runs(X, Use(w),
           Facts(h, on, in, live, made, apart),
           Facts(h, on, in, live, made, apart))
  BY UseRuns DEF Lives
<1>2. Runs(X, Alloc, Facts(h, on, in, live, made, apart), Facts(h, on, in, {}, made, apart))
  BY AllocRuns
<1>3. Runs(X, Use(w), Facts(h, on, in, {}, made, apart), Facts(h, on, in, {}, made, apart))
  BY UseRuns DEF Lives, On
<1>4. Runs(X, AllocStr(v),
           Facts(h, on, in, {}, made, apart),
           Facts(h, on, in, {v}, made, apart))
  BY AllocStrRuns
<1>5. Runs(X, Unless(v, Alloc \o Use(w) \o AllocStr(v)),
           Facts(h, on, in, live, made, apart),
           Facts(h, on, in, {v}, made, apart))
  BY <1>2, <1>3, <1>4, Then, UnlessRuns
<1> QED
  BY <1>1, <1>5, Then DEF CopyOf

LEMMA StrFmtRuns ==
    ASSUME NEW X, NEW v, NEW name, NEW h, NEW on, NEW in, NEW live, NEW made, NEW apart,
           Room(h, on), Fresh(v, on, in, made, apart), On(name, on)
    PROVE  Runs(X, StrFmt(v, name),
                Facts(h, on, in, live, made, apart), Facts(h, on, in, {v}, made, apart))
<1>1. Runs(X, Use(name),
           Facts(h, on, in, live, made, apart),
           Facts(h, on, in, live, made, apart))
  BY UseRuns DEF Lives, On
<1>2. Runs(X, Alloc, Facts(h, on, in, live, made, apart), Facts(h, on, in, {}, made, apart))
  BY AllocRuns
<1>3. Runs(X, Use(name),
           Facts(h, on, in, {}, made, apart),
           Facts(h, on, in, {}, made, apart))
  BY UseRuns DEF Lives, On
<1>4. Runs(X, TakeStr(v),
           Facts(h, on, in, {}, made, apart),
           Facts(h, on, in, {v}, made, apart))
  BY TakeStrRuns
<1> QED
  BY <1>1, <1>2, <1>3, <1>4, Then DEF StrFmt

LEMMA SimpleToStrRuns ==
    ASSUME NEW X, NEW v, NEW w, NEW h, NEW on, NEW in, NEW live, NEW made, NEW apart,
           Room(h, on), Fresh(v, on, in, made, apart), On(w, on), v # "name",
           Fresh("name", on, in, made, apart)
    PROVE  Runs(X, SimpleToStr(v, w),
                Facts(h, on, in, live, made, apart), Facts(h, on, in, {v}, made, apart))
<1>0. PICK k : <<k, w>> \in on
  BY DEF On
<1>1. Runs(X, Get("name", w),
           Facts(h, on, in, live, made, apart),
           Facts(h, on \union {<<k, "name">>}, in, live, made, apart))
  BY <1>0, GetRuns DEF Fresh, Lives
<1>2. Runs(X, StrFmt(v, "name"),
           Facts(h, on \union {<<k, "name">>}, in, live, made, apart),
           Facts(h, on \union {<<k, "name">>}, in, {v}, made, apart))
  <2>1. Room(h, on \union {<<k, "name">>}) /\ Fresh(v, on \union {<<k, "name">>}, in, made, apart)
          /\ On("name", on \union {<<k, "name">>})
    BY <1>0 DEF Room, Fresh, On
  <2> QED
    BY <2>1, StrFmtRuns
<1>3. Runs(X, Leave({"name"}),
           Facts(h, on \union {<<k, "name">>}, in, {v}, made, apart),
           Facts(h, on, in, {v}, made, apart))
  BY LeaveRuns DEF Fresh, Lives
<1>4. Runs(X, Get("name", w) \o StrFmt(v, "name") \o Leave({"name"}),
           Facts(h, on, in, live, made, apart),
           Facts(h, on, in, {v}, made, apart))
  BY <1>1, <1>2, <1>3, Then
<1>5. Runs(X, CopyStr(v),
           Facts(h, on, in, live, made, apart),
           Facts(h, on, in, {v}, made, apart))
  BY CopyStrRuns
<1> QED
  BY <1>4, <1>5, RunsEither, IfStringRuns DEF SimpleToStr

\* The text of an element is used when chars may have grown.
LEMMA ArrToStrRuns ==
    ASSUME NEW X, NEW v, NEW w, NEW h, NEW on, NEW in, NEW live, NEW made, NEW apart,
           Room(h, on), Fresh(v, on, in, made, apart), On(w, on), "str" \in X,
           \A u \in {"elem", "str", "name"} : Fresh(u, on, in, made, apart)
    PROVE  Runs(X, ArrToStr(v, w),
                Facts(h, on, in, live, made, apart), Facts(h, on, in, {v}, made, apart))
<1>0. PICK k : <<k, w>> \in on
  BY DEF On
<1>a. /\ Room(h, on \union {<<k, "elem">>}) /\ On("elem", on \union {<<k, "elem">>})
      /\ \A u \in {"str", "name"} : Fresh(u, on \union {<<k, "elem">>}, in, made, apart)
  BY <1>0 DEF Room, Fresh, On
<1>b. Weaker(Facts(h, on \union {<<k, "elem">>}, in, {"str"}, made, apart),
             Facts(h, on \union {<<k, "elem">>}, in, {}, made, apart))
  BY DEF Weaker, Facts
<1>1. Runs(X, Get("elem", w),
           Facts(h, on, in, {}, made, apart),
           Facts(h, on \union {<<k, "elem">>}, in, {}, made, apart))
  BY <1>0, GetRuns DEF Fresh, Lives
<1>2. Runs(X, SimpleToStr("str", "elem"),
           Facts(h, on \union {<<k, "elem">>}, in, {}, made, apart),
           Facts(h, on \union {<<k, "elem">>}, in, {"str"}, made, apart))
  BY <1>a, SimpleToStrRuns
<1>3. Runs(X, Maybe(Alloc),
           Facts(h, on \union {<<k, "elem">>}, in, {"str"}, made, apart),
           Facts(h, on \union {<<k, "elem">>}, in, {}, made, apart))
  BY AllocRuns, RunsMaybe, <1>b
<1>4. Runs(X, Use("str"),
           Facts(h, on \union {<<k, "elem">>}, in, {}, made, apart),
           Facts(h, on \union {<<k, "elem">>}, in, {}, made, apart))
  BY UseRuns
<1>5. Runs(X, Leave({"elem", "str"}),
           Facts(h, on \union {<<k, "elem">>}, in, {}, made, apart),
           Facts(h, on, in, {}, made, apart))
  BY LeaveRuns DEF Fresh
<1>6. Runs(X, Get("elem", w) \o SimpleToStr("str", "elem") \o Maybe(Alloc) \o Use("str")
              \o Leave({"elem", "str"}),
           Facts(h, on, in, {}, made, apart),
           Facts(h, on, in, {}, made, apart))
  <2>1. Runs(X, Get("elem", w) \o SimpleToStr("str", "elem") \o Maybe(Alloc),
             Facts(h, on, in, {}, made, apart),
             Facts(h, on \union {<<k, "elem">>}, in, {}, made, apart))
    BY <1>1, <1>2, <1>3, Then
  <2> QED
    BY <2>1, <1>4, <1>5, Then
<1>7. Runs(X, Alloc, Facts(h, on, in, live, made, apart), Facts(h, on, in, {}, made, apart))
  BY AllocRuns
<1>8. Runs(X, CopyStr(v),
           Facts(h, on, in, {}, made, apart),
           Facts(h, on, in, {v}, made, apart))
  BY CopyStrRuns
<1> QED
  BY <1>6, <1>7, <1>8, RunsLoop, Then DEF ArrToStr

LEMMA ToStrRuns ==
    ASSUME NEW X, NEW v, NEW w, NEW h, NEW on, NEW in, NEW live, NEW made, NEW apart,
           Room(h, on), Fresh(v, on, in, made, apart), On(w, on), "str" \in X,
           v \notin {"elem", "str", "name"},
           \A u \in {"elem", "str", "name"} : Fresh(u, on, in, made, apart)
    PROVE  Runs(X, ToStr(v, w), Facts(h, on, in, live, made, apart),
                                Facts(h, on, in, {v}, made, apart))
<1>1. Runs(X, SimpleToStr(v, w), Facts(h, on, in, live, made, apart),
                                 Facts(h, on, in, {v}, made, apart))
  BY SimpleToStrRuns
<1>2. Runs(X, ArrToStr(v, w), Facts(h, on, in, live, made, apart),
                              Facts(h, on, in, {v}, made, apart))
  BY ArrToStrRuns
<1> QED
  BY <1>1, <1>2, RunsEither, IfStringRuns DEF ToStr

LEMMA RunsNothing == ASSUME NEW X, NEW x PROVE Runs(X, <<>>, x, x)
<1> DEFINE c == [i \in {1} |-> x]
<1>1. c[1] = x
  OBVIOUS
<1> HIDE DEF c
<1>2. <<>> \in Seq({}) /\ Len(<<>>) = 0
  OBVIOUS
<1>3. Follows(X, <<>>, c)
  BY <1>2 DEF Follows
<1> QED
  BY <1>1, <1>2, <1>3, WeakerIs DEF Runs, IsSeq

LEMMA GetNameOrRuns ==
    ASSUME NEW X, NEW v, NEW w, NEW h, NEW on, NEW in, NEW live, NEW made, NEW apart,
           Room(h, on), Fresh(v, on, in, made, apart), On(w, on)
    PROVE  Runs(X, GetNameOr(v, w), Facts(h, on, in, live, made, apart),
                                    Facts(h, on, in, {v}, made, apart))
<1>1. Runs(X, CopyStr(v),
           Facts(h, on, in, live, made, apart),
           Facts(h, on, in, {v}, made, apart))
  BY CopyStrRuns
<1>2. Runs(X, Get(v, w),
           Facts(h, on, in, live, made, apart),
           Facts(h, on, in, {v}, made, apart))
  BY GetRuns DEF Fresh, Lives, On
<1> QED
  BY <1>1, <1>2, RunsEither DEF GetNameOr

\* The map, the key and the item are all protected while the table grows.
LEMMA SetMapRuns ==
    ASSUME NEW X, NEW v, NEW k, NEW val, NEW h, NEW on, NEW in, NEW live, NEW made, NEW apart,
           Lives(v, on, in, {}), Lives(k, on, in, {}), Lives(val, on, in, {})
    PROVE  Runs(X, SetMap(v, k, val),
                Facts(h, on, in, live, made, apart), Facts(h, on, in, {}, made, apart))
<1>1. Runs(X, Alloc, Facts(h, on, in, live, made, apart), Facts(h, on, in, {}, made, apart))
  BY AllocRuns
<1>2. Runs(X, Link(v, k),
           Facts(h, on, in, {}, made, apart),
           Facts(h, on, in, {}, made, apart))
  BY LinkRuns
<1>3. Runs(X, Link(v, val),
           Facts(h, on, in, {}, made, apart),
           Facts(h, on, in, {}, made, apart))
  BY LinkRuns
<1> QED
  BY <1>1, <1>2, <1>3, Then DEF SetMap

LEMMA CreateClosureRuns ==
    ASSUME NEW X, NEW v, NEW fn, NEW h, NEW on, NEW in, NEW live, NEW made, NEW apart,
           Fresh(v, on, in, made, apart),
           Lives(fn, on, in, {})
    PROVE  Runs(X, CreateClosure(v, fn),
                Facts(h, on, in, live, made, apart), Facts(h, on, in, {v}, made, apart))
<1>1. Runs(X, Use(fn),
           Facts(h, on, in, live, made, apart),
           Facts(h, on, in, {}, made, apart))
  BY UseRuns DEF Lives
<1>2. Runs(X, Alloc, Facts(h, on, in, {}, made, apart), Facts(h, on, in, {}, made, apart))
  BY AllocRuns
<1>3. Runs(X, New(v, {fn}),
           Facts(h, on, in, {}, made, apart),
           Facts(h, on, in, {v}, made, apart))
  BY NewRuns DEF Fresh
<1> QED
  BY <1>1, <1>2, <1>3, Then DEF CreateClosure

LEMMA CreateConstRuns ==
    ASSUME NEW X, NEW fn, NEW val, NEW h, NEW on, NEW in, NEW live, NEW made, NEW apart,
           Room(h, on), fn \in in, Lives(val, on, in, live) \/ val \in X
    PROVE  Runs(X, CreateConst(fn, val),
                Facts(h, on, in, live, made, apart), Facts(h, on, in, {}, made, apart))
<1>g. PICK g : g = h + 1
  OBVIOUS
<1>0. /\ g = h + 1 /\ g \in Nat /\ g >= 1 /\ h = g - 1
      /\ \A j, u : <<j, u>> \in on => <<j, u>> \in on \union {<<g, val>>} /\ j # g
  BY <1>g DEF Room
<1>1. Runs(X, Push(val),
           Facts(h, on, in, live, made, apart),
           Facts(g, on \union {<<g, val>>}, in, {}, made, apart))
  BY <1>0, PushRuns
<1>2. Runs(X, Alloc,
           Facts(g, on \union {<<g, val>>}, in, {}, made, apart),
           Facts(g, on \union {<<g, val>>}, in, {}, made, apart))
  BY AllocRuns
<1>3. Runs(X, Link(fn, val),
           Facts(g, on \union {<<g, val>>}, in, {}, made, apart),
           Facts(g, on \union {<<g, val>>}, in, {}, made, apart))
  BY LinkRuns DEF Lives
<1>4. Runs(X, Pop,
           Facts(g, on \union {<<g, val>>}, in, {}, made, apart),
           Facts(h, on, in, {}, made, apart))
  BY <1>0, PopRuns
<1> QED
  BY <1>1, <1>2, <1>3, <1>4, Then DEF CreateConst

\* The function is a root when its name is made, and is none of the functions
\* that were roots before.
LEMMA InitCompilerRuns ==
    ASSUME NEW X, NEW fn, NEW named, NEW h, NEW on, NEW in, NEW live, NEW made, NEW apart,
        NEW apart2,
           Room(h, on), fn \notin {"path", "fn_name"},
           \A u \in {fn, "path", "fn_name"} : Fresh(u, on, in, made, apart),
           apart \subseteq apart2,
           \A u, w : <<u, w>> \in apart2 => <<u, w>> \in apart \/ (w = fn /\ u \in in)
    PROVE  Runs(X, InitCompiler(fn, named),
                Facts(h, on, in, live, made, apart),
                Facts(h, on, in \union {fn}, {}, made, apart2))
<1>g. PICK g : g = h + 1
  OBVIOUS
<1>0. /\ g = h + 1 /\ g \in Nat /\ g >= 1 /\ h = g - 1
      /\ \A j, u : <<j, u>> \in on => <<j, u>> \in on \union {<<g, "path">>} /\ j # g
  BY <1>g DEF Room
<1>a. Fresh(fn, on \union {<<g, "path">>}, in, made, apart)
  BY DEF Fresh
<1>b. Fresh("fn_name", on, in \union {fn}, made, apart2)
  BY DEF Fresh
<1>1. Runs(X, CopyStr("path"),
           Facts(h, on, in, live, made, apart),
           Facts(h, on, in, {"path"}, made, apart))
  BY CopyStrRuns
<1>2. Runs(X, Push("path"),
           Facts(h, on, in, {"path"}, made, apart),
           Facts(g, on \union {<<g, "path">>}, in, {}, made, apart))
  BY <1>0, PushRuns DEF Lives
<1>3. Runs(X, New(fn, {"path"}),
           Facts(g, on \union {<<g, "path">>}, in, {}, made, apart),
           Facts(g, on \union {<<g, "path">>}, in, {fn}, made, apart2))
  <2>1. \A u \in {"path"} : Lives(u, on \union {<<g, "path">>}, in, {})
    BY DEF Lives
  <2>2. \A u, w : <<u, w>> \in apart2 =>
            u # fn /\ IF w = fn THEN Lives(u, on \union {<<g, "path">>}, in, {}) ELSE <<u,
                w>> \in apart
    BY DEF Fresh, Lives
  <2> QED
    BY <1>a, <2>1, <2>2, NewRuns
<1>4. Runs(X, Pop,
           Facts(g, on \union {<<g, "path">>}, in, {fn}, made, apart2),
           Facts(h, on, in, {fn}, made, apart2))
  BY <1>0, PopRuns DEF Lives
<1>5. Runs(X, Keep(fn),
           Facts(h, on, in, {fn}, made, apart2),
           Facts(h, on, in \union {fn}, {}, made, apart2))
  BY KeepRuns DEF Lives
<1>6. Runs(X, IF named THEN CopyStr("fn_name") \o Link(fn, "fn_name") ELSE <<>>,
           Facts(h, on, in \union {fn}, {}, made, apart2),
           Facts(h, on, in \union {fn}, {}, made, apart2))
  <2>1. Runs(X, CopyStr("fn_name"), Facts(h, on, in \union {fn}, {}, made, apart2),
           Facts(h, on, in \union {fn}, {"fn_name"}, made, apart2))
    BY <1>b, CopyStrRuns
  <2>2. Runs(X, Link(fn, "fn_name"),
             Facts(h, on, in \union {fn}, {"fn_name"}, made, apart2),
             Facts(h, on, in \union {fn}, {}, made, apart2))
    BY LinkRuns DEF Lives
  <2> QED
    BY <2>1, <2>2, Then, RunsNothing
<1>7. Runs(X, Leave({"path", "fn_name"}), Facts(h, on, in \union {fn}, {}, made, apart2),
           Facts(h, on, in \union {fn}, {}, made, apart2))
  <2>1. made \intersect {"path", "fn_name"} = {}
    BY DEF Fresh
  <2>2. \A u, w : <<u, w>> \in apart2 =>
            u \notin {"path", "fn_name"} /\ w \notin {"path", "fn_name"}
    BY DEF Fresh
  <2> QED
    BY <2>1, <2>2, LeaveRuns
<1>8. Runs(X, CopyStr("path") \o Push("path") \o New(fn, {"path"}),
           Facts(h, on, in, live, made, apart),
           Facts(g, on \union {<<g, "path">>}, in, {fn}, made, apart2))
  BY <1>1, <1>2, <1>3, Then
<1>9. Runs(X, CopyStr("path") \o Push("path") \o New(fn, {"path"}) \o Pop \o Keep(fn),
           Facts(h, on, in, live, made, apart),
           Facts(h, on, in \union {fn}, {}, made, apart2))
  BY <1>4, <1>5, <1>8, Then
<1> QED
  BY <1>6, <1>7, <1>9, Then DEF InitCompiler

LEMMA IdentConstRuns ==
    ASSUME NEW X, NEW fn, NEW h, NEW on, NEW in, NEW live, NEW made, NEW apart,
           Room(h, on), fn \in in, Fresh("ident", on, in, made, apart)
    PROVE  Runs(X, IdentConst(fn),
                Facts(h, on, in, live, made, apart), Facts(h, on, in, {}, made, apart))
<1>1. Runs(X, CopyStr("ident"),
           Facts(h, on, in, live, made, apart),
           Facts(h, on, in, {"ident"}, made, apart))
  BY CopyStrRuns
<1>2. Runs(X, CreateConst(fn, "ident"),
           Facts(h, on, in, {"ident"}, made, apart),
           Facts(h, on, in, {}, made, apart))
  BY CreateConstRuns DEF Lives
<1>3. Runs(X, Leave({"ident"}),
           Facts(h, on, in, {}, made, apart),
           Facts(h, on, in, {}, made, apart))
  BY LeaveRuns DEF Fresh
<1> QED
  BY <1>1, <1>2, <1>3, Then DEF IdentConst

LEMMA StringConstRuns ==
    ASSUME NEW X, NEW fn, NEW h, NEW on, NEW in, NEW live, NEW made, NEW apart,
           Room(h, on), fn \in in, Fresh("tok", on, in, made, apart), "tok" \in X
    PROVE  Runs(X, StringConst(fn),
                Facts(h, on, in, live, made, apart), Facts(h, on, in, {}, made, apart))
<1>1. Runs(X, CopyStr("tok"),
           Facts(h, on, in, live, made, apart),
           Facts(h, on, in, {"tok"}, made, apart))
  BY CopyStrRuns
<1>2. Runs(X, Maybe(Alloc),
           Facts(h, on, in, {"tok"}, made, apart),
           Facts(h, on, in, {}, made, apart))
  <2>1. Weaker(Facts(h, on, in, {"tok"}, made, apart), Facts(h, on, in, {}, made, apart))
    BY DEF Weaker, Facts
  <2> QED
    BY <2>1, AllocRuns, RunsMaybe
<1>3. Runs(X, CreateConst(fn, "tok"),
           Facts(h, on, in, {}, made, apart),
           Facts(h, on, in, {}, made, apart))
  BY CreateConstRuns DEF Lives
<1>4. Runs(X, Leave({"tok"}),
           Facts(h, on, in, {}, made, apart),
           Facts(h, on, in, {}, made, apart))
  BY LeaveRuns DEF Fresh
<1> QED
  BY <1>1, <1>2, <1>3, <1>4, Then DEF StringConst

\* The text is what a method returned, or that of the value.
LEMMA ObjToStringRuns ==
    ASSUME NEW X, NEW v, NEW w, NEW h, NEW on, NEW in, NEW live, NEW made, NEW apart,
           Room(h, on), On(w, on), "str" \in X,
           v \notin {"prop", "elem", "str", "name"},
           \A u \in {v, "prop", "elem", "str", "name"} : Fresh(u, on, in, made, apart)
    PROVE  Runs(X, ObjToString(v, w),
                Facts(h, on, in, live, made, apart), Facts(h, on, in, {v}, made, apart))
<1>g. PICK g : g = h + 1
  OBVIOUS
<1>a. /\ g = h + 1 /\ g \in Nat /\ g >= 1 /\ h = g - 1 /\ g - 0 = g /\ 0 < g
      /\ \A u : \A j, y : <<j, y>> \in on => <<j, y>> \in on \union {<<g, u>>} /\ j # g
      /\ \A u : Room(g, on \union {<<g, u>>})
  BY <1>g DEF Room
<1>b. \A u \in {v, "prop"} : Fresh(u, on \union {<<g, w>>}, in, made, apart)
  <2>1. PICK j : <<j, w>> \in on
    BY DEF On
  <2>2. w \notin {v, "prop"}
    BY <2>1 DEF Fresh
  <2> QED
    BY <2>2 DEF Fresh
<1>c. Lives(w, on, in, {})
  BY DEF On, Lives
<1>0. Runs(X, CopyStr("prop") \o Use("prop") \o Leave({"prop"}),
           Facts(h, on, in, live, made, apart),
           Facts(h, on, in, {}, made, apart))
  <2>1. Runs(X, CopyStr("prop"),
             Facts(h, on, in, live, made, apart),
             Facts(h, on, in, {"prop"}, made, apart))
    BY CopyStrRuns
  <2>2. Runs(X, Use("prop"),
             Facts(h, on, in, {"prop"}, made, apart),
             Facts(h, on, in, {}, made, apart))
    BY UseRuns DEF Lives
  <2>3. Runs(X, Leave({"prop"}),
             Facts(h, on, in, {}, made, apart),
             Facts(h, on, in, {}, made, apart))
    BY LeaveRuns DEF Fresh
  <2> QED
    BY <2>1, <2>2, <2>3, Then
<1>1. Runs(X, Push(w),
           Facts(h, on, in, {}, made, apart),
           Facts(g, on \union {<<g, w>>}, in, {}, made, apart))
  BY <1>a, <1>c, PushRuns
<1>2. Runs(X, CopyStr("prop"),
           Facts(g, on \union {<<g, w>>}, in, {}, made, apart),
           Facts(g, on \union {<<g, w>>}, in, {"prop"}, made, apart))
  BY <1>a, <1>b, CopyStrRuns
<1>3. Runs(X, Use("prop"),
           Facts(g, on \union {<<g, w>>}, in, {"prop"}, made, apart),
           Facts(g, on \union {<<g, w>>}, in, {}, made, apart))
  BY UseRuns DEF Lives
<1>4. Runs(X, Leave({"prop"}),
           Facts(g, on \union {<<g, w>>}, in, {}, made, apart),
           Facts(g, on \union {<<g, w>>}, in, {}, made, apart))
  BY LeaveRuns DEF Fresh
<1>5. Runs(X, CopyStr(v),
           Facts(g, on \union {<<g, w>>}, in, {}, made, apart),
           Facts(g, on \union {<<g, w>>}, in, {v}, made, apart))
  BY <1>a, <1>b, CopyStrRuns
<1>6. Runs(X, Pop,
           Facts(g, on \union {<<g, w>>}, in, {v}, made, apart),
           Facts(h, on, in, {v}, made, apart))
  BY <1>a, PopRuns DEF Lives
<1>7. Runs(X, Push(v),
           Facts(h, on, in, {v}, made, apart),
           Facts(g, on \union {<<g, v>>}, in, {}, made, apart))
  BY <1>a, PushRuns DEF Lives
<1>8. Runs(X, PopTo(v),
           Facts(g, on \union {<<g, v>>}, in, {}, made, apart),
           Facts(h, on, in, {v}, made, apart))
  <2>1. Runs(X, Peek(v, 0),
             Facts(g, on \union {<<g, v>>}, in, {}, made, apart),
             Facts(g, on \union {<<g, v>>}, in, {}, made, apart))
    <3>1. \A j, u : <<j, u>> \in on \union {<<g, v>>} =>
              (<<j, u>> \in on \union {<<g, v>>} /\ u # v) \/ (j = g - 0 /\ u = v)
      BY <1>a DEF Fresh
    <3>2. v \notin made /\ v \notin in /\ \A u : <<u, v>> \notin apart /\ <<v, u>> \notin apart
      BY DEF Fresh
    <3> QED
      BY <1>a, <3>1, <3>2, PeekRuns
  <2>2. Runs(X, Pop,
             Facts(g, on \union {<<g, v>>}, in, {}, made, apart),
             Facts(h, on, in, {v}, made, apart))
    BY <1>a, PopRuns DEF Lives
  <2> QED
    BY <2>1, <2>2, Then DEF PopTo
<1>9. Runs(X, Push(w) \o CopyStr("prop") \o Use("prop") \o Leave({"prop"}),
           Facts(h, on, in, {}, made, apart),
           Facts(g, on \union {<<g, w>>}, in, {}, made, apart))
  BY <1>1, <1>2, <1>3, <1>4, Then
<1>10. Runs(X, Push(w) \o CopyStr("prop") \o Use("prop") \o Leave({"prop"}) \o CopyStr(v)
               \o Pop \o Push(v) \o PopTo(v),
            Facts(h, on, in, {}, made, apart),
            Facts(h, on, in, {v}, made, apart))
  BY <1>5, <1>6, <1>7, <1>8, <1>9, Then
<1>11. Runs(X, ToStr(v, w),
            Facts(h, on, in, {}, made, apart),
            Facts(h, on, in, {v}, made, apart))
  BY ToStrRuns
<1> QED
  BY <1>0, <1>10, <1>11, RunsEither, Then DEF ObjToString

-----------------------------------------------------------------------------
(* The operations.                                                          *)

At(h, on, in, live) == Facts(h, on, in, live, {}, {})

LEMMA bc_const_runs ==
    ASSUME NEW X
    PROVE  Runs(X, bc_const, At(0, {}, {}, {}), At(1, {}, {}, {}))
<1>1. Runs(X, Const("val"), At(0, {}, {}, {}), At(0, {}, {"val"}, {}))
  BY ConstRuns DEF At, Lives
<1>2. Runs(X, Push("val"), At(0, {}, {"val"}, {}), At(1, {}, {"val"}, {}))
  BY PushRuns DEF At, Lives
<1>3. Runs(X, Const("val") \o Push("val"), At(0, {}, {}, {}), At(1, {}, {"val"}, {}))
  BY <1>1, <1>2, Then
<1>4. Weaker(At(1, {}, {"val"}, {}), At(1, {}, {}, {}))
  BY DEF Weaker, At, Facts
<1> QED
  BY <1>3, <1>4, WeakerIs, RunsWeaker DEF bc_const

LEMMA bc_null_runs ==
    ASSUME NEW X
    PROVE  Runs(X, bc_null, At(0, {}, {"null"}, {}), At(1, {}, {}, {}))
<1>1. Runs(X, Push("null"), At(0, {}, {"null"}, {}), At(1, {}, {"null"}, {}))
  BY PushRuns DEF At, Lives
<1>2. Weaker(At(1, {}, {"null"}, {}), At(1, {}, {}, {}))
  BY DEF Weaker, At, Facts
<1> QED
  BY <1>1, <1>2, WeakerIs, RunsWeaker DEF bc_null

LEMMA bc_def_global_runs ==
    ASSUME NEW X
    PROVE  Runs(X, bc_def_global, At(1, {}, {}, {}), At(0, {}, {}, {}))
<1>1. Runs(X, Const("name"), At(1, {}, {}, {}), At(1, {}, {"name"}, {}))
  BY ConstRuns DEF At, Lives
<1>2. Runs(X, Peek("val", 0), At(1, {}, {"name"}, {}), At(1, {<<1, "val">>}, {"name"}, {}))
  BY PeekRuns DEF At, Lives
<1>3. Runs(X, Alloc,
           At(1, {<<1, "val">>}, {"name"}, {}),
           At(1, {<<1, "val">>}, {"name"}, {}))
  BY AllocRuns DEF At
<1>4. Runs(X, Keep("name"),
           At(1, {<<1, "val">>}, {"name"}, {}),
           At(1, {<<1, "val">>}, {}, {}))
  BY KeepRuns DEF At, Lives
<1>5. Runs(X, Const("name") \o Peek("val", 0) \o Alloc \o Keep("name"),
           At(1, {}, {}, {}),
           At(1, {<<1, "val">>}, {}, {}))
  BY <1>1, <1>2, <1>3, <1>4, Then
<1>6. Runs(X, Keep("val"), At(1, {<<1, "val">>}, {}, {}), At(1, {<<1, "val">>}, {}, {}))
  BY KeepRuns DEF At, Lives
<1>7. Runs(X, Pop, At(1, {<<1, "val">>}, {}, {}), At(0, {}, {}, {}))
  <2>1. 1 \in Nat /\ 1 >= 1 /\ 0 = 1 - 1
    OBVIOUS
  <2> QED
    BY <2>1, PopRuns DEF At
<1> QED
  BY <1>5, <1>6, <1>7, Then DEF bc_def_global

LEMMA bc_array_runs ==
    ASSUME NEW X
    PROVE  Runs(X, bc_array, At(0, {}, {}, {}), At(1, {}, {}, {}))
<1>1. Runs(X, New("arr", {}), At(0, {}, {}, {}), At(0, {}, {}, {"arr"}))
  BY NewRuns DEF At, Fresh, Lives
<1>2. Runs(X, Push("arr"), At(0, {}, {}, {"arr"}), At(1, {}, {}, {}))
  BY PushRuns DEF At, Lives
<1> QED
  BY <1>1, <1>2, Then DEF bc_array

LEMMA bc_array_item_runs ==
    ASSUME NEW X
    PROVE  Runs(X, bc_array_item, At(2, {}, {}, {}), At(1, {}, {}, {}))
<1>1. Runs(X, Peek("arr", 1), At(2, {}, {}, {}), At(2, {<<1, "arr">>}, {}, {}))
  BY PeekRuns DEF At, Lives
<1>2. Runs(X, Peek("val", 0),
           At(2, {<<1, "arr">>}, {}, {}),
           At(2, {<<1, "arr">>, <<2, "val">>}, {}, {}))
  BY PeekRuns DEF At, Lives
<1>3. Runs(X, Alloc,
           At(2, {<<1, "arr">>, <<2, "val">>}, {}, {}),
           At(2, {<<1, "arr">>, <<2, "val">>}, {}, {}))
  BY AllocRuns DEF At
<1>4. Runs(X, Link("arr", "val"),
           At(2, {<<1, "arr">>, <<2, "val">>}, {}, {}),
           At(2, {<<1, "arr">>, <<2, "val">>}, {}, {}))
  BY LinkRuns DEF At, Lives
<1>5. Runs(X, Peek("arr", 1) \o Peek("val", 0) \o Alloc \o Link("arr", "val"),
           At(2, {}, {}, {}),
           At(2, {<<1, "arr">>, <<2, "val">>}, {}, {}))
  BY <1>1, <1>2, <1>3, <1>4, Then
<1>6. Runs(X, Pop, At(2, {<<1, "arr">>, <<2, "val">>}, {}, {}), At(1, {}, {}, {}))
  <2>1. 2 \in Nat /\ 2 >= 1 /\ 1 = 2 - 1
    OBVIOUS
  <2> QED
    BY <2>1, PopRuns DEF At
<1> QED
  BY <1>5, <1>6, Then DEF bc_array_item

LEMMA bc_set_prop_runs ==
    ASSUME NEW X
    PROVE  Runs(X, bc_set_prop, At(2, {}, {}, {}), At(1, {}, {}, {}))
<1>1. Runs(X, Peek("inst", 1), At(2, {}, {}, {}), At(2, {<<1, "inst">>}, {}, {}))
  BY PeekRuns DEF At, Lives
<1>2. Runs(X, Const("name"),
           At(2, {<<1, "inst">>}, {}, {}),
           At(2, {<<1, "inst">>}, {"name"}, {}))
  BY ConstRuns DEF At, Lives
<1>3. Runs(X, Peek("val", 0),
           At(2, {<<1, "inst">>}, {"name"}, {}),
           At(2, {<<1, "inst">>, <<2, "val">>}, {"name"}, {}))
  BY PeekRuns DEF At, Lives
<1>4. Runs(X, SetMap("inst", "name", "val"),
           At(2, {<<1, "inst">>, <<2, "val">>}, {"name"}, {}),
           At(2, {<<1, "inst">>, <<2, "val">>}, {"name"}, {}))
  <2>1. Lives("inst", {<<1, "inst">>, <<2, "val">>}, {"name"}, {})
    BY DEF Lives
  <2>2. Lives("name", {<<1, "inst">>, <<2, "val">>}, {"name"}, {})
    BY DEF Lives
  <2>3. Lives("val", {<<1, "inst">>, <<2, "val">>}, {"name"}, {})
    BY DEF Lives
  <2> QED
    BY <2>1, <2>2, <2>3, SetMapRuns DEF At
<1>5. Runs(X, Peek("inst", 1) \o Const("name") \o Peek("val", 0)
              \o SetMap("inst", "name", "val"),
           At(2, {}, {}, {}),
           At(2, {<<1, "inst">>, <<2, "val">>}, {"name"}, {}))
  BY <1>1, <1>2, <1>3, <1>4, Then
<1>6. Runs(X, PopTo("val"),
           At(2, {<<1, "inst">>, <<2, "val">>}, {"name"}, {}),
           At(1, {}, {}, {"val"}))
  <2>1. Runs(X, Peek("val", 0),
             At(2, {<<1, "inst">>, <<2, "val">>}, {"name"}, {}),
             At(2, {<<2, "val">>}, {}, {}))
    BY PeekRuns DEF At, Lives
  <2>2. Runs(X, Pop, At(2, {<<2, "val">>}, {}, {}), At(1, {}, {}, {"val"}))
    <3>1. 2 \in Nat /\ 2 >= 1 /\ 1 = 2 - 1
      OBVIOUS
    <3>2. \A u \in {"val"} : Lives(u, {<<2, "val">>}, {}, {})
      BY DEF Lives
    <3> QED
      BY <3>1, <3>2, PopRuns DEF At
  <2> QED
    BY <2>1, <2>2, Then DEF PopTo
<1>7. Runs(X, Pop, At(1, {}, {}, {"val"}), At(0, {}, {}, {"val"}))
  <2>1. 1 \in Nat /\ 1 >= 1 /\ 0 = 1 - 1
    OBVIOUS
  <2>2. \A u \in {"val"} : Lives(u, {}, {}, {"val"})
    BY DEF Lives
  <2> QED
    BY <2>1, <2>2, PopRuns DEF At
<1>8. Runs(X, Push("val"), At(0, {}, {}, {"val"}), At(1, {}, {}, {}))
  BY PushRuns DEF At, Lives
<1> QED
  BY <1>5, <1>6, <1>7, <1>8, Then DEF bc_set_prop

LEMMA bc_member_runs ==
    ASSUME NEW X
    PROVE  Runs(X, bc_member, At(2, {}, {}, {}), At(1, {}, {}, {}))
<1>1. Runs(X, Peek("val", 0), At(2, {}, {}, {}), At(2, {<<2, "val">>}, {}, {}))
  BY PeekRuns DEF At, Lives
<1>2. Runs(X, Peek("s", 1),
           At(2, {<<2, "val">>}, {}, {}),
           At(2, {<<1, "s">>, <<2, "val">>}, {}, {}))
  BY PeekRuns DEF At, Lives
<1>3. Runs(X, Const("name"),
           At(2, {<<1, "s">>, <<2, "val">>}, {}, {}),
           At(2, {<<1, "s">>, <<2, "val">>}, {"name"}, {}))
  BY ConstRuns DEF At, Lives
<1>4. Runs(X, SetMap("s", "name", "val"),
           At(2, {<<1, "s">>, <<2, "val">>}, {"name"}, {}),
           At(2, {<<1, "s">>, <<2, "val">>}, {"name"}, {}))
  <2>1. Lives("s", {<<1, "s">>, <<2, "val">>}, {"name"}, {})
    BY DEF Lives
  <2>2. Lives("name", {<<1, "s">>, <<2, "val">>}, {"name"}, {})
    BY DEF Lives
  <2>3. Lives("val", {<<1, "s">>, <<2, "val">>}, {"name"}, {})
    BY DEF Lives
  <2> QED
    BY <2>1, <2>2, <2>3, SetMapRuns DEF At
<1>5. Runs(X, Peek("val", 0) \o Peek("s", 1) \o Const("name") \o SetMap("s", "name", "val"),
           At(2, {}, {}, {}),
           At(2, {<<1, "s">>, <<2, "val">>}, {"name"}, {}))
  BY <1>1, <1>2, <1>3, <1>4, Then
<1>6. Runs(X, Pop, At(2, {<<1, "s">>, <<2, "val">>}, {"name"}, {}), At(1, {}, {"name"}, {}))
  <2>1. 2 \in Nat /\ 2 >= 1 /\ 1 = 2 - 1
    OBVIOUS
  <2> QED
    BY <2>1, PopRuns DEF At
<1>7. Runs(X, Peek("val", 0) \o Peek("s", 1) \o Const("name") \o SetMap("s", "name", "val")
              \o Pop,
           At(2, {}, {}, {}),
           At(1, {}, {"name"}, {}))
  BY <1>5, <1>6, Then
<1>8. Weaker(At(1, {}, {"name"}, {}), At(1, {}, {}, {}))
  BY DEF Weaker, At, Facts
<1> QED
  BY <1>7, <1>8, WeakerIs, RunsWeaker DEF bc_member

LEMMA bc_struct_runs ==
    ASSUME NEW X
    PROVE  Runs(X, bc_struct, At(0, {}, {}, {}), At(1, {}, {}, {}))
<1>1. Runs(X, Const("name"), At(0, {}, {}, {}), At(0, {}, {"name"}, {}))
  BY ConstRuns DEF At, Lives
<1>2. Runs(X, New("s", {"name"}), At(0, {}, {"name"}, {}), At(0, {}, {"name"}, {"s"}))
  BY NewRuns DEF At, Fresh, Lives
<1>3. Runs(X, Push("s"), At(0, {}, {"name"}, {"s"}), At(1, {}, {"name"}, {}))
  BY PushRuns DEF At, Lives
<1>4. Runs(X, Const("name") \o New("s", {"name"}) \o Push("s"),
           At(0, {}, {}, {}),
           At(1, {}, {"name"}, {}))
  BY <1>1, <1>2, <1>3, Then
<1>5. Weaker(At(1, {}, {"name"}, {}), At(1, {}, {}, {}))
  BY DEF Weaker, At, Facts
<1> QED
  BY <1>4, <1>5, WeakerIs, RunsWeaker DEF bc_struct

LEMMA bc_enum_runs ==
    ASSUME NEW X, "_enum" \in X
    PROVE  Runs(X, bc_enum, At(0, {}, {}, {}), At(1, {}, {}, {}))
<1>1. Runs(X, Const("name"), At(0, {}, {}, {}), At(0, {}, {"name"}, {}))
  BY ConstRuns DEF At, Lives
<1>2. Runs(X, Push("name"), At(0, {}, {"name"}, {}), At(1, {<<1, "name">>}, {"name"}, {}))
  BY PushRuns DEF At, Lives
<1>3. Runs(X, New("_enum", {"name"}),
           At(1, {<<1, "name">>}, {"name"}, {}),
           At(1, {<<1, "name">>}, {"name"}, {"_enum"}))
  BY NewRuns DEF At, Fresh, Lives
<1>4. Runs(X, Pop,
           At(1, {<<1, "name">>}, {"name"}, {"_enum"}),
           At(0, {}, {"name"}, {"_enum"}))
  <2>1. 1 \in Nat /\ 1 >= 1 /\ 0 = 1 - 1
    OBVIOUS
  <2>2. \A u \in {"_enum"} : Lives(u, {<<1, "name">>}, {"name"}, {"_enum"})
    BY DEF Lives
  <2> QED
    BY <2>1, <2>2, PopRuns DEF At
<1>5. Runs(X, Const("name") \o Push("name") \o New("_enum", {"name"}) \o Pop,
           At(0, {}, {}, {}),
           At(0, {}, {"name"}, {"_enum"}))
  BY <1>1, <1>2, <1>3, <1>4, Then
<1>6. Runs(X, Loop(Const("name") \o Push("name") \o Alloc \o Link("_enum", "name") \o Pop
              \o Leave({"name"})),
           At(0, {}, {"name"}, {"_enum"}),
           At(0, {}, {}, {"_enum"}))
  <2>1. Runs(X, Const("name") \o Push("name") \o Alloc \o Link("_enum", "name") \o Pop
                \o Leave({"name"}),
             At(0, {}, {}, {"_enum"}),
             At(0, {}, {}, {"_enum"}))
    <3>1. Runs(X, Const("name"), At(0, {}, {}, {"_enum"}), At(0, {}, {"name"}, {"_enum"}))
      BY ConstRuns DEF At, Lives
    <3>2. Runs(X, Push("name"),
               At(0, {}, {"name"}, {"_enum"}),
               At(1, {<<1, "name">>}, {"name"}, {"_enum"}))
      BY PushRuns DEF At, Lives
    <3>3. Runs(X, Alloc,
               At(1, {<<1, "name">>}, {"name"}, {"_enum"}),
               At(1, {<<1, "name">>}, {"name"}, {}))
      BY AllocRuns DEF At
    <3>4. Runs(X, Link("_enum", "name"),
               At(1, {<<1, "name">>}, {"name"}, {}),
               At(1, {<<1, "name">>}, {"name"}, {"_enum"}))
      BY LinkRuns DEF At, Lives
    <3>5. Runs(X, Const("name") \o Push("name") \o Alloc \o Link("_enum", "name"),
               At(0, {}, {}, {"_enum"}),
               At(1, {<<1, "name">>}, {"name"}, {"_enum"}))
      BY <3>1, <3>2, <3>3, <3>4, Then
    <3>6. Runs(X, Pop,
               At(1, {<<1, "name">>}, {"name"}, {"_enum"}),
               At(0, {}, {"name"}, {"_enum"}))
      <4>1. 1 \in Nat /\ 1 >= 1 /\ 0 = 1 - 1
        OBVIOUS
      <4>2. \A u \in {"_enum"} : Lives(u, {<<1, "name">>}, {"name"}, {"_enum"})
        BY DEF Lives
      <4> QED
        BY <4>1, <4>2, PopRuns DEF At
    <3>7. Runs(X, Leave({"name"}), At(0, {}, {"name"}, {"_enum"}), At(0, {}, {}, {"_enum"}))
      BY LeaveRuns DEF At, Lives
    <3> QED
      BY <3>5, <3>6, <3>7, Then
  <2>2. Weaker(At(0, {}, {"name"}, {"_enum"}), At(0, {}, {}, {"_enum"}))
    BY DEF Weaker, At, Facts
  <2> QED
    BY <2>1, <2>2, RunsLoop, WeakerIs, RunsWeaker
<1>7. Runs(X, Push("_enum"), At(0, {}, {}, {"_enum"}), At(1, {}, {}, {}))
  BY PushRuns DEF At, Lives
<1> QED
  BY <1>5, <1>6, <1>7, Then DEF bc_enum

LEMMA bc_inst_runs ==
    ASSUME NEW X, "inst" \in X
    PROVE  Runs(X, bc_inst, At(1, {}, {}, {}), At(1, {}, {}, {}))
<1>1. Runs(X, Peek("s", 0), At(1, {}, {}, {}), At(1, {<<1, "s">>}, {}, {}))
  BY PeekRuns DEF At, Lives
<1>2. Runs(X, CreateInst("inst", "s"),
           At(1, {<<1, "s">>}, {}, {}),
           At(1, {<<1, "s">>}, {}, {"inst"}))
  <2>1. Runs(X, New("inst", {"s"}),
             At(1, {<<1, "s">>}, {}, {}),
             At(1, {<<1, "s">>}, {}, {"inst"}))
    BY NewRuns DEF At, Fresh, Lives
  <2>2. Runs(X, Loop(Get("member", "s") \o Alloc \o Link("inst", "member")
                \o Leave({"member"})),
             At(1, {<<1, "s">>}, {}, {"inst"}),
             At(1, {<<1, "s">>}, {}, {"inst"}))
    <3>1. Runs(X, Get("member", "s"),
               At(1, {<<1, "s">>}, {}, {"inst"}),
               At(1, {<<1, "member">>, <<1, "s">>}, {}, {"inst"}))
      BY GetRuns DEF At, Lives
    <3>2. Runs(X, Alloc,
               At(1, {<<1, "member">>, <<1, "s">>}, {}, {"inst"}),
               At(1, {<<1, "member">>, <<1, "s">>}, {}, {}))
      BY AllocRuns DEF At
    <3>3. Runs(X, Link("inst", "member"),
               At(1, {<<1, "member">>, <<1, "s">>}, {}, {}),
               At(1, {<<1, "member">>, <<1, "s">>}, {}, {"inst"}))
      BY LinkRuns DEF At, Lives
    <3>4. Runs(X, Leave({"member"}),
               At(1, {<<1, "member">>, <<1, "s">>}, {}, {"inst"}),
               At(1, {<<1, "s">>}, {}, {"inst"}))
      BY LeaveRuns DEF At, Lives
    <3> QED
      BY <3>1, <3>2, <3>3, <3>4, Then, RunsLoop
  <2> QED
    BY <2>1, <2>2, Then DEF CreateInst
<1>3. Runs(X, Put("inst"), At(1, {<<1, "s">>}, {}, {"inst"}), At(1, {}, {}, {}))
  BY PutRuns DEF At, Lives
<1> QED
  BY <1>1, <1>2, <1>3, Then DEF bc_inst

LEMMA bc_closure_runs ==
    ASSUME NEW X
    PROVE  Runs(X, bc_closure, At(0, {}, {}, {}), At(1, {}, {}, {}))
<1>1. Runs(X, Fn("fn"), At(0, {}, {}, {}), At(0, {}, {"fn"}, {}))
  BY FnRuns DEF At, Lives
<1>2. Runs(X, CreateClosure("closure", "fn"),
           At(0, {}, {"fn"}, {}),
           At(0, {}, {"fn"}, {"closure"}))
  <2>1. Fresh("closure", {}, {"fn"}, {}, {})
    BY DEF Fresh
  <2>2. Lives("fn", {}, {"fn"}, {})
    BY DEF Lives
  <2> QED
    BY <2>1, <2>2, CreateClosureRuns DEF At
<1>3. Runs(X, Push("closure"),
           At(0, {}, {"fn"}, {"closure"}),
           At(1, {<<1, "closure">>}, {"fn"}, {}))
  BY PushRuns DEF At, Lives
<1>4. Runs(X, Loop(New("upval", {}) \o Keep("upval") \o Link("closure", "upval")
              \o Leave({"upval"})),
           At(1, {<<1, "closure">>}, {"fn"}, {}),
           At(1, {<<1, "closure">>}, {}, {}))
  <2>1. Runs(X, New("upval", {}) \o Keep("upval") \o Link("closure", "upval")
                \o Leave({"upval"}),
             At(1, {<<1, "closure">>}, {}, {}),
             At(1, {<<1, "closure">>}, {}, {}))
    <3>1. Runs(X, New("upval", {}),
               At(1, {<<1, "closure">>}, {}, {}),
               At(1, {<<1, "closure">>}, {}, {"upval"}))
      BY NewRuns DEF At, Fresh, Lives
    <3>2. Runs(X, Keep("upval"),
               At(1, {<<1, "closure">>}, {}, {"upval"}),
               At(1, {<<1, "closure">>}, {"upval"}, {}))
      BY KeepRuns DEF At, Lives
    <3>3. Runs(X, Link("closure", "upval"),
               At(1, {<<1, "closure">>}, {"upval"}, {}),
               At(1, {<<1, "closure">>}, {"upval"}, {}))
      BY LinkRuns DEF At, Lives
    <3>4. Runs(X, Leave({"upval"}),
               At(1, {<<1, "closure">>}, {"upval"}, {}),
               At(1, {<<1, "closure">>}, {}, {}))
      BY LeaveRuns DEF At, Lives
    <3> QED
      BY <3>1, <3>2, <3>3, <3>4, Then
  <2>2. Weaker(At(1, {<<1, "closure">>}, {"fn"}, {}), At(1, {<<1, "closure">>}, {}, {}))
    BY DEF Weaker, At, Facts
  <2> QED
    BY <2>1, <2>2, RunsLoop, WeakerIs, RunsWeaker
<1>5. Runs(X, Fn("fn") \o CreateClosure("closure", "fn") \o Push("closure")
              \o Loop(New("upval", {}) \o Keep("upval") \o Link("closure", "upval")
              \o Leave({"upval"})),
           At(0, {}, {}, {}),
           At(1, {<<1, "closure">>}, {}, {}))
  BY <1>1, <1>2, <1>3, <1>4, Then
<1>6. Weaker(At(1, {<<1, "closure">>}, {}, {}), At(1, {}, {}, {}))
  BY DEF Weaker, At, Facts
<1> QED
  BY <1>5, <1>6, WeakerIs, RunsWeaker DEF bc_closure

LEMMA bc_get_prop_runs ==
    ASSUME NEW X
    PROVE  Runs(X, bc_get_prop, At(1, {}, {}, {}), At(1, {}, {}, {}))
<1>1. Runs(X, Peek("inst", 0), At(1, {}, {}, {}), At(1, {<<1, "inst">>}, {}, {}))
  BY PeekRuns DEF At, Lives
<1>2. Runs(X, Either(Get("val", "inst") \o Pop \o Push("val"), Get("s", "inst")
              \o Get("fn", "s") \o Peek("owner", 0) \o New("method", {"owner", "fn"}) \o Pop
              \o Push("method")),
           At(1, {<<1, "inst">>}, {}, {}),
           At(1, {}, {}, {}))
  <2>1. Runs(X, Get("val", "inst") \o Pop \o Push("val"),
             At(1, {<<1, "inst">>}, {}, {}),
             At(1, {}, {}, {}))
    <3>1. Runs(X, Get("val", "inst"),
               At(1, {<<1, "inst">>}, {}, {}),
               At(1, {<<1, "val">>}, {}, {}))
      BY GetRuns DEF At, Lives
    <3>2. Runs(X, Pop, At(1, {<<1, "val">>}, {}, {}), At(0, {}, {}, {"val"}))
      <4>1. 1 \in Nat /\ 1 >= 1 /\ 0 = 1 - 1
        OBVIOUS
      <4>2. \A u \in {"val"} : Lives(u, {<<1, "val">>}, {}, {})
        BY DEF Lives
      <4> QED
        BY <4>1, <4>2, PopRuns DEF At
    <3>3. Runs(X, Push("val"), At(0, {}, {}, {"val"}), At(1, {}, {}, {}))
      BY PushRuns DEF At, Lives
    <3> QED
      BY <3>1, <3>2, <3>3, Then
  <2>2. Runs(X, Get("s", "inst") \o Get("fn", "s") \o Peek("owner", 0)
                \o New("method", {"owner", "fn"}) \o Pop \o Push("method"),
             At(1, {<<1, "inst">>}, {}, {}),
             At(1, {}, {}, {}))
    <3>1. Runs(X, Get("s", "inst"),
               At(1, {<<1, "inst">>}, {}, {}),
               At(1, {<<1, "s">>}, {}, {}))
      BY GetRuns DEF At, Lives
    <3>2. Runs(X, Get("fn", "s"), At(1, {<<1, "s">>}, {}, {}), At(1, {<<1, "fn">>}, {}, {}))
      BY GetRuns DEF At, Lives
    <3>3. Runs(X, Peek("owner", 0),
               At(1, {<<1, "fn">>}, {}, {}),
               At(1, {<<1, "fn">>, <<1, "owner">>}, {}, {}))
      BY PeekRuns DEF At, Lives
    <3>4. Runs(X, New("method", {"owner", "fn"}),
               At(1, {<<1, "fn">>, <<1, "owner">>}, {}, {}),
               At(1, {<<1, "fn">>, <<1, "owner">>}, {}, {"method"}))
      BY NewRuns DEF At, Fresh, Lives
    <3>5. Runs(X, Get("s", "inst") \o Get("fn", "s") \o Peek("owner", 0)
                  \o New("method", {"owner", "fn"}),
               At(1, {<<1, "inst">>}, {}, {}),
               At(1, {<<1, "fn">>, <<1, "owner">>}, {}, {"method"}))
      BY <3>1, <3>2, <3>3, <3>4, Then
    <3>6. Runs(X, Pop,
               At(1, {<<1, "fn">>, <<1, "owner">>}, {}, {"method"}),
               At(0, {}, {}, {"method"}))
      <4>1. 1 \in Nat /\ 1 >= 1 /\ 0 = 1 - 1
        OBVIOUS
      <4>2. \A u \in {"method"} : Lives(u, {<<1, "fn">>, <<1, "owner">>}, {}, {"method"})
        BY DEF Lives
      <4> QED
        BY <4>1, <4>2, PopRuns DEF At
    <3>7. Runs(X, Push("method"), At(0, {}, {}, {"method"}), At(1, {}, {}, {}))
      BY PushRuns DEF At, Lives
    <3> QED
      BY <3>5, <3>6, <3>7, Then
  <2> QED
    BY <2>1, <2>2, RunsEither
<1> QED
  BY <1>1, <1>2, Then DEF bc_get_prop

LEMMA bc_get_subscript_runs ==
    ASSUME NEW X, "container" \in X
    PROVE  Runs(X, bc_get_subscript, At(2, {}, {}, {}), At(1, {}, {}, {}))
<1>1. Runs(X, PopTo("k"), At(2, {}, {}, {}), At(1, {}, {}, {}))
  <2>1. Runs(X, Peek("k", 0), At(2, {}, {}, {}), At(2, {}, {}, {}))
    BY PeekRuns DEF At, Lives
  <2>2. Runs(X, Pop, At(2, {}, {}, {}), At(1, {}, {}, {}))
    <3>1. 2 \in Nat /\ 2 >= 1 /\ 1 = 2 - 1
      OBVIOUS
    <3> QED
      BY <3>1, PopRuns DEF At
  <2> QED
    BY <2>1, <2>2, Then DEF PopTo
<1>2. Runs(X, PopTo("container"), At(1, {}, {}, {}), At(0, {}, {}, {"container"}))
  <2>1. Runs(X, Peek("container", 0),
             At(1, {}, {}, {}),
             At(1, {<<1, "container">>}, {}, {}))
    BY PeekRuns DEF At, Lives
  <2>2. Runs(X, Pop, At(1, {<<1, "container">>}, {}, {}), At(0, {}, {}, {"container"}))
    <3>1. 1 \in Nat /\ 1 >= 1 /\ 0 = 1 - 1
      OBVIOUS
    <3>2. \A u \in {"container"} : Lives(u, {<<1, "container">>}, {}, {})
      BY DEF Lives
    <3> QED
      BY <3>1, <3>2, PopRuns DEF At
  <2> QED
    BY <2>1, <2>2, Then DEF PopTo
<1>3. Runs(X, SubscriptGet("container"), At(0, {}, {}, {"container"}), At(1, {}, {}, {}))
  <2>1. Runs(X, CopyOf("char", "container"),
             At(0, {}, {}, {"container"}),
             At(0, {}, {}, {"char"}))
    <3>1. Room(0, {})
      BY DEF Room
    <3>2. Fresh("char", {}, {}, {}, {})
      BY DEF Fresh
    <3>3. Lives("container", {}, {}, {"container"})
      BY DEF Lives
    <3> QED
      BY <3>1, <3>2, <3>3, CopyOfRuns DEF At
  <2>2. Runs(X, Push("char"), At(0, {}, {}, {"char"}), At(1, {}, {}, {}))
    BY PushRuns DEF At, Lives
  <2> QED
    BY <2>1, <2>2, Then DEF SubscriptGet
<1> QED
  BY <1>1, <1>2, <1>3, Then DEF bc_get_subscript

LEMMA bc_push_subscript_runs ==
    ASSUME NEW X
    PROVE  Runs(X, bc_push_subscript, At(2, {}, {}, {}), At(3, {}, {}, {}))
<1>1. Runs(X, Peek("k", 0), At(2, {}, {}, {}), At(2, {}, {}, {}))
  BY PeekRuns DEF At, Lives
<1>2. Runs(X, Peek("container", 1), At(2, {}, {}, {}), At(2, {<<1, "container">>}, {}, {}))
  BY PeekRuns DEF At, Lives
<1>3. Runs(X, SubscriptGet("container"),
           At(2, {<<1, "container">>}, {}, {}),
           At(3, {}, {}, {}))
  <2>1. Runs(X, CopyOf("char", "container"),
             At(2, {<<1, "container">>}, {}, {}),
             At(2, {<<1, "container">>}, {}, {"char"}))
    <3>1. Room(2, {<<1, "container">>})
      BY DEF Room
    <3>2. Fresh("char", {<<1, "container">>}, {}, {}, {})
      BY DEF Fresh
    <3>3. On("container", {<<1, "container">>})
      BY DEF On
    <3>4. Lives("container", {<<1, "container">>}, {}, {})
      BY DEF Lives
    <3> QED
      BY <3>1, <3>2, <3>3, <3>4, CopyOfRuns DEF At
  <2>2. Runs(X, Push("char"), At(2, {<<1, "container">>}, {}, {"char"}), At(3, {}, {}, {}))
    BY PushRuns DEF At, Lives
  <2> QED
    BY <2>1, <2>2, Then DEF SubscriptGet
<1> QED
  BY <1>1, <1>2, <1>3, Then DEF bc_push_subscript

LEMMA bc_cat_runs ==
    ASSUME NEW X, "str" \in X
    PROVE  Runs(X, bc_cat, At(2, {}, {}, {}), At(1, {}, {}, {}))
<1>1. Runs(X, Peek("val", 0), At(2, {}, {}, {}), At(2, {<<2, "val">>}, {}, {}))
  BY PeekRuns DEF At, Lives
<1>2. Runs(X, ToStr("b", "val"),
           At(2, {<<2, "val">>}, {}, {}),
           At(2, {<<2, "val">>}, {}, {"b"}))
  <2>1. Room(2, {<<2, "val">>})
    BY DEF Room
  <2>2. \A u \in {"b", "elem", "str", "name"} : Fresh(u, {<<2, "val">>}, {}, {}, {})
    BY DEF Fresh
  <2>3. On("val", {<<2, "val">>})
    BY DEF On
  <2> QED
    BY <2>1, <2>2, <2>3, ToStrRuns DEF At
<1>3. Runs(X, Push("b"),
           At(2, {<<2, "val">>}, {}, {"b"}),
           At(3, {<<2, "val">>, <<3, "b">>}, {}, {}))
  BY PushRuns DEF At, Lives
<1>4. Runs(X, Peek("val", 2),
           At(3, {<<2, "val">>, <<3, "b">>}, {}, {}),
           At(3, {<<1, "val">>, <<3, "b">>}, {}, {}))
  BY PeekRuns DEF At, Lives
<1>5. Runs(X, Peek("val", 0) \o ToStr("b", "val") \o Push("b") \o Peek("val", 2),
           At(2, {}, {}, {}),
           At(3, {<<1, "val">>, <<3, "b">>}, {}, {}))
  BY <1>1, <1>2, <1>3, <1>4, Then
<1>6. Runs(X, ToStr("a", "val"),
           At(3, {<<1, "val">>, <<3, "b">>}, {}, {}),
           At(3, {<<1, "val">>, <<3, "b">>}, {}, {"a"}))
  <2>1. Room(3, {<<1, "val">>, <<3, "b">>})
    BY DEF Room
  <2>2. \A u \in {"a", "elem", "str", "name"} : Fresh(u, {<<1, "val">>, <<3, "b">>}, {}, {}, {})
    BY DEF Fresh
  <2>3. On("val", {<<1, "val">>, <<3, "b">>})
    BY DEF On
  <2> QED
    BY <2>1, <2>2, <2>3, ToStrRuns DEF At
<1>7. Runs(X, Push("a"),
           At(3, {<<1, "val">>, <<3, "b">>}, {}, {"a"}),
           At(4, {<<3, "b">>, <<4, "a">>}, {}, {}))
  <2>1. Lives("a", {<<1, "val">>, <<3, "b">>}, {}, {"a"}) \/ "a" \in X
    BY DEF Lives
  <2>2. \A j, u : <<j, u>> \in {<<3, "b">>, <<4, "a">>} =>
            <<j, u>> \in {<<1, "val">>, <<3, "b">>} \/ (j = 4 /\ u = "a")
    OBVIOUS
  <2>3. 4 = 3 + 1
    OBVIOUS
  <2> QED
    BY <2>1, <2>2, <2>3, PushRuns DEF At
<1>8. Runs(X, Alloc,
           At(4, {<<3, "b">>, <<4, "a">>}, {}, {}),
           At(4, {<<3, "b">>, <<4, "a">>}, {}, {}))
  BY AllocRuns DEF At
<1>9. Runs(X, Peek("val", 0) \o ToStr("b", "val") \o Push("b") \o Peek("val", 2)
              \o ToStr("a", "val") \o Push("a") \o Alloc,
           At(2, {}, {}, {}),
           At(4, {<<3, "b">>, <<4, "a">>}, {}, {}))
  BY <1>5, <1>6, <1>7, <1>8, Then
<1>10. Runs(X, Use("a"),
            At(4, {<<3, "b">>, <<4, "a">>}, {}, {}),
            At(4, {<<3, "b">>, <<4, "a">>}, {}, {}))
  BY UseRuns DEF At, Lives
<1>11. Runs(X, Use("b"),
            At(4, {<<3, "b">>, <<4, "a">>}, {}, {}),
            At(4, {<<3, "b">>, <<4, "a">>}, {}, {}))
  BY UseRuns DEF At, Lives
<1>12. Runs(X, TakeStr("res"),
            At(4, {<<3, "b">>, <<4, "a">>}, {}, {}),
            At(4, {<<3, "b">>, <<4, "a">>}, {}, {"res"}))
  <2>1. Room(4, {<<3, "b">>, <<4, "a">>})
    BY DEF Room
  <2>2. Fresh("res", {<<3, "b">>, <<4, "a">>}, {}, {}, {})
    BY DEF Fresh
  <2> QED
    BY <2>1, <2>2, TakeStrRuns DEF At
<1>13. Runs(X, Peek("val", 0) \o ToStr("b", "val") \o Push("b") \o Peek("val", 2)
               \o ToStr("a", "val") \o Push("a") \o Alloc \o Use("a") \o Use("b")
               \o TakeStr("res"),
            At(2, {}, {}, {}),
            At(4, {<<3, "b">>, <<4, "a">>}, {}, {"res"}))
  BY <1>9, <1>10, <1>11, <1>12, Then
<1>14. Runs(X, Pop, At(4, {<<3, "b">>, <<4, "a">>}, {}, {"res"}), At(3, {}, {}, {"res"}))
  <2>1. 4 \in Nat /\ 4 >= 1 /\ 3 = 4 - 1
    OBVIOUS
  <2>2. \A u \in {"res"} : Lives(u, {<<3, "b">>, <<4, "a">>}, {}, {"res"})
    BY DEF Lives
  <2> QED
    BY <2>1, <2>2, PopRuns DEF At
<1>15. Runs(X, Pop, At(3, {}, {}, {"res"}), At(2, {}, {}, {"res"}))
  <2>1. 3 \in Nat /\ 3 >= 1 /\ 2 = 3 - 1
    OBVIOUS
  <2>2. \A u \in {"res"} : Lives(u, {}, {}, {"res"})
    BY DEF Lives
  <2> QED
    BY <2>1, <2>2, PopRuns DEF At
<1>16. Runs(X, Pop, At(2, {}, {}, {"res"}), At(1, {}, {}, {"res"}))
  <2>1. 2 \in Nat /\ 2 >= 1 /\ 1 = 2 - 1
    OBVIOUS
  <2>2. \A u \in {"res"} : Lives(u, {}, {}, {"res"})
    BY DEF Lives
  <2> QED
    BY <2>1, <2>2, PopRuns DEF At
<1>17. Runs(X, Peek("val", 0) \o ToStr("b", "val") \o Push("b") \o Peek("val", 2)
               \o ToStr("a", "val") \o Push("a") \o Alloc \o Use("a") \o Use("b")
               \o TakeStr("res") \o Pop \o Pop \o Pop,
            At(2, {}, {}, {}),
            At(1, {}, {}, {"res"}))
  BY <1>13, <1>14, <1>15, <1>16, Then
<1>18. Runs(X, Pop, At(1, {}, {}, {"res"}), At(0, {}, {}, {"res"}))
  <2>1. 1 \in Nat /\ 1 >= 1 /\ 0 = 1 - 1
    OBVIOUS
  <2>2. \A u \in {"res"} : Lives(u, {}, {}, {"res"})
    BY DEF Lives
  <2> QED
    BY <2>1, <2>2, PopRuns DEF At
<1>19. Runs(X, Push("res"), At(0, {}, {}, {"res"}), At(1, {}, {}, {}))
  BY PushRuns DEF At, Lives
<1> QED
  BY <1>17, <1>18, <1>19, Then DEF bc_cat

LEMMA bc_invoke_runs ==
    ASSUME NEW X, "struct" \in X
    PROVE  Runs(X, bc_invoke, At(1, {}, {}, {}), At(1, {}, {}, {}))
<1>1. Runs(X, <<[do |-> "builtin", v |-> "struct"]>>, At(1, {}, {}, {}), At(1, {}, {}, {}))
  BY BuiltinRuns DEF At, Lives
<1>2. Runs(X, Get("method", "struct"), At(1, {}, {}, {}), At(1, {}, {}, {}))
  BY GetRuns DEF At, Lives
<1> QED
  BY <1>1, <1>2, Then DEF bc_invoke

LEMMA hbs_set_global_runs ==
    ASSUME NEW X
    PROVE  Runs(X, hbs_set_global, At(1, {}, {}, {}), At(0, {}, {}, {}))
<1>1. Runs(X, Peek("val", 0), At(1, {}, {}, {}), At(1, {<<1, "val">>}, {}, {}))
  BY PeekRuns DEF At, Lives
<1>2. Runs(X, GetNameOr("sname", "val"),
           At(1, {<<1, "val">>}, {}, {}),
           At(1, {<<1, "val">>}, {}, {"sname"}))
  <2>1. Room(1, {<<1, "val">>})
    BY DEF Room
  <2>2. Fresh("sname", {<<1, "val">>}, {}, {}, {})
    BY DEF Fresh
  <2>3. On("val", {<<1, "val">>})
    BY DEF On
  <2> QED
    BY <2>1, <2>2, <2>3, GetNameOrRuns DEF At
<1>3. Runs(X, Push("sname"),
           At(1, {<<1, "val">>}, {}, {"sname"}),
           At(2, {<<1, "val">>, <<2, "sname">>}, {}, {}))
  BY PushRuns DEF At, Lives
<1>4. Runs(X, Alloc,
           At(2, {<<1, "val">>, <<2, "sname">>}, {}, {}),
           At(2, {<<1, "val">>, <<2, "sname">>}, {}, {}))
  BY AllocRuns DEF At
<1>5. Runs(X, Peek("val", 0) \o GetNameOr("sname", "val") \o Push("sname") \o Alloc,
           At(1, {}, {}, {}),
           At(2, {<<1, "val">>, <<2, "sname">>}, {}, {}))
  BY <1>1, <1>2, <1>3, <1>4, Then
<1>6. Runs(X, Keep("sname"),
           At(2, {<<1, "val">>, <<2, "sname">>}, {}, {}),
           At(2, {<<1, "val">>, <<2, "sname">>}, {}, {}))
  BY KeepRuns DEF At, Lives
<1>7. Runs(X, Keep("val"),
           At(2, {<<1, "val">>, <<2, "sname">>}, {}, {}),
           At(2, {<<1, "val">>, <<2, "sname">>}, {}, {}))
  BY KeepRuns DEF At, Lives
<1>8. Runs(X, Pop, At(2, {<<1, "val">>, <<2, "sname">>}, {}, {}), At(1, {}, {}, {}))
  <2>1. 2 \in Nat /\ 2 >= 1 /\ 1 = 2 - 1
    OBVIOUS
  <2> QED
    BY <2>1, PopRuns DEF At
<1>9. Runs(X, Peek("val", 0) \o GetNameOr("sname", "val") \o Push("sname") \o Alloc
              \o Keep("sname") \o Keep("val") \o Pop,
           At(1, {}, {}, {}),
           At(1, {}, {}, {}))
  BY <1>5, <1>6, <1>7, <1>8, Then
<1>10. Runs(X, Pop, At(1, {}, {}, {}), At(0, {}, {}, {}))
  <2>1. 1 \in Nat /\ 1 >= 1 /\ 0 = 1 - 1
    OBVIOUS
  <2> QED
    BY <2>1, PopRuns DEF At
<1> QED
  BY <1>9, <1>10, Then DEF hbs_set_global

LEMMA hbs_get_global_runs ==
    ASSUME NEW X
    PROVE  Runs(X, hbs_get_global, At(0, {}, {}, {}), At(1, {}, {}, {}))
<1>1. Runs(X, CopyStr("name"), At(0, {}, {}, {}), At(0, {}, {}, {"name"}))
  <2>1. Room(0, {})
    BY DEF Room
  <2>2. Fresh("name", {}, {}, {}, {})
    BY DEF Fresh
  <2> QED
    BY <2>1, <2>2, CopyStrRuns DEF At
<1>2. Runs(X, Use("name"), At(0, {}, {}, {"name"}), At(0, {}, {}, {}))
  BY UseRuns DEF At, Lives
<1>3. Runs(X, Global("val"), At(0, {}, {}, {}), At(0, {}, {"val"}, {}))
  BY GlobalRuns DEF At, Lives
<1>4. Runs(X, Push("val"), At(0, {}, {"val"}, {}), At(1, {}, {"val"}, {}))
  BY PushRuns DEF At, Lives
<1>5. Runs(X, CopyStr("name") \o Use("name") \o Global("val") \o Push("val"),
           At(0, {}, {}, {}),
           At(1, {}, {"val"}, {}))
  BY <1>1, <1>2, <1>3, <1>4, Then
<1>6. Weaker(At(1, {}, {"val"}, {}), At(1, {}, {}, {}))
  BY DEF Weaker, At, Facts
<1> QED
  BY <1>5, <1>6, WeakerIs, RunsWeaker DEF hbs_get_global

LEMMA hbs_push_struct_runs ==
    ASSUME NEW X
    PROVE  Runs(X, hbs_push_struct,
                At(0, {}, {}, {}),
                Facts(1, {<<1, "s">>}, {}, {}, {"s"}, {}))
<1>1. Runs(X, CopyStr("str_name"), At(0, {}, {}, {}), At(0, {}, {}, {"str_name"}))
  <2>1. Room(0, {})
    BY DEF Room
  <2>2. Fresh("str_name", {}, {}, {}, {})
    BY DEF Fresh
  <2> QED
    BY <2>1, <2>2, CopyStrRuns DEF At
<1>2. Runs(X, Push("str_name"),
           At(0, {}, {}, {"str_name"}),
           At(1, {<<1, "str_name">>}, {}, {}))
  BY PushRuns DEF At, Lives
<1>3. Runs(X, New("s", {"str_name"}),
           At(1, {<<1, "str_name">>}, {}, {}),
           Facts(1, {<<1, "str_name">>}, {}, {"s"}, {"s"}, {}))
  BY NewRuns DEF At, Fresh, Lives
<1>4. Runs(X, Pop,
           Facts(1, {<<1, "str_name">>}, {}, {"s"}, {"s"}, {}),
           Facts(0, {}, {}, {"s"}, {"s"}, {}))
  <2>1. 1 \in Nat /\ 1 >= 1 /\ 0 = 1 - 1
    OBVIOUS
  <2>2. \A u \in {"s"} : Lives(u, {<<1, "str_name">>}, {}, {"s"})
    BY DEF Lives
  <2> QED
    BY <2>1, <2>2, PopRuns DEF At
<1>5. Runs(X, CopyStr("str_name") \o Push("str_name") \o New("s", {"str_name"}) \o Pop,
           At(0, {}, {}, {}),
           Facts(0, {}, {}, {"s"}, {"s"}, {}))
  BY <1>1, <1>2, <1>3, <1>4, Then
<1>6. Runs(X, Push("s"),
           Facts(0, {}, {}, {"s"}, {"s"}, {}),
           Facts(1, {<<1, "s">>}, {}, {}, {"s"}, {}))
  BY PushRuns DEF At, Lives
<1> QED
  BY <1>5, <1>6, Then DEF hbs_push_struct

LEMMA hbs_push_string_runs ==
    ASSUME NEW X
    PROVE  Runs(X, hbs_push_string, At(0, {}, {}, {}), At(1, {}, {}, {}))
<1>1. Runs(X, Either(CopyStr("str"), TakeStr("str")),
           At(0, {}, {}, {}),
           At(0, {}, {}, {"str"}))
  <2>1. Runs(X, CopyStr("str"), At(0, {}, {}, {}), At(0, {}, {}, {"str"}))
    <3>1. Room(0, {})
      BY DEF Room
    <3>2. Fresh("str", {}, {}, {}, {})
      BY DEF Fresh
    <3> QED
      BY <3>1, <3>2, CopyStrRuns DEF At
  <2>2. Runs(X, TakeStr("str"), At(0, {}, {}, {}), At(0, {}, {}, {"str"}))
    <3>1. Room(0, {})
      BY DEF Room
    <3>2. Fresh("str", {}, {}, {}, {})
      BY DEF Fresh
    <3> QED
      BY <3>1, <3>2, TakeStrRuns DEF At
  <2> QED
    BY <2>1, <2>2, RunsEither
<1>2. Runs(X, Push("str"), At(0, {}, {}, {"str"}), At(1, {}, {}, {}))
  BY PushRuns DEF At, Lives
<1> QED
  BY <1>1, <1>2, Then DEF hbs_push_string

LEMMA hbs_add_static_const_runs ==
    ASSUME NEW X
    PROVE  Runs(X, hbs_add_static_const, At(2, {}, {}, {}), At(1, {}, {}, {}))
<1>1. Runs(X, Peek("s", 1), At(2, {}, {}, {}), At(2, {<<1, "s">>}, {}, {}))
  BY PeekRuns DEF At, Lives
<1>2. Runs(X, Peek("val", 0),
           At(2, {<<1, "s">>}, {}, {}),
           At(2, {<<1, "s">>, <<2, "val">>}, {}, {}))
  BY PeekRuns DEF At, Lives
<1>3. Runs(X, GetNameOr("str_name", "val"),
           At(2, {<<1, "s">>, <<2, "val">>}, {}, {}),
           At(2, {<<1, "s">>, <<2, "val">>}, {}, {"str_name"}))
  <2>1. Room(2, {<<1, "s">>, <<2, "val">>})
    BY DEF Room
  <2>2. Fresh("str_name", {<<1, "s">>, <<2, "val">>}, {}, {}, {})
    BY DEF Fresh
  <2>3. On("val", {<<1, "s">>, <<2, "val">>})
    BY DEF On
  <2> QED
    BY <2>1, <2>2, <2>3, GetNameOrRuns DEF At
<1>4. Runs(X, Push("str_name"),
           At(2, {<<1, "s">>, <<2, "val">>}, {}, {"str_name"}),
           At(3, {<<1, "s">>, <<2, "val">>, <<3, "str_name">>}, {}, {}))
  <2>1. Lives("str_name", {<<1, "s">>, <<2, "val">>}, {}, {"str_name"}) \/ "str_name" \in X
    BY DEF Lives
  <2>2. \A j, u : <<j, u>> \in {<<1, "s">>, <<2, "val">>, <<3, "str_name">>} =>
            <<j, u>> \in {<<1, "s">>, <<2, "val">>} \/ (j = 3 /\ u = "str_name")
    OBVIOUS
  <2>3. 3 = 2 + 1
    OBVIOUS
  <2> QED
    BY <2>1, <2>2, <2>3, PushRuns DEF At
<1>5. Runs(X, Peek("s", 1) \o Peek("val", 0) \o GetNameOr("str_name", "val")
              \o Push("str_name"),
           At(2, {}, {}, {}),
           At(3, {<<1, "s">>, <<2, "val">>, <<3, "str_name">>}, {}, {}))
  BY <1>1, <1>2, <1>3, <1>4, Then
<1>6. Runs(X, SetMap("s", "str_name", "val"),
           At(3, {<<1, "s">>, <<2, "val">>, <<3, "str_name">>}, {}, {}),
           At(3, {<<1, "s">>, <<2, "val">>, <<3, "str_name">>}, {}, {}))
  <2>1. Lives("s", {<<1, "s">>, <<2, "val">>, <<3, "str_name">>}, {}, {})
    BY DEF Lives
  <2>2. Lives("str_name", {<<1, "s">>, <<2, "val">>, <<3, "str_name">>}, {}, {})
    BY DEF Lives
  <2>3. Lives("val", {<<1, "s">>, <<2, "val">>, <<3, "str_name">>}, {}, {})
    BY DEF Lives
  <2> QED
    BY <2>1, <2>2, <2>3, SetMapRuns DEF At
<1>7. Runs(X, Pop,
           At(3, {<<1, "s">>, <<2, "val">>, <<3, "str_name">>}, {}, {}),
           At(2, {}, {}, {}))
  <2>1. 3 \in Nat /\ 3 >= 1 /\ 2 = 3 - 1
    OBVIOUS
  <2> QED
    BY <2>1, PopRuns DEF At
<1>8. Runs(X, Pop, At(2, {}, {}, {}), At(1, {}, {}, {}))
  <2>1. 2 \in Nat /\ 2 >= 1 /\ 1 = 2 - 1
    OBVIOUS
  <2> QED
    BY <2>1, PopRuns DEF At
<1> QED
  BY <1>5, <1>6, <1>7, <1>8, Then DEF hbs_add_static_const

LEMMA hbs_add_member_runs ==
    ASSUME NEW X
    PROVE  Runs(X, hbs_add_member, At(2, {}, {}, {}), At(1, {}, {}, {}))
<1>1. Runs(X, Peek("s", 1), At(2, {}, {}, {}), At(2, {<<1, "s">>}, {}, {}))
  BY PeekRuns DEF At, Lives
<1>2. Runs(X, Peek("cfn", 0),
           At(2, {<<1, "s">>}, {}, {}),
           At(2, {<<1, "s">>, <<2, "cfn">>}, {}, {}))
  BY PeekRuns DEF At, Lives
<1>3. Runs(X, Get("name", "cfn"),
           At(2, {<<1, "s">>, <<2, "cfn">>}, {}, {}),
           At(2, {<<1, "s">>, <<2, "cfn">>, <<2, "name">>}, {}, {}))
  BY GetRuns DEF At, Lives
<1>4. Runs(X, SetMap("s", "name", "cfn"),
           At(2, {<<1, "s">>, <<2, "cfn">>, <<2, "name">>}, {}, {}),
           At(2, {<<1, "s">>, <<2, "cfn">>, <<2, "name">>}, {}, {}))
  <2>1. Lives("s", {<<1, "s">>, <<2, "cfn">>, <<2, "name">>}, {}, {})
    BY DEF Lives
  <2>2. Lives("name", {<<1, "s">>, <<2, "cfn">>, <<2, "name">>}, {}, {})
    BY DEF Lives
  <2>3. Lives("cfn", {<<1, "s">>, <<2, "cfn">>, <<2, "name">>}, {}, {})
    BY DEF Lives
  <2> QED
    BY <2>1, <2>2, <2>3, SetMapRuns DEF At
<1>5. Runs(X, Peek("s", 1) \o Peek("cfn", 0) \o Get("name", "cfn")
              \o SetMap("s", "name", "cfn"),
           At(2, {}, {}, {}),
           At(2, {<<1, "s">>, <<2, "cfn">>, <<2, "name">>}, {}, {}))
  BY <1>1, <1>2, <1>3, <1>4, Then
<1>6. Runs(X, Pop,
           At(2, {<<1, "s">>, <<2, "cfn">>, <<2, "name">>}, {}, {}),
           At(1, {}, {}, {}))
  <2>1. 2 \in Nat /\ 2 >= 1 /\ 1 = 2 - 1
    OBVIOUS
  <2> QED
    BY <2>1, PopRuns DEF At
<1> QED
  BY <1>5, <1>6, Then DEF hbs_add_member

LEMMA hbs_add_enum_runs ==
    ASSUME NEW X
    PROVE  Runs(X, hbs_add_enum, At(1, {}, {}, {}), At(1, {}, {}, {}))
<1>1. Runs(X, Peek("e", 0), At(1, {}, {}, {}), At(1, {<<1, "e">>}, {}, {}))
  BY PeekRuns DEF At, Lives
<1>2. Runs(X, CopyStr("sname"),
           At(1, {<<1, "e">>}, {}, {}),
           At(1, {<<1, "e">>}, {}, {"sname"}))
  <2>1. Room(1, {<<1, "e">>})
    BY DEF Room
  <2>2. Fresh("sname", {<<1, "e">>}, {}, {}, {})
    BY DEF Fresh
  <2> QED
    BY <2>1, <2>2, CopyStrRuns DEF At
<1>3. Runs(X, Push("sname"),
           At(1, {<<1, "e">>}, {}, {"sname"}),
           At(2, {<<1, "e">>, <<2, "sname">>}, {}, {}))
  BY PushRuns DEF At, Lives
<1>4. Runs(X, Alloc,
           At(2, {<<1, "e">>, <<2, "sname">>}, {}, {}),
           At(2, {<<1, "e">>, <<2, "sname">>}, {}, {}))
  BY AllocRuns DEF At
<1>5. Runs(X, Peek("e", 0) \o CopyStr("sname") \o Push("sname") \o Alloc,
           At(1, {}, {}, {}),
           At(2, {<<1, "e">>, <<2, "sname">>}, {}, {}))
  BY <1>1, <1>2, <1>3, <1>4, Then
<1>6. Runs(X, Link("e", "sname"),
           At(2, {<<1, "e">>, <<2, "sname">>}, {}, {}),
           At(2, {<<1, "e">>, <<2, "sname">>}, {}, {}))
  BY LinkRuns DEF At, Lives
<1>7. Runs(X, Pop, At(2, {<<1, "e">>, <<2, "sname">>}, {}, {}), At(1, {}, {}, {}))
  <2>1. 2 \in Nat /\ 2 >= 1 /\ 1 = 2 - 1
    OBVIOUS
  <2> QED
    BY <2>1, PopRuns DEF At
<1> QED
  BY <1>5, <1>6, <1>7, Then DEF hbs_add_enum

LEMMA hbs_tostr_runs ==
    ASSUME NEW X, "str" \in X
    PROVE  Runs(X, hbs_tostr, At(1, {}, {}, {}), At(2, {}, {}, {}))
<1>1. Runs(X, Peek("val", 0), At(1, {}, {}, {}), At(1, {<<1, "val">>}, {}, {}))
  BY PeekRuns DEF At, Lives
<1>2. Runs(X, ObjToString("res", "val"),
           At(1, {<<1, "val">>}, {}, {}),
           At(1, {<<1, "val">>}, {}, {"res"}))
  <2>1. Room(1, {<<1, "val">>})
    BY DEF Room
  <2>2. \A u \in {"res", "prop", "elem", "str", "name"} : Fresh(u, {<<1, "val">>}, {}, {}, {})
    BY DEF Fresh
  <2>3. On("val", {<<1, "val">>})
    BY DEF On
  <2> QED
    BY <2>1, <2>2, <2>3, ObjToStringRuns DEF At
<1>3. Runs(X, Push("res"), At(1, {<<1, "val">>}, {}, {"res"}), At(2, {}, {}, {}))
  BY PushRuns DEF At, Lives
<1> QED
  BY <1>1, <1>2, <1>3, Then DEF hbs_tostr

LEMMA hbs_get_tostring_runs ==
    ASSUME NEW X, "str" \in X
    PROVE  Runs(X, hbs_get_tostring, At(1, {}, {}, {}), At(1, {}, {}, {}))
<1>1. Runs(X, Peek("val", 0), At(1, {}, {}, {}), At(1, {<<1, "val">>}, {}, {}))
  BY PeekRuns DEF At, Lives
<1>2. Runs(X, ObjToString("res", "val"),
           At(1, {<<1, "val">>}, {}, {}),
           At(1, {<<1, "val">>}, {}, {"res"}))
  <2>1. Room(1, {<<1, "val">>})
    BY DEF Room
  <2>2. \A u \in {"res", "prop", "elem", "str", "name"} : Fresh(u, {<<1, "val">>}, {}, {}, {})
    BY DEF Fresh
  <2>3. On("val", {<<1, "val">>})
    BY DEF On
  <2> QED
    BY <2>1, <2>2, <2>3, ObjToStringRuns DEF At
<1>3. Runs(X, Use("res"), At(1, {<<1, "val">>}, {}, {"res"}), At(1, {<<1, "val">>}, {}, {}))
  BY UseRuns DEF At, Lives
<1>4. Runs(X, Peek("val", 0) \o ObjToString("res", "val") \o Use("res"),
           At(1, {}, {}, {}),
           At(1, {<<1, "val">>}, {}, {}))
  BY <1>1, <1>2, <1>3, Then
<1>5. Weaker(At(1, {<<1, "val">>}, {}, {}), At(1, {}, {}, {}))
  BY DEF Weaker, At, Facts
<1> QED
  BY <1>4, <1>5, WeakerIs, RunsWeaker DEF hbs_get_tostring

LEMMA str_rem_runs ==
    ASSUME NEW X
    PROVE  Runs(X, str_rem, At(1, {}, {}, {}), At(2, {}, {}, {}))
<1>1. Runs(X, Peek("self", 0), At(1, {}, {}, {}), At(1, {<<1, "self">>}, {}, {}))
  BY PeekRuns DEF At, Lives
<1>2. Runs(X, Alloc, At(1, {<<1, "self">>}, {}, {}), At(1, {<<1, "self">>}, {}, {}))
  BY AllocRuns DEF At
<1>3. Runs(X, Use("self"), At(1, {<<1, "self">>}, {}, {}), At(1, {<<1, "self">>}, {}, {}))
  BY UseRuns DEF At, Lives
<1>4. Runs(X, TakeStr("res"),
           At(1, {<<1, "self">>}, {}, {}),
           At(1, {<<1, "self">>}, {}, {"res"}))
  <2>1. Room(1, {<<1, "self">>})
    BY DEF Room
  <2>2. Fresh("res", {<<1, "self">>}, {}, {}, {})
    BY DEF Fresh
  <2> QED
    BY <2>1, <2>2, TakeStrRuns DEF At
<1>5. Runs(X, Peek("self", 0) \o Alloc \o Use("self") \o TakeStr("res"),
           At(1, {}, {}, {}),
           At(1, {<<1, "self">>}, {}, {"res"}))
  BY <1>1, <1>2, <1>3, <1>4, Then
<1>6. Runs(X, Push("res"), At(1, {<<1, "self">>}, {}, {"res"}), At(2, {}, {}, {}))
  BY PushRuns DEF At, Lives
<1> QED
  BY <1>5, <1>6, Then DEF str_rem

LEMMA open_arr_runs ==
    ASSUME NEW X
    PROVE  Runs(X, open_arr, At(0, {}, {}, {}), At(0, {}, {}, {}))
<1>1. Runs(X, hbs_push_struct, At(0, {}, {}, {}), Facts(1, {<<1, "s">>}, {}, {}, {"s"}, {}))
  BY hbs_push_struct_runs
<1>2. Runs(X, <<[do |-> "set_builtin", v |-> "s"]>>,
           Facts(1, {<<1, "s">>}, {}, {}, {"s"}, {}),
           At(1, {<<1, "s">>}, {}, {}))
  <2>1. "s" \in {"s"}
    OBVIOUS
  <2> QED
    BY <2>1, SetBuiltinRuns DEF At
<1>3. Runs(X, Loop(CopyStr("str_name") \o Push("str_name") \o New("cfn", {"str_name"})
              \o Pop \o Push("cfn") \o hbs_add_member \o Leave({"str_name", "cfn", "name"})),
           At(1, {<<1, "s">>}, {}, {}),
           At(1, {}, {}, {}))
  <2>1. Runs(X, CopyStr("str_name") \o Push("str_name") \o New("cfn", {"str_name"}) \o Pop
                \o Push("cfn") \o hbs_add_member \o Leave({"str_name", "cfn", "name"}),
             At(1, {}, {}, {}),
             At(1, {}, {}, {}))
    <3>1. Runs(X, CopyStr("str_name"), At(1, {}, {}, {}), At(1, {}, {}, {"str_name"}))
      <4>1. Room(1, {})
        BY DEF Room
      <4>2. Fresh("str_name", {}, {}, {}, {})
        BY DEF Fresh
      <4> QED
        BY <4>1, <4>2, CopyStrRuns DEF At
    <3>2. Runs(X, Push("str_name"),
               At(1, {}, {}, {"str_name"}),
               At(2, {<<2, "str_name">>}, {}, {}))
      BY PushRuns DEF At, Lives
    <3>3. Runs(X, New("cfn", {"str_name"}),
               At(2, {<<2, "str_name">>}, {}, {}),
               At(2, {<<2, "str_name">>}, {}, {"cfn"}))
      BY NewRuns DEF At, Fresh, Lives
    <3>4. Runs(X, Pop,
               At(2, {<<2, "str_name">>}, {}, {"cfn"}),
               At(1, {}, {}, {"cfn", "str_name"}))
      <4>1. 2 \in Nat /\ 2 >= 1 /\ 1 = 2 - 1
        OBVIOUS
      <4>2. \A u \in {"cfn", "str_name"} : Lives(u, {<<2, "str_name">>}, {}, {"cfn"})
        BY DEF Lives
      <4> QED
        BY <4>1, <4>2, PopRuns DEF At
    <3>5. Runs(X, CopyStr("str_name") \o Push("str_name") \o New("cfn", {"str_name"}) \o Pop,
               At(1, {}, {}, {}),
               At(1, {}, {}, {"cfn", "str_name"}))
      BY <3>1, <3>2, <3>3, <3>4, Then
    <3>6. Runs(X, Push("cfn"),
               At(1, {}, {}, {"cfn", "str_name"}),
               At(2, {<<2, "cfn">>}, {}, {"str_name"}))
      BY PushRuns DEF At, Lives
    <3>7. Runs(X, hbs_add_member,
               At(2, {<<2, "cfn">>}, {}, {"str_name"}),
               At(1, {}, {}, {}))
      <4>1. Weaker(At(2, {<<2, "cfn">>}, {}, {"str_name"}), At(2, {}, {}, {}))
        BY DEF Weaker, At, Facts
      <4> QED
        BY <4>1, hbs_add_member_runs, WeakerIs, RunsWeaker
    <3>8. Runs(X, Leave({"str_name", "cfn", "name"}), At(1, {}, {}, {}), At(1, {}, {}, {}))
      BY LeaveRuns DEF At, Lives
    <3> QED
      BY <3>5, <3>6, <3>7, <3>8, Then
  <2>2. Weaker(At(1, {<<1, "s">>}, {}, {}), At(1, {}, {}, {}))
    BY DEF Weaker, At, Facts
  <2> QED
    BY <2>1, <2>2, RunsLoop, WeakerIs, RunsWeaker
<1>4. Runs(X, hbs_set_global, At(1, {}, {}, {}), At(0, {}, {}, {}))
  BY hbs_set_global_runs
<1> QED
  BY <1>1, <1>2, <1>3, <1>4, Then DEF open_arr

\* What is returned is res, which no root leads to until it is pushed and is
\* no object; fn is not the function inside it.
LEMMA Function_runs ==
    ASSUME NEW X
    PROVE  Runs(X, Function("fn"),
                Facts(0, {}, {"fn", "res"}, {}, {}, {<<"res", "fn">>}),
                Facts(0, {}, {"fn", "res"}, {}, {}, {<<"res", "fn">>}))
<1>1. Runs(X, InitCompiler("inner", TRUE),
           Facts(0, {}, {"fn", "res"}, {}, {}, {<<"res", "fn">>}),
           Facts(0, {}, {"fn", "inner", "res"}, {}, {},
                 {<<"fn", "inner">>, <<"res", "fn">>, <<"res", "inner">>}))
  <2>1. Room(0, {})
    BY DEF Room
  <2>2. \A u \in {"inner", "path", "fn_name"} : Fresh(u, {}, {"fn", "res"}, {}, {<<"res", "fn">>})
    BY DEF Fresh
  <2>3. {"fn", "inner", "res"} = {"fn", "res"} \union {"inner"}
    OBVIOUS
  <2>4. "inner" \notin {"path", "fn_name"} /\
            {<<"res", "fn">>} \subseteq {<<"fn", "inner">>, <<"res", "fn">>, <<"res", "inner">>}
    OBVIOUS
  <2>5. \A u, w : <<u, w>> \in {<<"fn", "inner">>, <<"res", "fn">>, <<"res", "inner">>} =>
            <<u, w>> \in {<<"res", "fn">>} \/ (w = "inner" /\ u \in {"fn", "res"})
    OBVIOUS
  <2> QED
    BY <2>1, <2>2, <2>3, <2>4, <2>5, InitCompilerRuns DEF At
<1>2. Runs(X, IdentConst("inner"),
           Facts(0, {}, {"fn", "inner", "res"}, {}, {},
                 {<<"fn", "inner">>, <<"res", "fn">>, <<"res", "inner">>}),
           Facts(0, {}, {"fn", "inner", "res"}, {}, {},
                 {<<"fn", "inner">>, <<"res", "fn">>, <<"res", "inner">>}))
  <2>1. Room(0, {})
    BY DEF Room
  <2>2. Fresh("ident", {}, {"fn", "inner", "res"}, {}, {<<"fn", "inner">>, <<"res", "fn">>,
            <<"res", "inner">>})
    BY DEF Fresh
  <2> QED
    BY <2>1, <2>2, IdentConstRuns DEF At
<1>3. Runs(X, EndCompiler("inner"),
           Facts(0, {}, {"fn", "inner", "res"}, {}, {},
                 {<<"fn", "inner">>, <<"res", "fn">>, <<"res", "inner">>}),
           Facts(0, {}, {"fn", "res"}, {"inner"}, {},
                 {<<"fn", "inner">>, <<"res", "fn">>, <<"res", "inner">>}))
  <2>1. Runs(X, Alloc,
             Facts(0, {}, {"fn", "inner", "res"}, {}, {},
                   {<<"fn", "inner">>, <<"res", "fn">>, <<"res", "inner">>}),
             Facts(0, {}, {"fn", "inner", "res"}, {}, {},
                   {<<"fn", "inner">>, <<"res", "fn">>, <<"res", "inner">>}))
    BY AllocRuns DEF At
  <2>2. Runs(X, Drop("inner"),
             Facts(0, {}, {"fn", "inner", "res"}, {}, {},
                   {<<"fn", "inner">>, <<"res", "fn">>, <<"res", "inner">>}),
             Facts(0, {}, {"fn", "res"}, {"inner"}, {},
                   {<<"fn", "inner">>, <<"res", "fn">>, <<"res", "inner">>}))
    BY DropRuns DEF At, Lives
  <2> QED
    BY <2>1, <2>2, Then DEF EndCompiler
<1>4. Runs(X, CreateConst("fn", "inner"),
           Facts(0, {}, {"fn", "res"}, {"inner"}, {},
                 {<<"fn", "inner">>, <<"res", "fn">>, <<"res", "inner">>}),
           Facts(0, {}, {"fn", "res"}, {}, {},
                 {<<"fn", "inner">>, <<"res", "fn">>, <<"res", "inner">>}))
  <2>1. Room(0, {})
    BY DEF Room
  <2>2. Lives("inner", {}, {"fn", "res"}, {"inner"})
    BY DEF Lives
  <2> QED
    BY <2>1, <2>2, CreateConstRuns DEF At
<1>5. Runs(X, InitCompiler("inner", TRUE) \o IdentConst("inner") \o EndCompiler("inner")
              \o CreateConst("fn", "inner"),
           Facts(0, {}, {"fn", "res"}, {}, {}, {<<"res", "fn">>}),
           Facts(0, {}, {"fn", "res"}, {}, {},
                 {<<"fn", "inner">>, <<"res", "fn">>, <<"res", "inner">>}))
  BY <1>1, <1>2, <1>3, <1>4, Then
<1>6. Runs(X, Leave({"inner"}),
           Facts(0, {}, {"fn", "res"}, {}, {},
                 {<<"fn", "inner">>, <<"res", "fn">>, <<"res", "inner">>}),
           Facts(0, {}, {"fn", "res"}, {}, {}, {<<"res", "fn">>}))
  BY LeaveRuns DEF At, Lives
<1> QED
  BY <1>5, <1>6, Then DEF Function

LEMMA vm_interp_runs ==
    ASSUME NEW X, "tok" \in X, "key" \in X
    PROVE  Runs(X, vm_interp, At(0, {}, {"res"}, {}), At(1, {}, {}, {}))
<1>1. Runs(X, InitCompiler("fn", FALSE),
           At(0, {}, {"res"}, {}),
           Facts(0, {}, {"fn", "res"}, {}, {}, {<<"res", "fn">>}))
  <2>1. Room(0, {})
    BY DEF Room
  <2>2. \A u \in {"fn", "path", "fn_name"} : Fresh(u, {}, {"res"}, {}, {})
    BY DEF Fresh
  <2>3. {"fn", "res"} = {"res"} \union {"fn"}
    OBVIOUS
  <2>4. "fn" \notin {"path", "fn_name"} /\ {} \subseteq {<<"res", "fn">>}
    OBVIOUS
  <2>5. \A u, w : <<u, w>> \in {<<"res", "fn">>} => <<u, w>> \in {} \/ (w = "fn" /\ u \in {"res"})
    OBVIOUS
  <2> QED
    BY <2>1, <2>2, <2>3, <2>4, <2>5, InitCompilerRuns DEF At
<1>2. Runs(X, Loop(Either(IdentConst("fn"), Either(StringConst("fn"), Function("fn")))),
           Facts(0, {}, {"fn", "res"}, {}, {}, {<<"res", "fn">>}),
           Facts(0, {}, {"fn", "res"}, {}, {}, {<<"res", "fn">>}))
  <2>1. Runs(X, Either(IdentConst("fn"), Either(StringConst("fn"), Function("fn"))),
             Facts(0, {}, {"fn", "res"}, {}, {}, {<<"res", "fn">>}),
             Facts(0, {}, {"fn", "res"}, {}, {}, {<<"res", "fn">>}))
    <3>1. Runs(X, IdentConst("fn"),
               Facts(0, {}, {"fn", "res"}, {}, {}, {<<"res", "fn">>}),
               Facts(0, {}, {"fn", "res"}, {}, {}, {<<"res", "fn">>}))
      <4>1. Room(0, {})
        BY DEF Room
      <4>2. Fresh("ident", {}, {"fn", "res"}, {}, {<<"res", "fn">>})
        BY DEF Fresh
      <4> QED
        BY <4>1, <4>2, IdentConstRuns DEF At
    <3>2. Runs(X, Either(StringConst("fn"), Function("fn")),
               Facts(0, {}, {"fn", "res"}, {}, {}, {<<"res", "fn">>}),
               Facts(0, {}, {"fn", "res"}, {}, {}, {<<"res", "fn">>}))
      <4>1. Runs(X, StringConst("fn"),
                 Facts(0, {}, {"fn", "res"}, {}, {}, {<<"res", "fn">>}),
                 Facts(0, {}, {"fn", "res"}, {}, {}, {<<"res", "fn">>}))
        <5>1. Room(0, {})
          BY DEF Room
        <5>2. Fresh("tok", {}, {"fn", "res"}, {}, {<<"res", "fn">>})
          BY DEF Fresh
        <5> QED
          BY <5>1, <5>2, StringConstRuns DEF At
      <4>2. Runs(X, Function("fn"),
                 Facts(0, {}, {"fn", "res"}, {}, {}, {<<"res", "fn">>}),
                 Facts(0, {}, {"fn", "res"}, {}, {}, {<<"res", "fn">>}))
        BY Function_runs
      <4> QED
        BY <4>1, <4>2, RunsEither
    <3> QED
      BY <3>1, <3>2, RunsEither
  <2> QED
    BY <2>1, RunsLoop
<1>3. Runs(X, EndCompiler("fn"),
           Facts(0, {}, {"fn", "res"}, {}, {}, {<<"res", "fn">>}),
           Facts(0, {}, {"res"}, {"fn"}, {}, {<<"res", "fn">>}))
  <2>1. Runs(X, Alloc,
             Facts(0, {}, {"fn", "res"}, {}, {}, {<<"res", "fn">>}),
             Facts(0, {}, {"fn", "res"}, {}, {}, {<<"res", "fn">>}))
    BY AllocRuns DEF At
  <2>2. Runs(X, Drop("fn"),
             Facts(0, {}, {"fn", "res"}, {}, {}, {<<"res", "fn">>}),
             Facts(0, {}, {"res"}, {"fn"}, {}, {<<"res", "fn">>}))
    BY DropRuns DEF At, Lives
  <2> QED
    BY <2>1, <2>2, Then DEF EndCompiler
<1>4. Runs(X, Push("fn"),
           Facts(0, {}, {"res"}, {"fn"}, {}, {<<"res", "fn">>}),
           Facts(1, {<<1, "fn">>}, {"res"}, {}, {}, {<<"res", "fn">>}))
  BY PushRuns DEF At, Lives
<1>5. Runs(X, InitCompiler("fn", FALSE)
              \o Loop(Either(IdentConst("fn"), Either(StringConst("fn"), Function("fn"))))
              \o EndCompiler("fn") \o Push("fn"),
           At(0, {}, {"res"}, {}),
           Facts(1, {<<1, "fn">>}, {"res"}, {}, {}, {<<"res", "fn">>}))
  BY <1>1, <1>2, <1>3, <1>4, Then
<1>6. Runs(X, CreateClosure("closure", "fn"),
           Facts(1, {<<1, "fn">>}, {"res"}, {}, {}, {<<"res", "fn">>}),
           Facts(1, {<<1, "fn">>}, {"res"}, {"closure"}, {}, {<<"res", "fn">>}))
  <2>1. Fresh("closure", {<<1, "fn">>}, {"res"}, {}, {<<"res", "fn">>})
    BY DEF Fresh
  <2>2. Lives("fn", {<<1, "fn">>}, {"res"}, {})
    BY DEF Lives
  <2> QED
    BY <2>1, <2>2, CreateClosureRuns DEF At
<1>7. Runs(X, Pop,
           Facts(1, {<<1, "fn">>}, {"res"}, {"closure"}, {}, {<<"res", "fn">>}),
           Facts(0, {}, {"res"}, {"closure"}, {}, {<<"res", "fn">>}))
  <2>1. 1 \in Nat /\ 1 >= 1 /\ 0 = 1 - 1
    OBVIOUS
  <2>2. \A u \in {"closure"} : Lives(u, {<<1, "fn">>}, {"res"}, {"closure"})
    BY DEF Lives
  <2> QED
    BY <2>1, <2>2, PopRuns DEF At
<1>8. Runs(X, Push("closure"),
           Facts(0, {}, {"res"}, {"closure"}, {}, {<<"res", "fn">>}),
           Facts(1, {<<1, "closure">>}, {"res"}, {}, {}, {<<"res", "fn">>}))
  BY PushRuns DEF At, Lives
<1>9. Runs(X, InitCompiler("fn", FALSE)
              \o Loop(Either(IdentConst("fn"), Either(StringConst("fn"), Function("fn"))))
              \o EndCompiler("fn") \o Push("fn") \o CreateClosure("closure", "fn") \o Pop
              \o Push("closure"),
           At(0, {}, {"res"}, {}),
           Facts(1, {<<1, "closure">>}, {"res"}, {}, {}, {<<"res", "fn">>}))
  BY <1>5, <1>6, <1>7, <1>8, Then
<1>10. Runs(X, Keep("closure"),
            Facts(1, {<<1, "closure">>}, {"res"}, {}, {}, {<<"res", "fn">>}),
            Facts(1, {<<1, "closure">>}, {"res"}, {}, {}, {<<"res", "fn">>}))
  BY KeepRuns DEF At, Lives
<1>11. Runs(X, Drop("closure"),
            Facts(1, {<<1, "closure">>}, {"res"}, {}, {}, {<<"res", "fn">>}),
            Facts(1, {<<1, "closure">>}, {}, {"res"}, {}, {<<"res", "fn">>}))
  BY DropRuns DEF At, Lives
<1>12. Runs(X, Leave({"fn", "closure"}),
            Facts(1, {<<1, "closure">>}, {}, {"res"}, {}, {<<"res", "fn">>}),
            At(1, {}, {}, {"res"}))
  BY LeaveRuns DEF At, Lives
<1>13. Runs(X, InitCompiler("fn", FALSE)
               \o Loop(Either(IdentConst("fn"), Either(StringConst("fn"), Function("fn"))))
               \o EndCompiler("fn") \o Push("fn") \o CreateClosure("closure", "fn") \o Pop
               \o Push("closure") \o Keep("closure") \o Drop("closure")
               \o Leave({"fn", "closure"}),
            At(0, {}, {"res"}, {}),
            At(1, {}, {}, {"res"}))
  BY <1>9, <1>10, <1>11, <1>12, Then
<1>14. Runs(X, Pop, At(1, {}, {}, {"res"}), At(0, {}, {}, {"res"}))
  <2>1. 1 \in Nat /\ 1 >= 1 /\ 0 = 1 - 1
    OBVIOUS
  <2>2. \A u \in {"res"} : Lives(u, {}, {}, {"res"})
    BY DEF Lives
  <2> QED
    BY <2>1, <2>2, PopRuns DEF At
<1>15. Runs(X, Push("res"), At(0, {}, {}, {"res"}), At(1, {<<1, "res">>}, {}, {}))
  BY PushRuns DEF At, Lives
<1>16. Runs(X, CopyStr("key"),
            At(1, {<<1, "res">>}, {}, {}),
            At(1, {<<1, "res">>}, {}, {"key"}))
  <2>1. Room(1, {<<1, "res">>})
    BY DEF Room
  <2>2. Fresh("key", {<<1, "res">>}, {}, {}, {})
    BY DEF Fresh
  <2> QED
    BY <2>1, <2>2, CopyStrRuns DEF At
<1>17. Runs(X, InitCompiler("fn", FALSE)
               \o Loop(Either(IdentConst("fn"), Either(StringConst("fn"), Function("fn"))))
               \o EndCompiler("fn") \o Push("fn") \o CreateClosure("closure", "fn") \o Pop
               \o Push("closure") \o Keep("closure") \o Drop("closure")
               \o Leave({"fn", "closure"}) \o Pop \o Push("res") \o CopyStr("key"),
            At(0, {}, {"res"}, {}),
            At(1, {<<1, "res">>}, {}, {"key"}))
  BY <1>13, <1>14, <1>15, <1>16, Then
<1>18. Runs(X, Alloc, At(1, {<<1, "res">>}, {}, {"key"}), At(1, {<<1, "res">>}, {}, {}))
  BY AllocRuns DEF At
<1>19. Runs(X, Keep("key"), At(1, {<<1, "res">>}, {}, {}), At(1, {<<1, "res">>}, {}, {}))
  BY KeepRuns DEF At, Lives
<1>20. Runs(X, Keep("res"), At(1, {<<1, "res">>}, {}, {}), At(1, {<<1, "res">>}, {}, {}))
  BY KeepRuns DEF At, Lives
<1>21. Runs(X, InitCompiler("fn", FALSE)
               \o Loop(Either(IdentConst("fn"), Either(StringConst("fn"), Function("fn"))))
               \o EndCompiler("fn") \o Push("fn") \o CreateClosure("closure", "fn") \o Pop
               \o Push("closure") \o Keep("closure") \o Drop("closure")
               \o Leave({"fn", "closure"}) \o Pop \o Push("res") \o CopyStr("key") \o Alloc
               \o Keep("key") \o Keep("res"),
            At(0, {}, {"res"}, {}),
            At(1, {<<1, "res">>}, {}, {}))
  BY <1>17, <1>18, <1>19, <1>20, Then
<1>22. Weaker(At(1, {<<1, "res">>}, {}, {}), At(1, {}, {}, {}))
  BY DEF Weaker, At, Facts
<1> QED
  BY <1>21, <1>22, WeakerIs, RunsWeaker DEF vm_interp

-----------------------------------------------------------------------------
(* Every operation runs.                                                    *)

Does(o) == Runs(Exempt(o), Code[o].code, Operands(Len(Code[o].takes)), Values(Code[o].gives))

\* No variable is set when an operation starts, and what is known at its end is
\* at least how many values it leaves.
LEMMA FromStart ==
    ASSUME NEW X, NEW P, NEW n, NEW g, NEW in, NEW on, NEW live, NEW made,
           in \subseteq {"null", "res"},
           Runs(X, P, At(n, {}, in, {}), Facts(g, on, {}, live, made, {}))
    PROVE  Runs(X, P, Operands(n), Values(g))
<1>1. Weaker(Operands(n), At(n, {}, in, {}))
  BY DEF Weaker, Operands, At, Facts
<1>2. Weaker(Facts(g, on, {}, live, made, {}), Values(g))
  BY DEF Weaker, Values, Facts
<1> QED
  BY <1>1, <1>2, RunsWeaker

LEMMA EveryOperationRuns == Operations
<1>1. Does("bc_const")
  <2>1. Code["bc_const"].code = bc_const /\ Code["bc_const"].gives = 1
    BY DEF Code, Operation
  <2>2. Len(Code["bc_const"].takes) = 0
    BY DEF Code, Operation
  <2>3. Runs(Exempt("bc_const"), bc_const, At(0, {}, {}, {}), Facts(1, {}, {}, {}, {}, {}))
    BY bc_const_runs DEF At
  <2>4. {} \subseteq {"null", "res"}
    OBVIOUS
  <2>5. Runs(Exempt("bc_const"), bc_const, Operands(0), Values(1))
    BY <2>3, <2>4, FromStart
  <2> QED
    BY <2>1, <2>2, <2>5 DEF Does
<1>2. Does("bc_null")
  <2>1. Code["bc_null"].code = bc_null /\ Code["bc_null"].gives = 1
    BY DEF Code, Operation
  <2>2. Len(Code["bc_null"].takes) = 0
    BY DEF Code, Operation
  <2>3. Runs(Exempt("bc_null"), bc_null,
             At(0, {}, {"null"}, {}),
             Facts(1, {}, {}, {}, {}, {}))
    BY bc_null_runs DEF At
  <2>4. {"null"} \subseteq {"null", "res"}
    OBVIOUS
  <2>5. Runs(Exempt("bc_null"), bc_null, Operands(0), Values(1))
    BY <2>3, <2>4, FromStart
  <2> QED
    BY <2>1, <2>2, <2>5 DEF Does
<1>3. Does("bc_def_global")
  <2>1. Code["bc_def_global"].code = bc_def_global /\ Code["bc_def_global"].gives = 0
    BY DEF Code, Operation
  <2>2. Len(Code["bc_def_global"].takes) = 1
    BY DEF Code, Operation
  <2>3. Runs(Exempt("bc_def_global"), bc_def_global,
             At(1, {}, {}, {}),
             Facts(0, {}, {}, {}, {}, {}))
    BY bc_def_global_runs DEF At
  <2>4. {} \subseteq {"null", "res"}
    OBVIOUS
  <2>5. Runs(Exempt("bc_def_global"), bc_def_global, Operands(1), Values(0))
    BY <2>3, <2>4, FromStart
  <2> QED
    BY <2>1, <2>2, <2>5 DEF Does
<1>4. Does("bc_array")
  <2>1. Code["bc_array"].code = bc_array /\ Code["bc_array"].gives = 1
    BY DEF Code, Operation
  <2>2. Len(Code["bc_array"].takes) = 0
    BY DEF Code, Operation
  <2>3. Runs(Exempt("bc_array"), bc_array, At(0, {}, {}, {}), Facts(1, {}, {}, {}, {}, {}))
    BY bc_array_runs DEF At
  <2>4. {} \subseteq {"null", "res"}
    OBVIOUS
  <2>5. Runs(Exempt("bc_array"), bc_array, Operands(0), Values(1))
    BY <2>3, <2>4, FromStart
  <2> QED
    BY <2>1, <2>2, <2>5 DEF Does
<1>5. Does("bc_array_item")
  <2>1. Code["bc_array_item"].code = bc_array_item /\ Code["bc_array_item"].gives = 1
    BY DEF Code, Operation
  <2>2. Len(Code["bc_array_item"].takes) = 2
    BY DEF Code, Operation
  <2>3. Runs(Exempt("bc_array_item"), bc_array_item,
             At(2, {}, {}, {}),
             Facts(1, {}, {}, {}, {}, {}))
    BY bc_array_item_runs DEF At
  <2>4. {} \subseteq {"null", "res"}
    OBVIOUS
  <2>5. Runs(Exempt("bc_array_item"), bc_array_item, Operands(2), Values(1))
    BY <2>3, <2>4, FromStart
  <2> QED
    BY <2>1, <2>2, <2>5 DEF Does
<1>6. Does("bc_set_prop")
  <2>1. Code["bc_set_prop"].code = bc_set_prop /\ Code["bc_set_prop"].gives = 1
    BY DEF Code, Operation
  <2>2. Len(Code["bc_set_prop"].takes) = 2
    BY DEF Code, Operation
  <2>3. Runs(Exempt("bc_set_prop"), bc_set_prop,
             At(2, {}, {}, {}),
             Facts(1, {}, {}, {}, {}, {}))
    BY bc_set_prop_runs DEF At
  <2>4. {} \subseteq {"null", "res"}
    OBVIOUS
  <2>5. Runs(Exempt("bc_set_prop"), bc_set_prop, Operands(2), Values(1))
    BY <2>3, <2>4, FromStart
  <2> QED
    BY <2>1, <2>2, <2>5 DEF Does
<1>7. Does("bc_member")
  <2>1. Code["bc_member"].code = bc_member /\ Code["bc_member"].gives = 1
    BY DEF Code, Operation
  <2>2. Len(Code["bc_member"].takes) = 2
    BY DEF Code, Operation
  <2>3. Runs(Exempt("bc_member"), bc_member,
             At(2, {}, {}, {}),
             Facts(1, {}, {}, {}, {}, {}))
    BY bc_member_runs DEF At
  <2>4. {} \subseteq {"null", "res"}
    OBVIOUS
  <2>5. Runs(Exempt("bc_member"), bc_member, Operands(2), Values(1))
    BY <2>3, <2>4, FromStart
  <2> QED
    BY <2>1, <2>2, <2>5 DEF Does
<1>8. Does("bc_struct")
  <2>1. Code["bc_struct"].code = bc_struct /\ Code["bc_struct"].gives = 1
    BY DEF Code, Operation
  <2>2. Len(Code["bc_struct"].takes) = 0
    BY DEF Code, Operation
  <2>3. Runs(Exempt("bc_struct"), bc_struct,
             At(0, {}, {}, {}),
             Facts(1, {}, {}, {}, {}, {}))
    BY bc_struct_runs DEF At
  <2>4. {} \subseteq {"null", "res"}
    OBVIOUS
  <2>5. Runs(Exempt("bc_struct"), bc_struct, Operands(0), Values(1))
    BY <2>3, <2>4, FromStart
  <2> QED
    BY <2>1, <2>2, <2>5 DEF Does
<1>9. Does("bc_enum")
  <2>1. Code["bc_enum"].code = bc_enum /\ Code["bc_enum"].gives = 1
    BY DEF Code, Operation
  <2>2. Len(Code["bc_enum"].takes) = 0
    BY DEF Code, Operation
  <2>3. "_enum" \in Exempt("bc_enum")
    BY ExemptIs DEF Unrooted
  <2>4. Runs(Exempt("bc_enum"), bc_enum, At(0, {}, {}, {}), Facts(1, {}, {}, {}, {}, {}))
    BY <2>3, bc_enum_runs DEF At
  <2>5. {} \subseteq {"null", "res"}
    OBVIOUS
  <2>6. Runs(Exempt("bc_enum"), bc_enum, Operands(0), Values(1))
    BY <2>4, <2>5, FromStart
  <2> QED
    BY <2>1, <2>2, <2>6 DEF Does
<1>10. Does("bc_inst")
  <2>1. Code["bc_inst"].code = bc_inst /\ Code["bc_inst"].gives = 1
    BY DEF Code, Operation
  <2>2. Len(Code["bc_inst"].takes) = 1
    BY DEF Code, Operation
  <2>3. "inst" \in Exempt("bc_inst")
    BY ExemptIs DEF Unrooted
  <2>4. Runs(Exempt("bc_inst"), bc_inst, At(1, {}, {}, {}), Facts(1, {}, {}, {}, {}, {}))
    BY <2>3, bc_inst_runs DEF At
  <2>5. {} \subseteq {"null", "res"}
    OBVIOUS
  <2>6. Runs(Exempt("bc_inst"), bc_inst, Operands(1), Values(1))
    BY <2>4, <2>5, FromStart
  <2> QED
    BY <2>1, <2>2, <2>6 DEF Does
<1>11. Does("bc_closure")
  <2>1. Code["bc_closure"].code = bc_closure /\ Code["bc_closure"].gives = 1
    BY DEF Code, Operation
  <2>2. Len(Code["bc_closure"].takes) = 0
    BY DEF Code, Operation
  <2>3. Runs(Exempt("bc_closure"), bc_closure,
             At(0, {}, {}, {}),
             Facts(1, {}, {}, {}, {}, {}))
    BY bc_closure_runs DEF At
  <2>4. {} \subseteq {"null", "res"}
    OBVIOUS
  <2>5. Runs(Exempt("bc_closure"), bc_closure, Operands(0), Values(1))
    BY <2>3, <2>4, FromStart
  <2> QED
    BY <2>1, <2>2, <2>5 DEF Does
<1>12. Does("bc_get_prop")
  <2>1. Code["bc_get_prop"].code = bc_get_prop /\ Code["bc_get_prop"].gives = 1
    BY DEF Code, Operation
  <2>2. Len(Code["bc_get_prop"].takes) = 1
    BY DEF Code, Operation
  <2>3. Runs(Exempt("bc_get_prop"), bc_get_prop,
             At(1, {}, {}, {}),
             Facts(1, {}, {}, {}, {}, {}))
    BY bc_get_prop_runs DEF At
  <2>4. {} \subseteq {"null", "res"}
    OBVIOUS
  <2>5. Runs(Exempt("bc_get_prop"), bc_get_prop, Operands(1), Values(1))
    BY <2>3, <2>4, FromStart
  <2> QED
    BY <2>1, <2>2, <2>5 DEF Does
<1>13. Does("bc_get_subscript")
  <2>1. Code["bc_get_subscript"].code = bc_get_subscript /\ Code["bc_get_subscript"].gives = 1
    BY DEF Code, Operation
  <2>2. Len(Code["bc_get_subscript"].takes) = 2
    BY DEF Code, Operation
  <2>3. "container" \in Exempt("bc_get_subscript")
    BY ExemptIs DEF Unrooted
  <2>4. Runs(Exempt("bc_get_subscript"), bc_get_subscript,
             At(2, {}, {}, {}),
             Facts(1, {}, {}, {}, {}, {}))
    BY <2>3, bc_get_subscript_runs DEF At
  <2>5. {} \subseteq {"null", "res"}
    OBVIOUS
  <2>6. Runs(Exempt("bc_get_subscript"), bc_get_subscript, Operands(2), Values(1))
    BY <2>4, <2>5, FromStart
  <2> QED
    BY <2>1, <2>2, <2>6 DEF Does
<1>14. Does("bc_push_subscript")
  <2>1. Code["bc_push_subscript"].code = bc_push_subscript /\ Code["bc_push_subscript"].gives = 3
    BY DEF Code, Operation
  <2>2. Len(Code["bc_push_subscript"].takes) = 2
    BY DEF Code, Operation
  <2>3. Runs(Exempt("bc_push_subscript"), bc_push_subscript,
             At(2, {}, {}, {}),
             Facts(3, {}, {}, {}, {}, {}))
    BY bc_push_subscript_runs DEF At
  <2>4. {} \subseteq {"null", "res"}
    OBVIOUS
  <2>5. Runs(Exempt("bc_push_subscript"), bc_push_subscript, Operands(2), Values(3))
    BY <2>3, <2>4, FromStart
  <2> QED
    BY <2>1, <2>2, <2>5 DEF Does
<1>15. Does("bc_cat")
  <2>1. Code["bc_cat"].code = bc_cat /\ Code["bc_cat"].gives = 1
    BY DEF Code, Operation
  <2>2. Len(Code["bc_cat"].takes) = 2
    BY DEF Code, Operation
  <2>3. "str" \in Exempt("bc_cat")
    BY ExemptIs DEF Unrooted
  <2>4. Runs(Exempt("bc_cat"), bc_cat, At(2, {}, {}, {}), Facts(1, {}, {}, {}, {}, {}))
    BY <2>3, bc_cat_runs DEF At
  <2>5. {} \subseteq {"null", "res"}
    OBVIOUS
  <2>6. Runs(Exempt("bc_cat"), bc_cat, Operands(2), Values(1))
    BY <2>4, <2>5, FromStart
  <2> QED
    BY <2>1, <2>2, <2>6 DEF Does
<1>16. Does("bc_invoke")
  <2>1. Code["bc_invoke"].code = bc_invoke /\ Code["bc_invoke"].gives = 1
    BY DEF Code, Operation
  <2>2. Len(Code["bc_invoke"].takes) = 1
    BY DEF Code, Operation
  <2>3. "struct" \in Exempt("bc_invoke")
    BY ExemptIs DEF Unrooted
  <2>4. Runs(Exempt("bc_invoke"), bc_invoke,
             At(1, {}, {}, {}),
             Facts(1, {}, {}, {}, {}, {}))
    BY <2>3, bc_invoke_runs DEF At
  <2>5. {} \subseteq {"null", "res"}
    OBVIOUS
  <2>6. Runs(Exempt("bc_invoke"), bc_invoke, Operands(1), Values(1))
    BY <2>4, <2>5, FromStart
  <2> QED
    BY <2>1, <2>2, <2>6 DEF Does
<1>17. Does("hbs_set_global")
  <2>1. Code["hbs_set_global"].code = hbs_set_global /\ Code["hbs_set_global"].gives = 0
    BY DEF Code, Operation
  <2>2. Len(Code["hbs_set_global"].takes) = 1
    BY DEF Code, Operation
  <2>3. Runs(Exempt("hbs_set_global"), hbs_set_global,
             At(1, {}, {}, {}),
             Facts(0, {}, {}, {}, {}, {}))
    BY hbs_set_global_runs DEF At
  <2>4. {} \subseteq {"null", "res"}
    OBVIOUS
  <2>5. Runs(Exempt("hbs_set_global"), hbs_set_global, Operands(1), Values(0))
    BY <2>3, <2>4, FromStart
  <2> QED
    BY <2>1, <2>2, <2>5 DEF Does
<1>18. Does("hbs_get_global")
  <2>1. Code["hbs_get_global"].code = hbs_get_global /\ Code["hbs_get_global"].gives = 1
    BY DEF Code, Operation
  <2>2. Len(Code["hbs_get_global"].takes) = 0
    BY DEF Code, Operation
  <2>3. Runs(Exempt("hbs_get_global"), hbs_get_global,
             At(0, {}, {}, {}),
             Facts(1, {}, {}, {}, {}, {}))
    BY hbs_get_global_runs DEF At
  <2>4. {} \subseteq {"null", "res"}
    OBVIOUS
  <2>5. Runs(Exempt("hbs_get_global"), hbs_get_global, Operands(0), Values(1))
    BY <2>3, <2>4, FromStart
  <2> QED
    BY <2>1, <2>2, <2>5 DEF Does
<1>19. Does("hbs_push_struct")
  <2>1. Code["hbs_push_struct"].code = hbs_push_struct /\ Code["hbs_push_struct"].gives = 1
    BY DEF Code, Operation
  <2>2. Len(Code["hbs_push_struct"].takes) = 0
    BY DEF Code, Operation
  <2>3. Runs(Exempt("hbs_push_struct"), hbs_push_struct,
             At(0, {}, {}, {}),
             Facts(1, {<<1, "s">>}, {}, {}, {"s"}, {}))
    BY hbs_push_struct_runs DEF At
  <2>4. {} \subseteq {"null", "res"}
    OBVIOUS
  <2>5. Runs(Exempt("hbs_push_struct"), hbs_push_struct, Operands(0), Values(1))
    BY <2>3, <2>4, FromStart
  <2> QED
    BY <2>1, <2>2, <2>5 DEF Does
<1>20. Does("hbs_push_string")
  <2>1. Code["hbs_push_string"].code = hbs_push_string /\ Code["hbs_push_string"].gives = 1
    BY DEF Code, Operation
  <2>2. Len(Code["hbs_push_string"].takes) = 0
    BY DEF Code, Operation
  <2>3. Runs(Exempt("hbs_push_string"), hbs_push_string,
             At(0, {}, {}, {}),
             Facts(1, {}, {}, {}, {}, {}))
    BY hbs_push_string_runs DEF At
  <2>4. {} \subseteq {"null", "res"}
    OBVIOUS
  <2>5. Runs(Exempt("hbs_push_string"), hbs_push_string, Operands(0), Values(1))
    BY <2>3, <2>4, FromStart
  <2> QED
    BY <2>1, <2>2, <2>5 DEF Does
<1>21. Does("hbs_add_static_const")
  <2>1. Code["hbs_add_static_const"].code = hbs_add_static_const /\
            Code["hbs_add_static_const"].gives = 1
    BY DEF Code, Operation
  <2>2. Len(Code["hbs_add_static_const"].takes) = 2
    BY DEF Code, Operation
  <2>3. Runs(Exempt("hbs_add_static_const"), hbs_add_static_const,
             At(2, {}, {}, {}),
             Facts(1, {}, {}, {}, {}, {}))
    BY hbs_add_static_const_runs DEF At
  <2>4. {} \subseteq {"null", "res"}
    OBVIOUS
  <2>5. Runs(Exempt("hbs_add_static_const"), hbs_add_static_const, Operands(2), Values(1))
    BY <2>3, <2>4, FromStart
  <2> QED
    BY <2>1, <2>2, <2>5 DEF Does
<1>22. Does("hbs_add_member")
  <2>1. Code["hbs_add_member"].code = hbs_add_member /\ Code["hbs_add_member"].gives = 1
    BY DEF Code, Operation
  <2>2. Len(Code["hbs_add_member"].takes) = 2
    BY DEF Code, Operation
  <2>3. Runs(Exempt("hbs_add_member"), hbs_add_member,
             At(2, {}, {}, {}),
             Facts(1, {}, {}, {}, {}, {}))
    BY hbs_add_member_runs DEF At
  <2>4. {} \subseteq {"null", "res"}
    OBVIOUS
  <2>5. Runs(Exempt("hbs_add_member"), hbs_add_member, Operands(2), Values(1))
    BY <2>3, <2>4, FromStart
  <2> QED
    BY <2>1, <2>2, <2>5 DEF Does
<1>23. Does("hbs_add_enum")
  <2>1. Code["hbs_add_enum"].code = hbs_add_enum /\ Code["hbs_add_enum"].gives = 1
    BY DEF Code, Operation
  <2>2. Len(Code["hbs_add_enum"].takes) = 1
    BY DEF Code, Operation
  <2>3. Runs(Exempt("hbs_add_enum"), hbs_add_enum,
             At(1, {}, {}, {}),
             Facts(1, {}, {}, {}, {}, {}))
    BY hbs_add_enum_runs DEF At
  <2>4. {} \subseteq {"null", "res"}
    OBVIOUS
  <2>5. Runs(Exempt("hbs_add_enum"), hbs_add_enum, Operands(1), Values(1))
    BY <2>3, <2>4, FromStart
  <2> QED
    BY <2>1, <2>2, <2>5 DEF Does
<1>24. Does("hbs_tostr")
  <2>1. Code["hbs_tostr"].code = hbs_tostr /\ Code["hbs_tostr"].gives = 2
    BY DEF Code, Operation
  <2>2. Len(Code["hbs_tostr"].takes) = 1
    BY DEF Code, Operation
  <2>3. "str" \in Exempt("hbs_tostr")
    BY ExemptIs DEF Unrooted
  <2>4. Runs(Exempt("hbs_tostr"), hbs_tostr,
             At(1, {}, {}, {}),
             Facts(2, {}, {}, {}, {}, {}))
    BY <2>3, hbs_tostr_runs DEF At
  <2>5. {} \subseteq {"null", "res"}
    OBVIOUS
  <2>6. Runs(Exempt("hbs_tostr"), hbs_tostr, Operands(1), Values(2))
    BY <2>4, <2>5, FromStart
  <2> QED
    BY <2>1, <2>2, <2>6 DEF Does
<1>25. Does("hbs_get_tostring")
  <2>1. Code["hbs_get_tostring"].code = hbs_get_tostring /\ Code["hbs_get_tostring"].gives = 1
    BY DEF Code, Operation
  <2>2. Len(Code["hbs_get_tostring"].takes) = 1
    BY DEF Code, Operation
  <2>3. "str" \in Exempt("hbs_get_tostring")
    BY ExemptIs DEF Unrooted
  <2>4. Runs(Exempt("hbs_get_tostring"), hbs_get_tostring,
             At(1, {}, {}, {}),
             Facts(1, {}, {}, {}, {}, {}))
    BY <2>3, hbs_get_tostring_runs DEF At
  <2>5. {} \subseteq {"null", "res"}
    OBVIOUS
  <2>6. Runs(Exempt("hbs_get_tostring"), hbs_get_tostring, Operands(1), Values(1))
    BY <2>4, <2>5, FromStart
  <2> QED
    BY <2>1, <2>2, <2>6 DEF Does
<1>26. Does("str_rem")
  <2>1. Code["str_rem"].code = str_rem /\ Code["str_rem"].gives = 2
    BY DEF Code, Operation
  <2>2. Len(Code["str_rem"].takes) = 1
    BY DEF Code, Operation
  <2>3. Runs(Exempt("str_rem"), str_rem, At(1, {}, {}, {}), Facts(2, {}, {}, {}, {}, {}))
    BY str_rem_runs DEF At
  <2>4. {} \subseteq {"null", "res"}
    OBVIOUS
  <2>5. Runs(Exempt("str_rem"), str_rem, Operands(1), Values(2))
    BY <2>3, <2>4, FromStart
  <2> QED
    BY <2>1, <2>2, <2>5 DEF Does
<1>27. Does("open_arr")
  <2>1. Code["open_arr"].code = open_arr /\ Code["open_arr"].gives = 0
    BY DEF Code, Operation
  <2>2. Len(Code["open_arr"].takes) = 0
    BY DEF Code, Operation
  <2>3. Runs(Exempt("open_arr"), open_arr, At(0, {}, {}, {}), Facts(0, {}, {}, {}, {}, {}))
    BY open_arr_runs DEF At
  <2>4. {} \subseteq {"null", "res"}
    OBVIOUS
  <2>5. Runs(Exempt("open_arr"), open_arr, Operands(0), Values(0))
    BY <2>3, <2>4, FromStart
  <2> QED
    BY <2>1, <2>2, <2>5 DEF Does
<1>28. Does("vm_interp")
  <2>1. Code["vm_interp"].code = vm_interp /\ Code["vm_interp"].gives = 1
    BY DEF Code, Operation
  <2>2. Len(Code["vm_interp"].takes) = 0
    BY DEF Code, Operation
  <2>3. "tok" \in Exempt("vm_interp") /\ "key" \in Exempt("vm_interp")
    BY ExemptIs DEF Unrooted
  <2>4. Runs(Exempt("vm_interp"), vm_interp,
             At(0, {}, {"res"}, {}),
             Facts(1, {}, {}, {}, {}, {}))
    BY <2>3, vm_interp_runs DEF At
  <2>5. {"res"} \subseteq {"null", "res"}
    OBVIOUS
  <2>6. Runs(Exempt("vm_interp"), vm_interp, Operands(0), Values(1))
    BY <2>4, <2>5, FromStart
  <2> QED
    BY <2>1, <2>2, <2>6 DEF Does
<1>29. DOMAIN Code = {"bc_const", "bc_null", "bc_def_global", "bc_array", "bc_array_item",
           "bc_set_prop",
          "bc_member", "bc_struct", "bc_enum", "bc_inst", "bc_closure", "bc_get_prop",
          "bc_get_subscript", "bc_push_subscript", "bc_cat", "bc_invoke", "hbs_set_global",
          "hbs_get_global", "hbs_push_struct", "hbs_push_string", "hbs_add_static_const",
          "hbs_add_member", "hbs_add_enum", "hbs_tostr", "hbs_get_tostring", "str_rem",
          "open_arr", "vm_interp"}
  BY DEF Code
<1> QED
  BY <1>1, <1>2, <1>3, <1>4, <1>5, <1>6, <1>7, <1>8, <1>9, <1>10, <1>11, <1>12, <1>13,
     <1>14, <1>15, <1>16, <1>17, <1>18, <1>19, <1>20, <1>21, <1>22, <1>23, <1>24, <1>25,
     <1>26, <1>27, <1>28, <1>29 DEF Operations, Does

-----------------------------------------------------------------------------
(* Theorems.                                                                *)

LEMMA Invariant == Spec => []Inv
<1>1. Init => Inv
  BY InitInv
<1>2. Inv /\ [Next]_vars => Inv'
  BY EveryOperationRuns, NextKeeps
<1> QED
  BY <1>1, <1>2, PTL DEF Spec

\* Objects refer to objects, the roots hold objects that exist, and a C variable
\* holds one, or none, or one that has been freed, whenever the allocations of
\* vm.c, api.c, obj.c, tostr.c and compiler.c collect.
THEOREM TypeCorrect == Spec => []TypeOK
<1>1. Inv => TypeOK
  BY DEF Inv
<1> QED
  BY <1>1, Invariant, PTL

\* Every instruction and every function of the API leaves its results in the
\* place of its operands: what it pushes to keep it from the collector it pops.
THEOREM BalancedHolds == Spec => []Balanced
<1>1. Inv => Balanced
  BY InvBalanced
<1> QED
  BY <1>1, Invariant, PTL

\* However much memory there is, and whenever a collection comes, no C function
\* modelled here uses an object that has been freed, other than those listed in
\* Unrooted with the variable that it does not protect.
THEOREM UsesLiveHolds == Spec => []UsesLive
<1>1. Inv => UsesLive
  BY InvUsesLive
<1> QED
  BY <1>1, Invariant, PTL
=============================================================================
