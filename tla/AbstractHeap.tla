---------------------------- MODULE AbstractHeap ----------------------------
(* What the collector of src/src/mem.c promises: memory as the program sees *)
(* it, where a collection is one step that removes exactly the objects no   *)
(* root reaches, and the intern table never offers a removed string.        *)
CONSTANTS Objs, Strings, Sources

VARIABLES heap,    \* the objects that exist
          refs,    \* refs[o], the objects o refers to
          roots,   \* roots[s], the objects root source s refers to
          strs     \* the strings the intern table offers

vars == <<heap, refs, roots, strs>>

Rooted == UNION {roots[s] : s \in Sources}

Closed(S) == \A o \in S : refs[o] \subseteq S

\* The objects a chain of references from a root leads to: the least closed
\* set that holds the roots.
Reachable == LET rooted == Rooted
                 closed == {S \in SUBSET Objs : rooted \subseteq S /\ Closed(S)}
             IN {o \in Objs : \A S \in closed : o \in S}

Init == /\ heap = {} /\ strs = {}
        /\ refs = [o \in Objs |-> {}]
        /\ roots = [s \in Sources |-> {}]

\* A new object, referring to reachable ones, in the hands of a root.
New(o, s) == /\ o \notin heap
             /\ heap' = heap \union {o}
             /\ \E R \in SUBSET Reachable : refs' = [refs EXCEPT ![o] = R]
             /\ roots' = [roots EXCEPT ![s] = @ \union {o}]
             /\ UNCHANGED strs

\* The program rearranges references and roots among what it can reach.
Mutate == /\ \E o \in Reachable, R \in SUBSET Reachable :
                refs' = [refs EXCEPT ![o] = R]
          /\ UNCHANGED <<heap, roots, strs>>

Root(s) == /\ \E R \in SUBSET Reachable : roots' = [roots EXCEPT ![s] = R]
           /\ UNCHANGED <<heap, refs, strs>>

\* A new string is entered into the intern table, or one is found there,
\* garbage or not, and handed out again.
Enter(o) == /\ o \in Reachable \intersect Strings
            /\ strs' = strs \union {o}
            /\ UNCHANGED <<heap, refs, roots>>

Find(o, s) == /\ o \in strs
              /\ roots' = [roots EXCEPT ![s] = @ \union {o}]
              /\ UNCHANGED <<heap, refs, strs>>

Collect == LET live == Reachable IN
           /\ heap' = live
           /\ strs' = strs \intersect live
           /\ refs' = [o \in Objs |-> IF o \in live THEN refs[o] ELSE {}]
           /\ UNCHANGED roots

Next == \/ \E o \in Objs, s \in Sources : New(o, s) \/ Find(o, s)
        \/ \E s \in Sources : Root(s)
        \/ \E o \in Objs : Enter(o)
        \/ Mutate
        \/ Collect

Spec == Init /\ [][Next]_vars
=============================================================================
