------------------------------ MODULE Interning ------------------------------
(* One object per text: copy_str and take_str of obj.c look a text up in the *)
(* intern table and make a string when it is not there.  The table is a     *)
(* HashMap whose keys are the string objects; it keeps none of them alive,   *)
(* and the collector takes the dead ones out of it.  A string is gone from   *)
(* the table before it is freed, so an address used again is a new key.      *)
EXTENDS HashMap

CONSTANTS
    Texts,      \* the texts there are
    Text,       \* Text[k], what string k says
    TextHash    \* TextHash[x], what hash_str makes of text x

ASSUME TextsAssumption ==
    /\ Text \in [Keys -> Texts]
    /\ TextHash \in [Texts -> Nat]
    /\ \A k \in Keys : Hash[k] = TextHash[Text[k]]

VARIABLES
    heap,       \* the strings that exist
    held,       \* those the collector would find, the one just made on the stack
    at,         \* how far copy_str or take_str has come
    text,       \* the text it was given
    new         \* the string it has made, if it has

making == <<heap, held, at, text, new>>
allVars == <<vars, making>>

-----------------------------------------------------------------------------
(* find_str_map: the probe again, but for a text.                           *)

Says(j, x) == /\ items[j].k # NoKey
              /\ Hash[items[j].k] = TextHash[x]
              /\ Text[items[j].k] = x

\* Fault: a tombstone ends the search.
HaltsAtTombstone(j, x) == items[j].k = NoKey \/ Says(j, x)

Halts(j, x) == items[j] = Empty \/ Says(j, x)

HaltSlot(x) == CHOOSE j \in Slots(cap) :
                  /\ Halts(j, x)
                  /\ \A l \in Before(TextHash[x] % cap, j, cap) : ~Halts(l, x)

FindStr(x) == IF count = 0 THEN NoKey ELSE items[HaltSlot(x)].k

-----------------------------------------------------------------------------
(* Making strings.                                                          *)

InternInit == /\ Init
              /\ heap = {}
              /\ held = {}
              /\ at = "none"
              /\ text \in Texts
              /\ new = NoKey

\* The collector may run, and begins with the table.
MayCollect == BeginSweep(held \intersect KeysIn(items, cap)) \/ UNCHANGED vars

\* A text that is known gives its string; else copy_str copies it first, and
\* take_str goes on with the text it was given.
Intern(x, next) ==
    /\ at = "none" /\ pc = "idle"
    /\ text' = x
    /\ IF FindStr(x) # NoKey
       THEN held' = held \union {FindStr(x)} /\ UNCHANGED at
       ELSE at' = next /\ UNCHANGED held
    /\ UNCHANGED <<vars, heap, new>>

CopyStr(x) == Intern(x, "copy")
TakeStr(x) == Intern(x, "alloc")

AllocCopy == /\ at = "copy" /\ pc = "idle"
             /\ at' = "alloc"
             /\ MayCollect
             /\ UNCHANGED <<heap, held, text, new>>

\* alloc_str: the allocation of the object ...
AllocObj == /\ at = "alloc" /\ pc = "idle"
            /\ at' = "enter"
            /\ MayCollect
            /\ UNCHANGED <<heap, held, text, new>>

\* Fault: the object is not pushed.
AllocStrLoose(s) == /\ at = "enter" /\ pc = "idle"
                    /\ s \notin heap /\ Text[s] = text
                    /\ new' = s
                    /\ heap' = heap \union {s}
                    /\ at' = "set"
                    /\ BeginSet("set", s, Null)
                    /\ UNCHANGED <<held, text>>

\* ... the object, which is pushed, so that set_map may collect ...
AllocStr(s) == /\ at = "enter" /\ pc = "idle"
               /\ s \notin heap /\ Text[s] = text
               /\ new' = s
               /\ heap' = heap \union {s}
               /\ held' = held \union {s}
               /\ at' = "set"
               /\ BeginSet("set", s, Null)
               /\ UNCHANGED text

GrowTable == (Allocate \/ Fill \/ Rehash \/ Install) /\ UNCHANGED making

CollectGrowing == /\ pc = "alloc"
                  /\ BeginSweep(held \intersect KeysIn(items, cap))
                  /\ UNCHANGED making

\* ... and is returned when the table has it.
Enter == /\ Store
         /\ at' = "none"
         /\ new' = NoKey
         /\ UNCHANGED <<heap, held, text>>

-----------------------------------------------------------------------------
(* The collector and the program.                                           *)

RemBlackMap == Sweep /\ UNCHANGED making

\* sweep, after rem_black_map, frees what was not marked.
FreeWhite == /\ EndSweep
             /\ heap' = heap \intersect held
             /\ UNCHANGED <<held, at, text, new>>

Collect == /\ at = "none" /\ pc = "idle"
           /\ BeginSweep(held \intersect KeysIn(items, cap))
           /\ UNCHANGED making

\* The program loses its last reference to a string.
Release(s) == /\ at = "none" /\ pc = "idle"
              /\ held' = held \ {s}
              /\ UNCHANGED <<vars, heap, at, text, new>>

Proceed == \/ AllocCopy \/ AllocObj \/ (\E s \in Keys : AllocStr(s))
           \/ GrowTable \/ Enter \/ RemBlackMap \/ FreeWhite

InternNext == \/ \E x \in Texts : CopyStr(x) \/ TakeStr(x)
              \/ Proceed
              \/ CollectGrowing \/ Collect
              \/ \E s \in held : Release(s)

InternSpec == InternInit /\ [][InternNext]_allVars

\* The interpreter is one thread: what was begun goes on.
FairIntern == InternSpec /\ WF_allVars(Proceed)

-----------------------------------------------------------------------------
(* Properties.                                                              *)

\* What is made and not yet in the table is on the stack.
InternTypeOK == /\ heap \subseteq Keys
                /\ at \in {"none", "copy", "alloc", "enter", "set"}
                /\ text \in Texts
                /\ IF at = "set" THEN new \in held ELSE new = NoKey

\* Nothing that is held has been freed, and the table, also the one that is being
\* filled while the collector runs, refers to no string that has been.
NoDangling == held \union KeysIn(items, cap) \union KeysIn(fresh, fcap) \subseteq heap

\* There is one object per text, so strings may be compared by their addresses,
\* whatever was collected while the second of two was about to be made.
OneObject == \A r, s \in heap : Text[r] = Text[s] => r = s

\* find_str_map finds every string that exists, by its text, and no other: also
\* one that nobody holds any more and the collector has not come to yet.
FindsStrings ==
    pc = "idle" => \A x \in Texts :
        LET them == {s \in heap : Text[s] = x}
        IN IF them = {} THEN FindStr(x) = NoKey ELSE them = {FindStr(x)}

\* A string that is asked for is got.
InterningEnds == at # "none" ~> at = "none"
=============================================================================
