-------------------------- MODULE AbstractContainers --------------------------
(* What scripts are promised of an array and a string: a sequence that      *)
(* grows, shrinks and is indexed from either end, and a text that can be    *)
(* searched and cut.  Positions are counted from 0; -1 is the last one.     *)
EXTENDS Integers, Sequences

CONSTANTS Vals, Strings, Indices, MaxLen

VARIABLES
    arr,      \* the array
    str,      \* the string
    ret       \* what the last call answered

vars == <<arr, str, ret>>

NoRet == <<"null">>
OutOfBounds == <<"error", "index out of bounds">>

\* The position a script means by i in something of length n.
Position(i, n) == IF i < 0 THEN i + n ELSE i
Valid(i, n) == Position(i, n) \in 0 .. n - 1

Init == arr = <<>> /\ str \in Strings /\ ret = NoRet

Answer(x) == ret' = x /\ UNCHANGED <<arr, str>>
Becomes(s) == arr' = s /\ ret' = NoRet /\ UNCHANGED str

Fail(i, n) == ~Valid(i, n) /\ Answer(OutOfBounds)

\* The array with v put in at p, without the element at p, and with the last
\* element in the place of the one at p.
Inserted(p, v) ==
    [j \in 1 .. Len(arr) + 1 |->
        IF j <= p THEN arr[j] ELSE IF j = p + 1 THEN v ELSE arr[j - 1]]
Without(p) == [j \in 1 .. Len(arr) - 1 |-> IF j <= p THEN arr[j] ELSE arr[j + 1]]
Swapped(p) == [j \in 1 .. Len(arr) - 1 |-> IF j = p + 1 THEN arr[Len(arr)] ELSE arr[j]]

Push(v) == Len(arr) < MaxLen /\ Becomes(Append(arr, v))

\* The end of the array is a place to insert, but no other place outside is.
Insert(i, v) ==
    LET p == Position(i, Len(arr))
    IN \/ /\ p \notin 0 .. Len(arr)
          /\ Answer(OutOfBounds)
       \/ /\ p \in 0 .. Len(arr) /\ Len(arr) < MaxLen
          /\ Becomes(Inserted(p, v))

Remove(i) == \/ Fail(i, Len(arr))
             \/ Valid(i, Len(arr)) /\ Becomes(Without(Position(i, Len(arr))))

SwapRemove(i) == \/ Fail(i, Len(arr))
                 \/ Valid(i, Len(arr)) /\ Becomes(Swapped(Position(i, Len(arr))))

\* The first of its kind.
IsFirst(p, v) == /\ p \in 0 .. Len(arr) - 1 /\ arr[p + 1] = v
                 /\ \A j \in 1 .. p : arr[j] # v
Lacks(v) == \A j \in 1 .. Len(arr) : arr[j] # v

Find(v) == \/ Lacks(v) /\ Answer(<<"num", -1>>)
           \/ \E p \in 0 .. Len(arr) - 1 : IsFirst(p, v) /\ Answer(<<"num", p>>)

Erase(v) ==
    \/ Lacks(v) /\ Answer(<<"bool", FALSE>>)
    \/ \E p \in 0 .. Len(arr) - 1 : /\ IsFirst(p, v)
                                    /\ arr' = Without(p)
                                    /\ ret' = <<"bool", TRUE>>
                                    /\ UNCHANGED str

Get(i) == \/ Fail(i, Len(arr))
          \/ Valid(i, Len(arr)) /\ Answer(<<"val", arr[Position(i, Len(arr)) + 1]>>)

Set(i, v) ==
    \/ Fail(i, Len(arr))
    \/ /\ Valid(i, Len(arr))
       /\ arr' = [arr EXCEPT ![Position(i, Len(arr)) + 1] = v]
       /\ ret' = <<"val", v>>
       /\ UNCHANGED str

Assign(s) == str' = s /\ ret' = NoRet /\ UNCHANGED arr

Char(i) == \/ Fail(i, Len(str))
           \/ Valid(i, Len(str)) /\ Answer(<<"val", str[Position(i, Len(str)) + 1]>>)

OccursAt(p, s) == p + Len(s) <= Len(str) /\ \A j \in 1 .. Len(s) : str[p + j] = s[j]

FindStr(s) ==
    \/ (\A p \in 0 .. Len(str) : ~OccursAt(p, s)) /\ Answer(<<"num", -1>>)
    \/ \E p \in 0 .. Len(str) :
          /\ OccursAt(p, s) /\ \A q \in 0 .. p - 1 : ~OccursAt(q, s)
          /\ Answer(<<"num", p>>)

\* Cut n characters out, or, if n is negative, all up to a place counted from
\* the end: -1 is the end itself.  What a cut that ends before it begins answers
\* is not said.
CutFrom(p, n) == IF n < 0 THEN Len(str) + 1 + n ELSE p + n

Cut(i, n) ==
    \/ Fail(i, Len(str))
    \/ /\ Valid(i, Len(str))
       /\ LET p == Position(i, Len(str))
              end == CutFrom(p, n)
          IN \/ end \notin 0 .. Len(str) /\ Answer(OutOfBounds)
             \/ /\ end \in p .. Len(str)
                /\ Answer(<<"str", SubSeq(str, 1, p) \o SubSeq(str, end + 1, Len(str))>>)
             \/ end \in 0 .. p - 1 /\ UNCHANGED <<arr, str>>

Next == \/ \E v \in Vals : Push(v) \/ Find(v) \/ Erase(v)
        \/ \E i \in Indices, v \in Vals : Insert(i, v) \/ Set(i, v)
        \/ \E i \in Indices : Remove(i) \/ SwapRemove(i) \/ Get(i) \/ Char(i)
        \/ \E s \in Strings : Assign(s) \/ FindStr(s)
        \/ \E i \in Indices, n \in Indices : Cut(i, n)

Spec == Init /\ [][Next]_vars
=============================================================================
