------------------------------ MODULE Containers ------------------------------
(* Arrays and strings as scripts use them: the growable buffer of arr.c     *)
(* with the methods of lib_arr.c, and the text of a string with those of    *)
(* lib_str.c, with the lengths, bounds and unsigned differences of the      *)
(* code.  The strings are those of one C char per character, NUL at the end.*)
EXTENDS Integers, Sequences

CONSTANTS
    Vals,        \* the values stored
    Junk,        \* what a cell holds that was allocated and never written
    Chars,       \* the characters of strings
    Strings,     \* bound: the strings scripts use
    Indices,     \* bound: the numbers given for positions and lengths
    MaxLen,      \* bound: the length of the array
    MinCap,      \* the first capacity, 8 in mem.h
    SizeT        \* how many values a size_t has

ASSUME ContainersAssumption ==
    /\ Junk \notin Vals
    /\ Strings \subseteq Seq(Chars)
    /\ Indices \subseteq Int
    /\ MaxLen \in Nat
    /\ MinCap \in Nat \ {0}
    /\ SizeT \in Nat /\ \A s \in Strings : 2 * Len(s) + 2 < SizeT

VARIABLES
    len, cap, items,   \* struct VArr
    past,              \* has the array code touched a cell past its buffer?
    str,               \* the text of the string in hand
    ret,               \* what the last call answered
    lost               \* has the code read behind the end of a string?

vars == <<len, cap, items, past, str, ret, lost>>
varr == <<len, cap, items, past>>

NoRet == <<"null">>
OutOfBounds == <<"error", "index out of bounds">>

-----------------------------------------------------------------------------
(* The buffer.                                                              *)

Cells(n) == 0 .. n - 1

\* ensure_len, which doubles once: callers ask for one cell more than they have.
Grown(n) == IF cap < n THEN IF cap < MinCap THEN MinCap ELSE 2 * cap ELSE cap

\* The buffer once ensure_len has seen to it that n elements fit.
Ensured(n) == [c \in Cells(Grown(n)) |-> IF c < cap THEN items[c] ELSE Junk]

\* Fault: the element is stored after the length has been raised.
PushVarrLate(v) == /\ cap' = Grown(len + 1)
                   /\ items' = [c \in Cells(Grown(len + 1)) |->
                                  IF c = len + 1 THEN v ELSE Ensured(len + 1)[c]]
                   /\ len' = len + 1
                   /\ UNCHANGED past

PushVarr(v) == /\ cap' = Grown(len + 1)
               /\ items' = [c \in Cells(Grown(len + 1)) |->
                              IF c = len THEN v ELSE Ensured(len + 1)[c]]
               /\ len' = len + 1
               /\ past' = (past \/ len >= Grown(len + 1))

\* The length is raised before the loop that moves the elements up begins at it:
\* the first cell written is the one behind the new last element.
InsertVarr(idx, v) ==
    LET n == len + 1
    IN /\ cap' = Grown(n)
       /\ items' = [c \in Cells(Grown(n)) |->
                      IF c = idx THEN v
                      ELSE IF c \in idx + 1 .. n THEN Ensured(n)[c - 1]
                      ELSE Ensured(n)[c]]
       /\ len' = n
       /\ past' = (past \/ n >= Grown(n))

\* Fault: the loop stops one short of the last element.
RemVarrShort(idx) == /\ items' = [c \in Cells(cap) |->
                                    IF c \in idx .. len - 3 THEN items[c + 1] ELSE items[c]]
                     /\ len' = len - 1
                     /\ UNCHANGED <<cap, past>>

RemVarr(idx) == /\ items' = [c \in Cells(cap) |->
                               IF c \in idx .. len - 2 THEN items[c + 1] ELSE items[c]]
                /\ len' = len - 1
                /\ UNCHANGED <<cap, past>>

\* find: the first element equal to v, or -1.
Hits(v) == {c \in Cells(len) : items[c] = v}
FindVarr(v) == IF Hits(v) = {} THEN -1
               ELSE CHOOSE c \in Hits(v) : \A d \in Hits(v) : c <= d

-----------------------------------------------------------------------------
(* The methods of arrays.  A call that fails leaves the array alone.        *)

Running == ~lost
Quiet == UNCHANGED <<str, lost>>

\* get_idx without its check.
FromEnd(i, n) == IF i < 0 THEN i + n ELSE i
OutOf(i, n) == FromEnd(i, n) < 0 \/ FromEnd(i, n) >= n

Answer(x) == ret' = x /\ Quiet
Asked(x) == Answer(x) /\ UNCHANGED varr
Fails(i, n) == OutOf(i, n) /\ Asked(OutOfBounds)

Init == /\ len = 0 /\ cap = 0 /\ items = [c \in {} |-> Junk] /\ past = FALSE
        /\ str \in Strings
        /\ ret = NoRet
        /\ lost = FALSE

\* Also bc_array_item.  A call with several values does the same for each.
arr_push(v) == /\ Running /\ len < MaxLen
               /\ PushVarr(v) /\ Answer(NoRet)

\* The bounds are those of get_idx, except that the length is a valid index.
arr_insert(i, v) ==
    /\ Running
    /\ LET idx == FromEnd(i, len)
       IN \/ (idx < 0 \/ idx > len) /\ Asked(OutOfBounds)
          \/ /\ idx >= 0 /\ idx <= len /\ len < MaxLen
             /\ InsertVarr(idx, v) /\ Answer(NoRet)

arr_rem(i) == /\ Running
              /\ \/ Fails(i, len)
                 \/ ~OutOf(i, len) /\ RemVarr(FromEnd(i, len)) /\ Answer(NoRet)

arr_swaprem(i) ==
    /\ Running
    /\ \/ Fails(i, len)
       \/ /\ ~OutOf(i, len)
          /\ items' = [items EXCEPT ![FromEnd(i, len)] = items[len - 1]]
          /\ len' = len - 1
          /\ UNCHANGED <<cap, past>>
          /\ Answer(NoRet)

arr_erase(v) == /\ Running
                /\ \/ FindVarr(v) = -1 /\ Asked(<<"bool", FALSE>>)
                   \/ /\ FindVarr(v) # -1
                      /\ RemVarr(FindVarr(v)) /\ Answer(<<"bool", TRUE>>)

arr_find(v) == Running /\ Asked(<<"num", FindVarr(v)>>)

\* subscript_get and subscript_set, which check the bounds themselves.
GetItem(i) == /\ Running
              /\ \/ Fails(i, len)
                 \/ ~OutOf(i, len) /\ Asked(<<"val", items[FromEnd(i, len)]>>)

SetItem(i, v) ==
    /\ Running
    /\ \/ Fails(i, len)
       \/ /\ ~OutOf(i, len)
          /\ items' = [items EXCEPT ![FromEnd(i, len)] = v]
          /\ UNCHANGED <<len, cap, past>>
          /\ Answer(<<"val", v>>)

-----------------------------------------------------------------------------
(* Strings.                                                                 *)

\* The script turns to another string.
Assign(s) == /\ Running
             /\ str' = s /\ ret' = NoRet
             /\ UNCHANGED <<varr, lost>>

GetChar(i) == /\ Running
              /\ \/ Fails(i, Len(str))
                 \/ ~OutOf(i, Len(str)) /\ Asked(<<"val", str[FromEnd(i, Len(str)) + 1]>>)

\* Fault: one place too few is tried.
PlacesShort(s) == (Len(str) - Len(s)) % SizeT

\* The number of places find_substr tries, an unsigned difference.
Places(s) == (Len(str) - Len(s) + 1) % SizeT

\* The comparison at a place stops at the first character that differs, the
\* NUL at the end of str among them.
MatchesAt(p, s) == p + Len(s) <= Len(str) /\ \A j \in 1 .. Len(s) : str[p + j] = s[j]

Matches(s) == {p \in 0 .. Len(str) : p < Places(s) /\ MatchesAt(p, s)}

str_find(s) ==
    /\ Running
    /\ \/ /\ Matches(s) # {}
          /\ Asked(<<"num", CHOOSE p \in Matches(s) : \A q \in Matches(s) : p <= q>>)
       \/ /\ Matches(s) = {} /\ Places(s) <= Len(str) + 1
          /\ Asked(<<"num", -1>>)
       \/ /\ Matches(s) = {} /\ Places(s) > Len(str) + 1
          /\ lost' = TRUE        \* reads on behind the NUL
          /\ UNCHANGED <<varr, str, ret>>

\* A negative length counts from the end.  It may end before the start, and
\* then the characters between are in the result twice.
str_rem(i, n) ==
    /\ Running
    /\ \/ Fails(i, Len(str))
       \/ /\ ~OutOf(i, Len(str))
          /\ LET start == FromEnd(i, Len(str))
                 end == start + IF n < 0 THEN n + (Len(str) - start + 1) ELSE n
             IN \/ (end < 0 \/ end > Len(str)) /\ Asked(OutOfBounds)
                \/ /\ end >= 0 /\ end <= Len(str)
                   /\ Asked(<<"str", SubSeq(str, 1, start) \o SubSeq(str, end + 1, Len(str))>>)

\* There is no telling what comes after a read behind the end.
Lost == ~Running /\ UNCHANGED vars

Next == \/ \E v \in Vals : arr_push(v) \/ arr_find(v) \/ arr_erase(v)
        \/ \E i \in Indices, v \in Vals : arr_insert(i, v) \/ SetItem(i, v)
        \/ \E i \in Indices : arr_rem(i) \/ arr_swaprem(i) \/ GetItem(i) \/ GetChar(i)
        \/ \E s \in Strings : Assign(s) \/ str_find(s)
        \/ \E i \in Indices, n \in Indices : str_rem(i, n)
        \/ Lost

Spec == Init /\ [][Next]_vars

-----------------------------------------------------------------------------
(* Properties.                                                              *)

TypeOK == /\ len \in Nat /\ cap \in Nat /\ len <= cap
          /\ items \in [Cells(cap) -> Vals \union {Junk}]
          /\ past \in BOOLEAN
          /\ str \in Strings
          /\ lost \in BOOLEAN

\* A script never sees what happened to be in the memory of a new buffer,
\* however the array has grown, shrunk and been shifted: every cell up to the
\* length holds a value.
NoJunkSeen == \A c \in Cells(len) : items[c] # Junk

\* lib_arr.c:37 allows an insertion at the end, "to put an element at the end of
\* the array", and the elements stay in the buffer.
InBuffer == ~past

\* What a script sees of the buffer.
Bar == [j \in 1 .. len |-> items[j - 1]]

\* Through growth and shifting the array is the sequence a script takes it for,
\* every call answers what that sequence demands, and so do those on strings, as
\* long as nothing is read behind the end of one.
Abstract == INSTANCE AbstractContainers WITH arr <- Bar

ImplementsContainers == Abstract!Spec
=============================================================================
