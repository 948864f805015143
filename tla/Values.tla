-------------------------------- MODULE Values --------------------------------
(* The values of scripts.  There is one instance, with one field, one array, *)
(* and one function of the host; numbers are integers.                       *)
EXTENDS Integers, Sequences

Num(n) == <<"num", n>>
Bool(b) == <<"bool", b>>
Null == <<"null">>
Inst == <<"inst">>        \* the instance
Arr == <<"arr">>          \* the array
Say == <<"fn">>           \* the function of the host

IsNum(v) == v[1] = "num"
IsFalse(v) == v = Null \/ v = Bool(FALSE)

\* What may be on the stack: the script itself is in slot 0.
Script == <<"script">>
AnyValue == ({"num"} \X Int) \union ({"bool"} \X BOOLEAN) \union {Null, Inst, Arr, Say, Script}
=============================================================================
