------------------------------ MODULE Rooting ------------------------------
(* What the C code holds while it allocates.  Any allocation may collect,   *)
(* and a collection sees the roots only: an object that nothing but a C     *)
(* variable refers to is freed under the code that goes on to use it.       *)
(*                                                                          *)
(* The instructions, API functions and compiler functions that allocate are *)
(* written below as short programs of the steps that matter here: what they *)
(* allocate, push, pop, store and dereference, in the order of the code.    *)
(* Of an object only what it refers to is kept; a map or an array is the    *)
(* set of its keys and elements.  A value that is no object is Nil.         *)
(* Operations that fail with an error have nothing left to use and are left *)
(* out.                                                                     *)
EXTENDS Integers, Sequences

CONSTANTS
    Objs,        \* the objects there is memory for
    Nil,         \* any number, boolean or null; a C variable not yet set
    Freed,       \* what a C variable holds when its object has been freed
    MaxStack,    \* bound: values on the stack between two operations
    MaxOps,      \* bound: operations, one after the other
    Builders     \* bound: those that may come before another; what takes no
                 \* operands and is not one of them comes first

ASSUME RootingAssumption == /\ Nil \notin Objs /\ Freed \notin Objs /\ Nil # Freed
                            /\ \E f, s, b \in Objs : f # s /\ s # b /\ f # b
                            /\ MaxStack \in Nat /\ MaxOps \in Nat

VARIABLES
    heap,        \* the objects that exist
    refs,        \* refs[o], the objects o refers to
    strs,        \* h->strs, the strings that can be found by their text
    stack,       \* h->stack up to h->top
    kept,        \* the objects the other roots refer to: frames, open
                 \* upvalues, globals, files, the functions being compiled
    builtin,     \* h->array_struct, or another of its kind
    held,        \* the C variables of the operation, by name
    op, pc,      \* the operation and its next step
    below,       \* the stack below the operands of the operation
    ops          \* how many operations there have been

mem == <<heap, refs, strs>>
vars == <<heap, refs, strs, stack, kept, builtin, held, op, pc, below, ops>>

-----------------------------------------------------------------------------
(* Steps, and programs made of them.                                        *)

Alloc == <<[do |-> "alloc"]>>                            \* reallocate
New(v, of) == Alloc \o <<[do |-> "make", v |-> v, of |-> of]>>
Push(v) == <<[do |-> "push", v |-> v]>>
Pop == <<[do |-> "pop"]>>
Peek(v, dist) == <<[do |-> "peek", v |-> v, dist |-> dist]>>
Put(v) == <<[do |-> "put", v |-> v]>>                    \* h->top[-1] = v
PopTo(v) == Peek(v, 0) \o Pop
Use(v) == <<[do |-> "use", v |-> v]>>
Get(v, w) == <<[do |-> "get", v |-> v, w |-> w]>>        \* v = w->...
Link(v, w) == <<[do |-> "link", v |-> v, w |-> w]>>      \* v->... = w
Keep(v) == <<[do |-> "keep", v |-> v]>>                  \* into another root
Drop(v) == <<[do |-> "drop", v |-> v]>>
Const(v) == <<[do |-> "const", v |-> v, of |-> "str"]>>  \* read_str
Fn(v) == <<[do |-> "const", v |-> v, of |-> "obj"]>>     \* read_const
Global(v) == <<[do |-> "const", v |-> v, of |-> "any"]>>    \* a global

Either(P, Q) == <<[do |-> "either", by |-> Len(P) + 1]>> \o P
                \o <<[do |-> "skip", by |-> Len(Q)]>> \o Q
Maybe(P) == <<[do |-> "either", by |-> Len(P)]>> \o P
Loop(P) == <<[do |-> "either", by |-> Len(P) + 1]>> \o P
           \o <<[do |-> "skip", by |-> -(Len(P) + 2)]>>

\* The end of the block or function whose variables these are.
Leave(locals) == <<[do |-> "leave", locals |-> locals]>>

\* set_map on a map of v: the table may grow before the item is stored.
SetMap(v, k, val) == Alloc \o Link(v, k) \o Link(v, val)

\* The string is linked before it is entered, under the protection of the stack.
AllocStr(v) == New(v, {}) \o Push(v) \o Alloc \o <<[do |-> "enter", v |-> v]>> \o Pop

\* The text is in a buffer (take_str) or in memory that is not collected.
Unless(v, P) == <<[do |-> "find", v |-> v, by |-> Len(P)]>> \o P
TakeStr(v) == Unless(v, AllocStr(v))
CopyStr(v) == Unless(v, Alloc \o AllocStr(v))

\* The text is that of the string w, read when the copy has been allocated.
CopyOf(v, w) == Use(w) \o Unless(v, Alloc \o Use(w) \o AllocStr(v))

-----------------------------------------------------------------------------
(* tostr.c.                                                                 *)

StrFmt(v, name) == Use(name) \o Alloc \o Use(name) \o TakeStr(v)

\* A string is its own text; numbers, booleans, null and the like have a new
\* or an interned one; functions, structs, instances and enums use a name.
IfString(v, w, P) == <<[do |-> "ifstr", v |-> v, w |-> w, by |-> Len(P)]>> \o P
SimpleToStr(v, w) ==
    IfString(v, w, Either(CopyStr(v),
                          Get("name", w) \o StrFmt(v, "name") \o Leave({"name"})))

\* chars may have to grow between the making of an element's text and its use.
\* Arrays in the array are taken for simple values: their text is a new string.
ArrToStr(v, w) ==
    Alloc \o Loop(Get("elem", w) \o SimpleToStr("str", "elem")
                  \o Maybe(Alloc) \o Use("str") \o Leave({"elem", "str"}))
    \o CopyStr(v)

ToStr(v, w) == IfString(v, w, Either(SimpleToStr(v, w), ArrToStr(v, w)))

\* obj_to_string calls a tostr method if there is one; what the method returns
\* is taken off the stack.
ObjToString(v, w) ==
    CopyStr("prop") \o Use("prop") \o Leave({"prop"})
    \o Either(Push(w) \o CopyStr("prop") \o Use("prop") \o Leave({"prop"}) \o CopyStr(v)
                  \o Pop \o Push(v) \o PopTo(v),
              ToStr(v, w))

-----------------------------------------------------------------------------
(* The instructions of vm.c.                                                *)

bc_def_global == Const("name") \o Peek("val", 0)
                 \o Alloc \o Keep("name") \o Keep("val") \o Pop

bc_const == Const("val") \o Push("val")

bc_null == Push("null")

bc_array == New("arr", {}) \o Push("arr")

bc_array_item == Peek("arr", 1) \o Peek("val", 0) \o Alloc \o Link("arr", "val") \o Pop

bc_set_prop == Peek("inst", 1) \o Const("name") \o Peek("val", 0)
               \o SetMap("inst", "name", "val")
               \o PopTo("val") \o Pop \o Push("val")

\* bc_method, bc_def_static and bc_init_prop do the same with another map.
bc_member == Peek("val", 0) \o Peek("s", 1) \o Const("name")
             \o SetMap("s", "name", "val") \o Pop

bc_struct == Const("name") \o New("s", {"name"}) \o Push("s")

bc_enum == Const("name") \o Push("name") \o New("_enum", {"name"}) \o Pop
           \o Loop(Const("name") \o Push("name") \o Alloc \o Link("_enum", "name") \o Pop
                   \o Leave({"name"}))
           \o Push("_enum")

\* create_inst copies the members of the struct one by one.
CreateInst(v, s) == New(v, {s}) \o Loop(Get("member", s) \o Alloc \o Link(v, "member")
                                    \o Leave({"member"}))
bc_inst == Peek("s", 0) \o CreateInst("inst", "s") \o Put("inst")

\* The upvalues the closure does not share are new and on the open list.
CreateClosure(v, fn) == Use(fn) \o Alloc \o New(v, {fn})
bc_closure == Fn("fn") \o CreateClosure("closure", "fn") \o Push("closure")
              \o Loop(New("upval", {}) \o Keep("upval") \o Link("closure", "upval")
                      \o Leave({"upval"}))

\* bc_get_prop: a field, or a method bound to the instance.
bc_get_prop == Peek("inst", 0)
               \o Either(Get("val", "inst") \o Pop \o Push("val"),
                         Get("s", "inst") \o Get("fn", "s")
                         \o Peek("owner", 0) \o New("method", {"owner", "fn"})
                         \o Pop \o Push("method"))

\* A character of a string; an element of an array is a bc_get_prop here.
SubscriptGet(container) == CopyOf("char", container) \o Push("char")
bc_get_subscript == PopTo("k") \o PopTo("container") \o SubscriptGet("container")
bc_push_subscript == Peek("k", 0) \o Peek("container", 1) \o SubscriptGet("container")

\* Fault: one of the two texts is left on the stack.
BcCatPopsThree == Peek("val", 0) \o ToStr("b", "val") \o Push("b")
                  \o Peek("val", 2) \o ToStr("a", "val") \o Push("a")
                  \o Alloc \o Use("a") \o Use("b") \o TakeStr("res")
                  \o Pop \o Pop \o Pop \o Push("res")

\* concat.
bc_cat == Peek("val", 0) \o ToStr("b", "val") \o Push("b")
          \o Peek("val", 2) \o ToStr("a", "val") \o Push("a")
          \o Alloc \o Use("a") \o Use("b") \o TakeStr("res")
          \o Pop \o Pop \o Pop \o Pop \o Push("res")

\* A method of an array, a string, ...: found in the struct the state has for
\* them, which is no root.
bc_invoke == <<[do |-> "builtin", v |-> "struct"]>> \o Get("method", "struct")

-----------------------------------------------------------------------------
(* api.c and the libraries.                                                 *)

\* The name given, or the name of the value itself.
GetNameOr(v, val) == Either(CopyStr(v), Get(v, val))

hbs_set_global == Peek("val", 0) \o GetNameOr("sname", "val") \o Push("sname")
                  \o Alloc \o Keep("sname") \o Keep("val") \o Pop \o Pop

\* Also hbs_get_prop, hbs_has_prop and the files of core_import: a name is made,
\* looked up and forgotten.
hbs_get_global == CopyStr("name") \o Use("name")
                  \o Global("val") \o Push("val")

\* Fault: the name is not kept while the struct is allocated.
HbsPushStructBare == CopyStr("str_name") \o New("s", {"str_name"}) \o Push("s")

\* hbs_push_enum and hbs_push_cfunction are the same.
hbs_push_struct == CopyStr("str_name") \o Push("str_name")
                   \o New("s", {"str_name"}) \o Pop \o Push("s")

hbs_push_string == Either(CopyStr("str"), TakeStr("str")) \o Push("str")

hbs_add_static_const == Peek("s", 1) \o Peek("val", 0) \o GetNameOr("str_name", "val")
                        \o Push("str_name") \o SetMap("s", "str_name", "val")
                        \o Pop \o Pop

hbs_add_member == Peek("s", 1) \o Peek("cfn", 0) \o Get("name", "cfn")
                  \o SetMap("s", "name", "cfn") \o Pop

hbs_add_enum == Peek("e", 0) \o CopyStr("sname") \o Push("sname")
                \o Alloc \o Link("e", "sname") \o Pop

hbs_tostr == Peek("val", 0) \o ObjToString("res", "val") \o Push("res")

\* print and find use the text where it is, without holding the string.
hbs_get_tostring == Peek("val", 0) \o ObjToString("res", "val") \o Use("res")

\* str_rem, str_toup and str_tolow read the text of their receiver into a
\* buffer and make a string of that.
str_rem == Peek("self", 0) \o Alloc \o Use("self") \o TakeStr("res") \o Push("res")

\* A library is opened by pushing its struct, filling it and making it a global.
open_arr == hbs_push_struct \o <<[do |-> "set_builtin", v |-> "s"]>>
            \o Loop(CopyStr("str_name") \o Push("str_name")
                    \o New("cfn", {"str_name"}) \o Pop \o Push("cfn")
                    \o hbs_add_member \o Leave({"str_name", "cfn", "name"}))
            \o hbs_set_global

-----------------------------------------------------------------------------
(* compiler.c: a function is a root while it is being compiled.             *)

\* add_const_chunk, as create_const calls it.
CreateConst(fn, val) == Push(val) \o Alloc \o Link(fn, val) \o Pop

InitCompiler(fn, named) ==
    CopyStr("path") \o Push("path") \o New(fn, {"path"}) \o Pop \o Keep(fn)
    \o (IF named THEN CopyStr("fn_name") \o Link(fn, "fn_name") ELSE <<>>)
    \o Leave({"path", "fn_name"})

\* end_compiler writes a return before it takes the function off the list.
EndCompiler(fn) == Alloc \o Drop(fn)

IdentConst(fn) == CopyStr("ident") \o CreateConst(fn, "ident") \o Leave({"ident"})

\* The lexer makes the string of a token, which waits while the operator before
\* it is written.
StringConst(fn) == CopyStr("tok") \o Maybe(Alloc) \o CreateConst(fn, "tok") \o Leave({"tok"})

Function(fn) == InitCompiler("inner", TRUE) \o IdentConst("inner")
                \o EndCompiler("inner") \o CreateConst(fn, "inner") \o Leave({"inner"})

\* A script that compiles and runs to its end; what it returns, a number or
\* null, becomes the value of its file.
vm_interp ==
    InitCompiler("fn", FALSE)
    \o Loop(Either(IdentConst("fn"), Either(StringConst("fn"), Function("fn"))))
    \o EndCompiler("fn")
    \o Push("fn") \o CreateClosure("closure", "fn") \o Pop \o Push("closure")
    \o Keep("closure") \o Drop("closure") \o Leave({"fn", "closure"})
    \o Pop \o Push("res")
    \o CopyStr("key") \o Alloc \o Keep("key") \o Keep("res")

-----------------------------------------------------------------------------
(* The operations: the kinds of their operands, which are the topmost values *)
(* of the stack, and how many values they leave in their place.              *)

Operation(takes, gives, code) == [takes |-> takes, gives |-> gives, code |-> code]

Code == [
    bc_const         |-> Operation(<<>>, 1, bc_const),
    bc_null          |-> Operation(<<>>, 1, bc_null),
    bc_def_global    |-> Operation(<<"any">>, 0, bc_def_global),
    bc_array         |-> Operation(<<>>, 1, bc_array),
    bc_array_item    |-> Operation(<<"obj", "any">>, 1, bc_array_item),
    bc_set_prop      |-> Operation(<<"obj", "any">>, 1, bc_set_prop),
    bc_member        |-> Operation(<<"obj", "any">>, 1, bc_member),
    bc_struct        |-> Operation(<<>>, 1, bc_struct),
    bc_enum          |-> Operation(<<>>, 1, bc_enum),
    bc_inst          |-> Operation(<<"obj">>, 1, bc_inst),
    bc_closure       |-> Operation(<<>>, 1, bc_closure),
    bc_get_prop      |-> Operation(<<"obj">>, 1, bc_get_prop),
    bc_get_subscript |-> Operation(<<"str", "any">>, 1, bc_get_subscript),
    bc_push_subscript |-> Operation(<<"str", "any">>, 3, bc_push_subscript),
    bc_cat           |-> Operation(<<"any", "any">>, 1, bc_cat),
    bc_invoke        |-> Operation(<<"any">>, 1, bc_invoke),
    hbs_set_global   |-> Operation(<<"any">>, 0, hbs_set_global),
    hbs_get_global   |-> Operation(<<>>, 1, hbs_get_global),
    hbs_push_struct  |-> Operation(<<>>, 1, hbs_push_struct),
    hbs_push_string  |-> Operation(<<>>, 1, hbs_push_string),
    hbs_add_static_const |-> Operation(<<"obj", "any">>, 1, hbs_add_static_const),
    hbs_add_member   |-> Operation(<<"obj", "obj">>, 1, hbs_add_member),
    hbs_add_enum     |-> Operation(<<"obj">>, 1, hbs_add_enum),
    hbs_tostr        |-> Operation(<<"any">>, 2, hbs_tostr),
    hbs_get_tostring |-> Operation(<<"any">>, 1, hbs_get_tostring),
    str_rem          |-> Operation(<<"str">>, 2, str_rem),
    open_arr         |-> Operation(<<>>, 0, open_arr),
    vm_interp        |-> Operation(<<>>, 1, vm_interp)]

\* What is used after it has been freed, when a collection comes at the wrong
\* moment.
Unrooted == {
    <<"bc_inst", "inst">>,               \* obj.c:39
    <<"bc_enum", "_enum">>,              \* vm.c:836
    <<"bc_get_subscript", "container">>, \* vm.c:263
    <<"bc_cat", "str">>,                 \* tostr.c:45
    <<"hbs_tostr", "str">>,
    <<"hbs_get_tostring", "str">>,
    <<"bc_invoke", "struct">>,           \* vm.c:144
    <<"vm_interp", "tok">>,              \* lexer.c:160
    <<"vm_interp", "key">>}              \* vm.c:880

-----------------------------------------------------------------------------
(* The machine that runs them.                                              *)

Sources == {"stack", "other"}
Roots == [s \in Sources |-> (IF s = "stack" THEN {stack[i] : i \in DOMAIN stack} ELSE kept)
                            \ {Nil}]
Heap == INSTANCE AbstractHeap WITH Strings <- Objs, roots <- Roots

Idle == op = "idle"
Length == Len(Code[op].code)
Step == Code[op].code[pc]
Val(v) == IF v \in DOMAIN held THEN held[v] ELSE Nil
Fields(o) == IF o = Nil THEN {} ELSE refs[o]
OfKind(kind) == CASE kind = "str" -> heap \intersect strs
                  [] kind = "obj" -> heap \ strs
                  [] kind = "any" -> heap \union {Nil}

\* The C variables a step follows, or puts where the collector will follow them.
Uses == IF op \notin DOMAIN Code THEN {}
        ELSE IF pc > Length THEN {}
        ELSE CASE Step.do \in {"push", "put", "use", "keep", "enter"} -> {Step.v}
               [] Step.do = "link" -> {Step.v, Step.w}
               [] Step.do \in {"get", "ifstr"} -> {Step.w}
               [] Step.do = "make" -> Step.of
               [] OTHER -> {}

Stale == {v \in Uses : Val(v) = Freed}

TypeOK ==
    /\ heap \subseteq Objs /\ strs \subseteq heap /\ kept \subseteq heap
    /\ refs \in [Objs -> SUBSET Objs]
    /\ stack \in Seq(heap \union {Nil}) /\ below \in Seq(Objs \union {Nil})
    /\ builtin \in heap \union {Freed}
    /\ op \in DOMAIN Code \union {"idle", "exit"}
    /\ op \in DOMAIN Code => pc \in 1 .. Length + 1
    /\ \A v \in DOMAIN held : held[v] \in heap \union {Nil, Freed}
    /\ ops \in 0 .. MaxOps

\* Objects are alike: which of the free ones is taken does not matter.
Unused(S) == CHOOSE o \in Objs : o \notin S

\* A script is running (f) that has a constant (s), and the libraries are open (b).
Init == LET f == Unused({})
            s == Unused({f})
            b == Unused({f, s}) IN
    /\ heap = {f, s, b} /\ kept = heap /\ strs = {s} /\ builtin = b
    /\ refs = [o \in Objs |-> IF o \in {f, b} THEN {s} ELSE {}]
    /\ stack = <<>> /\ below = <<>>
    /\ held = <<>> /\ op = "idle" /\ pc = 0 /\ ops = 0

Start(o) ==
    /\ Idle /\ ops < MaxOps
    /\ Code[o].takes = <<>> /\ ops > 0 => o \in Builders
    /\ LET takes == Code[o].takes
           deep == Len(stack) - Len(takes)
       IN /\ deep >= 0 /\ deep + Code[o].gives <= MaxStack
          /\ \A i \in DOMAIN takes : stack[deep + i] \in OfKind(takes[i])
          /\ below' = SubSeq(stack, 1, deep)
    /\ op' = o /\ pc' = 1
    /\ ops' = IF o \in Builders THEN ops + 1 ELSE MaxOps
    /\ UNCHANGED <<heap, refs, strs, stack, kept, builtin, held>>

Return ==
    /\ op \in DOMAIN Code /\ pc = Length + 1
    /\ op' = "idle" /\ pc' = 0 /\ held' = <<>> /\ below' = <<>>
    /\ UNCHANGED <<heap, refs, strs, stack, kept, builtin, ops>>

\* Between operations values are popped, and other roots let go.
Discard == /\ Idle /\ stack # <<>>
           /\ stack' = SubSeq(stack, 1, Len(stack) - 1)
           /\ UNCHANGED <<heap, refs, strs, kept, builtin, held, op, pc, below, ops>>

Release(o) == /\ Idle /\ o \in kept
              /\ (kept \ {o}) \intersect strs # {} /\ (kept \ {o}) \ strs # {}
              /\ kept' = kept \ {o}
              /\ UNCHANGED <<heap, refs, strs, stack, builtin, held, op, pc, below, ops>>

Running(do) == /\ op \in DOMAIN Code /\ pc <= Length
               /\ Step.do = do /\ Stale = {}
               /\ UNCHANGED <<op, below, ops>>

Go(by) == pc' = pc + 1 + by
Set(v, x) == held' = [u \in DOMAIN held \union {v} |-> IF u = v THEN x ELSE held[u]]

\* reallocate: may collect; what the roots do not lead to is freed, whoever
\* holds it.
Collect == /\ UNCHANGED <<stack, kept>>
           /\ Heap!Collect
           /\ held' = [v \in DOMAIN held |->
                         IF held[v] \in heap \ heap' THEN Freed ELSE held[v]]
           /\ builtin' = IF builtin \in heap' THEN builtin ELSE Freed

DoAlloc == /\ Running("alloc") /\ Go(0)
           /\ \/ Collect
              \/ UNCHANGED <<mem, stack, kept, builtin, held>>

\* The allocated object goes on the list; all that its creator was given is set
\* before anything else is allocated.
DoMake == /\ Running("make") /\ Go(0)
          /\ heap # Objs
          /\ LET o == Unused(heap)
             IN /\ heap' = heap \union {o}
                /\ refs' = [refs EXCEPT ![o] = {Val(v) : v \in Step.of} \ {Nil}]
                /\ Set(Step.v, o)
          /\ UNCHANGED <<strs, stack, kept, builtin>>

\* realloc fails: the program ends (mem.c:36).
Exit == /\ op \in DOMAIN Code /\ pc <= Length /\ Step.do = "make" /\ heap = Objs
        /\ op' = "exit"
        /\ UNCHANGED <<mem, stack, kept, builtin, held, pc, below, ops>>

DoPush == /\ Running("push") /\ Go(0)
          /\ stack' = Append(stack, Val(Step.v))
          /\ UNCHANGED <<mem, kept, builtin, held>>

DoPop == /\ Running("pop") /\ Go(0)
         /\ stack' = SubSeq(stack, 1, Len(stack) - 1)
         /\ UNCHANGED <<mem, kept, builtin, held>>

DoPut == /\ Running("put") /\ Go(0)
         /\ stack' = [stack EXCEPT ![Len(stack)] = Val(Step.v)]
         /\ UNCHANGED <<mem, kept, builtin, held>>

\* Reading into a C variable: from the stack, an object, the other roots.
DoRead ==
    /\ \/ /\ Running("peek")
          /\ Set(Step.v, stack[Len(stack) - Step.dist])
       \/ /\ Running("get")
          /\ \E x \in Fields(Val(Step.w)) \union {Nil} : Set(Step.v, x)
       \/ /\ Running("const")
          /\ \E x \in kept \intersect OfKind(Step.of) : Set(Step.v, x)
       \/ /\ Running("builtin")
          /\ Set(Step.v, builtin)
       \/ /\ Running("use")
          /\ UNCHANGED held
    /\ Go(0)
    /\ UNCHANGED <<mem, stack, kept, builtin>>

DoLink == /\ Running("link") /\ Go(0)
          /\ refs' = [refs EXCEPT ![Val(Step.v)] = @ \union ({Val(Step.w)} \ {Nil})]
          /\ UNCHANGED <<heap, strs, stack, kept, builtin, held>>

DoRoot == /\ \/ Running("keep") /\ kept' = kept \union ({Val(Step.v)} \ {Nil})
             \/ Running("drop") /\ kept' = kept \ {Val(Step.v)}
          /\ Go(0)
          /\ UNCHANGED <<mem, stack, builtin, held>>

DoSetBuiltin == /\ Running("set_builtin") /\ Go(0)
                /\ builtin' = Val(Step.v)
                /\ UNCHANGED <<mem, stack, kept, held>>

DoEnter == /\ Running("enter") /\ Go(0)
           /\ strs' = strs \union {Val(Step.v)}
           /\ UNCHANGED <<heap, refs, stack, kept, builtin, held>>

\* find_str_map has a string of this text, garbage or not, or it has none.
DoFind == /\ Running("find")
          /\ \/ Go(0) /\ UNCHANGED held
             \/ Go(Step.by) /\ \E x \in strs : Set(Step.v, x)
          /\ UNCHANGED <<mem, stack, kept, builtin>>

DoJump == /\ \/ Running("either") /\ (Go(0) \/ Go(Step.by)) /\ UNCHANGED held
             \/ Running("skip") /\ Go(Step.by) /\ UNCHANGED held
             \/ /\ Running("leave") /\ Go(0)
                /\ held' = [v \in DOMAIN held \ Step.locals |-> held[v]]
             \/ /\ Running("ifstr")
                /\ IF Val(Step.w) \in strs THEN Go(Step.by) /\ Set(Step.v, Val(Step.w))
                                           ELSE Go(0) /\ UNCHANGED held
          /\ UNCHANGED <<mem, stack, kept, builtin>>

\* The program stops when memory is used up, when something freed has been used
\* (there is no telling what comes then), and at the bound.
Stopped == /\ \/ op = "exit" \/ Stale # {} \/ (Idle /\ ops = MaxOps)
           /\ UNCHANGED vars

Next == \/ \E o \in DOMAIN Code : Start(o)
        \/ \E o \in Objs : Release(o)
        \/ Return \/ Discard \/ Exit \/ Stopped
        \/ DoAlloc \/ DoMake \/ DoPush \/ DoPop \/ DoPut \/ DoRead \/ DoLink
        \/ DoRoot \/ DoSetBuiltin \/ DoEnter \/ DoFind \/ DoJump

Spec == Init /\ [][Next]_vars

-----------------------------------------------------------------------------
(* Properties.                                                              *)

\* Nothing is used after it has been freed, whenever the collections come,
\* other than what Unrooted lists: elsewhere the code keeps whatever it still
\* needs on the stack or in another root while it allocates.
UsesLive == \A v \in Stale : <<op, v>> \in Unrooted

\* What the operations push for the collector's sake they take off again: every
\* one leaves its results, in the place of its operands, and nothing else moved.
Balanced == op \in DOMAIN Code /\ pc = Length + 1 =>
                /\ Len(stack) = Len(below) + Code[op].gives
                /\ SubSeq(stack, 1, Len(below)) = below

=============================================================================
