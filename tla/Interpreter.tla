----------------------------- MODULE Interpreter -----------------------------
(* The loop of vm.c over the bytecode of a script, one instruction at a      *)
(* time.  The only frame is that of the script, and a call goes to the host. *)
(* Nothing at run time checks the code: operands are read where they should  *)
(* be, constants are taken for names, and the stack has the height it has.   *)
EXTENDS Bytecode, Values

VARIABLES
    chunk,          \* what the compiler made of the script
    ip, stack,      \* the frame's instruction and the stack; slot 0 is the script
    world,          \* what the script can change
    status          \* "running", "done", "error" or "refused"

machine == <<chunk, ip, stack, world, status>>

-----------------------------------------------------------------------------
(* The code, and steps through it.                                          *)

\* The byte at an address, two of them as a number, and a constant by its number.
ByteAt(i) == chunk.code[i + 1]
ShortAt(i) == ByteAt(i) * Bytes + ByteAt(i + 1)
ConstOf(b) == chunk.consts[b + 1]

\* The instruction at an address, if a number stands there that is one.
IsInstr(i) == i \in 0 .. Len(chunk.code) - 1 /\ ByteAt(i) \in DOMAIN Instructions
Name(i) == Instructions[ByteAt(i)]

Byte(k) == ByteAt(ip + k)
Short == ShortAt(ip + 1)
Const == ConstOf(Byte(1))

\* The instruction there is next, if the script is running and there is any.
At(name) == status = "running" /\ IsInstr(ip) /\ Name(ip) = name

Peek(dist) == stack[Len(stack) - dist]
Under(n) == SubSeq(stack, 1, Len(stack) - n)      \* without the topmost n
Pushed(v) == Append(stack, v)
Put(n, v) == Append(Under(n), v)                  \* v in place of the topmost n

Goes(length, st) == /\ ip' = ip + length
                    /\ stack' = st
                    /\ UNCHANGED <<world, status, chunk>>

Changes(length, st, w) == /\ ip' = ip + length
                          /\ stack' = st
                          /\ world' = w
                          /\ UNCHANGED <<status, chunk>>

\* runtime_err empties the stack.
RuntimeErr == /\ status' = "error"
              /\ stack' = <<>>
              /\ UNCHANGED <<ip, world, chunk>>

-----------------------------------------------------------------------------
(* Values on the stack.                                                     *)

Pop == At("pop") /\ Goes(1, Under(1))

PushConst == At("const") /\ Goes(2, Pushed(Const))

PushLiteral == \/ At("null") /\ Goes(1, Pushed(Null))
               \/ At("true") /\ Goes(1, Pushed(Bool(TRUE)))
               \/ At("false") /\ Goes(1, Pushed(Bool(FALSE)))

OnNumbers == {"add", "sub", "mul", "lt", "lte", "gt", "gte"}

Calculated(op, a, b) == CASE op = "add" -> Num(a[2] + b[2])
                          [] op = "sub" -> Num(a[2] - b[2])
                          [] op = "mul" -> Num(a[2] * b[2])
                          [] op = "lt" -> Bool(a[2] < b[2])
                          [] op = "lte" -> Bool(a[2] <= b[2])
                          [] op = "gt" -> Bool(a[2] > b[2])
                          [] op = "gte" -> Bool(a[2] >= b[2])

Calculate == \E op \in OnNumbers :
                /\ At(op)
                /\ IF IsNum(Peek(0)) /\ IsNum(Peek(1))
                   THEN Goes(1, Put(2, Calculated(op, Peek(1), Peek(0))))
                   ELSE RuntimeErr

Compare == \/ At("eql") /\ Goes(1, Put(2, Bool(Peek(1) = Peek(0))))
           \/ At("neql") /\ Goes(1, Put(2, Bool(Peek(1) # Peek(0))))

Negate == /\ At("neg")
          /\ IF IsNum(Peek(0)) THEN Goes(1, Put(1, Num(-Peek(0)[2]))) ELSE RuntimeErr

Invert == At("not") /\ Goes(1, Put(1, Bool(IsFalse(Peek(0)))))

-----------------------------------------------------------------------------
(* Variables, fields and elements.                                          *)

GetLocal == At("get_local") /\ Goes(2, Pushed(stack[Byte(1) + 1]))

SetLocal == At("set_local") /\ Goes(2, [stack EXCEPT ![Byte(1) + 1] = Peek(0)])

GetGlobal == /\ At("get_global")
             /\ IF Const \in DOMAIN world.globals
                THEN Goes(2, Pushed(world.globals[Const]))
                ELSE RuntimeErr

\* A name that was not there is taken out again.
SetGlobal == /\ At("set_global")
             /\ IF Const \in DOMAIN world.globals
                THEN Changes(2, stack, [world EXCEPT !.globals[Const] = Peek(0)])
                ELSE RuntimeErr

\* The one instance has the one field and no methods.
HasProp(v) == v = Inst /\ Const = "x"

PushProp == /\ At("push_prop")
            /\ IF HasProp(Peek(0)) THEN Goes(2, Pushed(world.field)) ELSE RuntimeErr

GetProp == /\ At("get_prop")
           /\ IF HasProp(Peek(0)) THEN Goes(2, Put(1, world.field)) ELSE RuntimeErr

SetProp == /\ At("set_prop")
           /\ IF HasProp(Peek(1))
              THEN Changes(2, Put(2, Peek(0)), [world EXCEPT !.field = Peek(0)])
              ELSE RuntimeErr

\* Counted from 0, or from the end if negative.
Idx(k) == IF k[2] < 0 THEN k[2] + Len(world.items) ELSE k[2]
InBounds(container, k) == container = Arr /\ IsNum(k) /\ Idx(k) \in 0 .. Len(world.items) - 1

GetSubscript == /\ At("get_subscript")
                /\ IF InBounds(Peek(1), Peek(0))
                   THEN Goes(1, Put(2, world.items[Idx(Peek(0)) + 1]))
                   ELSE RuntimeErr

PushSubscript == /\ At("push_subscript")
                 /\ IF InBounds(Peek(1), Peek(0))
                    THEN Goes(1, Pushed(world.items[Idx(Peek(0)) + 1]))
                    ELSE RuntimeErr

SetSubscript == /\ At("set_subscript")
                /\ IF InBounds(Peek(2), Peek(1))
                   THEN Changes(1, Put(3, Peek(0)),
                                [world EXCEPT !.items[Idx(Peek(1)) + 1] = Peek(0)])
                   ELSE RuntimeErr

-----------------------------------------------------------------------------
(* Jumps, calls and the end.                                                *)

FalseJmp == /\ At("false_jmp")
            /\ Goes(IF IsFalse(Peek(0)) THEN 3 + Short ELSE 3, stack)

\* The case's value is popped, the value switched on stays.
IneqJmp == /\ At("ineq_jmp")
           /\ Goes(IF Peek(1) # Peek(0) THEN 3 + Short ELSE 3, Under(1))

Jmp == At("jmp") /\ Goes(3 + Short, stack)

Loop == At("loop") /\ Goes(3 - Short, stack)

\* The host's function notes what it is given, and fails when it has no answer.
CallVal ==
    /\ At("call")
    /\ LET argc == Byte(1)
       IN IF Peek(argc) = Say /\ world.tape # <<>>
          THEN Changes(2, Put(argc + 1, Head(world.tape)),
                       [world EXCEPT !.log = Append(@, Peek(0)), !.tape = Tail(@)])
          ELSE RuntimeErr

Ret == /\ At("ret")
       /\ stack' = <<Peek(0)>>
       /\ status' = "done"
       /\ UNCHANGED <<ip, world, chunk>>

Step == \/ Pop \/ PushConst \/ PushLiteral
        \/ Calculate \/ Compare \/ Negate \/ Invert
        \/ GetLocal \/ SetLocal \/ GetGlobal \/ SetGlobal
        \/ PushProp \/ GetProp \/ SetProp
        \/ PushSubscript \/ GetSubscript \/ SetSubscript
        \/ FalseJmp \/ IneqJmp \/ Jmp \/ Loop
        \/ CallVal \/ Ret

\* The interpreter at the first instruction of a chunk, in some world.
IsWorld(w) ==
    /\ w = [globals |-> w.globals, field |-> w.field, items |-> w.items, log |-> w.log,
            tape |-> w.tape]
    /\ w.globals \in [DOMAIN w.globals -> AnyValue]
    /\ w.field \in AnyValue
    /\ {w.items, w.log, w.tape} \subseteq Seq(AnyValue)

Loaded == /\ ip = 0
          /\ stack = <<Script>>
          /\ status = "running"
          /\ IsWorld(world)

Execution == Loaded /\ [][Step]_machine

-----------------------------------------------------------------------------
(* What the interpreter relies on.                                          *)

\* The values an instruction takes off the stack or looks at, and how much higher
\* the stack is after it.
Needs(i) ==
    LET name == Name(i)
    IN CASE name \in {"const", "null", "true", "false", "get_local", "get_global", "jmp", "loop"} -> 0
         [] name \in {"pop", "neg", "not", "set_local", "set_global", "push_prop", "get_prop",
                     "false_jmp", "ret"} -> 1
         [] name = "set_subscript" -> 3
         [] name = "call" -> ByteAt(i + 1) + 1
         [] OTHER -> 2
Rises(i) ==
    LET name == Name(i)
    IN CASE name \in {"const", "null", "true", "false", "get_local", "get_global", "push_prop",
                     "push_subscript"} -> 1
         [] name \in {"neg", "not", "set_local", "set_global", "get_prop", "false_jmp", "jmp",
                     "loop"} -> 0
         [] name = "set_subscript" -> -2
         [] name = "call" -> -ByteAt(i + 1)
         [] OTHER -> -1

\* Where control may go from an instruction.
Follow(i) ==
    LET name == Name(i)
        next == i + 1 + Operands(name)
    IN CASE name = "jmp" -> {next + ShortAt(i + 1)}
         [] name = "loop" -> {next - ShortAt(i + 1)}
         [] name \in {"false_jmp", "ineq_jmp"} -> {next, next + ShortAt(i + 1)}
         [] name = "ret" -> {}
         [] OTHER -> {next}

\* An instruction has what it reads, if the stack is that high: its operands are
\* in the code, a slot is on the stack, a name is a name and a value a value, and
\* what it takes is not the script itself.  The code checks none of this.
OfNames == {"get_global", "set_global", "push_prop", "get_prop", "set_prop"}
Has(i, height) ==
    /\ IsInstr(i) /\ Name(i) # "break"
    /\ i + Operands(Name(i)) < Len(chunk.code)
    /\ height > Needs(i)
    /\ Name(i) \in {"get_local", "set_local"} => ByteAt(i + 1) < height
    /\ Name(i) \in OfNames \union {"const"} => ByteAt(i + 1) < Len(chunk.consts)
    /\ Name(i) \in OfNames => ConstOf(ByteAt(i + 1)) \in STRING
    /\ Name(i) = "const" => ConstOf(ByteAt(i + 1)) \in AnyValue

\* The addresses at which the instructions of the code begin, one after the other.
Reads[i \in Nat] == IF IsInstr(i) THEN {i} \union Reads[i + 1 + Operands(Name(i))] ELSE {}
Starts == Reads[0]

\* The code fits heights, a function from the addresses control may come to: it
\* comes to the beginnings of instructions only, on every way with a stack of the
\* one height, and there each instruction has what it reads.
Fits(heights) ==
    /\ chunk.code \in Seq(Nat)
    /\ heights \in [DOMAIN heights -> Nat]
    /\ DOMAIN heights \subseteq Starts
    /\ 0 \in DOMAIN heights /\ heights[0] = 1
    /\ \A i \in DOMAIN heights :
          /\ Has(i, heights[i])
          /\ \A j \in Follow(i) : j \in DOMAIN heights /\ heights[j] = heights[i] + Rises(i)

-----------------------------------------------------------------------------
(* Properties.                                                              *)

\* Registers, values and world are of their kinds, and a script that is over has
\* left its value on the stack or, if it failed, nothing.
TypeOK == /\ ip \in Int
          /\ stack \in Seq(AnyValue)
          /\ status \in {"running", "done", "error", "refused"}
          /\ IsWorld(world)
          /\ status = "error" => stack = <<>>
          /\ status = "done" => Len(stack) = 1

\* Control never leaves the code nor comes to stand inside an instruction, and every
\* instruction that is executed finds what it reads: nothing is taken from below the
\* script's frame, from behind the code or the constants, from a slot above the top,
\* or for a name that is none.
InCode == status = "running" => ip \in Starts /\ Has(ip, Len(stack))
=============================================================================
