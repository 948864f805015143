------------------------------ MODULE Upvalues ------------------------------
(* Captured variables: the upvalues of src/src/vm.c and obj.h.  A local of a *)
(* running function lives on the stack; a closure that captures it gets an  *)
(* upvalue that points at its slot, one per slot, kept on the list of open  *)
(* upvalues, topmost slot first.  When the local goes out of scope the      *)
(* upvalue is closed: it takes the value with it and points at itself.      *)
(*                                                                          *)
(* Slots are numbered from 1; a location of 0 is the upvalue's own `closed`.*)
(* Closures are the sequences of upvalues they captured; those the program  *)
(* still holds somewhere (a global, an array, ...) are in `closures`.       *)
EXTENDS Integers, Sequences, FiniteSets

CONSTANTS
    Vals,        \* the values of variables
    UpIds,       \* identities of upvalues, 1 .. n
    VarIds,      \* identities of captured variables (auxiliary), 1 .. n, of which
                 \* no more than these are visible at a time
    MaxStack,    \* bound: slots in use
    MaxLoose,    \* bound: slots in use once a captured variable is loose
    MaxFrames,   \* bound: calls in progress
    MaxClosures, \* bound: closures held
    MaxUpvals    \* bound: upvalues per closure

ASSUME UpvaluesAssumption ==
    /\ Vals \subseteq Nat /\ Vals # {}
    /\ UpIds \subseteq Nat \ {0}
    /\ VarIds \subseteq Nat \ {0} /\ VarIds # {}

VARIABLES
    stack,     \* h->stack up to h->top
    captured,  \* for each slot, what the compiler knows at the end of its scope:
               \* is the local captured? (Local.captured)
    frames,    \* h->frame_stack: base slot and closure of each call
    open,      \* h->open_upvals
    up,        \* GcUpval: loc and closed
    closures,  \* the closures the program holds
    making     \* the closure bc_closure is filling in, <<>> if none

VARIABLES      \* auxiliary: what the source program means
    var,       \* the captured variable each slot belongs to, 0 if none
    upVar,     \* the variable each upvalue was made for
    value,     \* the value last given to each variable
    loose      \* has a captured variable left the stack without being closed?

code == <<stack, captured, frames, open, up, closures, making>>
aux == <<var, upVar, value, loose>>
vars == <<code, aux>>

SetMin(S) == CHOOSE x \in S : \A y \in S : x <= y
Front(s, n) == SubSeq(s, 1, n)

Top == Len(stack)
Frame == frames[Len(frames)]
Running == frames # <<>> /\ making = <<>>

\* The upvalues a closure can still read, and those in use at all.
Members(s) == {s[p] : p \in 1 .. Len(s)}
Held == (UNION {Members(c) : c \in closures})
        \union (UNION {Members(frames[f].fn) : f \in 1 .. Len(frames)})
        \union Members(making)
InUse == Held \union Members(open)

Visible == Members(var) \union {upVar[u] : u \in InUse}

\* Upvalues nobody holds any more are the collector's business, and what they
\* or their variables held is forgotten here; the others take the values given.
NoUpvalue == [loc |-> 0, closed |-> SetMin(Vals)]
Settle(ups) ==
    /\ up' = [u \in UpIds |-> IF u \in InUse' THEN ups[u] ELSE NoUpvalue]
    /\ upVar' = [u \in UpIds |-> IF u \in InUse' THEN upVar[u] ELSE SetMin(VarIds)]
Remember(f) ==
    value' = [x \in VarIds |-> IF x \in Visible' THEN f[x] ELSE SetMin(Vals)]

FreshUp == SetMin(UpIds \ InUse)
FreshVar == SetMin(VarIds \ Visible)

\* What an upvalue may read: one that points above the top of the stack finds
\* whatever the slot was left with.
Reads(u) == IF up[u].loc = 0 THEN {up[u].closed}
            ELSE IF up[u].loc <= Top THEN {stack[up[u].loc]} ELSE Vals

Init == /\ stack = <<>> /\ captured = <<>> /\ frames = <<>> /\ open = <<>>
        /\ up = [u \in UpIds |-> NoUpvalue]
        /\ closures = {} /\ making = <<>>
        /\ var = <<>>
        /\ upVar = [u \in UpIds |-> SetMin(VarIds)]
        /\ value = [x \in VarIds |-> SetMin(Vals)]
        /\ loose = FALSE

-----------------------------------------------------------------------------
(* The stack.                                                               *)

\* push, for a new local, parameter or temporary.  The value of one that is
\* never captured is not looked at: it may as well be always the same.
Push(v, c) == /\ Top < IF loose THEN MaxLoose ELSE MaxStack
              /\ stack' = Append(stack, v)
              /\ captured' = Append(captured, c)
              /\ IF c THEN /\ VarIds \ Visible # {}
                           /\ var' = Append(var, FreshVar)
                           /\ value' = [value EXCEPT ![FreshVar] = v]
                      ELSE /\ var' = Append(var, 0)
                           /\ UNCHANGED value

Declare(v, c) == /\ Running
                 /\ c \/ v = SetMin(Vals)
                 /\ Push(v, c)
                 /\ UNCHANGED <<frames, open, up, closures, making, upVar, loose>>

\* bc_set_local
SetLocal(i, v) == /\ Running
                  /\ i \in Frame.base + 1 .. Top
                  /\ captured[i]
                  /\ stack' = [stack EXCEPT ![i] = v]
                  /\ value' = [value EXCEPT ![var[i]] = v]
                  /\ UNCHANGED <<captured, frames, open, up, closures, making, var, upVar, loose>>

-----------------------------------------------------------------------------
(* Capturing: bc_closure and capture_upval.                                 *)

\* Fault: the search of the list runs the wrong way.
AboveReversed(i) == Cardinality({p \in 1 .. Len(open) : up[open[p]].loc < i})

\* The open upvalues whose slots lie above slot i, which come first.
Above(i) == Cardinality({p \in 1 .. Len(open) : up[open[p]].loc > i})

\* A new closure is begun only while there is room for it.
Capturing == /\ frames # <<>>
             /\ Len(making) < MaxUpvals
             /\ making # <<>> \/ Cardinality(closures) < MaxClosures

\* Fault: a new upvalue each time.
CaptureAnew(i) ==
    /\ Capturing
    /\ i \in Frame.base .. Top
    /\ captured[i]
    /\ UpIds \ InUse # {}
    /\ making' = Append(making, FreshUp)
    /\ up' = [up EXCEPT ![FreshUp] = [loc |-> i, closed |-> SetMin(Vals)]]
    /\ open' = Front(open, Above(i)) \o <<FreshUp>> \o SubSeq(open, Above(i) + 1, Len(open))
    /\ upVar' = [upVar EXCEPT ![FreshUp] = var[i]]
    /\ UNCHANGED <<stack, captured, frames, closures, var, value, loose>>

\* Fault: a new upvalue is always put in front.
CaptureAtHead(i) ==
    /\ Capturing
    /\ i \in Frame.base .. Top
    /\ captured[i]
    /\ LET same == {u \in Members(open) : up[u].loc = i}
       IN IF same # {}
          THEN /\ making' = Append(making, SetMin(same))
               /\ UNCHANGED <<open, up, upVar>>
          ELSE /\ UpIds \ InUse # {}
               /\ making' = Append(making, FreshUp)
               /\ up' = [up EXCEPT ![FreshUp] = [loc |-> i, closed |-> SetMin(Vals)]]
               /\ open' = <<FreshUp>> \o open
               /\ upVar' = [upVar EXCEPT ![FreshUp] = var[i]]
    /\ UNCHANGED <<stack, captured, frames, closures, var, value, loose>>

CaptureLocal(i) ==
    /\ Capturing
    /\ i \in Frame.base .. Top
    /\ captured[i]
    /\ LET n == Above(i)
       IN IF n < Len(open) /\ up[open[n + 1]].loc = i
          THEN /\ making' = Append(making, open[n + 1])
               /\ UNCHANGED <<open, up, upVar>>
          ELSE /\ UpIds \ InUse # {}
               /\ making' = Append(making, FreshUp)
               /\ up' = [up EXCEPT ![FreshUp] = [loc |-> i, closed |-> SetMin(Vals)]]
               /\ open' = Front(open, n) \o <<FreshUp>> \o SubSeq(open, n + 1, Len(open))
               /\ upVar' = [upVar EXCEPT ![FreshUp] = var[i]]
    /\ UNCHANGED <<stack, captured, frames, closures, var, value, loose>>

\* The captured variable belongs to an outer function: share its upvalue.
CaptureOuter(j) ==
    /\ Capturing
    /\ j \in 1 .. Len(Frame.fn)
    /\ making' = Append(making, Frame.fn[j])
    /\ UNCHANGED <<stack, captured, frames, open, up, closures, aux>>

MakeClosure == /\ making # <<>>
               /\ closures' = closures \union {making}
               /\ making' = <<>>
               /\ UNCHANGED <<stack, captured, frames, open, up, aux>>

\* The last reference to a closure goes: the collector's business from here.
Forget(c) == /\ making = <<>>
             /\ c \in closures
             /\ closures' = closures \ {c}
             /\ UNCHANGED <<stack, captured, frames, open, making, var, loose>>
             /\ Settle(up)
             /\ Remember(value)

-----------------------------------------------------------------------------
(* Reading and writing through an upvalue.                                  *)

\* bc_get_upval
GetUpval(j) == /\ Running
               /\ j \in 1 .. Len(Frame.fn)
               /\ \E v \in Reads(Frame.fn[j]) : Push(v, FALSE)
               /\ UNCHANGED <<frames, open, up, closures, making, upVar, loose>>

\* bc_set_upval
SetUpval(j, v) ==
    /\ Running
    /\ j \in 1 .. Len(Frame.fn)
    /\ LET u == Frame.fn[j]
       IN /\ IF up[u].loc = 0
             THEN up' = [up EXCEPT ![u].closed = v] /\ UNCHANGED stack
             ELSE /\ stack' = [i \in 1 .. Top |-> IF i = up[u].loc THEN v ELSE stack[i]]
                  /\ UNCHANGED up
          /\ value' = [value EXCEPT ![upVar[u]] = v]
    /\ UNCHANGED <<captured, frames, open, closures, making, var, upVar, loose>>

-----------------------------------------------------------------------------
(* Leaving a scope, a function, a script.                                   *)

\* Faults: the slot itself left out; one slot too many.
ClosingAbove(last) == {p \in 1 .. Len(open) : up[open[p]].loc > last}
ClosingBelow(last) == {p \in 1 .. Len(open) : up[open[p]].loc >= last - 1}

\* close_upvals(h, &stack[last]): every open upvalue at or above the slot.
Closing(last) == {p \in 1 .. Len(open) : up[open[p]].loc >= last}

\* Fault: the upvalue is closed without the value.
CloseEmpty(last) ==
    LET n == Cardinality(Closing(last))
    IN /\ open' = SubSeq(open, n + 1, Len(open))
       /\ Settle([u \in UpIds |-> IF u \in Members(Front(open, n))
                                  THEN NoUpvalue ELSE up[u]])

\* The value above the top of the stack, when an open upvalue points there.
Leftovers == IF \E u \in Members(open) : up[u].loc > Top THEN Vals ELSE {SetMin(Vals)}

Close(last) ==
    LET n == Cardinality(Closing(last))
    IN /\ open' = SubSeq(open, n + 1, Len(open))
       /\ \E left \in Leftovers :
             Settle([u \in UpIds |->
                       IF u \notin Members(Front(open, n)) THEN up[u]
                       ELSE [loc |-> 0,
                             closed |-> IF up[u].loc <= Top THEN stack[up[u].loc] ELSE left]])

Pop(n) == /\ stack' = Front(stack, n)
          /\ captured' = Front(captured, n)
          /\ var' = Front(var, n)

\* The end of a local's scope: bc_close_upval if the compiler saw it captured,
\* bc_pop if not.
EndScope == /\ Running
            /\ Top > Frame.base
            /\ UNCHANGED <<frames, closures, making, loose>>
            /\ Pop(Top - 1)
            /\ IF captured[Top] THEN Close(Top) ELSE UNCHANGED <<open, up, upVar>>
            /\ Remember(value)

\* Does an open upvalue point above slot i?
OpenAbove(i) == \E u \in Members(open) : up[u].loc > i

\* A break or continue that leaves the scope.  The compiler writes its pops when
\* it comes to the statement: a function further on in the loop that captures
\* the local has not been seen then, and the local is popped, not closed.
JumpOut == /\ Running
           /\ Top > Frame.base
           /\ Pop(Top - 1)
           /\ loose' = (loose \/ OpenAbove(Top - 1))
           /\ UNCHANGED <<frames, open, up, closures, making, upVar>>
           /\ Remember(value)

\* A call of a closure, and the run of a script: a frame whose slot 0 is the
\* callee or, in a method, self, which a function inside it may capture.
\* Parameters are declared like locals.
Enter(fn, self) == /\ making = <<>>
                   /\ Len(frames) < MaxFrames
                   /\ Push(SetMin(Vals), self)
                   /\ frames' = Append(frames, [base |-> Top + 1, fn |-> fn])
                   /\ UNCHANGED <<open, up, closures, making, upVar, loose>>

Call(c, self) == /\ frames # <<>>
                 /\ c \in closures
                 /\ Enter(c, self)

RunScript == frames = <<>> /\ Enter(<<>>, FALSE)

\* bc_ret: the result, a temporary, takes the place of the callee.
Ret == /\ Running
       /\ stack' = Append(Front(stack, Frame.base - 1), SetMin(Vals))
       /\ captured' = Append(Front(captured, Frame.base - 1), FALSE)
       /\ var' = Append(Front(var, Frame.base - 1), 0)
       /\ frames' = Front(frames, Len(frames) - 1)
       /\ UNCHANGED <<closures, making, loose>>
       /\ Close(Frame.base)
       /\ Remember(value)

\* hbs_pop: the embedding program takes what scripts left on the stack.
HostPop == /\ frames = <<>>
           /\ Top > 0
           /\ Pop(Top - 1)
           /\ UNCHANGED <<frames, open, up, closures, making, upVar, value, loose>>

\* runtime_err: reset_stack empties the stack and forgets the open upvalues.
RuntimeErr == /\ Running
              /\ loose' = (loose \/ OpenAbove(0))
              /\ stack' = <<>> /\ captured' = <<>> /\ var' = <<>>
              /\ frames' = <<>>
              /\ open' = <<>>
              /\ UNCHANGED <<closures, making>>
              /\ Settle(up)
              /\ Remember(value)

Next == \/ \E v \in Vals, c \in BOOLEAN : Declare(v, c)
        \/ \E i \in 1 .. MaxStack : CaptureLocal(i) \/ \E v \in Vals : SetLocal(i, v)
        \/ \E j \in 1 .. MaxUpvals : \/ CaptureOuter(j) \/ GetUpval(j)
                                     \/ \E v \in Vals : SetUpval(j, v)
        \/ \E c \in closures : Forget(c) \/ \E self \in BOOLEAN : Call(c, self)
        \/ MakeClosure \/ EndScope \/ JumpOut \/ RunScript \/ Ret \/ HostPop \/ RuntimeErr

Spec == Init /\ [][Next]_vars

-----------------------------------------------------------------------------
(* Properties.                                                              *)

\* As long as no captured variable has been popped without being closed, the
\* list of open upvalues runs down the stack, so that close_upvals may stop at the
\* first one below the slot, and holds every upvalue that points into it.
OpenListSound ==
    ~loose =>
        /\ \A p, q \in 1 .. Len(open) : p < q => up[open[p]].loc > up[open[q]].loc
        /\ \A u \in InUse : u \in Members(open) <=> up[u].loc # 0

\* "The value is on the stack or inside this struct" (obj.h): an upvalue never
\* points at a slot above the top of the stack.
ValueOnStackOrInside == \A u \in Held : up[u].loc <= Top

\* It never does, unless a jump or an error has dropped a captured variable.
OnlyLooseAbove == ~loose => ValueOnStackOrInside

\* Two closures that captured the same variable share it, for as long as either
\* lives: it has one upvalue, open or closed, whatever jumps and errors do.
OneUpvalPerVariable ==
    \A u, w \in Held : upVar[u] = upVar[w] => u = w

\* Until then, a closure and the function that declared the variable always see
\* the value last given to it, by whichever of them, before and after the scope
\* ends.
SeesVariable ==
    ~loose =>
        /\ \A u \in Held : Reads(u) = {value[upVar[u]]}
        /\ \A i \in 1 .. Top : captured[i] => stack[i] = value[var[i]]

\* A closed upvalue is not opened again, and a variable is closed only when it
\* leaves the stack: never one that its function can still write to.
ClosedForGood ==
    [][\A u \in Held : u \in Held' =>
          /\ up[u].loc = 0 => up'[u].loc = 0
          /\ up[u].loc # 0 /\ up'[u].loc = 0 =>
                ~(\E i \in 1 .. Len(stack') : var'[i] = upVar[u])]_vars
=============================================================================
