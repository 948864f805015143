------------------------------- MODULE Scopes -------------------------------
(* Scopes and jumps: what src/src/compiler.c believes of the run-time stack *)
(* and what the code it writes makes of it.  The compiler is one pass: it   *)
(* numbers the locals of a function as it parses, the number is the slot    *)
(* (bc_get_local n reads base[n]), and it writes pops for the scopes a      *)
(* statement leaves.  Nothing checks that the two agree.                    *)
(*                                                                          *)
(* The state is the parser in the middle of one function.  Beside what the  *)
(* code keeps there is `paths`: the contents the stack frame can have when  *)
(* control comes to the instruction written next, whatever jumps led there. *)
(* Expressions push one value and leave nothing else; only the functions in *)
(* them matter.  Compilations that report an error produce no code and are  *)
(* not followed.                                                            *)
EXTENDS Integers, Sequences, FiniteSets

CONSTANTS
    MaxLocals,   \* bound: locals at once, besides the callee
    MaxNest,     \* bound: constructs inside each other
    Quirks       \* the constructs, of those below, that programs may contain

\* break    a break of a loop or while whose own scope has locals
\* switch   a variable declared in a switch, or a jump out of one
\* function a function, or global fn, where the last local is of another scope
\* member   a var or global in a static struct
\* enum     a global enum
ASSUME ScopesAssumption ==
    /\ MaxLocals \in Nat /\ MaxNest \in Nat
    /\ Quirks \subseteq {"break", "switch", "function", "member", "enum"}

VARIABLES
    type,     \* Compiler.type: "script" or "fn"
    locals,   \* Compiler.locals, and the scope each was declared in (auxiliary)
    scope,    \* Compiler.scope
    loops,    \* Compiler.loop and its enclosing loops, innermost last
    nest,     \* the statements being parsed, innermost last
    paths     \* auxiliary: the stack frames control can come here with

vars == <<type, locals, scope, loops, nest, paths>>

Callee == 0
Temp == -1      \* a value that is no local
Ids == 1 .. MaxLocals

Last(s) == s[Len(s)]
Front(s) == SubSeq(s, 1, Len(s) - 1)
Drop(s, n) == SubSeq(s, 1, Len(s) - n)
SetMax(S) == CHOOSE x \in S : \A y \in S : x >= y
SetMin(S) == CHOOSE x \in S : \A y \in S : x <= y
Members(s) == {s[p] : p \in 1 .. Len(s)}

Pushed(v) == {Append(s, v) : s \in paths}
Popped(ps, n) == {Drop(s, n) : s \in ps}

Local(id, sc) == [id |-> id, depth |-> sc, home |-> sc]

\* Frames that control will come with when a pending jump is patched.
Pending == UNION {nest[k].jumps : k \in 1 .. Len(nest)}
           \union UNION {loops[l].start \union loops[l].breaks : l \in 1 .. Len(loops)}
FreeIds == Ids \ ({locals[i].id : i \in 1 .. Len(locals)}
                  \union UNION {Members(s) : s \in paths \union Pending})

Init == /\ type \in {"script", "fn"}
        /\ locals = <<Local(Callee, 0)>>
        /\ scope = 0
        /\ loops = <<>> /\ nest = <<>>
        /\ paths = {<<Callee>>}

-----------------------------------------------------------------------------
(* Where a declaration or a statement may stand.                            *)

Here == IF nest = <<>> THEN "body" ELSE Last(nest).kind
OneStat == {"then", "else", "loop", "while", "for", "case", "default"}
AtDecl == Here \in {"body", "block"}
AtStat == AtDecl \/ (Here \in OneStat /\ ~Last(nest).done)
Inside(kind) == Here = kind
Done(kind) == Here = kind /\ Last(nest).done

\* The statement that begins or stands here is the one the construct wants.
Filled == IF AtDecl THEN nest ELSE [nest EXCEPT ![Len(nest)].done = TRUE]
Open(kind, jumps) ==
    /\ Len(nest) < MaxNest
    /\ nest' = Append(Filled, [kind |-> kind, jumps |-> jumps, done |-> FALSE])
Close == nest' = Front(nest)

InSwitch == \E k \in 1 .. Len(nest) : nest[k].kind = "switch"

-----------------------------------------------------------------------------
(* Locals.                                                                  *)

\* Fault: the locals of the first scope left are forgotten.
DiscardedDeeper(sc) ==
    Len(locals) - SetMax({0} \union {i \in 1 .. Len(locals) : locals[i].depth <= sc + 1})

\* discard_locals: how many pops it writes for the scopes deeper than sc.
Discarded(sc) == Len(locals)
                 - SetMax({0} \union {i \in 1 .. Len(locals) : locals[i].depth <= sc})

\* function begins with mark_init: the last local, which may be one of another
\* scope or the callee, now counts as declared here.
Marked == [locals EXCEPT ![Len(locals)].depth = scope]
MarkFits == "function" \in Quirks \/ Last(locals).depth = scope

\* var_decl and fn_decl of a local: the value stays where it was pushed.
Declare(sc) == /\ FreeIds # {}
               /\ "switch" \in Quirks \/ ~InSwitch
               /\ locals' = Append(locals, Local(SetMin(FreeIds), sc))
               /\ paths' = Pushed(SetMin(FreeIds))

VarDecl == /\ AtDecl
           /\ Declare(scope)
           /\ UNCHANGED <<type, scope, loops, nest>>

\* A function in an expression statement, or in the initialiser of a global.
Function == /\ AtStat
            /\ locals # <<>>
            /\ MarkFits
            /\ locals' = Marked
            /\ nest' = Filled
            /\ UNCHANGED <<type, scope, loops, paths>>

BeginBlock == /\ AtStat
              /\ Open("block", {})
              /\ scope' = scope + 1
              /\ UNCHANGED <<type, locals, loops, paths>>

\* end_scope, of a block and of a for; the pops are written for `ps`.
EndScope(ps) == /\ scope' = scope - 1
                /\ locals' = Drop(locals, Discarded(scope - 1))
                /\ paths' = Popped(ps, Discarded(scope - 1))

EndBlock == /\ Inside("block")
            /\ EndScope(paths)
            /\ Close
            /\ UNCHANGED <<type, loops>>

-----------------------------------------------------------------------------
(* Choices.  The condition is popped on both ways.                          *)

BeginIf == /\ AtStat
           /\ Open("then", paths)
           /\ UNCHANGED <<type, locals, scope, loops, paths>>

\* The end of the then part, where an else begins or might have.
Else == /\ Done("then")
        /\ \E empty \in BOOLEAN :
              nest' = Append(Front(nest), [kind |-> "else", jumps |-> paths, done |-> empty])
        /\ paths' = Last(nest).jumps
        /\ UNCHANGED <<type, locals, scope, loops>>

EndIf == /\ Done("else")
         /\ paths' = paths \union Last(nest).jumps
         /\ Close
         /\ UNCHANGED <<type, locals, scope, loops>>

\* switch_stat: the value stays on the stack, below whatever the cases do.
BeginSwitch == /\ AtStat
               /\ Open("switch", {})
               /\ paths' = Pushed(Temp)
               /\ UNCHANGED <<type, locals, scope, loops>>

\* bc_ineq_jmp pops the value of the case, equal or not.
Case == /\ Inside("switch") /\ ~Last(nest).done
        /\ Len(nest) < MaxNest
        /\ nest' = Append(nest, [kind |-> "case", jumps |-> paths, done |-> FALSE])
        /\ UNCHANGED <<type, locals, scope, loops, paths>>

EndCase == /\ Done("case")
           /\ nest' = [Front(nest) EXCEPT ![Len(nest) - 1].jumps = @ \union paths]
           /\ paths' = Last(nest).jumps
           /\ UNCHANGED <<type, locals, scope, loops>>

Default == /\ Inside("switch") /\ ~Last(nest).done
           /\ Open("default", {})
           /\ UNCHANGED <<type, locals, scope, loops, paths>>

EndDefault == /\ Done("default")
              /\ nest' = [Front(nest) EXCEPT ![Len(nest) - 1].done = TRUE]
              /\ UNCHANGED <<type, locals, scope, loops, paths>>

\* Fault: the value is not popped.
EndSwitchNoPop == /\ Inside("switch")
                  /\ paths' = paths \union Last(nest).jumps
                  /\ Close
                  /\ UNCHANGED <<type, locals, scope, loops>>

EndSwitch == /\ Inside("switch")
             /\ paths' = Popped(paths \union Last(nest).jumps, 1)
             /\ Close
             /\ UNCHANGED <<type, locals, scope, loops>>

-----------------------------------------------------------------------------
(* Loops.                                                                   *)

\* begin_loop: control comes back here with the frames it has come with now.
Loop(kind, sc, start) == [kind |-> kind, scope |-> sc, start |-> start,
                          breaks |-> {}, back |-> {}, at |-> Len(nest) + 1]

BeginLoop == /\ AtStat
             /\ Open("loop", {})
             /\ loops' = Append(loops, Loop("loop", scope, paths))
             /\ UNCHANGED <<type, locals, scope, paths>>

BeginWhile == /\ AtStat
              /\ Open("while", paths)
              /\ loops' = Append(loops, Loop("while", scope, paths))
              /\ UNCHANGED <<type, locals, scope, paths>>

\* for_stat opens a scope for its variable (which may be missing, or global) and
\* then the loop.  The increment is a second place to come back to, with the
\* same frames; without a condition nothing leaves at the top.
BeginFor(declares, cond) ==
    /\ AtStat
    /\ scope' = scope + 1
    /\ IF declares THEN Declare(scope + 1) ELSE UNCHANGED <<locals, paths>>
    /\ Open("for", IF cond THEN paths' ELSE {})
    /\ loops' = Append(loops, Loop("for", scope + 1, paths'))
    /\ UNCHANGED type

\* A break or continue of loop l leaves no switch value behind.
LeavesSwitch(l) == \E k \in loops[l].at .. Len(nest) : nest[k].kind = "switch"
JumpFits(l) == "switch" \in Quirks \/ ~LeavesSwitch(l)

\* Fault: continue leaves the scope the loop is in.
ContinueDiscardsOne(l) == Discarded(loops[l].scope - 1)
ContinueDiscards(l) == Discarded(loops[l].scope)

\* continue, of the innermost loop or of one with a label.
Continue(l) == /\ AtStat
               /\ JumpFits(l)
               /\ loops' = [loops EXCEPT ![l].back =
                               @ \union Popped(paths, ContinueDiscards(l))]
               /\ paths' = {}
               /\ nest' = Filled
               /\ UNCHANGED <<type, locals, scope>>

\* break_stat writes pops for the locals of the scope the loop is in as well:
\* right for a for, whose variable is there, and for it alone.
BreakFits(l) == \/ "break" \in Quirks
                \/ loops[l].kind = "for"
                \/ Discarded(loops[l].scope - 1) = Discarded(loops[l].scope)

Break(l) == /\ AtStat
            /\ JumpFits(l) /\ BreakFits(l)
            /\ loops' = [loops EXCEPT ![l].breaks =
                            @ \union Popped(paths, Discarded(loops[l].scope - 1))]
            /\ paths' = {}
            /\ nest' = Filled
            /\ UNCHANGED <<type, locals, scope>>

\* The jump back, the way out at the top, and the breaks, which end_loop patches
\* to come here; those of a for come after the pops of its scope.
EndLoop == /\ Done("loop") \/ Done("while")
           /\ paths' = Last(nest).jumps \union Last(loops).breaks
           /\ loops' = Front(loops)
           /\ Close
           /\ UNCHANGED <<type, locals, scope>>

EndFor == /\ Done("for")
          /\ scope' = scope - 1
          /\ locals' = Drop(locals, Discarded(scope - 1))
          /\ paths' = Popped(Last(nest).jumps, Discarded(scope - 1)) \union Last(loops).breaks
          /\ loops' = Front(loops)
          /\ Close
          /\ UNCHANGED type

\* return_stat: bc_ret takes its frame off the stack whatever is in it.
Return == /\ AtStat
          /\ paths' = {}
          /\ nest' = Filled
          /\ UNCHANGED <<type, locals, scope, loops>>

-----------------------------------------------------------------------------
(* Structs and enums, at the top of a script only.                          *)

AtTop == type = "script" /\ nest = <<>>

\* struct_decl: a local or global for the struct, and the struct once more on
\* the stack while its members are defined.
BeginStruct(static, global) ==
    /\ AtTop
    /\ Open(IF static THEN "static struct" ELSE "struct", {})
    /\ IF global
       THEN UNCHANGED locals /\ paths' = Pushed(Temp)
       ELSE /\ FreeIds # {}
            /\ locals' = Append(locals, Local(SetMin(FreeIds), 0))
            /\ paths' = {s \o <<SetMin(FreeIds), Temp>> : s \in paths}
    /\ UNCHANGED <<type, scope, loops>>

\* A method or static function: its closure is pushed and defined.  An enum is
\* pushed and defined too, and changes nothing here.
Method == /\ Inside("struct") \/ Inside("static struct")
          /\ locals # <<>>
          /\ MarkFits
          /\ locals' = Marked
          /\ UNCHANGED <<type, scope, loops, nest, paths>>

\* A var, or a global: in a static struct bc_def_static comes after it too, and
\* pops a value nobody pushed.
Member == /\ \/ Inside("struct") /\ UNCHANGED paths
             \/ /\ Inside("static struct") /\ "member" \in Quirks
                /\ paths' = Popped(paths, 1)
          /\ UNCHANGED <<type, locals, scope, loops, nest>>

EndStruct == /\ Inside("struct") \/ Inside("static struct")
             /\ paths' = Popped(paths, 1)
             /\ Close
             /\ UNCHANGED <<type, locals, scope, loops>>

\* enum_decl.  bc_def_global for a global enum comes before bc_enum: it pops what
\* is there, and the enum stays on the stack.
EnumDecl(global) ==
    /\ AtTop
    /\ IF global
       THEN /\ "enum" \in Quirks
            /\ paths' = {Append(Drop(s, 1), Temp) : s \in paths}
            /\ UNCHANGED locals
       ELSE /\ FreeIds # {}
            /\ locals' = Append(locals, Local(SetMin(FreeIds), 0))
            /\ paths' = Pushed(SetMin(FreeIds))
    /\ UNCHANGED <<type, scope, loops, nest>>

Next == \/ VarDecl \/ Function \/ Method
        \/ BeginBlock \/ EndBlock \/ Return
        \/ BeginIf \/ Else \/ EndIf
        \/ BeginSwitch \/ Case \/ EndCase \/ Default \/ EndDefault \/ EndSwitch
        \/ BeginLoop \/ BeginWhile \/ EndLoop \/ EndFor
        \/ \E declares, cond \in BOOLEAN : BeginFor(declares, cond)
        \/ \E l \in 1 .. Len(loops) : Break(l) \/ Continue(l)
        \/ \E static, global \in BOOLEAN : BeginStruct(static, global)
        \/ \E global \in BOOLEAN : EnumDecl(global)
        \/ Member \/ EndStruct

Spec == Init /\ [][Next]_vars
-----------------------------------------------------------------------------
(* Properties.                                                              *)

\* "Represents a runtime value, at compile time" (Local): on every way control
\* can come here, local i is the value in slot i, and above the locals are only
\* the values of the switches and structs being parsed.  This is what makes
\* bc_get_local, bc_set_local and capture_upval find the right variable.
Temps == {k \in 1 .. Len(nest) : nest[k].kind \in {"switch", "struct", "static struct"}}
LocalsInPlace ==
    \A s \in paths : /\ Len(s) = Len(locals) + Cardinality(Temps)
                     /\ \A i \in 1 .. Len(locals) : s[i] = locals[i].id

\* A local lives exactly as long as the block that declared it: its depth stays
\* what it was, and no local is left of a scope that has ended.  Otherwise its
\* name would stop meaning it, or the pops at the end of a scope miss it.
ScopesKept ==
    /\ \A i \in 1 .. Len(locals) : /\ locals[i].depth = locals[i].home
                                   /\ locals[i].depth <= scope
    /\ locals # <<>> /\ locals[1].id = Callee

\* Control comes back to the start of a loop, from its end or from a continue,
\* with the frame it first came with: a loop does not eat or fill the stack.
LoopsReenter ==
    [][Len(loops') < Len(loops) =>
          paths \union Last(loops).back \subseteq Last(loops).start]_vars
=============================================================================
