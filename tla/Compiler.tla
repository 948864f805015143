------------------------------- MODULE Compiler -------------------------------
(* compiler.c from tokens to bytecode, for scripts without functions and    *)
(* structs: the parser by precedence, the jumps with their two bytes, the   *)
(* constants and slots with their one, and the statements.  A parser is a   *)
(* record, and every function of the code takes one to another.             *)
EXTENDS Bytecode, FiniteSets

-----------------------------------------------------------------------------
(* The parser.                                                              *)

\* A parser at the start of a script: slot 0 is the script itself.  A loop gets a
\* name only with a label; unnamed is what is read where none was written.
Parser(tokens, unnamed) == [toks |-> tokens, unnamed |-> unnamed, pos |-> 0,
                            code |-> <<>>, consts |-> <<>>,
                            locals |-> <<[name |-> "self", depth |-> 0]>>, scope |-> 0,
                            loops |-> <<>>, erred |-> FALSE]

Err(p) == [p EXCEPT !.erred = TRUE]

Cur(p) == IF p.pos < Len(p.toks) THEN p.toks[p.pos + 1] ELSE <<"eof">>
Prev(p) == p.toks[p.pos]
Advance(p) == IF p.pos < Len(p.toks) THEN [p EXCEPT !.pos = @ + 1] ELSE p
Check(p, t) == Cur(p)[1] = t
Expect(p, t) == IF Check(p, t) THEN Advance(p) ELSE Err(p)
Consume(p, t) == IF Check(p, t) THEN Advance(p) ELSE p

Here(p) == Len(p.code)
WriteBc(p, bytes) == [p EXCEPT !.code = @ \o bytes]
Op(p, name) == WriteBc(p, <<bc(name)>>)
Op1(p, name, operand) == WriteBc(p, <<bc(name), operand>>)

\* Faults: the distance is one off, the limit is not looked at.
DistanceFromOperand(p, idx) == Here(p) - idx
TooFarNever(jmp) == FALSE

\* A distance as two bytes, whether or not it fits.
TooFar(jmp) == jmp > Bytes * Bytes - 1
High(jmp) == (jmp \div Bytes) % Bytes
Low(jmp) == jmp % Bytes

\* Backwards, from behind the operand.
WriteLoop(p, start) ==
    LET q == Op(p, "loop")
        jmp == Here(q) - start + 2
    IN WriteBc(IF TooFar(jmp) THEN Err(q) ELSE q, <<High(jmp), Low(jmp)>>)

\* The operand of a jump that is patched later is at JmpAt of the parser after.
WriteJmp(p, name) == WriteBc(p, <<bc(name), Bytes - 1, Bytes - 1>>)
JmpAt(p) == Here(p) - 2

Distance(p, idx) == Here(p) - idx - 2

PatchJmp(p, idx) ==
    LET jmp == Distance(p, idx)
    IN [p EXCEPT !.code[idx + 1] = High(jmp), !.code[idx + 2] = Low(jmp),
                 !.erred = @ \/ TooFar(jmp)]

\* create_const and the constant it adds, always a new one.
CreateConst(p, v) == [p EXCEPT !.consts = Append(@, v), !.erred = @ \/ Len(p.consts) >= Bytes]
ConstAt(p) == IF Len(p.consts) > Bytes THEN 0 ELSE Len(p.consts) - 1

WriteConst(p, v) == LET q == CreateConst(p, v) IN Op1(q, "const", ConstAt(q))

-----------------------------------------------------------------------------
(* Scopes and loops.                                                        *)

\* discard_locals: the pops of all locals deeper than scope.
Deeper(p, scope) == {i \in DOMAIN p.locals : /\ p.locals[i].depth > scope
                                             /\ \A j \in i .. Len(p.locals) : p.locals[j].depth > scope}
DiscardLocals(p, scope) ==
    WriteBc(p, [i \in 1 .. Cardinality(Deeper(p, scope)) |-> bc("pop")])

BeginScope(p) == [p EXCEPT !.scope = @ + 1]
EndScope(p) ==
    LET q == [p EXCEPT !.scope = @ - 1]
    IN [DiscardLocals(q, q.scope) EXCEPT
          !.locals = SubSeq(@, 1, Len(@) - Cardinality(Deeper(q, q.scope)))]

\* The name of a loop without a label is never written.
BeginLoop(p) == [p EXCEPT !.loops = Append(@, [start |-> Here(p), scope |-> p.scope,
                                               name |-> p.unnamed, breaks |-> <<>>])]
LoopAt(p) == p.loops[Len(p.loops)]
LoopName(p) ==
    IF ~Check(p, ":") THEN p
    ELSE LET q == Expect(Advance(p), "ident")
         IN IF q.erred THEN q ELSE [q EXCEPT !.loops[Len(q.loops)].name = Prev(q)[2]]

\* Patches the jumps at idxs to lead here.
RECURSIVE PatchJmps(_, _)
PatchJmps(p, idxs) ==
    IF idxs = <<>> THEN p ELSE PatchJmps(PatchJmp(p, Head(idxs)), Tail(idxs))

\* end_loop: the breaks become jumps, and lead here.
RECURSIVE PatchAll(_, _)
PatchAll(p, idxs) ==
    IF idxs = <<>> THEN p
    ELSE PatchAll(PatchJmp([p EXCEPT !.code[Head(idxs)] = bc("jmp")], Head(idxs)), Tail(idxs))

EndLoop(p) == [PatchAll(p, LoopAt(p).breaks) EXCEPT !.loops = SubSeq(@, 1, Len(@) - 1)]

\* The innermost loop of that name, or 0.
ResolveLoop(p, name) ==
    LET named == {i \in DOMAIN p.loops : p.loops[i].name = name}
    IN IF named = {} THEN 0 ELSE CHOOSE i \in named : \A j \in named : j <= i

ResolveLocal(p, name) ==
    LET named == {i \in DOMAIN p.locals : p.locals[i].name = name}
    IN IF named = {} THEN 0 ELSE CHOOSE i \in named : \A j \in named : j <= i

\* decl_var: a name is taken until a local of an outer scope is met.
Declared(p, name) ==
    \E i \in DOMAIN p.locals :
        /\ p.locals[i].name = name
        /\ \A j \in i .. Len(p.locals) : p.locals[j].depth = -1 \/ p.locals[j].depth >= p.scope

ParseVar(p) ==
    LET q == Expect(p, "ident")
    IN IF q.erred THEN q
       ELSE IF Declared(q, Prev(q)[2]) \/ Len(q.locals) = Bytes THEN Err(q)
       ELSE [q EXCEPT !.locals = Append(@, [name |-> Prev(q)[2], depth |-> -1])]

MarkInit(p) == [p EXCEPT !.locals[Len(p.locals)].depth = p.scope]

-----------------------------------------------------------------------------
(* Expressions, with operator precedence.  What is parsed after an error is *)
(* thrown away, so nothing is.                                              *)

AssignPrec == 1
UnaryPrec == 9

\* The precedence of a token behind an expression, 0 if it ends one.
PrecOf(t) == CASE t = "||" -> 2
               [] t = "&&" -> 3
               [] t \in {"==", "!="} -> 4
               [] t \in {"<", "<=", ">", ">="} -> 6
               [] t \in {"+", "-"} -> 7
               [] t = "*" -> 8
               [] t = "[" -> 10
               [] t \in {"(", "."} -> 11
               [] OTHER -> 0

Instruction(t) == CASE t = "+" -> "add" [] t = "-" -> "sub" [] t = "*" -> "mul"
                    [] t = "<" -> "lt" [] t = "<=" -> "lte"
                    [] t = ">" -> "gt" [] t = ">=" -> "gte"
                    [] t = "==" -> "eql" [] t = "!=" -> "neql"

\* Fault: what stands inside an expression may assign if the whole of it may.
CanAssignAnywhere(prec) == TRUE

CanAssign(prec) == prec <= AssignPrec

\* Fault: operators of one level group from the right.
OperandPrecSame(t) == PrecOf(t)

\* What the right operand of a binary operator may hold.
OperandPrec(t) == PrecOf(t) + 1

\* An expression of at least this precedence, and its operators from here on.
RECURSIVE ParsePrec(_, _), Infixes(_, _)

Expr(p) == ParsePrec(p, AssignPrec)
InParens(p) == Expect(Expr(Expect(p, "(")), ")")

\* The variants of an assignment to a place: the instructions that get what is
\* there, that get it and keep the place on the stack, and that set it.
Shorthands == [t \in {"+=", "-=", "*="} |->
                 CASE t = "+=" -> "add" [] t = "-=" -> "sub" [] t = "*=" -> "mul"]
Compounds == [t \in {"++", "--"} |-> IF t = "++" THEN "add" ELSE "sub"]

Place(p, can, get, push, set) ==
    LET t == Cur(p)[1]
        q == Advance(p)
    IN IF can /\ t = "=" THEN WriteBc(Expr(q), set)
       ELSE IF can /\ t \in DOMAIN Shorthands
            THEN WriteBc(Op(Expr(WriteBc(q, push)), Shorthands[t]), set)
       ELSE IF can /\ t \in DOMAIN Compounds
            THEN WriteBc(Op(WriteConst(WriteBc(q, push), <<"num", 1>>), Compounds[t]), set)
       ELSE WriteBc(p, get)

\* Every use of a global adds its name to the constants.
NamedVar(p, can) ==
    LET name == Prev(p)[2]
        at == ResolveLocal(p, name)
        slot == at - 1
        q == CreateConst(p, name)
    IN IF at = 0
       THEN Place(q, can, <<bc("get_global"), ConstAt(q)>>, <<bc("get_global"), ConstAt(q)>>,
                  <<bc("set_global"), ConstAt(q)>>)
       ELSE Place(IF p.locals[at].depth = -1 THEN Err(p) ELSE p, can,
                  <<bc("get_local"), slot>>, <<bc("get_local"), slot>>, <<bc("set_local"), slot>>)

Dot(p, can) ==
    LET q == Expect(p, "ident")
        r == CreateConst(q, Prev(q)[2])
    IN IF q.erred THEN q
       ELSE Place(r, can, <<bc("get_prop"), ConstAt(r)>>, <<bc("push_prop"), ConstAt(r)>>,
                  <<bc("set_prop"), ConstAt(r)>>)

Subscript(p, can) ==
    Place(Expect(Expr(p), "]"), can,
          <<bc("get_subscript")>>, <<bc("push_subscript")>>, <<bc("set_subscript")>>)

\* Fault: the left operand stays when the right one is evaluated.
AndKeepsLeft(p) == LET q == WriteJmp(p, "false_jmp")
                   IN PatchJmp(ParsePrec(q, PrecOf("&&")), JmpAt(q))

And(p) == LET q == WriteJmp(p, "false_jmp")
          IN PatchJmp(ParsePrec(Op(q, "pop"), PrecOf("&&")), JmpAt(q))

Or(p) == LET left == WriteJmp(p, "false_jmp")
             skip == WriteJmp(left, "jmp")
             right == Op(PatchJmp(skip, JmpAt(left)), "pop")
         IN PatchJmp(ParsePrec(right, PrecOf("||")), JmpAt(skip))

Ternary(p) ==
    LET test == WriteJmp(InParens(p), "false_jmp")
        yes == WriteJmp(Expr(Op(test, "pop")), "jmp")
        no == Op(PatchJmp(Expect(yes, "else"), JmpAt(test)), "pop")
    IN PatchJmp(Expr(no), JmpAt(yes))

\* One argument, as the calls here have.
Call(p) == Op1(Expect(Expr(p), ")"), "call", 1)

Prefix(p, can) ==
    LET t == Prev(p)[1]
    IN CASE t = "(" -> Expect(Expr(p), ")")
         [] t = "num" -> WriteConst(p, Prev(p))
         [] t \in {"null", "true", "false"} -> Op(p, t)
         [] t = "ident" -> NamedVar(p, can)
         [] t = "if" -> Ternary(p)
         [] t = "-" -> Op(ParsePrec(p, UnaryPrec), "neg")
         [] t = "!" -> Op(ParsePrec(p, UnaryPrec), "not")
         [] OTHER -> Err(p)

Infix(p, can) ==
    LET t == Prev(p)[1]
    IN CASE t = "&&" -> And(p)
         [] t = "||" -> Or(p)
         [] t = "(" -> Call(p)
         [] t = "." -> Dot(p, can)
         [] t = "[" -> Subscript(p, can)
         [] OTHER -> Op(ParsePrec(p, OperandPrec(t)), Instruction(t))

Infixes(p, prec) ==
    IF ~p.erred /\ prec <= PrecOf(Cur(p)[1])
    THEN Infixes(Infix(Advance(p), CanAssign(prec)), prec)
    ELSE p

\* An assignment to what is no place.
NoAssign(p, prec) == IF CanAssign(prec) /\ Check(p, "=") THEN Err(p) ELSE p

ParsePrec(p, prec) ==
    IF p.erred THEN p
    ELSE NoAssign(Infixes(Prefix(Advance(p), CanAssign(prec)), prec), prec)

-----------------------------------------------------------------------------
(* Statements.                                                              *)

\* A statement, and those up to a closing brace.
RECURSIVE Stat(_), Block(_)

InitVar(p) ==
    IF p.erred THEN p
    ELSE MarkInit(Expect(IF Check(p, "=") THEN Expr(Advance(p)) ELSE Op(p, "null"), ";"))
VarDecl(p) == InitVar(ParseVar(p))

Decl(p) == IF Check(p, "var") THEN VarDecl(Advance(p)) ELSE Stat(p)

Block(p) == IF p.erred \/ Check(p, "}") \/ Check(p, "eof") THEN Expect(p, "}")
            ELSE Block(Decl(p))

ExprStat(p) == Op(Expect(Expr(p), ";"), "pop")

\* From behind the test, and from behind the jump over the else.
IfElse(p) == IF Check(p, "else") THEN Stat(Advance(p)) ELSE p
IfNot(yes, test) == PatchJmp(IfElse(Op(PatchJmp(yes, test), "pop")), JmpAt(yes))
IfThen(test) == IfNot(WriteJmp(Stat(Op(test, "pop")), "jmp"), JmpAt(test))

IfStat(p) == IfThen(WriteJmp(InParens(p), "false_jmp"))

\* The loop a break or continue leaves, 0 if there is none, with the parser
\* behind the label.
Leaving(p) == IF Check(p, "ident") THEN Advance(p) ELSE p
Left(p) == IF Check(p, "ident") THEN ResolveLoop(p, Cur(p)[2]) ELSE Len(p.loops)

ContinueStat(p) ==
    IF Left(p) = 0 THEN Err(p)
    ELSE LET loop == p.loops[Left(p)]
         IN Expect(WriteLoop(DiscardLocals(Leaving(p), loop.scope), loop.start), ";")

BreakStat(p) ==
    IF Left(p) = 0 THEN Err(p)
    ELSE LET loop == p.loops[Left(p)]
             q == WriteJmp(DiscardLocals(Leaving(p), loop.scope - 1), "break")
         IN IF Len(loop.breaks) = Bytes THEN Err(q)
            ELSE Expect([q EXCEPT !.loops[Left(p)].breaks = Append(@, JmpAt(q))], ";")

\* The end of the body of a loop, and of the loop.
LoopBack(p) == IF p.erred THEN p ELSE WriteLoop(p, LoopAt(p).start)
LeaveLoop(p) == IF p.erred THEN p ELSE EndLoop(p)

LoopStat(p) == LeaveLoop(LoopBack(Stat(LoopName(BeginLoop(p)))))

WhileTested(exit) == Op(PatchJmp(LoopBack(Stat(Op(exit, "pop"))), JmpAt(exit)), "pop")
WhileStat(p) ==
    LeaveLoop(WhileTested(WriteJmp(LoopName(InParens(BeginLoop(p))), "false_jmp")))

\* Fault: a continue goes on with the condition.
StartsAtCondition(p, at) == p

\* A continue of a for loop with an increment goes on with that.
StartsAt(p, at) == [p EXCEPT !.loops[Len(p.loops)].start = at]

ForIncrement(p) ==
    IF Check(p, ")") THEN Advance(p)
    ELSE LET body == WriteJmp(p, "jmp")
             inc == Expect(Op(Expr(body), "pop"), ")")
             back == WriteLoop(inc, LoopAt(p).start)
         IN PatchJmp(StartsAt(back, Here(body)), JmpAt(body))

ForInit(p) == IF Check(p, ";") THEN Advance(p) ELSE VarDecl(p)

\* From the increment to the jump back, without a condition and with one.
ForBody(p) == LoopBack(Stat(LoopName(ForIncrement(p))))
ForTested(test) == Op(PatchJmp(ForBody(Op(test, "pop")), JmpAt(test)), "pop")

ForCond(p) == IF Check(p, ";") THEN ForBody(Advance(p))
              ELSE ForTested(WriteJmp(Expect(Expr(p), ";"), "false_jmp"))

ForStat(p) ==
    LeaveLoop(EndScope(ForCond(BeginLoop(ForInit(Expect(BeginScope(p), "("))))))

ReturnStat(p) ==
    IF Check(p, ";") THEN Op(Op(Advance(p), "null"), "ret")
    ELSE Op(Expect(Expr(p), ";"), "ret")

\* One case, from behind its test to the jump out behind its statement.
CaseEnd(p, ends) == WriteJmp(IF Len(ends) = Bytes - 1 THEN Err(p) ELSE p, "jmp")
Case(test, ends) == PatchJmp(CaseEnd(Stat(Expect(test, "=>")), ends), JmpAt(test))

\* The cases from here on; ends are the jumps out of those before.
RECURSIVE Cases(_, _)
NextCases(p, ends) == Cases(p, Append(ends, JmpAt(p)))
Cases(p, ends) ==
    IF p.erred \/ ~Check(p, "case") THEN [at |-> p, ends |-> ends]
    ELSE NextCases(Case(WriteJmp(Expr(Advance(p)), "ineq_jmp"), ends), ends)

Default(p) == IF Check(p, "else") THEN Stat(Expect(Advance(p), "=>")) ELSE p
LastCase(p) == IF Check(p, "case") THEN Err(p) ELSE p

SwitchEnd(cases) == Op(PatchJmps(LastCase(Default(cases.at)), cases.ends), "pop")

SwitchStat(p) == Expect(SwitchEnd(Cases(Expect(InParens(p), "{"), <<>>)), "}")

Stat(p) ==
    LET t == Cur(p)[1]
        q == Advance(p)
    IN IF p.erred THEN p
       ELSE CASE t = "break" -> BreakStat(q)
              [] t = "continue" -> ContinueStat(q)
              [] t = "if" -> IfStat(q)
              [] t = "loop" -> LoopStat(q)
              [] t = "for" -> ForStat(q)
              [] t = "while" -> WhileStat(q)
              [] t = "switch" -> SwitchStat(q)
              [] t = "return" -> ReturnStat(q)
              [] t = "{" -> EndScope(Block(BeginScope(q)))
              [] OTHER -> ExprStat(p)

\* All there is.
RECURSIVE Decls(_)
Decls(p) == IF p.erred \/ Check(p, "eof") THEN p ELSE Decls(Decl(p))

\* compile_hbs: what it returns is only used if the parser has not erred.
Compile(tokens, unnamed) == Op(Op(Decls(Parser(tokens, unnamed)), "null"), "ret")
=============================================================================
