----------------------------- MODULE MCPrograms -----------------------------
(* A small instance of Programs for TLC: every pair of operators in both    *)
(* groupings, every expression of two operands with calls and places in it, *)
(* every nest of two loops with every way out of them, and scripts that     *)
(* come up to the limits of an operand and pass them.                       *)
EXTENDS Programs

Var(x) == <<"var", x>>
Ask(x) == <<"call", Var("say"), x>>
Do(e) == <<"expr", e>>
Braces(ss) == <<"block", ss>>
Returns(e) == <<"return", e>>
Let(x, e) == <<"declare", x, e>>
Inc(x) == <<"step", "+", Var(x)>>

-----------------------------------------------------------------------------
(* Pairs of operators, on locals.                                           *)

Locals3 == <<Let("b", Num(5)), Let("c", Num(2)), Let("d", Num(3))>>

Joined(op, l, r) ==
    CASE op \in Binary \union {"&&", "||"} -> {<<op, l, r>>}
      [] op = "=" -> {<<op, l, r>>}
      [] op = "+=" -> {<<"update", "+", l, r>>}
      [] op = "if" -> {<<op, <<">", l, r>>, l, r>>, <<op, l, r, l>>, <<op, r, l, r>>}
      [] op \in {"not", "neg"} -> {<<op, r>>}
      [] op = "++" -> {<<"step", "+", l>>}
Ops == Binary \union {"&&", "||", "=", "+=", "if", "not", "neg", "++"}
Assigning == {"=", "+=", "++"}

Groupings ==
    UNION {UNION {Joined(p, Var("b"), e) : e \in Joined(q, Var("c"), Var("d"))} : p \in Ops, q \in Ops}
      \union
    UNION {UNION {Joined(p, e, Var("d")) : e \in Joined(q, Var("b"), Var("c"))} :
             p \in Ops \ Assigning, q \in Ops}

Literals == {<<"||", <<"lit", Bool(FALSE)>>, Var("d")>>, <<"&&", <<"lit", Null>>, Var("d")>>}

PairScripts == {Locals3 \o <<Returns(e)>> : e \in Groupings \union Literals}

-----------------------------------------------------------------------------
(* Operands with effects and errors: what is evaluated, and in which order. *)

Places == {Var("a"), <<"dot", Var("o")>>, <<"sub", Var("xs"), Num(1)>>,
           <<"sub", Var("xs"), Ask(Num(0))>>, <<"dot", Ask(Num(3))>>, Var("u")}
Atoms == Places \union {Num(2), <<"lit", Null>>, <<"lit", Bool(TRUE)>>, Ask(Num(4))}

EffectScripts ==
    {<<Do(<<op, l, r>>)>> : op \in {"+", "<", "==", "&&", "||"}, l \in Atoms, r \in Atoms}
      \union
    {<<Do(<<"=", l, r>>)>> : l \in Places, r \in Atoms}
      \union
    {<<Do(<<"update", "-", l, r>>)>> : l \in Places, r \in Atoms}
      \union
    {<<Do(<<"step", "-", l>>)>> : l \in Places}
      \union
    {<<Do(<<"if", c, <<"=", Var("a"), Num(7)>>, r>>)>> : c \in Atoms, r \in Atoms}
      \union
    {<<Do(<<"call", f, x>>)>> : f \in {Var("say"), Var("a"), Var("u")}, x \in Atoms}

EffectTapes == {<<>>, <<Num(-1)>>, <<Num(1), Inst>>, <<Null, Num(2)>>, <<Inst, Num(-2)>>,
                <<Num(2), Bool(FALSE)>>}

-----------------------------------------------------------------------------
(* Nests of loops, and ways out of them.                                    *)

WaysOut == {<<"break", "">>, <<"continue", "">>, Returns(Num(9)), Do(Inc("i"))}
Labelled == {<<"break", "out">>, <<"continue", "out">>}
If(c, s, t) == <<"if", c, s, t>>
Asked == <<"call", Var("q"), Var("i")>>

\* What is done depends on an answer, with a local around it or without.
Choices(exits) ==
    {If(Asked, s, <<>>) : s \in exits}
      \union
    {Braces(<<Let("k", Num(1)), If(Asked, s, Do(Inc("k")))>>) : s \in exits}

\* A loop is written in a block of its own, which has no locals at its start.
While(label, body) == Braces(<<<<"while", label, Asked, body>>>>)
LoopOf(label, body) == Braces(<<<<"loop", label, body>>>>)
For(label, body) == <<"for", label, Let("j", Num(0)), <<"<", Var("j"), Num(2)>>, Inc("j"), body>>
ForBare(label, body) == <<"for", label, <<>>, <<>>, <<>>, body>>
ForNoInc(label, body) == <<"for", label, Let("j", Num(0)), Asked, <<>>, body>>
Loops(label, body) == {While(label, body), LoopOf(label, body), For(label, body),
                       ForBare(label, body), ForNoInc(label, body)}

After(s) == <<Let("q", Var("say")), Let("i", Num(1)), s, Do(<<"call", Var("q"), Num(0)>>)>>

SingleLoops == UNION {Loops("", Braces(<<c, Do(Inc("i"))>>)) : c \in Choices(WaysOut)}
                 \union {For("", Do(Var("i")))}
NestedLoops ==
    UNION {Loops("out", Braces(<<inner, Do(Inc("i"))>>)) :
             inner \in UNION {Loops("in", c) : c \in Choices(Labelled \union {<<"break", "">>})}
                      \union {While("", c) : c \in Choices(Labelled)}}
LoopScripts == {After(s) : s \in SingleLoops \union NestedLoops}

CaseOf(v, s) == <<Num(v), s>>
Switches ==
    {<<"switch", Asked, cases, default>> :
       cases \in {<<>>, <<CaseOf(1, Do(Inc("a")))>>,
                  <<CaseOf(1, Do(Inc("a"))), <<Asked, Do(Inc("o"))>>>>,
                  <<CaseOf(2, If(Asked, Do(Inc("a")), <<>>)),
                    CaseOf(2, Do(<<"=", Var("a"), Num(7)>>))>>},
       default \in {<<>>, Do(<<"=", Var("a"), Num(8)>>)}}
Branches ==
    {If(Asked, s, t) : s \in {If(Asked, Do(Inc("a")), <<>>), Do(Inc("i"))},
                       t \in {<<>>, If(Asked, Do(Inc("i")), Do(Asked)), Do(Inc("a"))}}
BranchScripts == {After(s) : s \in Switches \union Branches}

Yes == Bool(TRUE)
No == Bool(FALSE)
ChoiceTapes == {<<>>, <<No>>, <<Yes, No>>, <<No, Yes, No>>, <<Yes, Yes, No, Num(1)>>,
                <<Yes, No, No, Num(1)>>, <<Yes, No, Yes, No, No, No>>,
                <<Num(2), Num(1), Null, Num(2)>>}

-----------------------------------------------------------------------------
(* Up to the limits of operands, and past them.                             *)

Names == <<"b", "c", "d", "e", "f", "g", "h", "i", "j", "k", "l", "m">>
Times(n, s) == [i \in 1 .. n |-> s]

RECURSIVE Chain(_)
Chain(n) == IF n = 0 THEN Var("b") ELSE <<"&&", Var("b"), Chain(n - 1)>>

LimitScripts ==
    {<<Let("b", Num(1)), Braces(<<<<"while", "", <<"<", Var("b"), Num(3)>>,
       Braces(<<Do(Inc("b"))>> \o Times(n, Do(Var("b"))))>>>>), Returns(Var("b"))>> : n \in 38 .. 46}
      \union
    {<<Braces(<<<<"loop", "", Braces(Times(n, <<"break", "">>))>>>>)>> : n \in 11 .. 13}
      \union
    {<<Let("b", Num(1)), <<"switch", <<"lit", Null>>, Times(n, <<Var("b"), Do(Var("b"))>>), <<>>>>>> : n \in 10 .. 12}
      \union
    {<<Let("b", Num(1)), If(Var("b"), Braces(Times(n, Do(Var("b")))), Do(Inc("b"))),
       Returns(Var("b"))>> : n \in 44 .. 50}
      \union
    {<<Let("b", Num(1)), Returns(Chain(n))>> : n \in {1, 2, 3, 22, 23, 24, 25, 26}}
      \union
    {[i \in 1 .. n |-> Let(Names[i], <<"lit", Null>>)] \o <<Returns(Var(Names[n]))>> : n \in {1, 10, 11, 12}}
      \union
    {[i \in 1 .. n |-> Do(Num(i))] \o <<Returns(Num(n))>> : n \in {1, 10, 11, 12, 13}}
      \union
    {<<Braces(<<<<"loop", "", Braces(Times(n, If(<<"lit", Null>>, <<"break", "">>, <<>>))
                                       \o <<<<"break", "">>>>)>>>>)>> : n \in {1, 2, 9, 10, 11, 12}}

-----------------------------------------------------------------------------
(* What is no script.                                                       *)

StrayAssignments ==
    {<<Do(<<"stray", l, Num(1)>>)>> :
       l \in {<<op, Var("a"), Var("o")>> : op \in Binary \union {"&&", "||"}}
               \union {<<op, Num(2), p>> : op \in Binary \union {"&&", "||"}, p \in Places}
               \union {<<op, p>> : op \in {"not", "neg"}, p \in Places}
               \union {Ask(Num(1)), Num(1), <<"if", Var("a"), Var("a"), Var("a")>>}}
MCStrays ==
    StrayAssignments
      \union
    {<<g>> : g \in {<<"break", "">>, <<"continue", "">>, While("in", <<"break", "out">>), While("", <<"break", "out">>),
                    For("in", <<"continue", "out">>)}}
      \union
    {<<Let("b", Num(1)), Let("b", Num(2))>>, <<Let("b", Var("b"))>>}

MCInputs ==
    ((PairScripts \union LimitScripts) \X {<<>>})
      \union (EffectScripts \X EffectTapes)
      \union ((LoopScripts \union BranchScripts) \X ChoiceTapes)
=============================================================================
