------------------------------- MODULE Language -------------------------------
(* What a script means, by the structure of its syntax tree: expressions    *)
(* with the precedences the language has, assignments to variables, fields  *)
(* and elements, and structured control flow.  There is one instance, with  *)
(* one field, one array, and one function of the host, which notes down     *)
(* what it is given and answers from a tape.                                *)
EXTENDS Values, TLC

-----------------------------------------------------------------------------
(* The world a script runs in, with the value of the expression evaluated   *)
(* last, and how the statement executed last has ended.                     *)

World(tape) == [globals |-> ("a" :> Num(1)) @@ ("o" :> Inst) @@ ("xs" :> Arr)
                              @@ ("say" :> Say),
                field |-> Num(1),
                items |-> <<Num(1), Num(2)>>,
                log |-> <<>>,
                tape |-> tape]

Start(tape, fuel) == World(tape) @@ [locals |-> <<>>, val |-> Null, how |-> "on",
                                     to |-> "", fuel |-> fuel]

On(w) == w.how = "on"
Fail(w) == [w EXCEPT !.how = "error"]
Value(w, v) == [w EXCEPT !.val = v]

\* A zero with a sign, which Num does not have: nothing is said of such a script.
MinusZero(w) == [w EXCEPT !.how = "unsaid"]

\* The innermost local of that name, or 0.
LocalOf(w, x) ==
    LET named == {i \in 1 .. Len(w.locals) : w.locals[i].name = x}
    IN IF named = {} THEN 0 ELSE CHOOSE i \in named : \A j \in named : j <= i

Arithmetic == {"+", "-", "*"}
Comparison == {"<", "<=", ">", ">="}
Equality == {"==", "!="}
Binary == Arithmetic \union Comparison \union Equality

Apply(op, l, r, w) ==
    IF ~On(w) THEN w
    ELSE IF op = "==" THEN Value(w, Bool(l = r))
    ELSE IF op = "!=" THEN Value(w, Bool(l # r))
    ELSE IF ~IsNum(l) \/ ~IsNum(r) THEN Fail(w)
    ELSE IF op = "*" /\ l[2] * r[2] = 0 /\ (l[2] < 0 \/ r[2] < 0) THEN MinusZero(w)
    ELSE Value(w, CASE op = "+" -> Num(l[2] + r[2])
                    [] op = "-" -> Num(l[2] - r[2])
                    [] op = "*" -> Num(l[2] * r[2])
                    [] op = "<" -> Bool(l[2] < r[2])
                    [] op = "<=" -> Bool(l[2] <= r[2])
                    [] op = ">" -> Bool(l[2] > r[2])
                    [] op = ">=" -> Bool(l[2] >= r[2]))

\* An element is counted from either end.
Element(w, k) == IF k[2] < 0 THEN k[2] + Len(w.items) + 1 ELSE k[2] + 1
HasElement(w, vs) == vs[1] = Arr /\ IsNum(vs[2]) /\ Element(w, vs[2]) \in 1 .. Len(w.items)

\* What is at a place, given the values of the expressions in it.
Load(place, vs, w) ==
    IF ~On(w) THEN w
    ELSE CASE place[1] = "var" ->
                IF LocalOf(w, place[2]) # 0
                THEN Value(w, w.locals[LocalOf(w, place[2])].val)
                ELSE IF place[2] \in DOMAIN w.globals
                     THEN Value(w, w.globals[place[2]]) ELSE Fail(w)
           [] place[1] = "dot" -> IF vs[1] = Inst THEN Value(w, w.field) ELSE Fail(w)
           [] place[1] = "sub" -> IF HasElement(w, vs)
                                  THEN Value(w, w.items[Element(w, vs[2])]) ELSE Fail(w)

Store(place, vs, w) ==
    IF ~On(w) THEN w
    ELSE CASE place[1] = "var" ->
                IF LocalOf(w, place[2]) # 0
                THEN [w EXCEPT !.locals[LocalOf(w, place[2])].val = w.val]
                ELSE IF place[2] \in DOMAIN w.globals
                     THEN [w EXCEPT !.globals[place[2]] = w.val] ELSE Fail(w)
           [] place[1] = "dot" -> IF vs[1] = Inst THEN [w EXCEPT !.field = w.val] ELSE Fail(w)
           [] place[1] = "sub" -> IF HasElement(w, vs)
                                  THEN [w EXCEPT !.items[Element(w, vs[2])] = w.val]
                                  ELSE Fail(w)

Parts(place) == CASE place[1] = "var" -> <<>>
                  [] place[1] = "dot" -> <<place[2]>>
                  [] place[1] = "sub" -> <<place[2], place[3]>>

-----------------------------------------------------------------------------
(* Expressions, from left to right; an assignment yields what was assigned. *)

RECURSIVE Eval(_, _), EvalAll(_, _)

\* The values of several expressions.
EvalAll(es, w) ==
    IF es = <<>> THEN Value(w, <<>>)
    ELSE LET first == Eval(Head(es), w)
             rest == EvalAll(Tail(es), first)
         IN Value(rest, <<first.val>> \o rest.val)

Eval(e, w) ==
    IF ~On(w) THEN w
    ELSE CASE e[1] = "num" -> Value(w, e)
           [] e[1] = "lit" -> Value(w, e[2])
           [] e[1] \in {"var", "dot", "sub"} ->
                LET p == EvalAll(Parts(e), w) IN Load(e, p.val, p)
           [] e[1] = "not" ->
                LET x == Eval(e[2], w) IN IF On(x) THEN Value(x, Bool(IsFalse(x.val))) ELSE x
           [] e[1] = "neg" ->
                LET x == Eval(e[2], w)
                IN IF ~On(x) THEN x
                   ELSE IF ~IsNum(x.val) THEN Fail(x)
                   ELSE IF x.val[2] = 0 THEN MinusZero(x) ELSE Value(x, Num(-x.val[2]))
           [] e[1] \in Binary ->
                LET l == Eval(e[2], w)
                    r == Eval(e[3], l)
                IN Apply(e[1], l.val, r.val, r)
           [] e[1] = "&&" ->
                LET l == Eval(e[2], w) IN IF On(l) /\ ~IsFalse(l.val) THEN Eval(e[3], l) ELSE l
           [] e[1] = "||" ->
                LET l == Eval(e[2], w) IN IF On(l) /\ IsFalse(l.val) THEN Eval(e[3], l) ELSE l
           [] e[1] = "if" ->
                LET c == Eval(e[2], w) IN Eval(IF IsFalse(c.val) THEN e[4] ELSE e[3], c)
           [] e[1] = "=" ->
                LET p == EvalAll(Parts(e[2]), w) IN Store(e[2], p.val, Eval(e[3], p))
           [] e[1] = "update" ->         \* <<"update", operation, place, expression>>
                LET p == EvalAll(Parts(e[3]), w)
                    l == Load(e[3], p.val, p)
                    r == Eval(e[4], l)
                IN Store(e[3], p.val, Apply(e[2], l.val, r.val, r))
           [] e[1] = "step" ->           \* <<"step", + or -, place>>
                Eval(<<"update", e[2], e[3], Num(1)>>, w)
           [] e[1] = "call" ->           \* <<"call", function, argument>>
                LET f == Eval(e[2], w)
                    x == Eval(e[3], f)
                IN IF ~On(x) THEN x
                   ELSE IF f.val # Say \/ x.tape = <<>> THEN Fail(x)
                   ELSE [x EXCEPT !.log = Append(@, x.val), !.val = Head(x.tape),
                                  !.tape = Tail(@)]

-----------------------------------------------------------------------------
(* Statements.  A loop may have a label, "" if it has none, and so may the   *)
(* statements that leave it.                                                *)

RECURSIVE Exec(_, _), ExecAll(_, _), Iterate(_, _), Select(_, _, _, _)

ExecAll(ss, w) == IF ss = <<>> \/ ~On(w) THEN w ELSE ExecAll(Tail(ss), Exec(Head(ss), w))

\* A scope: what it declares is gone afterwards.
Scoped(w, after) == [after EXCEPT !.locals = SubSeq(@, 1, Len(w.locals))]

Is(w, how, label) == w.how = how /\ w.to \in {"", label}

\* A loop from its increment on, from behind its body, from its body and from
\* its condition.
Increment(s, w) == IF s.inc = <<>> \/ ~On(w) THEN w ELSE Eval(s.inc, w)
Continued(s, w) == IF Is(w, "continue", s.label) THEN [w EXCEPT !.how = "on"] ELSE w
Again(s, w) == IF Is(w, "break", s.label) THEN [w EXCEPT !.how = "on"]
               ELSE Iterate(s, Increment(s, Continued(s, w)))
Turn(s, w) == IF ~On(w) \/ IsFalse(w.val) THEN w
              ELSE Again(s, Exec(s.body, [w EXCEPT !.fuel = @ - 1]))
Iterate(s, w) ==
    IF ~On(w) THEN w
    ELSE IF w.fuel = 0 THEN [w EXCEPT !.how = "endless"]
    ELSE Turn(s, IF s.cond = <<>> THEN Value(w, Bool(TRUE)) ELSE Eval(s.cond, w))

\* The first case from the i-th on whose value is v, or the default.
Select(s, i, v, w) ==
    IF ~On(w) THEN w
    ELSE IF i > Len(s[3]) THEN IF s[4] = <<>> THEN w ELSE Exec(s[4], w)
    ELSE LET c == Eval(s[3][i][1], w)
         IN IF On(c) /\ c.val = v THEN Exec(s[3][i][2], c) ELSE Select(s, i + 1, v, c)

Exec(s, w) ==
    CASE s[1] = "expr" -> Eval(s[2], w)
      [] s[1] = "declare" ->
            LET v == Eval(s[3], w)
            IN [v EXCEPT !.locals = Append(@, [name |-> s[2], val |-> v.val])]
      [] s[1] = "block" -> Scoped(w, ExecAll(s[2], w))
      [] s[1] = "if" ->
            LET c == Eval(s[2], w)
            IN IF ~On(c) THEN c
               ELSE IF ~IsFalse(c.val) THEN Exec(s[3], c)
               ELSE IF s[4] = <<>> THEN c ELSE Exec(s[4], c)
      [] s[1] = "while" ->
            Iterate([label |-> s[2], cond |-> s[3], inc |-> <<>>, body |-> s[4]], w)
      [] s[1] = "loop" ->
            Iterate([label |-> s[2], cond |-> <<>>, inc |-> <<>>, body |-> s[3]], w)
      [] s[1] = "for" ->
            LET first == IF s[3] = <<>> THEN w ELSE Exec(s[3], w)
            IN Scoped(w, Iterate([label |-> s[2], cond |-> s[4], inc |-> s[5],
                                  body |-> s[6]], first))
      [] s[1] = "switch" -> LET v == Eval(s[2], w) IN Select(s, 1, v.val, v)
      [] s[1] \in {"break", "continue"} -> [w EXCEPT !.how = s[1], !.to = s[2]]
      [] s[1] = "return" ->
            LET v == IF s[2] = <<>> THEN Value(w, Null) ELSE Eval(s[2], w)
            IN IF On(v) THEN [v EXCEPT !.how = "return"] ELSE v

\* What there is to see of a script when it is over.
Seen(w) == [globals |-> w.globals, field |-> w.field, items |-> w.items,
            log |-> w.log, tape |-> w.tape]

\* How a script ends, what it leaves behind, and what it returns.
Ending(w) == [how |-> IF w.how \in {"error", "endless", "unsaid"} THEN w.how ELSE "done",
              seen |-> Seen(w),
              val |-> IF w.how = "return" THEN w.val ELSE Null]
Outcome(script, tape, fuel) == Ending(ExecAll(script, Start(tape, fuel)))
=============================================================================
