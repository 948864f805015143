-------------------------------- MODULE Syntax --------------------------------
(* How the trees of Language are written down: the tokens of a script, with *)
(* parentheses where the precedences ask for them and nowhere else.         *)
EXTENDS Language

Tok(t) == <<t>>
Ident(x) == <<"ident", x>>

\* How tightly an expression holds together.
Level(e) == CASE e[1] \in {"=", "update", "step", "stray", "if"} -> 1
              [] e[1] = "||" -> 2
              [] e[1] = "&&" -> 3
              [] e[1] \in Equality -> 4
              [] e[1] \in Comparison -> 6
              [] e[1] \in {"+", "-"} -> 7
              [] e[1] = "*" -> 8
              [] e[1] \in {"not", "neg"} -> 9
              [] e[1] = "sub" -> 10
              [] e[1] \in {"dot", "call"} -> 11
              [] e[1] \in {"num", "lit", "var"} -> 12

Literal(v) == CASE v = Null -> Tok("null")
                [] v = Bool(TRUE) -> Tok("true")
                [] v = Bool(FALSE) -> Tok("false")

\* An operator that takes an assignment apart into a shorter one.
Shorthand(op) == CASE op = "+" -> Tok("+=") [] op = "-" -> Tok("-=") [] op = "*" -> Tok("*=")
Doubled(op) == CASE op = "+" -> Tok("++") [] op = "-" -> Tok("--")

RECURSIVE Write(_, _, _), Bare(_, _)

\* The tokens of e where something of at least this level is wanted.  A
\* conditional goes on as far as it can, so that it needs no parentheses at the
\* end of what it stands in, whatever the level there.
Write(e, level, atEnd) ==
    IF Level(e) >= level \/ (e[1] = "if" /\ atEnd)
    THEN Bare(e, atEnd)
    ELSE <<Tok("(")>> \o Bare(e, TRUE) \o <<Tok(")")>>

Whole(e) == Write(e, 1, TRUE)

Bare(e, atEnd) ==
    CASE e[1] = "num" -> <<e>>
      [] e[1] = "lit" -> <<Literal(e[2])>>
      [] e[1] = "var" -> <<Ident(e[2])>>
      [] e[1] = "not" -> <<Tok("!")>> \o Write(e[2], 9, atEnd)
      [] e[1] = "neg" -> <<Tok("-")>> \o Write(e[2], 9, atEnd)
      [] e[1] \in Binary ->
            Write(e[2], Level(e), FALSE) \o <<Tok(e[1])>> \o Write(e[3], Level(e) + 1, atEnd)
      [] e[1] \in {"&&", "||"} ->
            Write(e[2], Level(e), FALSE) \o <<Tok(e[1])>> \o Write(e[3], Level(e), atEnd)
      [] e[1] = "if" -> <<Tok("if"), Tok("(")>> \o Whole(e[2]) \o <<Tok(")")>> \o Whole(e[3])
                          \o <<Tok("else")>> \o Write(e[4], 1, atEnd)
      [] e[1] = "dot" -> Write(e[2], 10, FALSE) \o <<Tok("."), Ident("x")>>
      [] e[1] = "sub" -> Write(e[2], 10, FALSE) \o <<Tok("[")>> \o Whole(e[3]) \o <<Tok("]")>>
      [] e[1] = "call" -> Write(e[2], 10, FALSE) \o <<Tok("(")>> \o Whole(e[3]) \o <<Tok(")")>>
      [] e[1] = "=" -> Bare(e[2], FALSE) \o <<Tok("=")>> \o Write(e[3], 1, atEnd)
      [] e[1] = "update" ->
            Bare(e[3], FALSE) \o <<Shorthand(e[2])>> \o Write(e[4], 1, atEnd)
      [] e[1] = "step" -> Bare(e[3], FALSE) \o <<Doubled(e[2])>>
      \* An assignment to what is no place: no script, but someone may write it.
      [] e[1] = "stray" -> Write(e[2], 2, FALSE) \o <<Tok("=")>> \o Write(e[3], 1, atEnd)

-----------------------------------------------------------------------------
(* Statements.                                                              *)

Named(label) == IF label = "" THEN <<>> ELSE <<Tok(":"), Ident(label)>>
Going(word, label) == <<Tok(word)>> \o (IF label = "" THEN <<>> ELSE <<Ident(label)>>)
                        \o <<Tok(";")>>

\* Does s end in an if without an else, which would take an else after it?
RECURSIVE DanglingElse(_)
DanglingElse(s) ==
    CASE s[1] = "if" -> s[4] = <<>> \/ DanglingElse(s[4])
      [] s[1] \in {"while", "loop", "for"} -> DanglingElse(s[Len(s)])
      [] OTHER -> FALSE

RECURSIVE Text(_), AllText(_), CaseTexts(_)

AllText(ss) == IF ss = <<>> THEN <<>> ELSE Text(Head(ss)) \o AllText(Tail(ss))
Braced(ss) == <<Tok("{")>> \o AllText(ss) \o <<Tok("}")>>
CaseTexts(cs) == IF cs = <<>> THEN <<>>
             ELSE <<Tok("case")>> \o Whole(Head(cs)[1]) \o <<Tok("=>")>> \o Text(Head(cs)[2])
                    \o CaseTexts(Tail(cs))
Parenthesised(e) == <<Tok("(")>> \o Whole(e) \o <<Tok(")")>>
Optional(e) == IF e = <<>> THEN <<>> ELSE Whole(e)

Text(s) ==
    CASE s[1] = "expr" ->      \* an if here would be a statement
            (IF s[2][1] = "if" THEN Parenthesised(s[2]) ELSE Whole(s[2])) \o <<Tok(";")>>
      [] s[1] = "declare" ->
            <<Tok("var"), Ident(s[2])>>
              \o (IF s[3] = <<"lit", Null>> THEN <<>> ELSE <<Tok("=")>> \o Whole(s[3]))
              \o <<Tok(";")>>
      [] s[1] = "block" -> Braced(s[2])
      [] s[1] = "if" ->
            <<Tok("if")>> \o Parenthesised(s[2])
              \o (IF s[4] # <<>> /\ DanglingElse(s[3]) THEN Braced(<<s[3]>>) ELSE Text(s[3]))
              \o (IF s[4] = <<>> THEN <<>> ELSE <<Tok("else")>> \o Text(s[4]))
      [] s[1] = "while" -> <<Tok("while")>> \o Parenthesised(s[3]) \o Named(s[2]) \o Text(s[4])
      [] s[1] = "loop" -> <<Tok("loop")>> \o Named(s[2]) \o Text(s[3])
      [] s[1] = "for" ->
            <<Tok("for"), Tok("(")>> \o (IF s[3] = <<>> THEN <<Tok(";")>> ELSE Tail(Text(s[3])))
              \o Optional(s[4]) \o <<Tok(";")>> \o Optional(s[5]) \o <<Tok(")")>>
              \o Named(s[2]) \o Text(s[6])
      [] s[1] = "switch" ->
            <<Tok("switch")>> \o Parenthesised(s[2]) \o <<Tok("{")>> \o CaseTexts(s[3])
              \o (IF s[4] = <<>> THEN <<>> ELSE <<Tok("else"), Tok("=>")>> \o Text(s[4]))
              \o <<Tok("}")>>
      [] s[1] \in {"break", "continue"} -> Going(s[1], s[2])
      [] s[1] = "return" -> <<Tok("return")>> \o Optional(s[2]) \o <<Tok(";")>>
=============================================================================
