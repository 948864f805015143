------------------------------ MODULE Programs ------------------------------
(* A script from its text to its end: compiled by Compiler, and run by      *)
(* Interpreter.  What it does is compared with what Language says it means. *)
EXTENDS Compiler, Syntax, Interpreter

CONSTANTS
    Inputs,      \* bound: scripts, as trees, each with what the host answers
    Strays,      \* bound: trees that mean nothing, which may be written all the same
    Fuel         \* bound: how often loops go round in the meaning of a script

VARIABLES
    script, tape,   \* what is run
    unnamed         \* what the names of loops without a label happen to be

source == <<script, tape, unnamed>>
vars == <<source, machine>>

-----------------------------------------------------------------------------
(* vm_interp compiles, and runs what it got if anything.                    *)

\* The scripts that end within the bound, by their meaning.
Ends == Outcome(script, tape, Fuel).how \in {"done", "error"}

\* How often one of these words is in the script.
Written(words) == LET text == AllText(script)
                  IN Cardinality({i \in DOMAIN text : text[i][1] \in words})

\* The labels that jumps in the script name, if there is a loop without label.
Targets == LET text == AllText(script)
               jumps == {i \in 1 .. Len(text) - 1 : /\ text[i][1] \in {"break", "continue"}
                                                    /\ text[i + 1][1] = "ident"}
           IN IF Written({"while", "loop", "for"}) > Written({":"})
              THEN {text[i + 1][2] : i \in jumps}
              ELSE {}

\* What is left of the parser.
Chunk(p) == [code |-> p.code, consts |-> p.consts, locals |-> Len(p.locals),
             erred |-> p.erred]

Init == /\ \/ \E i \in Inputs : script = i[1] /\ tape = i[2] /\ Ends
           \/ script \in Strays /\ tape = <<>>
        /\ unnamed \in {""} \union Targets
        /\ chunk = Chunk(Compile(AllText(script), unnamed))
        /\ status = IF chunk.erred THEN "refused" ELSE "running"
        /\ ip = 0
        /\ stack = <<Script>>
        /\ world = World(tape)

Next == Step /\ UNCHANGED source

\* run goes on until it returns.
Spec == Init /\ [][Next]_vars /\ WF_vars(Next)

-----------------------------------------------------------------------------
(* Properties.                                                              *)

\* What a loop without label reads for its name is not a label of the script.
Nameless == unnamed = ""

\* A script that is run to its end does what its syntax tree means: it fails or
\* not, calls the host with the same values in the same order, leaves the same
\* variables, fields and elements behind, and returns the same value.
SameOutcome ==
    Nameless /\ status \in {"done", "error"} =>
        LET meaning == Outcome(script, tape, Fuel)
        IN /\ status = meaning.how
           /\ world = meaning.seen
           /\ status = "done" => stack = <<meaning.val>>

\* The heights of the stack that follow from the code, on whatever way control
\* comes to an instruction first; todo are the addresses not yet looked at.
RECURSIVE Flow(_, _)
Flow(heights, todo) ==
    IF todo = {} THEN heights
    ELSE LET i == CHOOSE i \in todo : TRUE
             new == IF IsInstr(i) THEN Follow(i) \ DOMAIN heights ELSE {}
         IN Flow(heights @@ [j \in new |-> heights[i] + Rises(i)], (todo \ {i}) \union new)
Heights == Flow(0 :> 1, {0})

\* What the compiler writes without an error is fit to be run: it jumps to
\* instructions only, all ways to one agree on the height of the stack, and no
\* instruction asks for what is not there.  Whoever runs such code is safe,
\* whatever the values are.
CompiledCodeFits == ~chunk.erred => Fits(Heights)

\* What is no script is refused; what is one is refused only when it has come
\* to a distance, a constant or a local that the operands have no room for, or
\* has more breaks or cases than the compiler keeps track of.
Accepts ==
    /\ Nameless /\ script \in Strays => status = "refused"
    /\ status = "refused" /\ script \notin Strays =>
          \/ Len(chunk.code) > Bytes * Bytes - 1
          \/ Len(chunk.consts) > Bytes
          \/ chunk.locals = Bytes
          \/ Written({"break"}) > Bytes
          \/ Written({"case"}) >= Bytes

\* A script that comes to an end by its meaning does so when it is run.
ExecutionEnds == <>(status # "running")
=============================================================================
