------------------------------- MODULE Bytecode -------------------------------
(* The instructions the compiler writes and the interpreter reads, and how   *)
(* many bytes of operands each of them has.                                  *)
EXTENDS Integers, Sequences

CONSTANTS Bytes          \* how many values an operand byte has, 256

ASSUME CompilerAssumption == Bytes \in Nat \ {0, 1}

\* The instructions, numbered as they stand here.
Instructions == <<"pop", "get_global", "set_global", "get_local", "set_local",
                  "push_prop", "get_prop", "set_prop", "get_subscript", "set_subscript",
                  "push_subscript", "const", "null", "true", "false", "add", "sub", "mul",
                  "eql", "neql", "gt", "gte", "lt", "lte", "neg", "not", "ineq_jmp", "false_jmp",
                  "jmp", "loop", "call", "ret", "break">>
bc(name) == CHOOSE i \in DOMAIN Instructions : Instructions[i] = name

\* The bytes behind the instruction.
Operands(name) == CASE name \in {"get_global", "set_global", "get_local", "set_local", "push_prop",
                                 "get_prop", "set_prop", "const", "call"} -> 1
                    [] name \in {"ineq_jmp", "false_jmp", "jmp", "loop", "break"} -> 2
                    [] OTHER -> 0
=============================================================================
