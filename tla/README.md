# A verification of Hobby Script

Hobby Script is a small dynamically typed language for games: a lexer, a one-pass
compiler to bytecode, a stack interpreter, a tracing collector, and a C API for the
program that embeds it. The whole program is C, single-threaded, in `src/src/`.
This directory holds TLA+ models of its parts, the TLC runs that check them on small
instances, and theorems about nine of them that TLAPS checks for every instance.

Paths below are relative to the directory that holds `src/` and `tla/`.

## The system

| component | state it keeps | operations | works with |
|---|---|---|---|
| hash map (`map.c`) | `items`, `cap`, `count`: keys, values, tombstones | get, set, remove, copy, grow, find string, drop dead strings | allocates through the collector; holds globals, members, methods, statics, enums, files and the intern table |
| collector (`mem.c`) | the list of objects, mark bits, gray stack, byte counts | `reallocate`, mark, blacken, sweep, free | runs inside any allocation; reads every root: stack, frames, open upvalues, globals, files, the functions being compiled |
| objects and interning (`obj.c`) | the intern table `strs` | one `create_` function per kind of object, `copy_str`, `take_str` | allocates; pushes what must survive on the value stack |
| upvalues (`vm.c`, `obj.h`) | `open_upvals`, `GcUpval.loc`, `GcUpval.closed` | capture, read, write, close | the stack, closures, the compiler's choice of pops |
| calls and errors (`vm.c`, `api.c`, `state.c`) | value stack, frame stack, `err_jmp`, and the C stack itself | `call_fn`, `call_c`, `run`, `vm_interp`, `vm_invoke`, `vm_call`, return, `runtime_err`, `hbs_err` | C functions call back in; errors return false or `longjmp` out |
| bytecode interpreter (`vm.c`) | `ip`, `base` of the frame | one case per instruction | all of the above |
| compiler (`compiler.c`) | locals, upvalues, scope depth, loops, the chunk being written | one function per construct of the language | lexer; allocates constants; must agree with what the interpreter's stack will be |
| lexer (`lexer.c`) | a cursor | next token | makes strings |
| chunks, arrays (`chunk.c`, `arr.c`, `lib_arr.c`) | growable buffers | append, insert, remove, find | allocate |
| C API (`api.c`) | none | accessors, registration, calls | calls and the value stack |
| state (`state.c`), running files (`hbs.c`, `main.c`) | `hbs_State` | create, free, reset, run a file | |
| values, string conversion, library (`val.c`, `tostr.c`, `lib_*.c`) | none worth the name | | C API |
| disassembler, log (`debug.c`, `err.c`) | none | printing in debugging builds | |

There are no threads. What makes the program hard is that

- **an allocation may collect**, anywhere: whatever is held only by a C variable at
  that moment is freed;
- **the hash table is probed while it is full of tombstones**, grown in the middle of
  an insertion, and swept by the collector in the middle of growing;
- **two stacks grow together**, the interpreter's frames and the C stack, and an error
  leaves the first at once and the second by `return` or `longjmp`;
- **a variable lives in two places**, on the stack and then in an upvalue, and two
  functions may write to it;
- **the compiler predicts the stack**: it numbers locals while it parses and nothing
  at run time checks the numbers;
- **tables have limits**: frames, locals, constants, jump distances.

What each part must get right, in a sentence:

- hash map: a partial function, whatever the order of insertions, removals, growth and
  collections; probing ends;
- collector: frees exactly what cannot be reached, and nothing else notices;
- interning: a string in the table is alive, and there is one object per text;
- upvalues: a function and the closures that share a variable see the same value;
- calls: each return leaves the call it belongs to, and an error leaves nothing behind
  that is still used;
- compiler: on every way control can take, local *n* is in slot *n*;
- arrays, chunks, jumps: no access outside the buffer, no distance that does not fit.

## The modules

| module | models | state and actions |
|---|---|---|
| `AbstractMap` | what a map promises | a function `m` from keys to values or `Absent`; one atomic action per operation |
| `HashMap` | `map.c`, and the use of it by `bc_set_global` | `items`, `cap`, `count` as in `Map`. `Get` and `Remove` are one step. `BeginSet` decides whether to grow; `Allocate`, `Fill`, `Rehash`, `Install` are the stages of `adjust_cap`, `Store` the rest of `set_map`. `BeginSweep`, `Sweep`, `EndSweep` are `rem_black_map`, slot by slot, between operations or inside the allocation of `adjust_cap` |
| `Interning` | `find_str_map`, `copy_str`, `take_str`, `alloc_str` | a `HashMap` whose keys are string objects, with the `heap` of strings, what is `held` and how far the one being made has come (`at`, `text`, `new`). `CopyStr` and `TakeStr` look up, `AllocCopy` and `AllocObj` allocate, `AllocStr` makes the object, `GrowTable` and `Enter` are `set_map`; `Collect`, `CollectGrowing`, `RemBlackMap` and `FreeWhite` the collector, `Release` the program |
| `AbstractHeap` | what the collector promises | reachable objects stay, a collection is one step |
| `Gc` | `mem.c`, with `alloc_obj_impl` and `alloc_str` | `objs` is the linked list, `refs` the references, `roots` what each source of roots refers to, `strs` the intern table. `Collect` is the decision in `reallocate`; `MarkRoots` visits one source, `Blacken` one gray object, `RemBlackMap` the intern table, `Keep` and `Unlink` one object of the list. `Link`, `GrowStrs`, `Enter` are the rest of an allocation, resumed after the collection inside it |
| `Upvalues` | captured variables in `vm.c` | `stack`, `frames`, `open`, `up`, `closures`, and `making`, the closure `bc_closure` is filling. `var`, `upVar` and `value` are auxiliary: which variable of the source program a slot or upvalue stands for, and the value last given to it |
| `Calls` | calls, C functions, errors | `frames` and `top` are the two stacks of `hbs_State`, `native` the C stack (activations of `run`, by who called it, and of `call_c`), `jmp` the activation `err_jmp` leads to. `wrong` collects what has been read or written on the stacks that is not there; but for two reads the code goes on from, the model stops there |
| `Scopes` | the compiler's view of the stack | `locals`, `scope`, `loops` as in `Compiler`; `nest` is the recursion of the parser; `paths` is auxiliary: every content the frame can have when control reaches the instruction written next, over all jumps that lead there |
| `Rooting` | what the C code holds while it allocates: instructions, API functions, `tostr.c`, the compiler's functions | `heap`, `refs` are the objects, `stack` and `kept` the roots, `strs` the intern table, `held` the C variables of the operation `op`, which is at step `pc` of its program in `Code`. `Start` and `Return` begin and end an operation; each `Do...` action is one kind of step (allocate, push, link, ...), and `DoAlloc` may be a collection of `AbstractHeap` |
| `AbstractContainers` | what arrays and strings promise | `arr` a sequence, `str` a text, `ret` the answer of the last call; one action per method |
| `Containers` | `arr.c`, `lib_arr.c`, the subscripts of `vm.c`, search and cut of `lib_str.c` | `len`, `cap`, `items` as in `VArr`, with `Junk` in cells nobody has written; actions are named after the C functions. `past` and `lost` record an access past the buffer and past a string |
| `Language` | the meaning of a script | evaluation of syntax trees: no code, but what the code is compared with |
| `Syntax` | how trees are written | the tokens of a script, with the parentheses the precedences ask for |
| `Compiler` | `compiler.c`, from tokens to bytes | no variables: a parser is a record of the tokens, the code, the constants, locals, scope and loops, and each operator takes one to the next, under the name of the C function |
| `Bytecode`, `Values` | the instructions and their operands; the values | no variables |
| `Interpreter` | the loop of `vm.c` over the code of a script | `chunk` the code, `ip` and `stack` the frame, `world` the globals, a field, the elements of an array and what the host was told. One action per instruction. `Fits` says when code is such that the interpreter, which tests nothing, finds what it reads |
| `Programs` | `vm_interp`: compiling and running | `script`, `tape` what is run, and the variables of `Interpreter`, whose `chunk` is what `Compiler` made of the script |
| `MC...` | | the instances for TLC |
| `HashMapProofs` (`Interning` too), `GcProofs`, `ContainersProofs`, `CallsProofs`, `UpvaluesProofs`, `ScopesProofs`, `RootingProofs`, `InterpreterProofs` | | theorems and proofs |

In every module operators whose comment begins with "Fault:" or "Faulty variant" are not
part of the model. Each is the definition below it with a likely mistake in it, kept to
show that the property it is paired with in `PROJECT.json` would notice the mistake.

### How the abstractions were chosen

`HashMap`: keys are identities with a hash, as `find_item` compares pointers. A capacity
is a power of two in the code, so `hash & (cap - 1)` is the remainder. `copy_map` is a loop
of `set_map`; `find_str_map` is the same probe with strings compared by their text, and is in
`Interning`.

`Interning`: a string object is a key with a text, and keys of one text have one hash. An
address that is used again is a new key: a string leaves the table before it is freed. Of the
collector it has what concerns strings: when any allocation begins, the strings that are not `held`
may be dropped from the table and then freed; `held` is what `Gc` would find from the roots, and
between two operations the program may let go of any of it. `copy_str` allocates for the text and
for the object, `take_str` for the object, and `set_map` to grow.

`Gc`: whether an allocation collects depends on `alloced` and `next_gc` (or on the build
option `hbs_stress_gc`); in the model any allocation may. The program between collections
is `Write`, `Erase`, `Hold`, `Drop` on reachable objects: an instruction that uses an
object it no longer holds is outside this module (see `Rooting`).

`Upvalues`: temporaries all have the same value, for nothing is said about them; upvalues
nobody holds are recycled, as the collector would. `JumpOut` stands for a `break` or `continue`
of an outer loop that was compiled before the function that captures the local, and pops it;
`RuntimeErr` may end a script anywhere. `loose` is auxiliary and records that one of the two has
dropped a captured variable whose upvalue was open.

`Calls`: arguments, results and the checks on them are "a call may fail". What it says of reads and
writes is about those of calls, returns, pushes and errors: the slots a C function asks for by index
(`val_at`), and what kind of value is in a slot, are outside it. `Push` has no limit, as in the code, and
what goes past the end of `frame_stack` or `stack` is in `wrong`. The code goes on from two reads of what is
not there, and so does the model: `vm_interp` files what lies below the stack when the script has failed
(`below_stack`), and `vm_invoke` looks at `frame_stack[0]` after an error (`unset_frame`); if it
takes that for a frame and runs it, the model stops. The embedding program runs scripts, pops and opens libraries,
and calls nothing that may fail outside a script: the comment at `state.c:40` says that an error has nowhere to go there. The functions that
open the libraries, which `create_state` calls, only register: `open_io` pops two values
more than it pushed just before it returns, which has no effect. `strayed` is auxiliary
and records that the program has done one of three things the code does not support,
named below.

`Scopes`: an expression pushes one value and leaves nothing else, so only the functions in
it matter; `and`, `or` and the ternary are balanced within one expression (see `Programs`).
Names and labels are left to `Compiler`: a reference is to a local by its number, a `break` or `continue`
goes to any enclosing loop. A struct that is a whole file is a struct that is returned at its
end. Compilations that report an error yield no code and are not followed. `Quirks` names
constructs that programs may or may not contain; the next section says why.

`Rooting`: an operation is a definition named after the C function or instruction, a short
program of the steps in which it touches objects, in the order of the code. Objects have no type but
"string" and "other", and refer to a set of objects, which stands for fields, elements and keys
alike. A C variable whose object has been freed holds `Freed`, whatever is allocated in its place
later. Whether a text is in the intern table is a choice, and so is which string has it. The text of
an array inside an array is taken for a new string. Error paths are left out, for they end the
operation. A program ends with `Exit` when memory is used up, as `reallocate` does. A script
leaves a number or null.

`Containers`: one array and one string stand for all. A value is looked at only to compare it. A
number given for a position is an integer: `get_idx` and the subscripts truncate first. A
string is read up to the NUL behind it; a search that goes on from there sets `lost`, and the
model stops. `size_t` has `SizeT` values, and no sum of lengths reaches that.

`Language`, `Syntax`, `Compiler`, `Interpreter` and `Programs` go together. A script has no functions and no
structs: what those do to the stack is in `Scopes`, `Calls` and `Upvalues`. Its globals are a
number, an instance with one field and no methods, an array and a function of the host, which
notes what it is given and answers from a tape, or fails when that is empty, so that the order
of effects and errors shows. Numbers are integers; when the meaning would be a negative zero the
script is left out, for NaN boxing compares bits. Text, division, remainder, `..`, `is`, statics
and `o.f(..)`, which is an instruction of its own, are left out. `Compiler` stops at the first
error, where the code goes on to find more. The name of a loop without label is never written by
the code: `unnamed` is what is found there, the label of a jump or nothing like it. Scripts write
a `while` or `loop` in a block that has no locals before it, declare nothing in a switch and do
not jump out of one: the reasons are findings of `Scopes`. `Language` is written from what the
language promises rather than from the compiler: there is no stack, no jump and no slot in it.

## The runs

`tlc -config X.cfg MCModule`, each in less than two minutes on two cores.

| run | instance | distinct states | shows |
|---|---|---|---|
| `hashmap` | 3 keys, 2 of them with the last slot for their home; capacities 2, 4, 8 | 141 000 | probe chains, count, load, uniqueness of keys, the sweep, and `ImplementsMap`: growth and tombstones are invisible; each step of an operation leaves less of it |
| `interning` | 4 strings of 3 texts: two may come to say the same, and a third has the hash of both; capacities 2, 4, 8 | 17 800 | one object per text, none of them freed, each found by its text, whatever collections come in between; a string that is asked for is got |
| `gc` | 2 plain objects and a string, 2 references from roots, 2 between objects | 361 000 | live objects are kept, the list is sound, no mark is left, and `ImplementsHeap`: a collection is one atomic step; each of its steps leaves less of it, and it ends |
| `upvalues` | 2 calls, 4 slots (2 once a variable is loose), 2 upvalues, 2 closures | 442 000 | what holds of captured variables until one is loose, and after |
| `upvalues_loose` | the same | fails | finding 1 |
| `calls` | arrays of 5 frames and 7 values, 5 activations on the C stack | 1 696 000 | alignment of the two stacks, nesting of frames, that nothing is read or written that is not there but in three ways, early errors |
| `scopes` | 2 locals, statements 4 deep, no quirks | 919 000 | the compiler's locals are where it thinks they are |
| `scopes_break` | with the quirk `break` | fails | finding 2 |
| `rooting` | 6 objects, 3 values on the stack, 3 operations, of which the last is any | 353 000 | nothing freed is used except at the places in `Unrooted`; each operation leaves the stack as it should |
| `containers` | 2 values, arrays up to 3, 4 strings up to 3 characters, positions from -4 to 4 | 14 000 | arrays are sequences and strings texts, through growth and shifting; nobody sees unwritten memory |
| `containers_insert` | the same | fails | finding 3 |
| `programs` | 7 200 scripts with what the host answers | 97 000 | scripts do what they mean or are refused; the code of each fits the stack; control stays on instructions that find what they read; they end |

### The bounds, and why they are enough

- `hashmap`: `MinCap` is 2 in place of 8, so that the table grows three times. Two colliding
  keys whose chain wraps round the end, and a third from elsewhere, give every shape of a
  probe: own slot, empty slot, tombstone before either. The third growth only ever comes from
  tombstones.
- `interning`: of two strings with one text the second is made while, or after, the first is collected.
  A third with the same hash lies in the same chain and tells a text from its hash; a fourth lets
  the table grow while one is entered.
- `gc`: three objects are enough for a chain from a root through an object to another,
  for a cycle, for a dead string between live neighbours on the list, and for an object that is
  linked while a collection it started has just freed others.
- `upvalues`: two closures and two upvalues over two calls: shared, distinct, inherited from an
  outer function, of a callee and of a caller. `MaxStack` 4 leaves a local of each of two
  calls besides the callees.
- `calls`: five activations allow run, C, run, C, run: a callback inside a callback. 5 frames
  for 5 activations reach the overflow of `frame_stack` too, and a stack of 7 values is filled by pushes, by
  callees, and by the results that script after script leaves, at every depth of calls.
- `scopes`: a loop in a switch in a block in a loop, with two locals among them:
  one inside what is left and one outside it is what tells a right discard from a wrong one.
- `rooting`: one operation at a time matters, so the operations before it need only build its
  operands: `Builders` makes numbers, structs, strings and objects that refer to others, and two of them
  give every shape of two operands (the same object twice, one inside the other, held by
  other roots or by the stack alone). Six objects leave three for the operation; the longer
  operations then reach every step, having collected on the way, and every entry of
  `Unrooted` is reached (take any away and the run fails).

- `upvalues`, once a variable is loose: a script with one local, which takes the slot the loose
  upvalue points at, besides what was on the stack before.
- `containers`: `MinCap` 2 makes the buffer of up to three elements grow twice, and leaves it
  full and with room to spare. The strings are the empty one, one that is the end of another, and
  needles shorter, as long, longer by one and by more than what they are looked for in.
- `programs`: `Bytes` is 12 in place of 256, so that distances end at 143 and constants, locals
  and breaks at 12; scripts come up to each limit and pass it by one or more. The scripts are
  every pair of operators in either grouping, every operator and assignment over ten operands
  with and without effects on six tapes, every nest of two kinds of loop with every way out and a
  local around it or not on eight tapes, switches, nested conditionals, and about a hundred texts
  that are no scripts. `Fuel` 8 is more rounds than any tape keeps a loop going.

Deadlock is checked in every run but `programs`, where a script ends. Where the models stop for
want of meaning (`wrong` in `Calls`, `lost` in `Containers`) they stutter explicitly.

### Fairness

`CollectionEnds` and `InterningEnds` assume weak fairness of the steps of the collection, or of the
making of a string, that is going on, and of nothing else. The program has one thread, and a
collection or `copy_str` runs to its end before its caller does anything: the code
has no other choice. No fairness is assumed of the program that begins operations. That such operations end needs no more than this, for each of their steps
leaves less to be done: `OperationsShrink` and `CollectionShrinks` say so and are proved. `ExecutionEnds`
assumes weak fairness of `Next` in `Programs`: `run` goes on with the next instruction until it
returns.

### Findings

Each is the counterexample of a failing run; those marked * were also seen when the scripts
in question were run with the address sanitiser on.

1. `upvalues_loose` *: a captured local popped by a `break` or `continue` compiled before the
   capturing function is not closed, and its upvalue points at a dead slot: a closure in a global
   then reads and writes whatever is put there. `reset_stack` does the same to every open upvalue
   at each run-time error.
2. `scopes_break` *: `break` in a `while` or `loop` pops the locals of the block around the
   loop. It is right in a `for`, whose variable is in that scope.
3. `containers_insert` *: `insert_varr` writes the cell behind the new last element, past the
   buffer when the insertion fills it.

The models contain further ways to go wrong, for which there is no run of their own. The
passing runs exclude them and say so:

- `OpenListSound`, `OnlyLooseAbove` and `SeesVariable` end with `loose` (finding 1).
- `OnlyUnchecked` excludes `error_under_c` * (`vm_invoke`, and `import`, ignore that the script they
  ran failed: the C function goes on, and returns from a frame that is no longer there), `late_error` * (a C function that fails after a callback has called
  another C function jumps to a `call_c` that has returned) and `hbs_call` (`vm_call` looks for a
  bare function, which the value never is, and does not run the frame it entered). Without any of these
  three ways are left, which it names:
  - `frame_array` *: the check of `call_fn` and `call_c` is one frame too late and admits
    `frame_stack[64]`, one past the array. The comment in `state.c:17` says that `h->frame` starts one
    below the array; it does not.
  - `value_array`: `push` (`state.h:64`) looks at no limit. Besides deep calls it takes only many scripts on one
    state, for each leaves its result on the stack and `main.c` pops none: 20 000 lines of the REPL
    were seen to run past the end of `stack` and crash.
  - `below_stack`: at a run-time error `reset_stack` empties the stack, and `vm_interp` (`vm.c:880`)
    files `peek(h, 0)` under the path of the script all the same: `h->stack[-1]`, which are bits of `h->frame`.
    With NaN boxing they are those of some small number: a file that failed counts as imported, and a
    later `import` of it yields that number, as was seen.
- `LocalsInPlace` fails with the quirks `switch` * (a variable declared in a case reads the value of
  the switch, and a `break` or `continue` out of a switch leaves that value behind), `member` * (a `var` or `global` in a static struct is followed by a
  `bc_def_static` that pops the struct) and `enum` * (a global enum is defined before it is pushed).
- `ScopesKept` fails with the quirk `function` *: a function expression in an inner block drags the
  last outer local into that block; with no local left it writes to `locals[-1]`.
- `UsesLive` excludes what `Unrooted` lists *, where an object is used that a collection may have
  freed: the new instance while `create_inst` copies its members (`obj.c:39`), the enum
  while `bc_enum` adds names (`vm.c:836`), the container popped by `bc_get_subscript`
  (`vm.c:263`), the text of an element while `arr_to_str` grows its buffer (`tostr.c:45`), the
  struct of the methods of arrays once the script has redefined its global (`vm.c:144`), the
  string of a token while the parser writes the operator before it (`lexer.c:160`), and the key under which
  `vm_interp` files its result (`vm.c:880`). With `hbs_stress_gc` each happens at once.

- `ImplementsContainers` ends with `lost` *: `find_substr` computes an unsigned difference that
  wraps when the needle is longer than the string by two or more, and reads on behind the string.
  `str_rem` * with a negative length may cut backwards; the abstract specification says
  nothing of the result then.
- `SameOutcome` and `Accepts` exclude scripts in which a loop without label is taken for one with
  the label of a jump *: `resolve_loop` looks at `name` and not at `named`.
- Not in a model: a `case` after the `else` of a `switch` at the end of the text hangs the
  compiler * (`compiler.c:1299`); a failed assignment to an undefined field leaves the field
  behind (`vm.c:532`), where one to an undefined global does not.

In `scopes` the restrictions `BreakFits`, `JumpFits`, `MarkFits` and the conditions on `Quirks`
are therefore the exact limits within which the compiler's view of the stack is right.

## What is proved

TLAPS checks every step of the modules whose names end in `Proofs`.
They rest only on the assumptions on the constants (`ConstantsAssumption`, `GcAssumption`,
`ContainersAssumption`, `CallsAssumption`, `UpvaluesAssumption`, `ScopesAssumption`,
`RootingAssumption`: there is memory for three objects at least, `TextsAssumption`: a string's hash is
that of its text, `CompilerAssumption`: a byte has two values at least), which TLC evaluates, and some
on a hypothesis of their own: that the keys are finitely many (`NoSlotLeaks`), that a program
is without constructs the code gets wrong (`LocalsLive`, `InPlace`, `Reenter`), and that the code
run fits (those of `InterpreterProofs`, where `programs` checks the hypothesis).

| component | type | safety | refinement | left to TLC |
|---|---|---|---|---|
| `HashMap` | yes | all, and that each step leaves less to do | `AbstractMap` | |
| `Interning` | yes | all | uses its table as `HashMap` does | `InterningEnds` |
| `Gc` | yes | all, and that each step leaves less to do | `AbstractHeap` | `CollectionEnds` |
| `Containers` | yes | all | `AbstractContainers` | |
| `Calls` | yes | all | | |
| `Upvalues` | yes | all | | |
| `Scopes` | yes | all, without the quirks | | |
| `Rooting` | yes | all | | |
| `Interpreter` | yes | all, of code that fits | | |
| `Programs` | | | | `SameOutcome`, `Accepts`, `CompiledCodeFits`, `ExecutionEnds` |

`HashMapProofs`, for every set of keys, every hash and every capacity that doubling can reach:

- `TypeCorrect`: `Spec => []TypeOK`.
- `LoadCorrect`: `Spec => []LoadBounded`, `count` is at most three quarters of the capacity, with room for
  one more where `set_map` stores; that `count` is what it should be is `CountIsExact` below.
- `ProbesEnd`: `Spec => []ProbeEnds`, every table that is probed has an empty slot, so the
  `while (true)` of `find_item` ends.

The load alone is not inductive: that `count` bounds the slots in use must be carried along,
through the stages of `adjust_cap`, where it counts the new array, and through the sweep, which
makes tombstones and leaves `count` alone. The invariant is the conjunction of the type, the
load, and "the slots in use are at most `count`"; an empty slot then exists because three
quarters of the capacity are fewer than all of it. That rests on lemmas about the number of
slots in use of a function that differs from another in one place.

- `EveryStepCounts`: `Spec => OperationsShrink`. `Left` is a natural number that every step of a
  running operation lessens: a growing table passes its slots once, and once more if the
  collector ran meanwhile.

The second part of `HashMapProofs`, for the same:

- `ChainsKept`: `Spec => []ChainsUnbroken`, a stored key is reached from its home.
- `KeysAreUnique`: `Spec => []KeysUnique`.
- `CountIsExact`: `Spec => []CountExact`, `count` is the number of slots in use.
- `SweepIsExact`: `Spec => SweepExact`, `rem_black_map` drops the dead strings and no live one.
- `NoSlotLeaks`: `Spec => []NoSlotLeak`, if the keys are finitely many.

A probe is replaced by the order in which it visits the slots: `Dist` is how many it has passed,
and two slots are visited in the order of their distances. Unique keys are not
inductive without chains: only because a stored key is reached from its home does `set_map` write
over it instead of storing it again. Both need the empty slot of `ProbesEnd`: `find_item` says that
a key is not there when it comes to one, having passed every tombstone on the way. Growing
adds `Filled` (the new array holds what the old one holds below `i`, and nothing else), sweeping
`Swept` (below `i` every key is live; a removal made by the sweep leaves a tombstone and moves
nothing). `NoSlotLeak` has an argument of its own: each slot in use is claimed by a different key,
the key it holds or, for a tombstone, one whose probe would pass it with no empty slot before. A
key that is put into a tombstone another key claims gives that key the claim it had itself, if it
had one.

The third part:

- `Refinement`: `Spec => ImplementsMap`. An array stands for the function that takes a key to the
  value beside it. `Store`, `Get` and `Remove` are the operations, `Sweep` is `Forget` or a
  stutter, and growing is invisible because `Filled`, when `i` has reached the end, makes the new
  array stand for the same function.

The fourth part is about `Interning`, for all strings, texts, hashes and collections:

- `InternsInTable`: `InternSpec => Spec`, strings use the table as maps are used, and so what is proved
  of tables holds of it.
- `MadeIsHeld`: `InternSpec => []InternTypeOK`, what is made and not yet entered is on the stack.
- `NoStringDangles`: `InternSpec => []NoDangling`, neither what the program holds nor the table,
  even half rebuilt, refers to a freed string.
- `OneObjectPerText`: `InternSpec => []OneObject`, so strings may be compared by their addresses.
- `StringsAreFound`: `InternSpec => []FindsStrings`, the look-up finds what there is.

No two of these can be had alone. There is one object per text because the look-up finds what there
is, and because what was not found is still not there when the object is made, two collections
later: `Unknown` says that no string of the heap says the `text` in hand. The look-up finds
what there is because the table has all strings but `new` (`Entered`), by unbroken chains; and
strings of one text have one hash, so the chain of the text is that of the string. During a collection
the table has no more than all strings that are held: `rem_black_map` may have taken others out, and until
`FreeWhite` they still exist. That is harmless only because nobody looks up then, and because
what is held is what was marked (`marked`). `Making` says that an interrupted `set_map` is that of
`new`, which the table does not have.

`GcProofs`, for every heap, with any number of objects, strings, roots and references:

- `TypeCorrect`: `Spec => []TypeOK`; in particular no object is on the list twice, so none is freed
  twice.
- `LiveObjectsKept`: `Spec => []LiveKept`, no reachable object is freed.
- `InternedStringsAlive`: `Spec => []InternedAlive`.
- `MarkingCorrect`: `Spec => []TriColour`, a black object refers to marked objects only.
- `MarksGone`: `Spec => []MarksCleared`, no mark outlives its collection.

The argument is the usual one, made to fit the code. `LiveKept` is not inductive, since a sweep
that keeps the marked keeps the reachable only if the marked are closed under references and
contain the roots. The invariant therefore says how far marking has come: the objects of the
root sources already visited are marked; a marked object that is not gray refers to marked
objects; when marking is over nothing is gray; while the sweep goes on, what is reachable and
not yet passed is marked, and every mark lies ahead, so that none is left at the end. While
marking, the marks lie within what is reachable, which makes them objects of the list. Strings
refer to nothing, and the object or string an operation waits to link or to hand out survives
the collection in between. `Reachable` is the least closed set that holds the roots, so
that it is contained in the marked objects without any induction.

Two more theorems of `GcProofs`:

- `EveryStepCounts`: `Spec => CollectionShrinks`. An object counts twice until it is marked and
  once until it is blackened, and each object of the list is passed once. Blackening an object may
  turn any number gray, each of which counts one less for it; no object turns gray again, because only objects
  without a mark do, and marks are not taken away before the sweep. What counts is finite because the marked
  lie on the list. This is all of the argument that collections end, except the last step from
  fairness, which TLC makes (`CollectionEnds`).

- `Refinement`: `Spec => ImplementsHeap`, for the program a collection is one step that removes
  what it cannot reach. The mapping shows, while the sweep goes on, the objects of the list that
  are marked or already passed, with their references, and the others as gone. The abstract
  collection therefore happens at the end of marking, in `RemBlackMap`, when the marked objects
  are exactly the reachable ones: the marking and the rest of the sweep are stutters, since the
  object `Unlink` frees was gone already and the mark `Keep` clears is replaced by having passed.

`ContainersProofs`, for all values, strings, bounds and a first capacity:

- `TypeCorrect`: `Spec => []TypeOK`, the length never exceeds the capacity.
- `NoJunkIsSeen`: `Spec => []NoJunkSeen`, every cell below the length has been written.
- `Refinement`: `Spec => ImplementsContainers`, every call answers as a sequence and a text would.

The first two are inductive together: an insertion reads the cell behind the last element, which
may be junk or not there, but only to store it above the new length. `ensure_len` doubles once, which is
enough because it is asked for one cell more than the length. The refinement maps the cells below
the length to a sequence; each method is a lemma of its own, and for a search the least
matching cell and the first occurrence are shown to be the same. That a difference of lengths is
taken modulo `SizeT` is only of consequence when it wraps, and then the search finds a match or is lost.

`CallsProofs`, for any number of frames, values, activations and arguments:

- `TypeCorrect`: `Spec => []TypeOK`.
- `FramesKeepValues`: `Spec => []FramesNested`, no call reaches what lies below its own frame.
- `StacksAligned`: `Spec => []Aligned`, frames and C activations agree until the program strays.
- `OnlyWhatIsUnchecked`: `Spec => []OnlyUnchecked`, what is touched that is not there until then.
- `EarlyErrors`: `Spec => []EarlyErrorsCaught`.

Frames nest by themselves. The C stack needs three facts that no run checks by name: what has
something above it has called it; a C function that has called nothing is where `err_jmp` leads;
and a run is started by a C function or by the host, never by another run. The last is why an
error with no C function waiting empties both stacks together: there is then one run, or one run
and the C function that failed. Alignment counts the frames that were not entered by `call_fn`, and that count
is the length of the C stack; a return takes off both or, from a function of the language, neither.
`OnlyUnchecked` needs besides that both arrays have held everything as long as the model goes on (`Bounds`),
so that one entry too many is the first.

`UpvaluesProofs`, for any number of calls, slots, closures and upvalues:

- `TypeCorrect`: `Spec => []Typed`.
- `OpenListIsSound`: `Spec => []OpenListSound`, the list of open upvalues runs down the stack, and
  until a captured variable is dropped it is exact.
- `OnlyTheLooseAreAbove`: `Spec => []OnlyLooseAbove`.
- `OneUpvalueEach`: `Spec => []OneUpvalPerVariable`, whatever jumps and errors do.
- `ClosuresSee`: `Spec => []SeesVariable`, closures and functions see the value last given.
- `ClosedOnceForAll`: `Spec => ClosedForGood`.

The invariant has five parts. Slots, calls and types are straightforward but for one fact: no slot
below the first frame belongs to a variable, which is why `hbs_pop` need not close anything. The
fourth part, `OpenInv`, holds even when a variable has been dropped: the list is in order,
an upvalue whose variable has a slot is open and points at that slot, and two upvalues are two
variables. It is what makes `capture_upval` find an upvalue that is there, and lets `close_upvals`
stop early: the upvalues to close are a prefix of the list (`Closed`), as are those above the slot
(`CapturedLocal`). The fifth, `Sees`, holds until `loose`: every open upvalue is on the list, points
at a slot of its variable below the top, and slots and closed upvalues hold the variable's
value. Every step either pushes, drops slots, closes slots, gives a variable a value or captures it;
there is a lemma for each, and an action is an instance of one.

`ScopesProofs`, for functions of any length, with constructs inside each other to any depth and any
number of locals, loops and jumps:

- `TypeCorrect`: `Spec => [](Typed /\ NestInv)`, whatever a program contains.
- `LocalsLive`: if `"function" \notin Quirks`, `Spec => []ScopesKept`.
- `InPlace`: if `Quirks = {}`, `Spec => []LocalsInPlace`.
- `Reenter`: if `Quirks = {}`, `Spec => LoopsReenter`.

The hypotheses are not for the prover's sake: with each quirk TLC finds the property violated (see
the last section), so they are what the compiler's authors have to avoid or repair, and the
theorems say that there is nothing else. `MCScopes` checks the same properties with `Quirks = {}`
for two locals and four constructs inside each other; the theorems hold for all `MaxLocals` and `MaxNest`.

`LocalsInPlace` speaks of the frames that come to the instruction written next. What it rests on
is said of the frames of every jump that is still to be patched, and of the start of every loop. One
predicate says it, `IsFrame(s, locals, d, t)`: the frame of a place of depth `d` where `t` values of
switches and structs are on the stack is the locals whose depth is at most `d`, in order, and
`t` values above them. There is at most one such frame, which is why all ways to a place agree, and why a
loop is re-entered with the frame it began with. The invariant has five parts:

- `Typed` and `NestInv`: each loop knows its construct (`at`), the depth there is its
  `scope`, a construct that is a loop has a record, a `case` is in a `switch`;
- `DepthInv`: the depths of the locals rise, none is deeper than the scope, and each is what it was;
- `ShapeInv`: `paths` fit the place they are at; the jumps a construct waits for fit the depth and the
  values held there; starts, `continue`s and `break`s of a loop fit its scope, or for a `for` the scope
  outside, for its breaks come after the pops of its variable; and where a value of a switch or struct
  is held, no local is deeper than it, for pops take what is on top and would take the value;
- `DeadInv`: a loop that control never comes to is not left or repeated either. Without it the
  start of such a loop would be no frame at all, and a frame at its end one too many.

The lemmas about `IsFrame` are the compiler's argument: a declaration makes the frame of the scope it
is in, `discard_locals` the frame of any place outside (`FrameDiscarded`), and locals that come and go in
deeper scopes leave the frame of an older place alone (`FrameKept`). Each action is an instance of
one of the ways to change `nest` (`Fills`, `Opens`, `Closes`, `Replaces`, `Merges`).

`RootingProofs`, for any number of objects, any `Builders` and any bounds on the stack and on the
number of operations:

- `TypeCorrect`: `Spec => []TypeOK`.
- `BalancedHolds`: `Spec => []Balanced`, every operation leaves its results in the place of its
  operands.
- `UsesLiveHolds`: `Spec => []UsesLive`, whenever the collections come, nothing freed is used
  but by the variables in `Unrooted`.

There are 28 operations of up to some two hundred steps, with loops and alternatives, and a collection
may come at every allocation. The proof does not go through them step by step as the machine does. It has
three parts:

1. What a reviewer of the C code would keep in mind at a line is a record, `Facts`: how many
   values the operation has on the stack, which variables hold something those values
   lead to (`on`), something another root refers to (`in`), something that has not been freed
   (`live`), something that is set (`made`), and which pairs of variables hold different objects
   (`apart`, for a function that is taken off the list of compilers must not take another with it).
   `Permits` says which facts a step takes to which, without the memory; an allocation takes `live` away and
   nothing else. `Obeys` says that the memory is as the facts say. There is one lemma for each kind
   of step that the machine obeys: `AllocObeys` is the argument about the collector, what the
   values on the stack and the other roots lead to is reachable. The invariant (`Inv`) is that the
   types are right, objects refer to objects that exist, and there are facts for every
   step of the running operation, `Permits` from each to those it may go to, and those at `pc` obeyed.
   It speaks of an assignment of facts to steps that is only known to exist, which is why no run checks it.
2. `Runs(X, P, x, y)`: the program `P` takes facts `x` to facts `y`, where only the variables in `X`
   may be used without being live. `Then`, `Over`, `RunsMaybe`, `RunsEither` and `RunsLoop` say how
   programs are put together; a loop needs facts it keeps.
3. Every step, every C function that others call (`CopyStrRuns`, `ToStrRuns`, `InitCompilerRuns`,
   ...: for whatever is known when it begins) and every operation (`bc_cat_runs`, ...) runs. The lemma of an
   operation is its annotated program: each line has the facts before and after it, `At(height, on, in, live)`.
   Its hypotheses are the variables it leaves unprotected, and `EveryOperationRuns` finds
   them in `Unrooted`. If a push that protects something is left out, the facts at the next use are
   not there; if a pop is, the height at the end is wrong.

`InterpreterProofs`, for any code, values, world and answers of the host:

- `StaysFitting`: `Execution /\ Fits(heights) => []Inv(heights)`.
- `RunsInCode`: `Execution /\ Fits(heights) => []InCode`.
- `OnlyValues`: `Execution /\ Fits(heights) => []TypeOK`.

The loop of `vm.c` tests neither the stack nor its operands: it is right because of the code it is given.
What code has to be like is `Fits`, as a verifier of bytecode would have it: there is a height of the stack
for each address control may come to, the same on all ways, and at that height the instruction there has its
operands in the code, its slot on the stack, its name among the constants and enough values
above the script. `Fits` speaks of the code only; so that `InCode` follows, which speaks of every
execution, the invariant says that `ip` is an address of `heights` and the stack has the height
found there. There is a lemma for each instruction: it goes to an address in `Follow` and the stack rises by
`Rises`. The argument that compiled scripts are run safely is thereby in two halves: TLC checks
`CompiledCodeFits`, that the compiler's code for each script of `programs` fits the heights `Flow`
finds, and TLAPS proves the rest for all values. The hypothesis is thus one that `programs`
shows to hold of thousands of programs, each with jumps and loops. `AndKeepsLeft`, a compiler of `and` that forgets a
`pop`, breaks it.

Only model-checked:

- liveness (`CollectionEnds`, `InterningEnds`, `ExecutionEnds`), which the prover does not do;
- `SameOutcome`, `Accepts` and `CompiledCodeFits`: `Compiler`, `Language` and `Flow` are recursive,
  which puts them, and `Programs` with them, out of its reach.

Some invariants are proved and no run lists them, for they are part of what others rest on: the types
of all modules but `Gc`, and `InternedAlive` and `TriColour` of `Gc`. TLC finds them to hold on the
instances of the runs, but for `TypeOK` of `Interpreter`, whose set of all values it cannot enumerate.

## What is not modelled

- the lexer, values, the text that string conversion yields, numeric library, random numbers,
  easing: functions without state (the objects they make are in `Rooting`);
- what the parser does after an error; functions, structs and enums in `Compiler` (their effect on
  the stack is in `Scopes`);
- the disassembler and the log: printing; `err.c` is not built;
- `hbs.c` and `main.c`: reading a file and running it, apart from the order of scripts in
  `Calls`;
- the start-up of a state (`create_state` allocates before it has set what an allocation reads): in
  the plan.

## The plan

In order of what matters most.

1. Done: `HashMap` and `AbstractMap`, `Gc` and `AbstractHeap`, their proofs; `Upvalues`,
   `Calls` and `Scopes`, and theirs; `Rooting`; `Containers`; the proofs that `HashMap`, `Gc` and
   `Containers` implement their abstract specifications; `Compiler` and `Programs` against
   `Language`.
2. Done: `Interning`, over the probe of `HashMap`; `Interpreter` apart from `Programs`, so that it can
   be reasoned about for any code.
3. Left: functions and closures in `Compiler`, `Language` and `Programs`; structs and statics after them.
4. Left: `State`, the order of `create_state` with the allocations inside it.
5. Proofs: done for every invariant and action property but those of `Programs` that are about the
   compiler. Left: that each entry
   of `Unrooted` is needed, which is a matter of one behaviour each (TLC finds them).
