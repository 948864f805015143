------------------------------- MODULE Calls -------------------------------
(* Calls between Hobby code and C functions: src/src/vm.c (call_fn, call_c, *)
(* run, vm_interp, vm_invoke, vm_call), api.c and state.c.  Two stacks grow *)
(* together: the interpreter's own call frames (h->frame_stack, with values *)
(* on h->stack), and the C stack, where run and call_c call each other.  An *)
(* error empties the first at once (reset_stack) and leaves the second by   *)
(* `return false` from run or by longjmp to h->err_jmp.                     *)
(*                                                                          *)
(* h->frame counts frames here: frame_stack[0] is never written, the frame  *)
(* of the n-th call in progress is frame_stack[n].  `wrong` collects what   *)
(* calls, returns, pushes and errors have read or written that is not there *)
(* on one of the stacks; where nobody knows what comes of it the model      *)
(* stops.  Which values there are, and the slots C functions ask for by     *)
(* their index (val_at), are not looked at; and the embedding program calls *)
(* nothing of the API that may fail, as the comment in create_state warns.  *)
EXTENDS Integers, Sequences, FiniteSets

CONSTANTS
    FramesMax,      \* frames_max, 64 in state.h
    StackSize,      \* stack_size, 64 * 256 in state.h
    MaxNative,      \* bound: runs and C functions in progress
    MaxArgs         \* bound: arguments of a call

ASSUME CallsAssumption ==
    FramesMax \in Nat \ {0} /\ StackSize \in Nat \ {0} /\ MaxNative \in Nat /\ MaxArgs \in Nat

VARIABLES
    frames,   \* h->frame_stack above its first entry: type and base of each
    top,      \* h->top - h->stack
    native,   \* the C stack: call_c ("c"), and run called by vm_interp ("script")
              \* or by vm_invoke ("reenter"), which have the types of their frames
    jmp,      \* h->err_jmp: the place in native of the call_c it leads to
    called,   \* for each activation, has it called anything?
    wrong,    \* what has been read or written that is not there
    strayed   \* auxiliary: the ways the program has left the calls that work

vars == <<frames, top, native, jmp, called, wrong, strayed>>

Unset == 0    \* err_jmp before the first call_c
Dead == -1    \* err_jmp when the call_c it leads to has returned

Front(s) == SubSeq(s, 1, Len(s) - 1)
Last(s) == s[Len(s)]

\* What the code reads and goes on from: below the emptied stack, to file it, and
\* the frame that is never written, to look whether it is one.
Survived == {"below_stack", "unset_frame"}

Fine == wrong \subseteq Survived
InRun == Fine /\ native # <<>> /\ Last(native) # "c"
InC == Fine /\ native # <<>> /\ Last(native) = "c"
\* The functions that open the libraries, called by create_state, only register.
InLibC == InC /\ Len(native) > 1
AtHost == Fine /\ native = <<>>

\* Is a C function waiting for the run in progress?
UnderC == \E p \in 1 .. Len(native) - 1 : native[p] = "c"

Init == /\ frames = <<>> /\ top = 0
        /\ native = <<>> /\ called = <<>>
        /\ jmp = Unset
        /\ wrong = {}
        /\ strayed = {}

\* An error that a C function waits behind, a C function that fails after it has
\* called something, and a use of hbs_call.
Strays == {"error_under_c", "late_error", "hbs_call"}
Stray(ways) == strayed' = strayed \union ways

-----------------------------------------------------------------------------
(* Values come and go.  A frame's callee and arguments are below its own.   *)

Base == IF frames = <<>> THEN 0 ELSE Last(frames).base + 1

\* What lies behind the arrays: an entry of frame_stack, a value of the stack.
PastFrames(fs) == IF Len(fs) < FramesMax THEN {} ELSE {"frame_array"}
PastValues(t) == IF t <= StackSize THEN {} ELSE {"value_array"}

\* push looks at no limit.
Push == /\ Fine /\ native # <<>>
        /\ top' = top + 1
        /\ wrong' = wrong \union PastValues(top')
        /\ UNCHANGED <<frames, native, jmp, called, strayed>>

\* The program pops what it pushed; the embedding program (hbs_pop) what a
\* script left.
Pop == /\ Fine
       /\ top > Base
       /\ top' = top - 1
       /\ UNCHANGED <<frames, native, jmp, called, wrong, strayed>>

-----------------------------------------------------------------------------
(* Entering a call.                                                         *)

\* h->frame - h->frame_stack == frames_max is the error "stack overflow".
Room == Len(frames) # FramesMax

\* Fault: the callee is not part of the frame.
EnterFrameNoCallee(type, argc) ==
    /\ frames' = Append(frames, [type |-> type, base |-> top' - argc])
    /\ wrong' = wrong \union PastFrames(frames') \union PastValues(top')

\* ++h->frame, and the entry it now points at is filled in.
EnterFrame(type, argc) ==
    /\ frames' = Append(frames, [type |-> type, base |-> top' - argc - 1])
    /\ wrong' = wrong \union PastFrames(frames') \union PastValues(top')

EnterNative(kind) == /\ Len(native) < MaxNative
                     /\ native' = Append(native, kind)
                     /\ called' = Append([p \in 1 .. Len(native) |->
                                             p = Len(native) \/ called[p]], FALSE)

\* The callee and its arguments are the caller's own values.
OnTop(argc) == top - argc > Base

\* bc_call or bc_invoke of a function of the language.
CallFn(argc) == /\ InRun
                /\ OnTop(argc)
                /\ Room
                /\ UNCHANGED <<top, native, jmp, called, strayed>>
                /\ EnterFrame("hbs", argc)

\* Fault: only the outermost C function sets err_jmp.
CallCFirst(argc) == /\ InRun \/ InLibC
                    /\ OnTop(argc)
                    /\ Room
                    /\ UNCHANGED <<top, strayed>>
                    /\ EnterFrame("c", argc)
                    /\ EnterNative("c")
                    /\ jmp' = IF jmp = Unset THEN Len(native) + 1 ELSE jmp

\* call_c, from run or from another C function (hbs_callon, hbs_call).
CallC(argc) == /\ InRun \/ InLibC
               /\ OnTop(argc)
               /\ Room
               /\ UNCHANGED <<top, strayed>>
               /\ EnterFrame("c", argc)
               /\ EnterNative("c")
               /\ jmp' = Len(native) + 1

\* Fault: the frame keeps the type call_fn gave it.
CallOnUnmarked(argc) == /\ InLibC
                        /\ OnTop(argc)
                        /\ Room
                        /\ UNCHANGED <<top, jmp, strayed>>
                        /\ EnterFrame("hbs", argc)
                        /\ EnterNative("reenter")

\* hbs_callon: vm_invoke of a method written in the language runs it.
CallOn(argc) == /\ InLibC
                /\ OnTop(argc)
                /\ Room
                /\ UNCHANGED <<top, jmp, strayed>>
                /\ EnterFrame("reenter", argc)
                /\ EnterNative("reenter")

\* hbs_call: vm_call enters the frame of a closure, then looks whether the value
\* is a bare function, which it never is, to decide to run it.
HbsCall(argc) == /\ InLibC
                 /\ OnTop(argc)
                 /\ Room
                 /\ Stray({"hbs_call"})
                 /\ UNCHANGED <<top, native, jmp, called>>
                 /\ EnterFrame("hbs", argc)

\* vm_interp, by the embedding program or by import: the script's closure is
\* pushed and called.  While it compiles it has one value on the stack, no more.
Interp == /\ AtHost \/ InLibC
          /\ Room
          /\ top' = top + 1
          /\ EnterFrame("script", 0)
          /\ EnterNative("script")
          /\ UNCHANGED <<jmp, strayed>>

\* hbs_open_lib: create_state calls the C functions that open the libraries.
OpenLib == /\ AtHost
           /\ frames = <<>>
           /\ top' = top + 1
           /\ EnterFrame("c", 0)
           /\ EnterNative("c")
           /\ jmp' = 1
           /\ UNCHANGED strayed

-----------------------------------------------------------------------------
(* Returning.                                                               *)

\* The activation on top of the C stack is left; err_jmp must not lead there.
Leave(n) == /\ native' = SubSeq(native, 1, n)
            /\ called' = SubSeq(called, 1, n)
            /\ jmp' = IF jmp > n THEN Dead ELSE jmp

\* vm_interp files what the script left under its path, which is a string it may
\* have to make, and push, on top of that.
Files == IF native # <<>> /\ Last(native) = "script"
         THEN {wrong, wrong \union PastValues(top' + 1)}
         ELSE {wrong}

\* bc_ret: the result replaces callee and arguments; a frame that was entered
\* from C ends the run.
Ret == /\ InRun
       /\ frames # <<>>
       /\ frames' = Front(frames)
       /\ top' = Last(frames).base + 1
       /\ IF Last(frames).type \in {"script", "reenter"}
          THEN Leave(Len(native) - 1) /\ wrong' \in Files
          ELSE UNCHANGED <<native, jmp, called, wrong>>
       /\ UNCHANGED strayed

\* A call that a C function made has ended, or failed, and h->frame is the last of
\* fs: vm_call does not look at it, vm_invoke runs it unless it is that of a C
\* function.  Below all frames it finds frame_stack[0], which was never written.
Looks(fs) == {wrong} \union
    IF fs = <<>>
    THEN {wrong \union {"unset_frame"}, wrong \union {"unset_frame", "wrong_frame"}}
    ELSE IF Last(fs).type = "c" THEN {} ELSE {wrong \union {"wrong_frame"}}

\* Fault: call_c leaves its frame behind.
CRetKeepsFrame == /\ InC
                  /\ frames # <<>>
                  /\ UNCHANGED <<frames, wrong, strayed>>
                  /\ top' = Last(frames).base + 1
                  /\ Leave(Len(native) - 1)

\* The C function returns to call_c, which takes h->frame for its own frame.
CRet == /\ InC
        /\ frames # <<>>
        /\ frames' = Front(frames)
        /\ top' = Last(frames).base + 1
        /\ Leave(Len(native) - 1)
        /\ wrong' \in IF native' # <<>> /\ Last(native') = "c" THEN Looks(frames') ELSE {wrong}
        /\ UNCHANGED strayed

\* After an error below it there is no frame to return from: call_c takes
\* frame_stack[0], which was never written, and goes below it.
CRetNoFrame == /\ InC
               /\ frames = <<>>
               /\ wrong' = wrong \union {"no_frame"}
               /\ UNCHANGED <<frames, top, native, jmp, called, strayed>>

-----------------------------------------------------------------------------
(* Errors.                                                                  *)

\* reset_stack
Reset == top' = 0 /\ frames' = <<>>

\* Run number n on the C stack returns hbs_result_runtime_err.  vm_invoke goes on
\* regardless, and so does vm_interp, which files what lies below the stack, now
\* that it is empty, as the value of the script.
RunFails(n) ==
    /\ Leave(n - 1)
    /\ wrong' = wrong \union IF native[n] = "script" THEN {"below_stack"} ELSE {}

\* runtime_err in an instruction, or in a call that fails: a value that cannot
\* be called, the wrong number of arguments, no room.
RuntimeErr == /\ InRun
              /\ Stray(IF UnderC THEN {"error_under_c"} ELSE {})
              /\ Reset
              /\ RunFails(Len(native))

\* A call from a C function fails, and the C function goes on.
InvokeFails == /\ InLibC
               /\ Stray({"error_under_c"})
               /\ Reset
               /\ wrong' \in Looks(<<>>)
               /\ UNCHANGED <<native, jmp, called>>

\* hbs_err in a C function: longjmp to err_jmp.  The call_c there returns false,
\* which ends the run that called it.
HbsErr == /\ InLibC
          /\ Stray(  (IF UnderC THEN {"error_under_c"} ELSE {})
                    \union (IF Last(called) THEN {"late_error"} ELSE {}))
          /\ Reset
          /\ \/ /\ jmp > 1
                /\ native[jmp - 1] # "c"
                /\ RunFails(jmp - 1)
             \/ /\ jmp > 1
                /\ native[jmp - 1] = "c"
                /\ Leave(jmp - 1)
                /\ wrong' \in Looks(<<>>)
             \/ /\ jmp \in {Unset, Dead}
                /\ wrong' = wrong \union {"dead_jump"}
                /\ UNCHANGED <<native, jmp, called>>

\* What has no meaning is not followed further.
Stop == ~Fine /\ UNCHANGED vars

Next == \/ \E argc \in 0 .. MaxArgs : \/ CallFn(argc) \/ CallC(argc)
                                      \/ CallOn(argc) \/ HbsCall(argc)
        \/ Push \/ Pop \/ Interp \/ OpenLib
        \/ Ret \/ CRet \/ CRetNoFrame
        \/ RuntimeErr \/ InvokeFails \/ HbsErr
        \/ Stop

Spec == Init /\ [][Next]_vars

-----------------------------------------------------------------------------
(* Properties.                                                              *)

Wrongs == {"frame_array", "value_array", "below_stack", "unset_frame", "wrong_frame",
           "no_frame", "dead_jump"}
Kinds == {"c", "script", "reenter"}

TypeOK ==
    /\ \A f \in 1 .. Len(frames) : /\ frames[f].type \in {"hbs"} \union Kinds
                                  /\ frames[f].base \in Nat
    /\ top \in 0 .. StackSize + 1
    /\ native \in Seq(Kinds) /\ Len(called) = Len(native)
    /\ jmp \in {Unset, Dead} \union 1 .. Len(native)
    /\ wrong \subseteq Wrongs /\ strayed \subseteq Strays

\* The two stacks tell the same story: each run and each C function in progress
\* entered a frame of its own, of its kind and in the same order, and the frames
\* above a run's entry, and only those, are calls it made itself, as long as the
\* program has not strayed.  Otherwise a return would end the wrong run, or a C
\* function leave through another call's frame.
Entered(fs, f) == Cardinality({g \in 1 .. f : fs[g].type # "hbs"})
Belongs(type, kind) == IF type = "hbs" THEN kind # "c" ELSE kind = type
Aligned ==
    Fine /\ strayed = {} =>
        /\ Entered(frames, Len(frames)) = Len(native)
        /\ \A f \in 1 .. Len(frames) :
              /\ Entered(frames, f) > 0
              /\ Belongs(frames[f].type, native[Entered(frames, f)])

\* Every call in progress keeps its callee and what lies below it: the frames
\* stand in order on the value stack, and nothing is popped below the last.
FramesNested ==
    /\ \A f, g \in 1 .. Len(frames) : f < g => frames[f].base < frames[g].base
    /\ frames # <<>> => Last(frames).base < top

\* As long as the program has not strayed, the code touches nothing of the stacks
\* that is not there but in three ways, and in these only when it has come to a
\* limit or failed.  The check of call_fn and call_c lets a call through that fills
\* the entry behind frame_stack; push goes past h->stack, which nothing checks, when
\* that is full; and when a script that no C function waits for has failed,
\* vm_interp files what lies below the stack, with nothing left of the script.
OnlyUnchecked ==
    strayed = {} =>
        /\ wrong \subseteq {"frame_array", "value_array", "below_stack"}
        /\ "frame_array" \in wrong => Len(frames) = FramesMax
        /\ "value_array" \in wrong => top >= StackSize

\* A C function that has called nothing can fail, however deep it is and
\* whatever failed before: err_jmp leads to a call_c in progress.
EarlyErrorsCaught == "dead_jump" \in wrong => Last(called)
=============================================================================
