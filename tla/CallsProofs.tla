---------------------------- MODULE CallsProofs ----------------------------
(* Theorems about Calls, for any size of the frame stack and any depth of    *)
(* calls: frames keep their values, the frame stack and the C stack tell the *)
(* same story until the program strays, and err_jmp catches early errors.    *)
EXTENDS Calls, FiniteSetTheorems, SequenceTheorems, TLAPS

-----------------------------------------------------------------------------
(* Sequences that grow and shrink at the end.                               *)

LEMMA Appended ==
    ASSUME NEW S, NEW s \in Seq(S), NEW e \in S
    PROVE  /\ Append(s, e) \in Seq(S) /\ Len(Append(s, e)) = Len(s) + 1 /\ Len(s) \in Nat
           /\ \A x \in 1 .. Len(s) : Append(s, e)[x] = s[x]
           /\ Append(s, e)[Len(s) + 1] = e
<1> QED
  OBVIOUS

LEMMA Cut ==
    ASSUME NEW S, NEW s \in Seq(S), NEW n \in 0 .. Len(s)
    PROVE  /\ SubSeq(s, 1, n) \in Seq(S) /\ Len(SubSeq(s, 1, n)) = n /\ Len(s) \in Nat
           /\ \A x \in 1 .. n : SubSeq(s, 1, n)[x] = s[x]
<1>1. \A x \in 1 .. n : s[x] \in S
  OBVIOUS
<1>2. n \in Int /\ 1 \in Int /\ Len(s) \in Nat
  OBVIOUS
<1>3. /\ SubSeq(s, 1, n) \in Seq(S)
      /\ Len(SubSeq(s, 1, n)) = IF 1 <= n THEN n - 1 + 1 ELSE 0
      /\ \A x \in 1 .. n - 1 + 1 : SubSeq(s, 1, n)[x] = s[1 + x - 1]
  BY <1>1, <1>2, SubSeqProperties
<1> QED
  BY <1>2, <1>3

\* How many of the first frames were entered from C: one more for each that is.
LEMMA EnteredCounts ==
    ASSUME NEW fs, NEW f \in Nat
    PROVE  /\ Entered(fs, f) \in Nat
           /\ Entered(fs, 0) = 0
           /\ Entered(fs, f + 1) = Entered(fs, f) + (IF fs[f + 1].type = "hbs" THEN 0 ELSE 1)
<1> DEFINE E(n) == {g \in 1 .. n : fs[g].type # "hbs"}
<1>1. IsFiniteSet(E(f)) /\ Cardinality(E(f)) \in Nat
  <2>1. IsFiniteSet(1 .. f)
    BY FS_Interval
  <2> QED
    BY <2>1, FS_Subset, FS_CardinalityType
<1>2. E(0) = {}
  OBVIOUS
<1>3. f + 1 \notin E(f)
  OBVIOUS
<1>4. CASE fs[f + 1].type = "hbs"
  <2>1. E(f + 1) = E(f)
    BY <1>4
  <2> HIDE DEF E
  <2>2. Cardinality(E(f + 1)) = Cardinality(E(f))
    BY <2>1, Zenon
  <2> QED
    BY <1>1, <1>2, <1>4, <2>2, FS_EmptySet DEF Entered, E
<1>5. CASE fs[f + 1].type # "hbs"
  <2>1. E(f + 1) = E(f) \union {f + 1}
    BY <1>5
  <2> HIDE DEF E
  <2>2. Cardinality(E(f + 1)) = Cardinality(E(f)) + 1
    BY <1>1, <1>3, <2>1, FS_AddElement
  <2> QED
    BY <1>1, <1>2, <1>5, <2>2, FS_EmptySet DEF Entered, E
<1> QED
  BY <1>4, <1>5

LEMMA EnteredGrows ==
    ASSUME NEW fs, NEW n \in Nat, NEW f \in 0 .. n
    PROVE  Entered(fs, f) <= Entered(fs, n)
<1>1. IsFiniteSet(1 .. n)
  BY FS_Interval
<1>2. IsFiniteSet({g \in 1 .. n : fs[g].type # "hbs"})
  BY <1>1, FS_Subset
<1>3. {g \in 1 .. f : fs[g].type # "hbs"} \subseteq {g \in 1 .. n : fs[g].type # "hbs"}
  OBVIOUS
<1> QED
  BY <1>2, <1>3, FS_Subset DEF Entered

\* Only the first frames matter.
LEMMA EnteredSame ==
    ASSUME NEW fs, NEW gs, NEW f \in Nat, \A g \in 1 .. f : gs[g] = fs[g]
    PROVE  Entered(gs, f) = Entered(fs, f)
<1>1. {g \in 1 .. f : gs[g].type # "hbs"} = {g \in 1 .. f : fs[g].type # "hbs"}
  OBVIOUS
<1> QED
  BY <1>1 DEF Entered

-----------------------------------------------------------------------------
(* The invariant, in three parts.  First the frames on the value stack.      *)

Frame == [type : {"hbs"} \union Kinds, base : Nat]

FInv == /\ frames \in Seq(Frame)
        /\ top \in Nat
        /\ FramesNested

LEMMA Bases ==
    ASSUME FInv, NEW x \in 1 .. Len(frames)
    PROVE  frames[x] \in Frame /\ frames[x].base \in Nat
<1>1. frames[x] \in Frame
  BY DEF FInv
<1> QED
  BY <1>1 DEF Frame

LEMMA Tops ==
    ASSUME FInv
    PROVE  /\ top \in Nat /\ Base \in Nat /\ Base <= top
           /\ frames # <<>> => /\ Len(frames) \in Nat \ {0} /\ Last(frames) \in Frame
                               /\ Last(frames).base \in Nat
                               /\ Base = Last(frames).base + 1
<1>1. frames # <<>> => /\ Len(frames) \in Nat \ {0} /\ Last(frames) \in Frame
                       /\ Last(frames).base < top
  BY DEF FInv, FramesNested, Last
<1>2. \A fr \in Frame : fr.base \in Nat
  BY DEF Frame
<1> QED
  BY <1>1, <1>2 DEF Base, FInv

\* Values come and go above the last frame.
LEMMA TopMoves ==
    ASSUME FInv, frames' = frames, top' \in Nat, Base <= top'
    PROVE  FInv'
<1>1. frames # <<>> => Last(frames).base < top'
  BY Tops
<1>2. Last(frames') = Last(frames)
  BY DEF Last
<1> QED
  BY <1>1, <1>2 DEF FInv, FramesNested

\* What is called lies above the frame of the caller.
LEMMA FrameEntered ==
    ASSUME FInv, NEW fr \in Frame, frames' = Append(frames, fr),
           Base <= fr.base, top' \in Nat, fr.base < top'
    PROVE  FInv'
<1>1. /\ frames' \in Seq(Frame) /\ Len(frames') = Len(frames) + 1 /\ Len(frames) \in Nat
      /\ \A x \in 1 .. Len(frames) : frames'[x] = frames[x]
      /\ frames'[Len(frames) + 1] = fr
  BY Appended DEF FInv
<1>2. \A x \in 1 .. Len(frames) : frames[x].base \in Nat
  BY Bases
<1>3. ASSUME NEW f \in 1 .. Len(frames) PROVE frames[f].base < fr.base
  <2>1. frames # <<>> /\ Base = frames[Len(frames)].base + 1
    BY <1>1, <1>3 DEF Base, Last
  <2>2. f = Len(frames) \/ frames[f].base < frames[Len(frames)].base
    BY <1>1, <1>3 DEF FInv, FramesNested
  <2>3. frames[Len(frames)].base \in Nat /\ frames[f].base \in Nat /\ fr.base \in Nat
    BY <1>1, <1>2, <1>3 DEF Frame
  <2> QED
    BY <2>1, <2>2, <2>3
<1>4. ASSUME NEW f \in 1 .. Len(frames'), NEW g \in 1 .. Len(frames'), f < g
      PROVE  frames'[f].base < frames'[g].base
  <2>1. f \in 1 .. Len(frames)
    BY <1>1, <1>4
  <2>2. CASE g = Len(frames) + 1
    BY <1>1, <1>3, <2>1, <2>2
  <2>3. CASE g # Len(frames) + 1
    <3>1. g \in 1 .. Len(frames) /\ frames'[f] = frames[f] /\ frames'[g] = frames[g]
      BY <1>1, <2>1, <2>3
    <3> QED
      BY <1>4, <2>1, <3>1 DEF FInv, FramesNested
  <2> QED
    BY <2>2, <2>3
<1>5. Last(frames').base < top'
  BY <1>1 DEF Last
<1> QED
  BY <1>1, <1>4, <1>5 DEF FInv, FramesNested

\* A return leaves the result in the place of the callee.
LEMMA FrameLeft ==
    ASSUME FInv, frames # <<>>, frames' = Front(frames), top' = Last(frames).base + 1
    PROVE  FInv'
<1>1. /\ Len(frames) \in Nat \ {0} /\ frames' \in Seq(Frame) /\ Len(frames') = Len(frames) - 1
      /\ \A x \in 1 .. Len(frames) - 1 : frames'[x] = frames[x]
  <2>1. Len(frames) - 1 \in 0 .. Len(frames) /\ Len(frames) \in Nat \ {0}
    BY DEF FInv
  <2> QED
    BY <2>1, Cut DEF FInv, Front
<1>2. Last(frames) \in Frame /\ Last(frames).base < top
  BY <1>1 DEF FInv, FramesNested, Last
<1>3. top' \in Nat
  BY <1>2 DEF Frame
<1>4. frames' # <<>> => Last(frames').base < top'
  <2> SUFFICES ASSUME frames' # <<>> PROVE frames'[Len(frames) - 1].base < top'
    BY <1>1 DEF Last
  <2>1. Len(frames) - 1 \in 1 .. Len(frames)
    BY <1>1
  <2>2. frames[Len(frames) - 1].base < Last(frames).base
    <3>1. /\ Len(frames) \in 1 .. Len(frames) /\ Last(frames) = frames[Len(frames)]
          /\ Len(frames) - 1 < Len(frames)
      BY <1>1 DEF Last
    <3> QED
      BY <2>1, <3>1 DEF FInv, FramesNested
  <2>3. frames[Len(frames) - 1].base \in Nat
    BY <2>1, Bases
  <2> QED
    <3>1. frames'[Len(frames) - 1] = frames[Len(frames) - 1] /\ Last(frames).base \in Nat
      BY <1>1, <2>1, Tops
    <3> QED
      BY <2>2, <2>3, <3>1
<1> QED
  BY <1>1, <1>3, <1>4 DEF FInv, FramesNested

LEMMA InitFInv == Init => FInv
<1> QED
  BY DEF Init, FInv, FramesNested

LEMMA NextFInv == FInv /\ [Next]_vars => FInv'
<1> SUFFICES ASSUME FInv, [Next]_vars PROVE FInv'
  OBVIOUS
<1>1. CASE UNCHANGED <<frames, top>>
  BY <1>1 DEF FInv, FramesNested
<1>2. top \in Nat /\ Base \in Nat /\ Base <= top
  BY Tops
<1>3. CASE Push
  BY <1>2, <1>3, TopMoves DEF Push
<1>4. CASE Pop
  BY <1>2, <1>4, TopMoves DEF Pop
<1>5. ASSUME NEW type \in {"hbs"} \union Kinds, NEW argc \in 0 .. MaxArgs,
             EnterFrame(type, argc), top' \in {top, top + 1}, Base < top' - argc
      PROVE  FInv'
  <2> DEFINE fr == [type |-> type, base |-> top' - argc - 1]
  <2>1. frames' = Append(frames, fr) /\ argc \in Nat /\ top' \in Nat
    BY <1>2, <1>5, CallsAssumption DEF EnterFrame
  <2>0. \A b, t, a \in Nat : b < t - a => t - a - 1 \in Nat /\ b <= t - a - 1 /\ t - a - 1 < t
    OBVIOUS
  <2>2. top' - argc - 1 \in Nat /\ Base <= top' - argc - 1 /\ top' - argc - 1 < top'
    BY <1>2, <1>5, <2>0, <2>1
  <2>3. fr \in Frame /\ fr.base = top' - argc - 1
    BY <2>2 DEF Frame
  <2> HIDE DEF fr
  <2> QED
    BY <2>1, <2>2, <2>3, FrameEntered
<1>6. ASSUME NEW argc \in 0 .. MaxArgs,
             CallFn(argc) \/ CallC(argc) \/ CallOn(argc) \/ HbsCall(argc)
      PROVE  FInv'
  <2>1. /\ \E type \in {"hbs"} \union Kinds : EnterFrame(type, argc)
        /\ top' = top /\ Base < top' - argc
    BY <1>2, <1>6, CallsAssumption DEF CallFn, CallC, CallOn, HbsCall, OnTop, Kinds
  <2> QED
    BY <1>5, <2>1
<1>8. CASE Interp \/ OpenLib
  <2>1. 0 \in 0 .. MaxArgs /\ top' = top + 1 /\ Base < top' - 0
    BY <1>2, <1>8, CallsAssumption DEF Interp, OpenLib
  <2>2. \E type \in {"hbs"} \union Kinds : EnterFrame(type, 0)
    BY <1>8 DEF Interp, OpenLib, Kinds
  <2> QED
    BY <1>5, <2>1, <2>2
<1>10. CASE Ret \/ CRet
  BY <1>10, FrameLeft DEF Ret, CRet
<1>11. CASE Reset
  BY <1>11 DEF Reset, FInv, FramesNested
<1> QED
  BY <1>1, <1>3, <1>4, <1>6, <1>8, <1>10, <1>11
  DEF Next, vars, CRetNoFrame, RuntimeErr, InvokeFails, HbsErr, Stop

-----------------------------------------------------------------------------
(* Second, the C stack and err_jmp.  What has something above it has called  *)
(* it; a C function that has called nothing is where err_jmp leads; only C   *)
(* functions, and the embedding program, start runs.                         *)

NInv == /\ native \in Seq(Kinds)
        /\ called \in Seq(BOOLEAN) /\ Len(called) = Len(native)
        /\ jmp \in {Unset, Dead} \union 1 .. Len(native)
        /\ \A p \in 1 .. Len(native) - 1 : called[p]
        /\ native # <<>> /\ Last(native) = "c" /\ ~Last(called) => jmp = Len(native)
        /\ \A p \in 2 .. Len(native) : native[p] # "c" => native[p - 1] = "c"

LEMMA NativeLeft == ASSUME NInv, NEW n \in 0 .. Len(native) - 1, Leave(n) PROVE NInv'
<1>1. /\ native' \in Seq(Kinds) /\ Len(native') = n /\ Len(native) \in Nat
      /\ \A p \in 1 .. n : native'[p] = native[p]
      /\ called' \in Seq(BOOLEAN) /\ Len(called') = n
      /\ \A p \in 1 .. n : called'[p] = called[p]
  <2>1. n \in 0 .. Len(native) /\ n \in 0 .. Len(called) /\ Len(native) \in Nat
    BY DEF NInv
  <2> QED
    BY <2>1, Cut DEF NInv, Leave
<1>2. jmp' \in {Unset, Dead} \union 1 .. n
  BY <1>1 DEF NInv, Leave, Unset, Dead
<1>3. \A p \in 1 .. n : called'[p]
  <2>1. \A p \in 1 .. n : called[p]
    BY <1>1 DEF NInv
  <2> QED
    BY <1>1, <2>1
<1>4. native' # <<>> => Last(called')
  <2>1. native' # <<>> => n \in 1 .. n
    BY <1>1
  <2> QED
    BY <1>1, <1>3, <2>1 DEF Last
<1>5. \A p \in 2 .. n : native'[p] # "c" => native'[p - 1] = "c"
  BY <1>1 DEF NInv
<1> QED
  BY <1>1, <1>2, <1>3, <1>4, <1>5 DEF NInv

LEMMA NativeEntered ==
    ASSUME NInv, NEW kind \in Kinds, EnterNative(kind),
           kind # "c" => native = <<>> \/ Last(native) = "c",
           jmp' = IF kind = "c" THEN Len(native) + 1 ELSE jmp
    PROVE  NInv'
<1> DEFINE before == [p \in 1 .. Len(native) |-> p = Len(native) \/ called[p]]
<1>1. /\ native' \in Seq(Kinds) /\ Len(native') = Len(native) + 1 /\ Len(native) \in Nat
      /\ \A p \in 1 .. Len(native) : native'[p] = native[p]
      /\ native'[Len(native) + 1] = kind
  BY Appended DEF NInv, EnterNative
<1>2. /\ before \in Seq(BOOLEAN) /\ Len(before) = Len(native)
      /\ \A p \in 1 .. Len(native) : before[p]
  <2>1. \A p \in 1 .. Len(native) : before[p] \in BOOLEAN
    OBVIOUS
  <2>2. before \in [1 .. Len(native) -> BOOLEAN]
    BY <2>1
  <2>3. \A p \in 1 .. Len(native) : p # Len(native) => called[p]
    BY <1>1 DEF NInv
  <2>4. \A p \in 1 .. Len(native) : before[p]
    BY <2>3, Zenon
  <2> QED
    BY <1>1, <2>2, <2>4
<1>3. /\ called' \in Seq(BOOLEAN) /\ Len(called') = Len(native) + 1
      /\ \A p \in 1 .. Len(native) : called'[p]
  <2>1. called' = Append(before, FALSE)
    BY DEF EnterNative
  <2> HIDE DEF before
  <2> QED
    BY <1>2, <2>1, Appended
<1>4. jmp' \in {Unset, Dead} \union 1 .. Len(native')
  BY <1>1 DEF NInv, Unset, Dead
<1>5. Last(native') = "c" => jmp' = Len(native')
  BY <1>1 DEF Last
<1>6. ASSUME NEW p \in 2 .. Len(native'), native'[p] # "c" PROVE native'[p - 1] = "c"
  <2>1. CASE p = Len(native) + 1
    <3>1. kind # "c" /\ native # <<>> /\ Len(native) \in 1 .. Len(native)
      BY <1>1, <1>6, <2>1
    <3> QED
      BY <1>1, <2>1, <3>1 DEF Last
  <2>2. CASE p # Len(native) + 1
    <3>1. /\ p \in 2 .. Len(native) /\ p - 1 \in 1 .. Len(native) /\ p \in 1 .. Len(native)
          /\ native[p] # "c"
      BY <1>1, <1>6, <2>2
    <3> QED
      BY <1>1, <3>1 DEF NInv
  <2> QED
    BY <2>1, <2>2
<1> QED
  BY <1>1, <1>3, <1>4, <1>5, <1>6 DEF NInv

LEMMA InitNInv == Init => NInv
<1> QED
  BY DEF Init, NInv, Unset

LEMMA NextNInv == NInv /\ [Next]_vars => NInv'
<1> SUFFICES ASSUME NInv, [Next]_vars PROVE NInv'
  OBVIOUS
<1>1. CASE UNCHANGED <<native, jmp, called>>
  BY <1>1 DEF NInv, Last
<1>2. native # <<>> => Len(native) \in Nat \ {0} /\ Len(native) - 1 \in 0 .. Len(native) - 1
  BY DEF NInv
<1>3. ASSUME NEW argc, CallC(argc) PROVE NInv'
  BY <1>3, NativeEntered DEF CallC, Kinds
<1>4. ASSUME NEW argc, CallOn(argc) PROVE NInv'
  BY <1>4, NativeEntered DEF CallOn, InLibC, InC, Kinds
<1>5. CASE Interp
  BY <1>5, NativeEntered DEF Interp, InLibC, InC, AtHost, Kinds
<1>6. CASE OpenLib
  <2>1. Len(native) + 1 = 1
    BY <1>6 DEF OpenLib, AtHost
  <2> QED
    BY <1>6, <2>1, NativeEntered DEF OpenLib, Kinds
<1>7. CASE Ret
  BY <1>1, <1>2, <1>7, NativeLeft DEF Ret, InRun
<1>8. CASE CRet
  BY <1>2, <1>8, NativeLeft DEF CRet, InC
<1>9. CASE RuntimeErr
  BY <1>2, <1>9, NativeLeft DEF RuntimeErr, RunFails, InRun
<1>10. CASE HbsErr
  <2>1. ASSUME jmp > 1, Leave(jmp - 1) \/ RunFails(jmp - 1) PROVE NInv'
    <3>1. jmp - 1 \in 0 .. Len(native) - 1 /\ jmp - 1 - 1 \in 0 .. Len(native) - 1
      BY <2>1 DEF NInv, Unset, Dead
    <3> QED
      BY <2>1, <3>1, NativeLeft DEF RunFails
  <2> QED
    BY <1>1, <1>10, <2>1 DEF HbsErr
<1> QED
  BY <1>1, <1>3, <1>4, <1>5, <1>6, <1>7, <1>8, <1>9, <1>10
  DEF Next, vars, Push, Pop, CallFn, HbsCall, CRetNoFrame, InvokeFails, Stop

-----------------------------------------------------------------------------
(* Third, how the two belong together.                                      *)

InStep == /\ Entered(frames, Len(frames)) = Len(native)
          /\ \A f \in 1 .. Len(frames) :
                /\ Entered(frames, f) > 0
                /\ Belongs(frames[f].type, native[Entered(frames, f)])

\* Where the model goes on, both arrays have held what was put in them.
Bounds == top <= StackSize + 1 /\ (Fine => top <= StackSize /\ Len(frames) < FramesMax)

CInv == wrong \subseteq Wrongs /\ strayed \subseteq Strays /\ Bounds
        /\ Aligned /\ OnlyUnchecked /\ EarlyErrorsCaught

IInv == FInv /\ NInv /\ CInv

\* While they are in step, the last frame is that of the activation in progress.
LEMMA LastFrame ==
    ASSUME FInv, NInv, InStep, native # <<>>
    PROVE  /\ frames # <<>> /\ Len(frames) \in Nat \ {0} /\ Len(native) \in Nat \ {0}
           /\ Belongs(Last(frames).type, Last(native))
<1>1. Len(frames) \in Nat /\ Len(native) \in Nat \ {0}
  BY DEF FInv, NInv
<1>2. Len(frames) # 0
  BY <1>1, EnteredCounts DEF InStep
<1> QED
  BY <1>1, <1>2 DEF InStep, Last

\* A frame entered by the activation in progress, or with one of its own.
LEMMA StepIn ==
    ASSUME FInv, NInv, InStep, NEW fr \in Frame, frames' = Append(frames, fr),
           \/ fr.type = "hbs" /\ native' = native /\ native # <<>> /\ Last(native) # "c"
           \/ fr.type # "hbs" /\ native' = Append(native, fr.type)
    PROVE  InStep'
<1>1. /\ Len(frames') = Len(frames) + 1 /\ Len(frames) \in Nat
      /\ \A x \in 1 .. Len(frames) : frames'[x] = frames[x]
      /\ frames'[Len(frames) + 1] = fr
      /\ Len(native) \in Nat
  BY Appended DEF FInv, NInv
<1> DEFINE n == Len(frames)
           E(f) == Entered(frames, f)
           F(f) == Entered(frames', f)
<1>2. \A f \in 0 .. n : F(f) = E(f) /\ E(f) \in Nat
  <2> SUFFICES ASSUME NEW f \in 0 .. n PROVE F(f) = E(f) /\ E(f) \in Nat
    OBVIOUS
  <2>1. f \in Nat /\ \A g \in 1 .. f : frames'[g] = frames[g]
    BY <1>1
  <2> QED
    BY <2>1, EnteredSame, EnteredCounts
<1>3. F(n + 1) = E(n) + (IF fr.type = "hbs" THEN 0 ELSE 1) /\ E(n) = Len(native)
  <2>1. F(n + 1) = F(n) + (IF frames'[n + 1].type = "hbs" THEN 0 ELSE 1)
    BY <1>1, EnteredCounts
  <2>2. n \in 0 .. n /\ frames'[n + 1] = fr
    BY <1>1
  <2>3. E(n) = Len(native)
    BY DEF InStep
  <2> QED
    BY <1>2, <2>1, <2>2, <2>3
<1>4. \A f \in 1 .. n : E(f) \in 1 .. Len(native)
  BY <1>1, <1>2, <1>3, EnteredGrows DEF InStep
<1>5. /\ Len(native') = Len(native) + (IF fr.type = "hbs" THEN 0 ELSE 1)
      /\ \A p \in 1 .. Len(native) : native'[p] = native[p]
      /\ Len(native') > 0
      /\ Belongs(fr.type, native'[Len(native')])
  <2>1. CASE fr.type = "hbs"
    BY <1>1, <2>1 DEF Last, NInv, Belongs
  <2>2. CASE fr.type # "hbs"
    <3>1. native' = Append(native, fr.type) /\ fr.type \in Kinds
      BY <2>2 DEF Frame
    <3>2. /\ Len(native') = Len(native) + 1 /\ native'[Len(native) + 1] = fr.type
          /\ \A p \in 1 .. Len(native) : native'[p] = native[p]
      BY <3>1, Appended DEF NInv
    <3> QED
      BY <1>1, <2>2, <3>2 DEF Belongs
  <2> QED
    BY <2>1, <2>2
<1> HIDE DEF E, F
<1>6. ASSUME NEW f \in 1 .. n + 1
      PROVE  F(f) > 0 /\ Belongs(frames'[f].type, native'[F(f)])
  <2>1. CASE f = n + 1
    BY <1>1, <1>2, <1>3, <1>5, <2>1
  <2>2. CASE f \in 1 .. n
    <3>1. F(f) = E(f) /\ E(f) \in 1 .. Len(native) /\ frames'[f] = frames[f]
      BY <1>1, <1>2, <1>4, <2>2
    <3>2. Belongs(frames[f].type, native[E(f)])
      BY <2>2 DEF InStep, E
    <3> QED
      BY <1>5, <3>1, <3>2
  <2> QED
    BY <1>1, <2>1, <2>2
<1> QED
  BY <1>1, <1>3, <1>5, <1>6 DEF InStep, F

\* A frame left by the activation in progress, or by the one that entered it.
LEMMA StepOut ==
    ASSUME FInv, NInv, InStep, frames # <<>>, frames' = Front(frames),
           \/ Last(frames).type = "hbs" /\ native' = native
           \/ Last(frames).type # "hbs" /\ native' = SubSeq(native, 1, Len(native) - 1)
    PROVE  InStep'
<1> DEFINE n == Len(frames)
           E(f) == Entered(frames, f)
           F(f) == Entered(frames', f)
<1>1. /\ n \in Nat \ {0} /\ Len(frames') = n - 1
      /\ \A x \in 1 .. n - 1 : frames'[x] = frames[x]
  <2>1. n - 1 \in 0 .. n /\ n \in Nat \ {0}
    BY DEF FInv
  <2> QED
    BY <2>1, Cut DEF FInv, Front
<1>2. \A f \in 0 .. n - 1 : F(f) = E(f) /\ E(f) \in Nat /\ E(f) <= E(n - 1)
  <2> SUFFICES ASSUME NEW f \in 0 .. n - 1
               PROVE  F(f) = E(f) /\ E(f) \in Nat /\ E(f) <= E(n - 1)
    OBVIOUS
  <2>1. f \in Nat /\ n - 1 \in Nat /\ \A g \in 1 .. f : frames'[g] = frames[g]
    BY <1>1
  <2> QED
    BY <2>1, EnteredSame, EnteredCounts, EnteredGrows
<1>3. E(n) = E(n - 1) + (IF Last(frames).type = "hbs" THEN 0 ELSE 1) /\ E(n) = Len(native)
  <2>1. n - 1 \in Nat /\ n - 1 + 1 = n
    BY <1>1
  <2>2. E(n - 1 + 1) = E(n - 1) + (IF frames[n - 1 + 1].type = "hbs" THEN 0 ELSE 1)
    BY <2>1, EnteredCounts
  <2> QED
    BY <2>1, <2>2 DEF InStep, Last
<1>4. /\ Len(native') = E(n - 1) /\ E(n - 1) \in Nat
      /\ \A p \in 1 .. E(n - 1) : native'[p] = native[p]
  <2>0. E(n - 1) \in Nat
    BY <1>1, <1>2
  <2>1. CASE Last(frames).type = "hbs"
    BY <1>3, <2>0, <2>1
  <2>2. CASE Last(frames).type # "hbs"
    <3>1. Len(native) - 1 = E(n - 1) /\ Len(native) - 1 \in 0 .. Len(native)
      BY <1>3, <2>0, <2>2
    <3> QED
      BY <2>0, <2>2, <3>1, Cut DEF NInv
  <2> QED
    BY <2>1, <2>2
<1> HIDE DEF E, F, n
<1>5. ASSUME NEW f \in 1 .. n - 1
      PROVE  F(f) > 0 /\ Belongs(frames'[f].type, native'[F(f)])
  <2>1. F(f) = E(f) /\ E(f) \in Nat /\ E(f) <= E(n - 1) /\ frames'[f] = frames[f]
    BY <1>1, <1>2
  <2>2. E(f) > 0 /\ Belongs(frames[f].type, native[E(f)])
    BY <1>1 DEF InStep, E, n
  <2> QED
    BY <1>4, <2>1, <2>2
<1>6. Entered(frames', Len(frames')) = Len(native')
  BY <1>1, <1>2, <1>4 DEF F
<1> QED
  BY <1>1, <1>5, <1>6 DEF InStep, F

\* With nothing on either stack.
LEMMA StepFresh == ASSUME frames' = <<>>, native' = <<>> PROVE InStep'
<1> QED
  BY EnteredCounts DEF InStep

\* What is put behind the array that is full.
LEMMA Behind ==
    ASSUME NEW t \in Nat
    PROVE  PastValues(t) = IF t > StackSize THEN {"value_array"} ELSE {}
<1> QED
  BY CallsAssumption DEF PastValues

LEMMA InitCInv == Init => CInv
<1> SUFFICES ASSUME Init PROVE CInv
  OBVIOUS
<1>1. InStep
  BY EnteredCounts DEF Init, InStep
<1>2. Bounds
  BY CallsAssumption DEF Init, Bounds
<1> QED
  BY <1>1, <1>2 DEF Init, CInv, Aligned, InStep, OnlyUnchecked, EarlyErrorsCaught

LEMMA NextCInv == ASSUME IInv, [Next]_vars, FInv', NInv' PROVE CInv'
<1> USE DEF IInv
<1>1. CASE UNCHANGED vars
  BY <1>1 DEF vars, CInv, Bounds, Aligned, OnlyUnchecked, EarlyErrorsCaught, Fine, Last,
              Entered, Belongs
<1>2. ASSUME Fine
      PROVE  /\ wrong \subseteq Survived /\ strayed \subseteq Strays
             /\ top \in Nat /\ top <= StackSize
             /\ Len(frames) \in Nat /\ Len(frames) < FramesMax
             /\ strayed = {} => InStep /\ wrong \subseteq {"below_stack"}
  BY <1>2 DEF CInv, Bounds, Aligned, InStep, OnlyUnchecked, Fine, Survived, FInv
\* What each action has to show.  A step that adds nothing worse is followed by
\* another, one that touches what is not there is the last.
<1>3. ASSUME strayed \subseteq strayed', strayed' \subseteq Strays, wrong' \subseteq Wrongs,
             Bounds', strayed' = {} /\ Fine' => InStep', OnlyUnchecked',
             "dead_jump" \in wrong' => Last(called')
      PROVE  CInv'
  BY <1>3 DEF CInv, Aligned, InStep, EarlyErrorsCaught
<1>4. ASSUME Fine, strayed \subseteq strayed', strayed' \subseteq Strays,
             wrong' \subseteq Survived \union {"wrong_frame", "value_array"},
             strayed' = {} => wrong' \subseteq {"below_stack", "value_array"} /\ InStep',
             Len(frames') \in Nat, Len(frames') <= Len(frames),
             top' \in Nat, top' <= StackSize + 1,
             top' > StackSize => "value_array" \in wrong',
             "value_array" \in wrong' => top' >= StackSize
      PROVE  CInv'
  <2>1. Bounds'
    BY <1>2, <1>4, CallsAssumption DEF Bounds, Fine, Survived
  <2>2. OnlyUnchecked'
    BY <1>4 DEF OnlyUnchecked, Survived
  <2>3. wrong' \subseteq Wrongs /\ "dead_jump" \notin wrong'
    BY <1>4 DEF Wrongs, Survived
  <2> QED
    BY <1>3, <1>4, <2>1, <2>2, <2>3
<1>5. CASE Push \/ Pop
  <2>1. /\ UNCHANGED <<frames, native, strayed>> /\ Fine
        /\ top' \in Nat
        /\ \/ top' = top + 1 /\ wrong' = wrong \union PastValues(top')
           \/ top' <= top /\ wrong' = wrong
    BY <1>2, <1>5, Tops DEF Push, Pop
  <2>2. InStep => InStep'
    BY <2>1 DEF InStep, Entered, Belongs
  <2>3. /\ top' \in Nat /\ top' <= StackSize + 1
        /\ wrong' \subseteq wrong \union {"value_array"}
        /\ top' > StackSize => "value_array" \in wrong'
        /\ "value_array" \in wrong' => top' > StackSize
    BY <1>2, <2>1, CallsAssumption DEF PastValues, Survived
  <2>4. strayed = {} => wrong' \subseteq {"below_stack", "value_array"} /\ InStep'
    BY <1>2, <2>1, <2>2, <2>3
  <2>5. "value_array" \in wrong' => top' >= StackSize
    BY <2>3, CallsAssumption
  <2>6. wrong' \subseteq Survived \union {"wrong_frame", "value_array"}
    BY <1>2, <2>1, <2>3
  <2> QED
    BY <1>2, <1>4, <2>1, <2>3, <2>4, <2>5, <2>6
<1>6. ASSUME NEW type \in {"hbs"} \union Kinds, NEW argc \in 0 .. MaxArgs, Fine,
             EnterFrame(type, argc), top' \in {top, top + 1},
             strayed \subseteq strayed', strayed' \subseteq Strays,
             strayed' # {} \/ (type = "hbs" /\ InRun /\ native' = native)
                \/ (type # "hbs" /\ native' = Append(native, type))
      PROVE  CInv'
  <2> DEFINE fr == [type |-> type, base |-> top' - argc - 1]
  <2>1. frames' = Append(frames, fr)
    BY <1>6 DEF EnterFrame
  <2>2. Len(frames') = Len(frames) + 1 /\ frames'[Len(frames) + 1] = fr
    BY <2>1 DEF FInv
  <2>3. fr \in Frame /\ fr.type = type
    <3>1. Len(frames) + 1 \in 1 .. Len(frames')
      BY <1>2, <1>6, <2>2
    <3> QED
      BY <2>2, <3>1 DEF FInv
  <2> HIDE DEF fr
  <2>4. ASSUME strayed' = {} PROVE InStep'
    <3>1. strayed = {} /\ InStep
      BY <1>2, <1>6, <2>4
    <3>2. \/ fr.type = "hbs" /\ native' = native /\ native # <<>> /\ Last(native) # "c"
          \/ fr.type # "hbs" /\ native' = Append(native, fr.type)
      BY <1>6, <2>3, <2>4 DEF InRun
    <3> QED
      BY <2>1, <2>3, <3>1, <3>2, StepIn
  <2>5. /\ wrong' \subseteq wrong \union {"frame_array", "value_array"}
        /\ "frame_array" \in wrong' <=> Len(frames') >= FramesMax
        /\ "value_array" \in wrong' <=> top' > StackSize
    <3>1. /\ wrong' = wrong \union PastFrames(frames') \union PastValues(top')
          /\ "frame_array" \notin wrong /\ "value_array" \notin wrong
      BY <1>2, <1>6 DEF EnterFrame, Survived
    <3>2. PastFrames(frames') = IF Len(frames') >= FramesMax THEN {"frame_array"} ELSE {}
      BY <1>2, <2>2, CallsAssumption DEF PastFrames
    <3>3. PastValues(top') = IF top' > StackSize THEN {"value_array"} ELSE {}
      BY <1>2, <1>6, Behind
    <3> QED
      BY <3>1, <3>2, <3>3
  <2>6. Bounds' /\ ("frame_array" \in wrong' => Len(frames') = FramesMax)
    BY <1>2, <1>6, <2>2, <2>5, CallsAssumption DEF Bounds, Fine, Survived
  <2>7. wrong' \subseteq Wrongs /\ "dead_jump" \notin wrong'
    BY <1>2, <1>6, <2>5 DEF Wrongs, Survived
  <2>8. OnlyUnchecked'
    BY <1>2, <1>6, <2>5, <2>6, CallsAssumption DEF OnlyUnchecked
  <2> QED
    BY <1>3, <1>6, <2>4, <2>6, <2>7, <2>8
<1>7. ASSUME NEW argc \in 0 .. MaxArgs, CallFn(argc) \/ CallC(argc) \/ CallOn(argc)
      PROVE  CInv'
  <2>1. Fine /\ strayed' = strayed /\ strayed \subseteq Strays /\ top' \in {top, top + 1}
    BY <1>2, <1>7 DEF CallFn, CallC, CallOn, InRun, InLibC, InC
  <2> QED
    BY <1>6, <1>7, <2>1 DEF CallFn, CallC, CallOn, EnterNative, Kinds
<1>8. ASSUME NEW argc \in 0 .. MaxArgs, HbsCall(argc) PROVE CInv'
  <2>1. Fine /\ top' \in {top, top + 1} /\ EnterFrame("hbs", argc)
    BY <1>8 DEF HbsCall, InLibC, InC
  <2>2. strayed \subseteq strayed' /\ strayed' \subseteq Strays /\ strayed' # {}
    BY <1>2, <1>8, <2>1 DEF HbsCall, Stray, Strays
  <2> QED
    BY <1>6, <2>1, <2>2
<1>9. CASE Interp \/ OpenLib
  <2>1. Fine /\ strayed' = strayed /\ strayed \subseteq Strays /\ top' \in {top, top + 1}
    BY <1>2, <1>9 DEF Interp, OpenLib, AtHost, InLibC, InC
  <2>2. 0 \in 0 .. MaxArgs
    BY CallsAssumption
  <2> QED
    BY <1>6, <1>9, <2>1, <2>2 DEF Interp, OpenLib, EnterNative, Kinds
<1>10. ASSUME Fine, frames # <<>>, frames' = Front(frames), top' = Last(frames).base + 1
       PROVE  /\ Len(frames') \in Nat /\ Len(frames') <= Len(frames)
              /\ top' \in Nat /\ top' <= StackSize
  <2>1. Len(frames) - 1 \in 0 .. Len(frames) /\ Len(frames) \in Nat
    BY <1>10, Tops
  <2>2. Len(frames') = Len(frames) - 1
    BY <1>10, <2>1, Cut DEF FInv, Front
  <2>3. top' \in Nat /\ top' <= top
    BY <1>10, Tops
  <2> QED
    BY <1>2, <1>10, <2>1, <2>2, <2>3, CallsAssumption
<1>11. CASE Ret
  <2>1. /\ Fine /\ native # <<>> /\ Last(native) # "c" /\ strayed' = strayed
        /\ frames # <<>> /\ frames' = Front(frames) /\ top' = Last(frames).base + 1
        /\ wrong' \in Files
    BY <1>11 DEF Ret, InRun, Files
  <2>2. ASSUME InStep PROVE InStep'
    <3>1. Last(frames).type \in {"hbs", "script", "reenter"}
      BY <2>1, <2>2, Tops, LastFrame DEF Frame, Belongs, Kinds
    <3>2. \/ Last(frames).type = "hbs" /\ native' = native
          \/ Last(frames).type # "hbs" /\ native' = SubSeq(native, 1, Len(native) - 1)
      BY <1>11, <3>1 DEF Ret, Leave
    <3> QED
      BY <2>1, <2>2, <3>2, StepOut
  <2>3. /\ wrong' \subseteq wrong \union {"value_array"}
        /\ "value_array" \in wrong' => top' + 1 > StackSize
    <3>1. top' \in Nat /\ "value_array" \notin wrong
      BY <1>2, <1>10, <2>1 DEF Survived
    <3>2. wrong' \in {wrong, wrong \union PastValues(top' + 1)}
      BY <2>1 DEF Files
    <3>3. PastValues(top' + 1) = IF top' + 1 > StackSize THEN {"value_array"} ELSE {}
      BY <3>1, Behind
    <3> QED
      BY <3>1, <3>2, <3>3
  <2>4. /\ Len(frames') \in Nat /\ Len(frames') <= Len(frames)
        /\ top' \in Nat /\ top' <= StackSize /\ top' <= StackSize + 1 /\ ~(top' > StackSize)
        /\ "value_array" \in wrong' => top' >= StackSize
    BY <1>10, <2>1, <2>3, CallsAssumption
  <2>5. wrong' \subseteq Survived \union {"wrong_frame", "value_array"}
    BY <1>2, <2>1, <2>3
  <2>6. strayed' = {} => wrong' \subseteq {"below_stack", "value_array"} /\ InStep'
    BY <1>2, <2>1, <2>2, <2>3
  <2> QED
    BY <1>2, <1>4, <2>1, <2>4, <2>5, <2>6
<1>12. CASE CRet
  <2>1. /\ Fine /\ native # <<>> /\ Last(native) = "c" /\ strayed' = strayed
        /\ frames # <<>> /\ frames' = Front(frames) /\ top' = Last(frames).base + 1
        /\ native' = SubSeq(native, 1, Len(native) - 1)
        /\ wrong' \subseteq wrong \union {"unset_frame", "wrong_frame"}
        /\ \/ wrong' = wrong
           \/ /\ native' # <<>> /\ Last(native') = "c"
              /\ frames' = <<>> \/ Last(frames').type # "c"
    BY <1>12 DEF CRet, InC, Leave, Looks
  <2>2. ASSUME InStep PROVE InStep'
    <3>1. Last(frames).type # "hbs"
      BY <2>1, <2>2, LastFrame DEF Belongs
    <3> QED
      BY <2>1, <2>2, <3>1, StepOut
  <2>3. InStep' /\ native' # <<>> /\ Last(native') = "c"
           => frames' # <<>> /\ Last(frames').type = "c"
    <3> SUFFICES ASSUME InStep', native' # <<>>, Last(native') = "c"
                 PROVE  frames' # <<>> /\ Last(frames').type = "c"
      OBVIOUS
    <3>1. Len(frames') \in Nat /\ Len(native') \in Nat \ {0}
      BY DEF FInv, NInv
    <3>2. Len(frames') # 0
      <4> SUFFICES ASSUME Len(frames') = 0 PROVE FALSE
        OBVIOUS
      <4>1. Entered(frames', 0) = Len(native') /\ Entered(frames', 0) = 0
        BY EnteredCounts DEF InStep
      <4> QED
        BY <3>1, <4>1
    <3>3. Belongs(Last(frames').type, Last(native'))
      BY <3>1, <3>2 DEF InStep, Last
    <3> QED
      BY <3>2, <3>3 DEF Belongs
  <2>4. strayed = {} => wrong' = wrong /\ InStep' /\ wrong \subseteq {"below_stack"}
    BY <1>2, <2>1, <2>2, <2>3
  <2>5. wrong' \subseteq Survived \union {"wrong_frame"} /\ "value_array" \notin wrong'
    BY <1>2, <2>1 DEF Survived
  <2>6. /\ Len(frames') \in Nat /\ Len(frames') <= Len(frames)
        /\ top' \in Nat /\ top' <= StackSize + 1 /\ ~(top' > StackSize)
    BY <1>10, <2>1, CallsAssumption
  <2>7. strayed' = {} => wrong' \subseteq {"below_stack", "value_array"} /\ InStep'
    BY <2>1, <2>4
  <2> QED
    BY <1>2, <1>4, <2>1, <2>5, <2>6, <2>7
<1>13. CASE CRetNoFrame
  <2>1. Fine /\ ~InStep /\ UNCHANGED <<frames, top, strayed>> /\ wrong' = wrong \union {"no_frame"}
    BY <1>13, LastFrame DEF CRetNoFrame, InC
  <2>2. strayed' # {} /\ strayed' \subseteq Strays
    BY <1>2, <2>1
  <2>3. /\ Bounds' /\ ~Fine' /\ OnlyUnchecked'
        /\ wrong' \subseteq Wrongs /\ "dead_jump" \notin wrong'
    BY <1>2, <2>1, <2>2, CallsAssumption DEF Bounds, Fine, OnlyUnchecked, Wrongs, Survived
  <2> QED
    BY <1>3, <2>1, <2>2, <2>3
\* The stacks are emptied.
<1>14. ASSUME Fine, Reset, strayed \subseteq strayed', strayed' \subseteq Strays,
              wrong' \subseteq Survived \union {"wrong_frame"},
              strayed' = {} => wrong' \subseteq {"below_stack"} /\ native' = <<>>
       PROVE  CInv'
  <2>1. top' = 0 /\ frames' = <<>> /\ Len(frames') = 0 /\ "value_array" \notin wrong'
    BY <1>14 DEF Reset, Survived
  <2>2. strayed' = {} => InStep'
    BY <1>14, <2>1, StepFresh
  <2>3. /\ Len(frames') \in Nat /\ Len(frames') <= Len(frames)
        /\ top' \in Nat /\ top' <= StackSize + 1 /\ ~(top' > StackSize)
    BY <1>2, <1>14, <2>1, CallsAssumption
  <2> QED
    BY <1>4, <1>14, <2>1, <2>2, <2>3
<1>15. CASE RuntimeErr
  <2>1. /\ Fine /\ Reset /\ strayed \subseteq strayed' /\ strayed' \subseteq Strays
        /\ UnderC => strayed' # {}
        /\ native # <<>> /\ Last(native) # "c"
        /\ native' = SubSeq(native, 1, Len(native) - 1)
        /\ wrong' \subseteq wrong \union {"below_stack"}
    BY <1>2, <1>15 DEF RuntimeErr, InRun, Stray, Strays, RunFails, Leave
  <2>2. ASSUME ~UnderC PROVE native' = <<>>
    <3>1. Len(native) \in Nat \ {0} /\ native[Len(native)] # "c"
      BY <2>1 DEF NInv, Last
    <3>2. Len(native) = 1
      <4> SUFFICES ASSUME Len(native) # 1 PROVE FALSE
        OBVIOUS
      <4>0. \A n \in Nat \ {0} : n # 1 => n \in 2 .. n /\ n - 1 \in 1 .. n - 1
        OBVIOUS
      <4>1. Len(native) \in 2 .. Len(native) /\ Len(native) - 1 \in 1 .. Len(native) - 1
        BY <3>1, <4>0
      <4>2. native[Len(native) - 1] = "c"
        BY <3>1, <4>1 DEF NInv
      <4> QED
        BY <2>2, <4>1, <4>2 DEF UnderC
    <3>3. 0 \in 0 .. Len(native)
      BY <3>1
    <3>4. Len(native') = 0 /\ native' \in Seq(Kinds)
      BY <2>1, <3>2, <3>3, Cut DEF NInv
    <3> QED
      BY <3>4
  <2>3. strayed' = {} => wrong' \subseteq {"below_stack"} /\ native' = <<>>
    BY <1>2, <2>1, <2>2
  <2>4. wrong' \subseteq Survived \union {"wrong_frame"}
    BY <1>2, <2>1 DEF Survived
  <2> QED
    BY <1>14, <2>1, <2>3, <2>4
<1>16. CASE InvokeFails
  <2>1. /\ Fine /\ Reset /\ strayed' = strayed \union {"error_under_c"}
        /\ wrong' \subseteq wrong \union {"unset_frame", "wrong_frame"}
    BY <1>16 DEF InvokeFails, InLibC, InC, Stray, Looks
  <2>2. strayed' \subseteq Strays /\ strayed' # {} /\ strayed \subseteq strayed'
    BY <1>2, <2>1 DEF Strays
  <2>3. wrong' \subseteq Survived \union {"wrong_frame"}
    BY <1>2, <2>1 DEF Survived
  <2> QED
    BY <1>14, <2>1, <2>2, <2>3
<1>17. CASE HbsErr
  <2>1. /\ Fine /\ native # <<>> /\ Last(native) = "c" /\ Len(native) > 1 /\ Reset
        /\ strayed \subseteq strayed' /\ strayed' \subseteq Strays
        /\ UnderC \/ Last(called) => strayed' # {}
    BY <1>2, <1>17 DEF HbsErr, InLibC, InC, Stray, Strays
  <2>2. /\ Len(native) \in Nat /\ native[Len(native)] = "c"
        /\ jmp \in {Unset, Dead} \union 1 .. Len(native)
        /\ Last(called) \/ jmp = Len(native)
    BY <2>1 DEF NInv, Last
  <2>3. \/ /\ jmp > 1 /\ native[jmp - 1] # "c"
           /\ native' = SubSeq(native, 1, jmp - 1 - 1)
           /\ wrong' \subseteq wrong \union {"below_stack"}
        \/ /\ jmp > 1 /\ native[jmp - 1] = "c"
           /\ wrong' \subseteq wrong \union {"unset_frame", "wrong_frame"}
        \/ /\ jmp \in {Unset, Dead} /\ wrong' = wrong \union {"dead_jump"} /\ called' = called
    BY <1>17 DEF HbsErr, RunFails, Leave, Looks
  <2>4. CASE jmp \in {Unset, Dead}
    <3>1. ~(jmp > 1)
      BY <2>4 DEF Unset, Dead
    <3>2. Last(called) /\ wrong' = wrong \union {"dead_jump"} /\ called' = called
      BY <2>1, <2>2, <2>3, <3>1
    <3>3. strayed' # {} /\ ~Fine' /\ Last(called') /\ wrong' \subseteq Wrongs
      BY <1>2, <2>1, <3>2 DEF Fine, Survived, Wrongs, Last
    <3>4. top' = 0
      BY <2>1 DEF Reset
    <3>5. Bounds' /\ OnlyUnchecked'
      BY <3>3, <3>4, CallsAssumption DEF Bounds, OnlyUnchecked
    <3> QED
      BY <1>3, <2>1, <3>3, <3>5
  <2>5. CASE jmp \notin {Unset, Dead}
    <3>1. wrong' \subseteq Survived \union {"wrong_frame"}
      BY <1>2, <2>1, <2>3, <2>5 DEF Survived
    <3>2. ASSUME strayed' = {} PROVE wrong' \subseteq {"below_stack"} /\ native' = <<>>
      <4>1. jmp = Len(native) /\ ~UnderC /\ strayed = {}
        BY <2>1, <2>2, <3>2
      <4>2. Len(native) - 1 \in 1 .. Len(native) - 1 /\ native[Len(native) - 1] # "c"
        BY <2>1, <2>2, <4>1 DEF UnderC
      <4>3. /\ wrong' \subseteq wrong \union {"below_stack"}
            /\ native' = SubSeq(native, 1, Len(native) - 1 - 1)
        BY <2>3, <2>5, <4>1, <4>2
      <4>4. Len(native) = 2
        <5> SUFFICES ASSUME Len(native) # 2 PROVE FALSE
          OBVIOUS
        <5>0. \A n \in Nat : n > 1 /\ n # 2 => n - 1 \in 2 .. n /\ n - 1 - 1 \in 1 .. n - 1
          OBVIOUS
        <5>1. /\ Len(native) - 1 \in 2 .. Len(native)
              /\ Len(native) - 1 - 1 \in 1 .. Len(native) - 1
          BY <2>1, <2>2, <5>0
        <5>2. native[Len(native) - 1 - 1] = "c"
          BY <4>2, <5>1 DEF NInv
        <5> QED
          BY <4>1, <5>1, <5>2 DEF UnderC
      <4>5. Len(native') = 0 /\ native' \in Seq(Kinds)
        <5>1. 0 \in 0 .. Len(native) /\ native' = SubSeq(native, 1, 0)
          BY <4>3, <4>4
        <5> QED
          BY <5>1, Cut DEF NInv
      <4>6. native' = <<>>
        BY <4>5
      <4> QED
        BY <1>2, <2>1, <4>1, <4>3, <4>6
    <3> QED
      BY <1>14, <2>1, <3>1, <3>2
  <2> QED
    BY <2>4, <2>5
<1> QED
  BY <1>1, <1>5, <1>7, <1>8, <1>9, <1>11, <1>12, <1>13, <1>15, <1>16, <1>17
  DEF Next, Stop

THEOREM InvariantHolds == Spec => []IInv
<1>1. Init => IInv
  BY InitFInv, InitNInv, InitCInv DEF IInv
<1>2. IInv /\ [Next]_vars => IInv'
  BY NextFInv, NextNInv, NextCInv DEF IInv
<1> QED
  BY <1>1, <1>2, PTL DEF Spec

-----------------------------------------------------------------------------
(* What follows.                                                            *)

\* err_jmp is unset, left dangling by a call_c that has returned, or leads to an
\* activation in progress, and the stacks have their types.
THEOREM TypeCorrect == Spec => []TypeOK
<1>1. IInv => TypeOK
  BY Bases DEF IInv, FInv, NInv, CInv, Bounds, TypeOK, Frame, Kinds
<1> QED
  BY <1>1, InvariantHolds, PTL

\* No call reaches below its own frame: a callee and its arguments stay in place
\* under every call above them, however deep, whatever fails in between.
THEOREM FramesKeepValues == Spec => []FramesNested
<1>1. IInv => FramesNested
  BY DEF IInv, FInv
<1> QED
  BY <1>1, InvariantHolds, PTL

\* frame_stack and the C stack agree at any depth, until an error is raised below
\* a C function, a C function fails after calling, or hbs_call is used: bc_ret
\* ends the run that its frame started, call_c leaves through its own frame.
THEOREM StacksAligned == Spec => []Aligned
<1>1. IInv => Aligned
  BY DEF IInv, CInv
<1> QED
  BY <1>1, InvariantHolds, PTL

\* Until then nothing of the stacks is read or written that is not there, but the
\* entry behind frame_stack when it is full, the values behind h->stack when that
\* is full, and, after a script has failed, what lies below the stack.
THEOREM OnlyWhatIsUnchecked == Spec => []OnlyUnchecked
<1>1. IInv => OnlyUnchecked
  BY DEF IInv, CInv
<1> QED
  BY <1>1, InvariantHolds, PTL

\* hbs_err in a C function that has called nothing finds the call_c it was
\* entered by, even after the program has strayed.
THEOREM EarlyErrors == Spec => []EarlyErrorsCaught
<1>1. IInv => EarlyErrorsCaught
  BY DEF IInv, CInv
<1> QED
  BY <1>1, InvariantHolds, PTL
=============================================================================
