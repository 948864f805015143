--------------------------- MODULE UpvaluesProofs ---------------------------
(* Theorems about Upvalues, for any number of calls, slots, closures and     *)
(* upvalues: until a jump or an error drops a captured variable, every       *)
(* closure sees the value its variable was last given.                       *)
EXTENDS Upvalues, FiniteSetTheorems, SequenceTheorems, WellFoundedInduction, TLAPS

-----------------------------------------------------------------------------
(* Choices, and sequences that grow and shrink at the end.                   *)

LEMMA LeastOf ==
    ASSUME NEW S, S # {}, S \subseteq Nat
    PROVE  \E x \in S : \A y \in S : x <= y
<1>1. PICK x \in S : \A y \in S : <<y, x>> \notin OpToRel(<, Nat)
  BY NatLessThanWellFounded, WFMin
<1>2. \A y \in S : ~(y < x)
  BY <1>1 DEF OpToRel
<1> QED
  BY <1>2

LEMMA SetMinIn == ASSUME NEW S, S # {}, S \subseteq Nat PROVE SetMin(S) \in S
<1> QED
  BY LeastOf DEF SetMin

LEMMA Choices ==
    /\ SetMin(Vals) \in Vals /\ SetMin(VarIds) \in VarIds
    /\ UpIds \ InUse # {} => FreshUp \in UpIds \ InUse
    /\ VarIds \ Visible # {} => FreshVar \in VarIds \ Visible
    /\ \A x \in VarIds : x \in Nat \ {0}
<1>1. UpIds \subseteq Nat /\ VarIds \subseteq Nat
  BY UpvaluesAssumption
<1> QED
  BY <1>1, SetMinIn, UpvaluesAssumption DEF FreshUp, FreshVar

LEMMA Appended ==
    ASSUME NEW S, NEW s \in Seq(S), NEW e \in S
    PROVE  /\ Append(s, e) \in Seq(S) /\ Len(Append(s, e)) = Len(s) + 1 /\ Len(s) \in Nat
           /\ \A x \in 1 .. Len(s) : Append(s, e)[x] = s[x]
           /\ Append(s, e)[Len(s) + 1] = e
<1> QED
  OBVIOUS

LEMMA Cut ==
    ASSUME NEW S, NEW s \in Seq(S), NEW n \in 0 .. Len(s)
    PROVE  /\ SubSeq(s, 1, n) \in Seq(S) /\ Len(SubSeq(s, 1, n)) = n /\ Len(s) \in Nat
           /\ \A x \in 1 .. n : SubSeq(s, 1, n)[x] = s[x]
<1>1. \A x \in 1 .. n : s[x] \in S
  OBVIOUS
<1>2. n \in Int /\ 1 \in Int /\ Len(s) \in Nat
  OBVIOUS
<1>3. /\ SubSeq(s, 1, n) \in Seq(S)
      /\ Len(SubSeq(s, 1, n)) = IF 1 <= n THEN n - 1 + 1 ELSE 0
      /\ \A x \in 1 .. n - 1 + 1 : SubSeq(s, 1, n)[x] = s[1 + x - 1]
  BY <1>1, <1>2, SubSeqProperties
<1> QED
  BY <1>2, <1>3

LEMMA Rest ==
    ASSUME NEW S, NEW s \in Seq(S), NEW n \in 0 .. Len(s)
    PROVE  LET r == SubSeq(s, n + 1, Len(s))
           IN  /\ r \in Seq(S) /\ Len(r) = Len(s) - n /\ Len(s) \in Nat
               /\ \A x \in 1 .. Len(s) - n : r[x] = s[x + n]
<1>1. \A x \in n + 1 .. Len(s) : s[x] \in S
  OBVIOUS
<1>2. n + 1 \in Int /\ Len(s) \in Int /\ Len(s) \in Nat /\ n \in Nat
  OBVIOUS
<1>3. /\ SubSeq(s, n + 1, Len(s)) \in Seq(S)
      /\ Len(SubSeq(s, n + 1, Len(s))) = IF n + 1 <= Len(s) THEN Len(s) - (n + 1) + 1 ELSE 0
      /\ \A x \in 1 .. Len(s) - (n + 1) + 1 :
            SubSeq(s, n + 1, Len(s))[x] = s[n + 1 + x - 1]
  BY <1>1, <1>2, SubSeqProperties
<1> QED
  BY <1>2, <1>3

\* A set of places that holds, with each, those before it.
LEMMA Prefix ==
    ASSUME NEW L \in Nat, NEW S, S \subseteq 1 .. L,
           \A p \in S : \A q \in 1 .. L : q < p => q \in S
    PROVE  Cardinality(S) \in 0 .. L /\ S = 1 .. Cardinality(S)
<1>1. PICK m \in 0 .. L : S = 1 .. m
  <2>1. CASE S = 1 .. L
    BY <2>1
  <2>2. CASE S # 1 .. L
    <3> DEFINE R == (1 .. L) \ S
    <3>1. R # {}
      BY <2>2, Zenon
    <3>2. R \subseteq Nat
      OBVIOUS
    <3>3. PICK x \in R : \A y \in R : x <= y
      <4> HIDE DEF R
      <4> QED
        BY <3>1, <3>2, LeastOf
    <3>4. \A p \in 1 .. L : p \in S <=> p < x
      <4> SUFFICES ASSUME NEW p \in 1 .. L PROVE p \in S <=> p < x
        OBVIOUS
      <4>1. x \in 1 .. L /\ x \notin S
        OBVIOUS
      <4>2. p < x => p \in S
        BY <3>3, <4>1
      <4>3. p \in S => p # x /\ ~(x < p)
        BY <4>1
      <4> QED
        BY <4>1, <4>2, <4>3
    <3>5. x \in 1 .. L /\ \A p : p \in 1 .. x - 1 <=> p \in 1 .. L /\ p < x
      OBVIOUS
    <3>6. \A p : p \in S <=> p \in 1 .. x - 1
      BY <3>4, <3>5
    <3>7. S = 1 .. x - 1
      BY <3>6, Zenon
    <3> QED
      BY <3>5, <3>7
  <2> QED
    BY <2>1, <2>2
<1>2. Cardinality(1 .. m) = m
  <2>1. Cardinality(1 .. m) = IF 1 > m THEN 0 ELSE m - 1 + 1
    BY FS_Interval
  <2> QED
    BY <2>1
<1> QED
  BY <1>1, <1>2

LEMMA MembersIn ==
    ASSUME NEW S, NEW s \in Seq(S)
    PROVE  /\ Members(s) \subseteq S
           /\ \A e \in S : Members(Append(s, e)) = Members(s) \union {e}
           /\ \A n \in 0 .. Len(s) : Members(Front(s, n)) \subseteq Members(s)
<1>1. Members(s) \subseteq S
  BY DEF Members
<1>2. ASSUME NEW e \in S PROVE Members(Append(s, e)) = Members(s) \union {e}
  <2> DEFINE t == Append(s, e)
  <2>1. /\ Len(t) = Len(s) + 1 /\ Len(s) \in Nat
        /\ \A x \in 1 .. Len(s) : t[x] = s[x]
        /\ t[Len(s) + 1] = e
    BY Appended
  <2> HIDE DEF t
  <2>2. ASSUME NEW m PROVE m \in Members(t) <=> m \in Members(s) \union {e}
    <3>1. m \in Members(t) <=> \E x \in 1 .. Len(s) + 1 : t[x] = m
      BY <2>1 DEF Members
    <3>2. (\E x \in 1 .. Len(s) + 1 : t[x] = m)
             <=> (\E x \in 1 .. Len(s) : s[x] = m) \/ m = e
      BY <2>1
    <3> QED
      BY <3>1, <3>2 DEF Members
  <2>3. Members(t) = Members(s) \union {e}
    BY <2>2
  <2> QED
    BY <2>3 DEF t
<1>3. ASSUME NEW n \in 0 .. Len(s) PROVE Members(Front(s, n)) \subseteq Members(s)
  BY Cut DEF Members, Front
<1> QED
  BY <1>1, <1>2, <1>3

-----------------------------------------------------------------------------
(* The invariant, in five parts.  First the slots and their variables.       *)

Slots == 1 .. Top

StackInv == /\ stack \in Seq(Vals) /\ captured \in Seq(BOOLEAN)
            /\ var \in Seq(VarIds \union {0})
            /\ Len(captured) = Top /\ Len(var) = Top
            /\ \A i \in Slots : captured[i] <=> var[i] # 0
            /\ \A i, j \in Slots : var[i] # 0 /\ var[i] = var[j] => i = j

\* What a push, and a cut, do to the slots.
LEMMA Pushed ==
    ASSUME StackInv, NEW v \in Vals, NEW c \in BOOLEAN, Push(v, c)
    PROVE  /\ Top' = Top + 1 /\ Top \in Nat
           /\ \A i \in Slots : stack'[i] = stack[i] /\ captured'[i] = captured[i] /\ var'[i] = var[i]
           /\ stack'[Top + 1] = v
           /\ var'[Top + 1] = IF c THEN FreshVar ELSE 0
           /\ c => FreshVar \in VarIds \ Visible
           /\ value' = IF c THEN [value EXCEPT ![FreshVar] = v] ELSE value
           /\ StackInv'
<1>1. c => FreshVar \in VarIds \ Visible
  BY Choices DEF Push
<1>2. /\ stack' \in Seq(Vals) /\ Len(stack') = Top + 1 /\ Top \in Nat
      /\ \A i \in Slots : stack'[i] = stack[i]
      /\ stack'[Top + 1] = v
  BY Appended DEF StackInv, Push, Top, Slots
<1>3. /\ captured' \in Seq(BOOLEAN) /\ Len(captured') = Top + 1
      /\ \A i \in Slots : captured'[i] = captured[i]
      /\ captured'[Top + 1] = c
  <2>1. captured' = Append(captured, c) /\ captured \in Seq(BOOLEAN)
    BY DEF StackInv, Push
  <2> QED
    BY <2>1, Appended DEF StackInv, Slots
<1> DEFINE x == IF c THEN FreshVar ELSE 0
<1>4. /\ var' \in Seq(VarIds \union {0}) /\ Len(var') = Top + 1
      /\ \A i \in Slots : var'[i] = var[i]
      /\ var'[Top + 1] = x
  <2>1. var' = Append(var, x) /\ x \in VarIds \union {0} /\ var \in Seq(VarIds \union {0})
    BY <1>1 DEF Push, StackInv
  <2> HIDE DEF x
  <2> QED
    BY <2>1, Appended DEF StackInv, Slots
<1>5. \A i \in Slots : c => var[i] # x
  <2>1. \A i \in Slots : var[i] \in Visible
    BY DEF Visible, Members, StackInv, Slots
  <2> QED
    BY <1>1, <2>1
<1>6. x # 0 <=> c
  BY <1>1, Choices
<1>7. value' = IF c THEN [value EXCEPT ![FreshVar] = v] ELSE value
  BY DEF Push
<1> HIDE DEF x
<1>8. \A i \in 1 .. Top + 1 : i \in Slots \/ i = Top + 1
  BY <1>2 DEF Slots
<1>9. \A i \in 1 .. Top + 1 : captured'[i] <=> var'[i] # 0
  BY <1>3, <1>4, <1>6, <1>8 DEF StackInv
<1>10. \A i, j \in 1 .. Top + 1 : var'[i] # 0 /\ var'[i] = var'[j] => i = j
  BY <1>4, <1>5, <1>6, <1>8 DEF StackInv
<1>11. StackInv'
  BY <1>2, <1>3, <1>4, <1>9, <1>10 DEF StackInv, Slots, Top
<1> QED
  BY <1>1, <1>2, <1>3, <1>4, <1>7, <1>11 DEF x, Top

LEMMA Popped ==
    ASSUME StackInv, NEW n \in 0 .. Top, Pop(n)
    PROVE  /\ Top' = n /\ Top \in Nat
           /\ \A i \in 1 .. n : stack'[i] = stack[i] /\ captured'[i] = captured[i] /\ var'[i] = var[i]
           /\ StackInv'
<1>0. n \in 0 .. Len(stack) /\ n \in 0 .. Len(captured) /\ n \in 0 .. Len(var)
  BY DEF StackInv, Top
<1>1. /\ stack' \in Seq(Vals) /\ Len(stack') = n /\ Top \in Nat
      /\ \A i \in 1 .. n : stack'[i] = stack[i]
  BY <1>0, Cut DEF StackInv, Pop, Top, Front
<1>2. /\ captured' \in Seq(BOOLEAN) /\ Len(captured') = n
      /\ \A i \in 1 .. n : captured'[i] = captured[i]
  BY <1>0, Cut DEF StackInv, Pop, Top, Front
<1>3. /\ var' \in Seq(VarIds \union {0}) /\ Len(var') = n
      /\ \A i \in 1 .. n : var'[i] = var[i]
  BY <1>0, Cut DEF StackInv, Pop, Top, Front
<1>4. 1 .. n \subseteq Slots
  BY <1>1 DEF Slots
<1>5. StackInv'
  BY <1>1, <1>2, <1>3, <1>4 DEF StackInv, Slots, Top
<1> QED
  BY <1>1, <1>2, <1>3, <1>5 DEF Top

\* A return cuts the stack and puts the result, a temporary, on top.
LEMMA Returned ==
    ASSUME StackInv, NEW n \in 1 .. Top,
           stack' = Append(Front(stack, n - 1), SetMin(Vals)),
           captured' = Append(Front(captured, n - 1), FALSE),
           var' = Append(Front(var, n - 1), 0)
    PROVE  /\ Top' = n /\ Top \in Nat
           /\ \A i \in 1 .. n - 1 : stack'[i] = stack[i] /\ var'[i] = var[i]
           /\ var'[n] = 0
           /\ StackInv'
<1>0. /\ n - 1 \in 0 .. Len(stack) /\ n - 1 \in 0 .. Len(captured) /\ n - 1 \in 0 .. Len(var)
      /\ Top \in Nat /\ n \in Nat
  BY DEF StackInv, Top
<1>1. /\ stack' \in Seq(Vals) /\ Len(stack') = n
      /\ \A i \in 1 .. n - 1 : stack'[i] = stack[i]
  <2>1. /\ Front(stack, n - 1) \in Seq(Vals) /\ Len(Front(stack, n - 1)) = n - 1
        /\ \A x \in 1 .. n - 1 : Front(stack, n - 1)[x] = stack[x]
    BY <1>0, Cut DEF StackInv, Top, Front
  <2> QED
    BY <1>0, <2>1, Appended, Choices
<1>2. /\ captured' \in Seq(BOOLEAN) /\ Len(captured') = n
      /\ \A i \in 1 .. n - 1 : captured'[i] = captured[i]
      /\ captured'[n] = FALSE
  <2>1. /\ Front(captured, n - 1) \in Seq(BOOLEAN) /\ Len(Front(captured, n - 1)) = n - 1
        /\ \A x \in 1 .. n - 1 : Front(captured, n - 1)[x] = captured[x]
    BY <1>0, Cut DEF StackInv, Top, Front
  <2>2. PICK no \in BOOLEAN : no = FALSE
    OBVIOUS
  <2>3. PICK s \in Seq(BOOLEAN) : s = Front(captured, n - 1)
    BY <2>1
  <2>4. captured' = Append(s, no)
    BY <2>2, <2>3
  <2>5. /\ captured' \in Seq(BOOLEAN) /\ Len(captured') = Len(s) + 1
        /\ \A x \in 1 .. Len(s) : captured'[x] = s[x]
        /\ captured'[Len(s) + 1] = no
    <3>1. /\ Append(s, no) \in Seq(BOOLEAN) /\ Len(Append(s, no)) = Len(s) + 1
          /\ \A x \in 1 .. Len(s) : Append(s, no)[x] = s[x]
          /\ Append(s, no)[Len(s) + 1] = no
      BY Appended
    <3> QED
      BY <2>4, <3>1
  <2>6. Len(s) = n - 1 /\ Len(s) + 1 = n
    BY <1>0, <2>1, <2>3
  <2> QED
    BY <2>1, <2>2, <2>3, <2>5, <2>6
<1>3. /\ var' \in Seq(VarIds \union {0}) /\ Len(var') = n
      /\ \A i \in 1 .. n - 1 : var'[i] = var[i]
      /\ var'[n] = 0
  <2>1. /\ Front(var, n - 1) \in Seq(VarIds \union {0}) /\ Len(Front(var, n - 1)) = n - 1
        /\ \A x \in 1 .. n - 1 : Front(var, n - 1)[x] = var[x]
    BY <1>0, Cut DEF StackInv, Top, Front
  <2>2. 0 \in VarIds \union {0}
    OBVIOUS
  <2> QED
    BY <1>0, <2>1, <2>2, Appended
<1>4. \A i \in 1 .. n : i = n \/ (i \in 1 .. n - 1 /\ i \in Slots)
  BY <1>0 DEF Slots
<1>5. \A i \in 1 .. n : captured'[i] <=> var'[i] # 0
  BY <1>2, <1>3, <1>4 DEF StackInv
<1>6. \A i, j \in 1 .. n : var'[i] # 0 /\ var'[i] = var'[j] => i = j
  <2> SUFFICES ASSUME NEW i \in 1 .. n, NEW j \in 1 .. n, var'[i] # 0, var'[i] = var'[j]
               PROVE  i = j
    OBVIOUS
  <2>1. i # n /\ j # n
    BY <1>3
  <2>2. /\ i \in 1 .. n - 1 /\ i \in Slots /\ var'[i] = var[i]
        /\ j \in 1 .. n - 1 /\ j \in Slots /\ var'[j] = var[j]
    BY <1>3, <1>4, <2>1
  <2> QED
    BY <2>2 DEF StackInv
<1>7. StackInv'
  BY <1>1, <1>2, <1>3, <1>5, <1>6 DEF StackInv, Slots, Top
<1> QED
  BY <1>0, <1>1, <1>3, <1>7 DEF Top

\* A slot is given a value.
LEMMA Given ==
    ASSUME StackInv, stack' \in Seq(Vals), Len(stack') = Len(stack), UNCHANGED <<captured, var>>
    PROVE  StackInv' /\ Top' = Top
<1> QED
  BY DEF StackInv, Slots, Top

-----------------------------------------------------------------------------
(* Second, the calls.  The slots below the first belong to the embedding     *)
(* program and are never captured.                                           *)

CallFrame == [base : Nat \ {0}, fn : Seq(UpIds)]

FrameInv == /\ frames \in Seq(CallFrame)
            /\ \A f, g \in 1 .. Len(frames) : f < g => frames[f].base < frames[g].base
            /\ frames # <<>> => Frame.base <= Top
            /\ \A i \in Slots :
                  (\A f \in 1 .. Len(frames) : i < frames[f].base) => var[i] = 0

LEMMA FrameFacts ==
    ASSUME FrameInv
    PROVE  /\ Len(frames) \in Nat
           /\ \A f \in 1 .. Len(frames) :
                 frames[f].base \in Nat \ {0} /\ frames[f].fn \in Seq(UpIds)
           /\ frames # <<>> =>
                 /\ Len(frames) \in 1 .. Len(frames) /\ Frame = frames[Len(frames)]
                 /\ Frame.base \in Nat \ {0} /\ Frame.fn \in Seq(UpIds)
                 /\ Frame.base <= Top
<1>1. \A f \in 1 .. Len(frames) : frames[f] \in CallFrame
  BY DEF FrameInv
<1>2. \A c \in CallFrame : c.base \in Nat \ {0} /\ c.fn \in Seq(UpIds)
  BY DEF CallFrame
<1>3. Len(frames) \in Nat /\ (frames # <<>> => Len(frames) \in 1 .. Len(frames))
  BY DEF FrameInv
<1> QED
  BY <1>1, <1>2, <1>3 DEF FrameInv, Frame

\* Slots above the frame come and go, or change.
LEMMA FramesStay ==
    ASSUME FrameInv, frames' = frames, Top \in Nat, Top' \in Nat,
           frames # <<>> => Frame.base <= Top',
           \A i \in 1 .. Top' : (i \in Slots /\ var'[i] = var[i]) \/ (frames # <<>> /\ i > Top)
    PROVE  FrameInv'
<1>1. frames' # <<>> => Frame'.base <= Top'
  BY DEF Frame
<1>2. ASSUME NEW i \in 1 .. Top', \A f \in 1 .. Len(frames) : i < frames[f].base
      PROVE  var'[i] = 0
  <2>1. ~(frames # <<>> /\ i > Top)
    BY <1>2, FrameFacts
  <2> QED
    BY <1>2, <2>1 DEF FrameInv
<1> QED
  BY <1>1, <1>2 DEF FrameInv, Slots

LEMMA FrameEntered ==
    ASSUME FrameInv, StackInv, NEW fn \in Seq(UpIds), NEW self \in BOOLEAN, Enter(fn, self),
           frames = <<>> => ~self
    PROVE  FrameInv'
<1> DEFINE fr == [base |-> Top + 1, fn |-> fn]
<1>1. /\ Top' = Top + 1 /\ Top \in Nat
      /\ \A i \in Slots : var'[i] = var[i]
  BY Pushed, Choices DEF Enter
<1>2. fr \in CallFrame /\ fr.base = Top + 1 /\ frames' = Append(frames, fr)
  BY <1>1 DEF CallFrame, Enter
<1> HIDE DEF fr
<1>3. /\ frames' \in Seq(CallFrame) /\ Len(frames') = Len(frames) + 1 /\ Len(frames) \in Nat
      /\ \A f \in 1 .. Len(frames) : frames'[f] = frames[f]
      /\ frames'[Len(frames) + 1] = fr
  BY <1>2, Appended DEF FrameInv
<1>4. \A f \in 1 .. Len(frames) : frames[f].base <= Top /\ frames[f].base \in Nat
  <2> SUFFICES ASSUME NEW f \in 1 .. Len(frames)
               PROVE  frames[f].base <= Top /\ frames[f].base \in Nat
    OBVIOUS
  <2>1. frames # <<>> /\ frames[f].base \in Nat
    BY <1>3, FrameFacts
  <2>2. f = Len(frames) \/ frames[f].base < frames[Len(frames)].base
    BY <1>3 DEF FrameInv
  <2> QED
    BY <1>1, <2>1, <2>2, FrameFacts
<1>5. \A f, g \in 1 .. Len(frames') : f < g => frames'[f].base < frames'[g].base
  <2> SUFFICES ASSUME NEW f \in 1 .. Len(frames'), NEW g \in 1 .. Len(frames'), f < g
               PROVE  frames'[f].base < frames'[g].base
    OBVIOUS
  <2>1. f \in 1 .. Len(frames) /\ frames'[f] = frames[f]
    BY <1>3
  <2>2. CASE g = Len(frames) + 1
    BY <1>1, <1>2, <1>3, <1>4, <2>1, <2>2
  <2>3. CASE g # Len(frames) + 1
    <3>1. g \in 1 .. Len(frames) /\ frames'[g] = frames[g]
      BY <1>3, <2>3
    <3> QED
      BY <2>1, <3>1 DEF FrameInv
  <2> QED
    BY <2>2, <2>3
<1>6. Frame'.base = Top'
  BY <1>1, <1>2, <1>3 DEF Frame
<1>7. ASSUME NEW i \in 1 .. Top', \A f \in 1 .. Len(frames') : i < frames'[f].base
      PROVE  var'[i] = 0
  <2>1. i < Top + 1
    BY <1>2, <1>3, <1>7
  <2>2. i \in Slots /\ var'[i] = var[i]
    BY <1>1, <2>1 DEF Slots
  <2>3. \A f \in 1 .. Len(frames) : i < frames[f].base
    BY <1>3, <1>7
  <2> QED
    BY <2>2, <2>3 DEF FrameInv
<1> QED
  BY <1>1, <1>3, <1>5, <1>6, <1>7 DEF FrameInv, Slots

LEMMA FrameLeft == ASSUME FrameInv, StackInv, Ret PROVE FrameInv'
<1>1. /\ frames # <<>> /\ frames' = Front(frames, Len(frames) - 1)
      /\ Frame = frames[Len(frames)] /\ Frame.base \in Nat \ {0} /\ Frame.base <= Top
      /\ Len(frames) \in Nat \ {0} /\ Len(frames) \in 1 .. Len(frames)
  BY FrameFacts DEF Ret, Running
<1>2. Frame.base \in 1 .. Top
  BY <1>1 DEF StackInv, Top
<1>3. /\ Top' = Frame.base
      /\ \A i \in 1 .. Frame.base - 1 : var'[i] = var[i]
      /\ var'[Frame.base] = 0
  BY <1>2, Returned DEF Ret
<1>4. /\ frames' \in Seq(CallFrame) /\ Len(frames') = Len(frames) - 1
      /\ \A f \in 1 .. Len(frames) - 1 : frames'[f] = frames[f]
  <2>1. Len(frames) - 1 \in 0 .. Len(frames)
    BY <1>1
  <2> QED
    BY <1>1, <2>1, Cut DEF FrameInv, Front
<1>5. \A f \in 1 .. Len(frames) - 1 : frames[f].base < Frame.base
  BY <1>1 DEF FrameInv
<1>6. frames' # <<>> => Frame'.base <= Top'
  <2> SUFFICES ASSUME frames' # <<>> PROVE frames'[Len(frames')].base <= Top'
    BY DEF Frame
  <2>1. Len(frames) - 1 \in 1 .. Len(frames) - 1
    BY <1>1, <1>4
  <2>2. frames'[Len(frames')].base = frames[Len(frames) - 1].base
    BY <1>4, <2>1
  <2>3. frames[Len(frames) - 1].base \in Nat
    BY <1>1, <2>1, FrameFacts
  <2> QED
    BY <1>1, <1>3, <1>5, <2>1, <2>2, <2>3
<1>7. ASSUME NEW i \in 1 .. Top', \A f \in 1 .. Len(frames') : i < frames'[f].base
      PROVE  var'[i] = 0
  <2>1. CASE i = Frame.base
    BY <1>3, <2>1
  <2>2. CASE i # Frame.base
    <3>1. i \in 1 .. Frame.base - 1 /\ i < Frame.base
      BY <1>1, <1>3, <2>2
    <3>2. i \in Slots
      <4>1. Top \in Nat /\ i \in Nat \ {0} /\ i <= Top
        BY <1>1, <1>2, <3>1 DEF StackInv, Top
      <4> QED
        BY <4>1 DEF Slots
    <3>3. \A f \in 1 .. Len(frames) : i < frames[f].base
      <4> SUFFICES ASSUME NEW f \in 1 .. Len(frames) PROVE i < frames[f].base
        OBVIOUS
      <4>1. f = Len(frames) \/ f \in 1 .. Len(frames) - 1
        BY <1>1
      <4> QED
        BY <1>1, <1>4, <1>7, <3>1, <4>1
    <3> QED
      BY <1>3, <3>1, <3>2, <3>3 DEF FrameInv
  <2> QED
    BY <2>1, <2>2
<1>8. \A f, g \in 1 .. Len(frames') : f < g => frames'[f].base < frames'[g].base
  <2> SUFFICES ASSUME NEW f \in 1 .. Len(frames'), NEW g \in 1 .. Len(frames'), f < g
               PROVE  frames'[f].base < frames'[g].base
    OBVIOUS
  <2>1. /\ f \in 1 .. Len(frames) /\ frames'[f] = frames[f]
        /\ g \in 1 .. Len(frames) /\ frames'[g] = frames[g]
    BY <1>1, <1>4
  <2> QED
    BY <2>1 DEF FrameInv
<1> QED
  BY <1>4, <1>6, <1>7, <1>8 DEF FrameInv, Slots

-----------------------------------------------------------------------------
(* Third, the types of upvalues and closures.                                *)

Upvalue == [loc : Nat, closed : Vals]

HeapInv == /\ open \in Seq(UpIds) /\ up \in [UpIds -> Upvalue]
           /\ closures \subseteq Seq(UpIds) /\ making \in Seq(UpIds)
           /\ upVar \in [UpIds -> VarIds] /\ value \in [VarIds -> Vals]

\* Who uses which upvalue.
LEMMA UsedAre ==
    ASSUME NEW u
    PROVE  /\ u \in Held <=> \/ \E c \in closures : u \in Members(c)
                             \/ \E f \in 1 .. Len(frames) : u \in Members(frames[f].fn)
                             \/ u \in Members(making)
           /\ u \in InUse <=> u \in Held \/ u \in Members(open)
<1> QED
  BY DEF Held, InUse

LEMMA UsedAreUpvalues == ASSUME HeapInv, FrameInv PROVE InUse \subseteq UpIds
<1>1. \A s \in Seq(UpIds) : Members(s) \subseteq UpIds
  BY MembersIn
<1>2. \A f \in 1 .. Len(frames) : frames[f].fn \in Seq(UpIds)
  BY FrameFacts
<1> QED
  BY <1>1, <1>2, UsedAre DEF HeapInv

LEMMA UpvalueTyped ==
    ASSUME HeapInv, NEW u \in UpIds
    PROVE  up[u].loc \in Nat /\ up[u].closed \in Vals /\ upVar[u] \in VarIds
<1>1. up[u] \in Upvalue
  BY DEF HeapInv
<1> QED
  BY <1>1 DEF HeapInv, Upvalue

LEMMA Settled ==
    ASSUME HeapInv, NEW ups \in [UpIds -> Upvalue], Settle(ups)
    PROVE  /\ up' \in [UpIds -> Upvalue] /\ upVar' \in [UpIds -> VarIds]
           /\ \A u \in UpIds : u \in InUse' => up'[u] = ups[u] /\ upVar'[u] = upVar[u]
<1>1. NoUpvalue \in Upvalue
  BY Choices DEF NoUpvalue, Upvalue
<1> QED
  BY <1>1, Choices DEF Settle, HeapInv

LEMMA Remembered ==
    ASSUME NEW f \in [VarIds -> Vals], Remember(f)
    PROVE  /\ value' \in [VarIds -> Vals]
           /\ \A x \in VarIds : x \in Visible' => value'[x] = f[x]
<1> QED
  BY Choices DEF Remember

-----------------------------------------------------------------------------
(* Fourth, the list of open upvalues, and which variable each upvalue is.    *)

OpenInv == /\ \A p \in 1 .. Len(open) : up[open[p]].loc > 0
           /\ \A p, q \in 1 .. Len(open) : p < q => up[open[p]].loc > up[open[q]].loc
           /\ \A u \in InUse, i \in Slots :
                 upVar[u] = var[i] => u \in Members(open) /\ up[u].loc = i
           /\ \A u, w \in InUse : upVar[u] = upVar[w] => u = w

LEMMA OpenFacts ==
    ASSUME HeapInv, OpenInv
    PROVE  /\ Len(open) \in Nat
           /\ \A p \in 1 .. Len(open) : open[p] \in UpIds /\ up[open[p]].loc \in Nat \ {0}
           /\ \A u \in Members(open) : u \in UpIds /\ up[u].loc \in Nat \ {0}
<1>1. \A p \in 1 .. Len(open) : open[p] \in UpIds /\ up[open[p]].loc \in Nat \ {0}
  <2> SUFFICES ASSUME NEW p \in 1 .. Len(open)
               PROVE  open[p] \in UpIds /\ up[open[p]].loc \in Nat \ {0}
    OBVIOUS
  <2>1. open[p] \in UpIds
    BY DEF HeapInv
  <2>2. up[open[p]].loc \in Nat /\ up[open[p]].loc > 0
    BY <2>1, UpvalueTyped DEF OpenInv
  <2> QED
    BY <2>1, <2>2
<1> QED
  BY <1>1 DEF Members, HeapInv

\* close_upvals may stop at the first upvalue below the slot.
LEMMA Closed ==
    ASSUME HeapInv, FrameInv, StackInv, OpenInv, NEW last \in Nat, Close(last)
    PROVE  /\ \E n \in 0 .. Len(open) : open' = SubSeq(open, n + 1, Len(open))
           /\ Members(open') = {u \in Members(open) : up[u].loc < last}
           /\ open' \in Seq(UpIds)
           /\ up' \in [UpIds -> Upvalue] /\ upVar' \in [UpIds -> VarIds]
           /\ \A u \in UpIds : u \in InUse' => upVar'[u] = upVar[u]
           /\ \A u \in UpIds : u \in InUse' =>
                 IF u \in Members(open) /\ up[u].loc >= last
                 THEN /\ up'[u].loc = 0
                      /\ up[u].loc <= Top => up'[u].closed = stack[up[u].loc]
                 ELSE up'[u] = up[u]
<1> DEFINE n == Cardinality(Closing(last))
           rest == SubSeq(open, n + 1, Len(open))
<1>1. n \in 0 .. Len(open) /\ Closing(last) = 1 .. n
  <2> DEFINE S == Closing(last)
  <2>1. S \subseteq 1 .. Len(open)
    BY DEF Closing
  <2>2. ASSUME NEW p \in S, NEW q \in 1 .. Len(open), q < p PROVE q \in S
    <3>1. p \in 1 .. Len(open) /\ up[open[p]].loc >= last
      BY <2>2 DEF Closing
    <3>2. up[open[q]].loc > up[open[p]].loc
      BY <2>2, <3>1 DEF OpenInv
    <3>3. up[open[q]].loc \in Nat /\ up[open[p]].loc \in Nat
      BY <3>1, OpenFacts
    <3> QED
      BY <3>1, <3>2, <3>3 DEF Closing
  <2>3. Len(open) \in Nat
    BY OpenFacts
  <2> HIDE DEF S
  <2>4. Cardinality(S) \in 0 .. Len(open) /\ S = 1 .. Cardinality(S)
    BY <2>1, <2>2, <2>3, Prefix
  <2> QED
    BY <2>4 DEF S
<1>2. \A p \in 1 .. Len(open) : p \in 1 .. n <=> up[open[p]].loc >= last
  BY <1>1 DEF Closing
<1>3. PICK left \in Leftovers :
         /\ open' = rest
         /\ Settle([u \in UpIds |->
                       IF u \notin Members(Front(open, n)) THEN up[u]
                       ELSE [loc |-> 0,
                             closed |-> IF up[u].loc <= Top THEN stack[up[u].loc] ELSE left]])
  BY DEF Close
<1> HIDE DEF n
<1>4. /\ rest \in Seq(UpIds) /\ Len(rest) = Len(open) - n /\ Len(open) \in Nat
      /\ \A x \in 1 .. Len(open) - n : rest[x] = open[x + n]
  BY <1>1, Rest DEF HeapInv
<1>5. \A u : u \in Members(rest) <=> u \in Members(open) /\ up[u].loc < last
  <2> SUFFICES ASSUME NEW u
               PROVE  u \in Members(rest) <=> u \in Members(open) /\ up[u].loc < last
    OBVIOUS
  <2>1. ASSUME u \in Members(rest) PROVE u \in Members(open) /\ up[u].loc < last
    <3>1. PICK x \in 1 .. Len(open) - n : u = rest[x]
      BY <1>4, <2>1 DEF Members
    <3>2. x + n \in 1 .. Len(open) /\ x + n \notin 1 .. n /\ u = open[x + n]
      BY <1>1, <1>4, <3>1
    <3>3. up[u].loc \in Nat /\ ~(up[u].loc >= last)
      BY <1>2, <3>2, OpenFacts
    <3> QED
      BY <3>2, <3>3 DEF Members
  <2>2. ASSUME u \in Members(open), up[u].loc < last PROVE u \in Members(rest)
    <3>1. PICK p \in 1 .. Len(open) : u = open[p]
      BY <2>2 DEF Members
    <3>2. up[u].loc \in Nat
      BY <3>1, OpenFacts
    <3>3. p \notin 1 .. n
      BY <1>2, <2>2, <3>1, <3>2
    <3>4. p - n \in 1 .. Len(open) - n /\ rest[p - n] = u
      BY <1>1, <1>4, <3>1, <3>3
    <3> QED
      BY <1>4, <3>4 DEF Members
  <2> QED
    BY <2>1, <2>2
<1>6. \A u : u \in Members(Front(open, n)) <=> u \in Members(open) /\ up[u].loc >= last
  <2>1. /\ Len(Front(open, n)) = n
        /\ \A x \in 1 .. n : Front(open, n)[x] = open[x]
    BY <1>1, Cut DEF HeapInv, Front
  <2>2. 1 .. n \subseteq 1 .. Len(open)
    BY <1>1, <1>4
  <2> QED
    BY <1>2, <2>1, <2>2 DEF Members
<1> HIDE DEF rest
<1> DEFINE ups == [u \in UpIds |->
                     IF u \notin Members(Front(open, n)) THEN up[u]
                     ELSE [loc |-> 0,
                           closed |-> IF up[u].loc <= Top THEN stack[up[u].loc] ELSE left]]
<1>7. ups \in [UpIds -> Upvalue]
  <2> SUFFICES ASSUME NEW u \in UpIds PROVE ups[u] \in Upvalue
    OBVIOUS
  <2>1. CASE u \notin Members(Front(open, n))
    BY <2>1 DEF HeapInv
  <2>2. CASE u \in Members(Front(open, n))
    <3>1. left \in Vals
      BY Choices DEF Leftovers
    <3>2. up[u].loc \in Nat \ {0}
      BY <1>6, <2>2, OpenFacts
    <3>3. up[u].loc <= Top => stack[up[u].loc] \in Vals
      BY <3>2 DEF StackInv, Top
    <3> QED
      BY <2>2, <3>1, <3>3 DEF Upvalue
  <2> QED
    BY <2>1, <2>2
<1>8. Settle(ups)
  BY <1>3
<1>9. \A u \in UpIds : ups[u] = IF u \in Members(open) /\ up[u].loc >= last
                                THEN [loc |-> 0, closed |-> IF up[u].loc <= Top
                                                            THEN stack[up[u].loc] ELSE left]
                                ELSE up[u]
  BY <1>6
<1> HIDE DEF ups
<1>10. /\ up' \in [UpIds -> Upvalue] /\ upVar' \in [UpIds -> VarIds]
       /\ \A u \in UpIds : u \in InUse' => up'[u] = ups[u] /\ upVar'[u] = upVar[u]
  BY <1>7, <1>8, Settled
<1>11. \A u \in UpIds : u \in InUse' =>
          IF u \in Members(open) /\ up[u].loc >= last
          THEN /\ up'[u].loc = 0
               /\ up[u].loc <= Top => up'[u].closed = stack[up[u].loc]
          ELSE up'[u] = up[u]
  <2> SUFFICES ASSUME NEW u \in UpIds, u \in InUse'
               PROVE  IF u \in Members(open) /\ up[u].loc >= last
                      THEN /\ up'[u].loc = 0
                           /\ up[u].loc <= Top => up'[u].closed = stack[up[u].loc]
                      ELSE up'[u] = up[u]
    OBVIOUS
  <2>1. up'[u] = ups[u]
    BY <1>10
  <2>2. CASE u \in Members(open) /\ up[u].loc >= last
    <3>1. up'[u] = [loc |-> 0, closed |-> IF up[u].loc <= Top
                                          THEN stack[up[u].loc] ELSE left]
      BY <1>9, <2>1, <2>2
    <3> QED
      BY <2>2, <3>1
  <2>3. CASE ~(u \in Members(open) /\ up[u].loc >= last)
    BY <1>9, <2>1, <2>3
  <2> QED
    BY <2>2, <2>3
<1>12. Members(open') = {u \in Members(open) : up[u].loc < last}
  BY <1>3, <1>5
<1> QED
  BY <1>1, <1>3, <1>4, <1>10, <1>11, <1>12 DEF rest

\* capture_upval finds the upvalue of the slot, or puts a new one in its place.
LEMMA CapturedLocal ==
    ASSUME HeapInv, FrameInv, StackInv, OpenInv, NEW i, CaptureLocal(i)
    PROVE  /\ i \in Slots /\ i \in Nat \ {0} /\ var[i] \in VarIds
           /\ \/ \E u \in Members(open) :
                    /\ up[u].loc = i /\ making' = Append(making, u)
                    /\ UNCHANGED <<open, up, upVar>>
              \/ \E x \in UpIds \ InUse, n \in 0 .. Len(open) :
                    /\ making' = Append(making, x)
                    /\ up' = [up EXCEPT ![x] = [loc |-> i, closed |-> SetMin(Vals)]]
                    /\ upVar' = [upVar EXCEPT ![x] = var[i]]
                    /\ open' \in Seq(UpIds) /\ Len(open') = Len(open) + 1
                    /\ \A p \in 1 .. n : open'[p] = open[p] /\ up[open[p]].loc > i
                    /\ open'[n + 1] = x
                    /\ \A p \in n + 1 .. Len(open) : open'[p + 1] = open[p] /\ up[open[p]].loc < i
<1>1. i \in Slots /\ i \in Nat \ {0} /\ var[i] \in VarIds
  <2>1. i \in Frame.base .. Top /\ captured[i] /\ frames # <<>>
    BY DEF CaptureLocal, Capturing
  <2>2. Frame.base \in Nat \ {0} /\ Top \in Nat
    BY <2>1, FrameFacts DEF StackInv, Top
  <2>3. i \in Slots /\ i \in Nat \ {0}
    BY <2>1, <2>2 DEF Slots
  <2>4. var[i] # 0 /\ var[i] \in VarIds \union {0}
    BY <2>1, <2>3 DEF StackInv, Slots
  <2> QED
    BY <2>3, <2>4
<1> DEFINE n == Above(i)
<1>2. /\ n \in 0 .. Len(open) /\ Len(open) \in Nat
      /\ \A p \in 1 .. Len(open) : p \in 1 .. n <=> up[open[p]].loc > i
  <2> DEFINE S == {p \in 1 .. Len(open) : up[open[p]].loc > i}
  <2>1. ASSUME NEW p \in S, NEW q \in 1 .. Len(open), q < p PROVE q \in S
    <3>1. p \in 1 .. Len(open) /\ up[open[p]].loc > i
      BY <2>1
    <3>2. up[open[q]].loc > up[open[p]].loc
      BY <2>1, <3>1 DEF OpenInv
    <3>3. up[open[q]].loc \in Nat /\ up[open[p]].loc \in Nat
      BY <3>1, OpenFacts
    <3> QED
      BY <1>1, <3>1, <3>2, <3>3
  <2>2. S \subseteq 1 .. Len(open) /\ Len(open) \in Nat
    BY OpenFacts
  <2>3. n = Cardinality(S)
    BY DEF Above
  <2>4. \A p \in 1 .. Len(open) : p \in S <=> up[open[p]].loc > i
    OBVIOUS
  <2> HIDE DEF S, n
  <2>5. Cardinality(S) \in 0 .. Len(open) /\ S = 1 .. Cardinality(S)
    BY <2>1, <2>2, Prefix
  <2> QED
    BY <2>2, <2>3, <2>4, <2>5
<1> HIDE DEF n
<1>3. CASE n < Len(open) /\ up[open[n + 1]].loc = i
  <2>1. n + 1 \in 1 .. Len(open) /\ open[n + 1] \in Members(open)
    BY <1>2, <1>3 DEF Members
  <2>2. making' = Append(making, open[n + 1]) /\ UNCHANGED <<open, up, upVar>>
    BY <1>3 DEF CaptureLocal, n
  <2> QED
    BY <1>1, <1>3, <2>1, <2>2
<1>4. CASE ~(n < Len(open) /\ up[open[n + 1]].loc = i)
  <2> DEFINE x == FreshUp
  <2>1. /\ UpIds \ InUse # {}
        /\ making' = Append(making, x)
        /\ up' = [up EXCEPT ![x] = [loc |-> i, closed |-> SetMin(Vals)]]
        /\ open' = Front(open, n) \o <<x>> \o SubSeq(open, n + 1, Len(open))
        /\ upVar' = [upVar EXCEPT ![x] = var[i]]
    BY <1>4 DEF CaptureLocal, n
  <2>2. x \in UpIds \ InUse
    BY <2>1, Choices
  <2> HIDE DEF x
  <2>3. PICK a \in Seq(UpIds) : /\ a = Front(open, n) /\ Len(a) = n
                                /\ \A p \in 1 .. n : a[p] = open[p]
    BY <1>2, Cut DEF HeapInv, Front
  <2>4. PICK b \in Seq(UpIds) : /\ b = SubSeq(open, n + 1, Len(open)) /\ Len(b) = Len(open) - n
                                /\ \A p \in 1 .. Len(open) - n : b[p] = open[p + n]
    <3>1. /\ SubSeq(open, n + 1, Len(open)) \in Seq(UpIds)
          /\ Len(SubSeq(open, n + 1, Len(open))) = Len(open) - n
          /\ \A p \in 1 .. Len(open) - n : SubSeq(open, n + 1, Len(open))[p] = open[p + n]
      BY <1>2, Rest DEF HeapInv
    <3> QED
      BY <3>1
  <2>5. PICK c \in Seq(UpIds) : /\ c = a \o <<x>> /\ Len(c) = n + 1 /\ c[n + 1] = x
                                /\ \A p \in 1 .. n : c[p] = a[p]
    <3>1. <<x>> \in Seq(UpIds) /\ Len(<<x>>) = 1 /\ <<x>>[1] = x
      BY <2>2
    <3>2. /\ a \o <<x>> \in Seq(UpIds) /\ Len(a \o <<x>>) = Len(a) + Len(<<x>>)
          /\ \A p \in 1 .. Len(a) + Len(<<x>>) :
                (a \o <<x>>)[p] = IF p <= Len(a) THEN a[p] ELSE <<x>>[p - Len(a)]
      BY <3>1, ConcatProperties
    <3> HIDE DEF Front
    <3>3. (a \o <<x>>)[n + 1] = x
      BY <1>2, <2>3, <3>1, <3>2
    <3>4. \A p \in 1 .. n : (a \o <<x>>)[p] = a[p]
      BY <1>2, <2>3, <3>1, <3>2
    <3> QED
      BY <2>3, <3>1, <3>2, <3>3, <3>4
  <2>6. /\ open' \in Seq(UpIds) /\ Len(open') = Len(open) + 1
        /\ \A p \in 1 .. Len(open) + 1 :
              open'[p] = IF p <= n + 1 THEN c[p] ELSE b[p - (n + 1)]
    <3>1. /\ c \o b \in Seq(UpIds) /\ Len(c \o b) = Len(c) + Len(b)
          /\ \A p \in 1 .. Len(c) + Len(b) :
                (c \o b)[p] = IF p <= Len(c) THEN c[p] ELSE b[p - Len(c)]
      BY ConcatProperties
    <3>2. Len(c) = n + 1 /\ Len(c) + Len(b) = Len(open) + 1
      <4>1. Len(b) = Len(open) - n
        BY <2>4
      <4>2. Len(c) = n + 1
        BY <2>5
      <4> QED
        BY <1>2, <4>1, <4>2
    <3>3. open' = c \o b
      BY <2>1, <2>3, <2>4, <2>5
    <3> QED
      BY <3>1, <3>2, <3>3
  <2>7. /\ open' \in Seq(UpIds) /\ Len(open') = Len(open) + 1
        /\ open'[n + 1] = x
        /\ \A p \in 1 .. n : open'[p] = open[p]
    <3>1. \A p \in 1 .. n : p \in 1 .. Len(open) + 1 /\ p <= n + 1
      BY <1>2
    <3>2. n + 1 \in 1 .. Len(open) + 1 /\ n + 1 <= n + 1
      BY <1>2
    <3>3. open'[n + 1] = x
      BY <2>5, <2>6, <3>2
    <3>4. \A p \in 1 .. n : open'[p] = open[p]
      BY <2>3, <2>5, <2>6, <3>1
    <3> QED
      BY <2>6, <3>3, <3>4
  <2>8. ASSUME NEW p \in n + 1 .. Len(open) PROVE open'[p + 1] = open[p]
    <3>1. /\ p + 1 \in 1 .. Len(open) + 1 /\ ~(p + 1 <= n + 1)
          /\ p + 1 - (n + 1) = p - n /\ p - n + n = p
          /\ p - n \in 1 .. Len(open) - n
      BY <1>2
    <3>2. PICK q \in 1 .. Len(open) + 1 : q = p + 1
      BY <3>1
    <3>3. open'[q] = b[q - (n + 1)]
      BY <2>6, <3>1, <3>2
    <3>4. b[p - n] = open[p]
      BY <2>4, <3>1
    <3>5. q - (n + 1) = p - n
      BY <1>2, <3>2
    <3>6. open'[q] = open[p]
      BY <3>3, <3>4, <3>5
    <3> QED
      BY <3>2, <3>6
  <2>9. ASSUME NEW p \in n + 1 .. Len(open) PROVE up[open[p]].loc < i
    <3>1. n + 1 \in 1 .. Len(open) /\ n + 1 \notin 1 .. n /\ p \in 1 .. Len(open)
      BY <1>2
    <3>2. up[open[n + 1]].loc < i
      BY <1>1, <1>2, <1>4, <3>1, OpenFacts
    <3>3. p = n + 1 \/ up[open[n + 1]].loc > up[open[p]].loc
      BY <1>2, <3>1 DEF OpenInv
    <3>4. up[open[p]].loc \in Nat /\ up[open[n + 1]].loc \in Nat
      BY <3>1, OpenFacts
    <3> QED
      BY <1>1, <3>2, <3>3, <3>4
  <2>10. \A p \in 1 .. n : up[open[p]].loc > i
    BY <1>2
  <2> QED
    BY <1>1, <1>2, <2>1, <2>2, <2>7, <2>8, <2>9, <2>10
<1> QED
  BY <1>3, <1>4

LEMMA ReadsValues == ASSUME HeapInv, StackInv, NEW u \in UpIds PROVE Reads(u) \subseteq Vals
<1>1. up[u].loc \in Nat /\ up[u].closed \in Vals
  BY UpvalueTyped
<1>2. up[u].loc # 0 /\ up[u].loc <= Top => stack[up[u].loc] \in Vals
  BY <1>1 DEF StackInv, Top
<1> QED
  BY <1>1, <1>2 DEF Reads

Typed == StackInv /\ FrameInv /\ HeapInv

LEMMA NextTyped == ASSUME Typed, OpenInv, [Next]_vars PROVE Typed'
<1> USE DEF Typed
<1>0. Top \in Nat
  BY DEF StackInv, Top
<1>2. ASSUME UNCHANGED <<stack, captured, var, frames>> PROVE StackInv' /\ FrameInv'
  BY <1>2 DEF StackInv, FrameInv, Top, Slots, Frame
<1>3. ASSUME NEW v \in Vals, NEW c \in BOOLEAN, Push(v, c), frames # <<>>, UNCHANGED frames
      PROVE  StackInv' /\ FrameInv'
  <2>1. /\ StackInv' /\ Top' = Top + 1
        /\ \A i \in Slots : var'[i] = var[i]
    BY <1>3, Pushed
  <2>2. Frame.base <= Top' /\ Top' \in Nat
    BY <1>0, <1>3, <2>1, FrameFacts
  <2>3. \A i \in 1 .. Top' : (i \in Slots /\ var'[i] = var[i]) \/ (frames # <<>> /\ i > Top)
    BY <1>0, <1>3, <2>1 DEF Slots
  <2> QED
    BY <1>0, <1>3, <2>1, <2>2, <2>3, FramesStay
<1>4. ASSUME NEW v \in Vals, NEW c \in BOOLEAN, Push(v, c), UNCHANGED <<open, up, closures, making, upVar>>
      PROVE  HeapInv'
  <2>1. value' = IF c THEN [value EXCEPT ![FreshVar] = v] ELSE value
    BY <1>4 DEF Push
  <2> QED
    BY <1>4, <2>1 DEF HeapInv
<1>5. ASSUME NEW n \in 0 .. Top, Pop(n), UNCHANGED frames, frames # <<>> => Frame.base <= n
      PROVE  StackInv' /\ FrameInv'
  <2>1. /\ StackInv' /\ Top' = n
        /\ \A i \in 1 .. n : var'[i] = var[i]
    BY <1>5, Popped
  <2>2. Top' \in Nat /\ (frames # <<>> => Frame.base <= Top')
    BY <1>0, <1>5, <2>1
  <2>3. \A i \in 1 .. Top' : (i \in Slots /\ var'[i] = var[i]) \/ (frames # <<>> /\ i > Top)
    BY <1>0, <1>5, <2>1 DEF Slots
  <2> QED
    BY <1>0, <1>5, <2>1, <2>2, <2>3, FramesStay
<1>6. frames # <<>> => /\ Frame.base \in Nat \ {0} /\ Frame.base <= Top
                       /\ \A j \in 1 .. Len(Frame.fn) : Frame.fn[j] \in UpIds
  BY FrameFacts
<1>7. ASSUME NEW n \in 0 .. Top, Pop(n), Remember(value), UNCHANGED <<closures, making>>,
             UNCHANGED <<open, up, upVar>> \/ (\E last \in Nat : Close(last))
      PROVE  HeapInv'
  <2>1. value' \in [VarIds -> Vals]
    BY <1>7, Remembered DEF HeapInv
  <2>2. open' \in Seq(UpIds) /\ up' \in [UpIds -> Upvalue] /\ upVar' \in [UpIds -> VarIds]
    BY <1>7, Closed DEF HeapInv
  <2> QED
    BY <1>7, <2>1, <2>2 DEF HeapInv
<1>8. ASSUME NEW v \in Vals, NEW c \in BOOLEAN, Declare(v, c) PROVE Typed'
  BY <1>3, <1>4, <1>8 DEF Declare, Running
<1>9. ASSUME NEW i, NEW v \in Vals, SetLocal(i, v) PROVE Typed'
  <2>1. stack' = [stack EXCEPT ![i] = v] /\ UNCHANGED <<captured, var, frames>>
    BY <1>9 DEF SetLocal
  <2>2. stack' \in Seq(Vals) /\ Len(stack') = Len(stack)
    <3>1. i \in 1 .. Len(stack) /\ stack \in Seq(Vals) /\ Len(stack) \in Nat
      BY <1>0, <1>6, <1>9 DEF SetLocal, Running, Top, StackInv
    <3> QED
      BY <2>1, <3>1
  <2>3. StackInv' /\ Top' = Top
    BY <2>1, <2>2, Given
  <2>4. FrameInv'
    BY <2>1, <2>3 DEF FrameInv, Slots, Frame
  <2>5. HeapInv'
    BY <1>9 DEF SetLocal, HeapInv
  <2> QED
    BY <2>3, <2>4, <2>5
<1>10. ASSUME NEW i, CaptureLocal(i) PROVE Typed'
  <2>1. UNCHANGED <<stack, captured, var, frames, closures, value>>
    BY <1>10 DEF CaptureLocal
  <2>2. StackInv' /\ FrameInv'
    BY <1>2, <2>1
  <2>3. HeapInv'
    <3>1. CASE \E u \in Members(open) : /\ making' = Append(making, u)
                                        /\ UNCHANGED <<open, up, upVar>>
      <4>1. Members(open) \subseteq UpIds
        BY OpenFacts
      <4> QED
        BY <2>1, <3>1, <4>1 DEF HeapInv
    <3>2. CASE \E x \in UpIds : /\ making' = Append(making, x)
                                /\ up' = [up EXCEPT ![x] = [loc |-> i, closed |-> SetMin(Vals)]]
                                /\ upVar' = [upVar EXCEPT ![x] = var[i]]
                                /\ open' \in Seq(UpIds)
      <4>1. [loc |-> i, closed |-> SetMin(Vals)] \in Upvalue /\ var[i] \in VarIds
        BY <1>10, CapturedLocal, Choices DEF Upvalue
      <4> QED
        BY <2>1, <3>2, <4>1 DEF HeapInv
    <3> QED
      BY <1>10, <3>1, <3>2, CapturedLocal
  <2> QED
    BY <2>2, <2>3
<1>11. ASSUME NEW j, CaptureOuter(j) PROVE Typed'
  <2>1. making' = Append(making, Frame.fn[j]) /\ Frame.fn[j] \in UpIds
    BY <1>6, <1>11 DEF CaptureOuter, Capturing
  <2>2. HeapInv'
    BY <1>11, <2>1 DEF CaptureOuter, HeapInv, aux
  <2> QED
    BY <1>2, <1>11, <2>2 DEF CaptureOuter, aux
<1>12. CASE MakeClosure
  BY <1>2, <1>12 DEF MakeClosure, HeapInv, aux
<1>13. ASSUME NEW c, Forget(c) PROVE Typed'
  <2>1. /\ up' \in [UpIds -> Upvalue] /\ upVar' \in [UpIds -> VarIds]
        /\ value' \in [VarIds -> Vals]
    BY <1>13, Settled, Remembered DEF Forget, HeapInv
  <2> QED
    BY <1>2, <1>13, <2>1 DEF Forget, HeapInv
<1>14. ASSUME NEW j, GetUpval(j) PROVE Typed'
  <2>1. PICK v \in Reads(Frame.fn[j]) : Push(v, FALSE)
    BY <1>14 DEF GetUpval
  <2>2. v \in Vals
    BY <1>6, <1>14, ReadsValues DEF GetUpval, Running
  <2> QED
    BY <1>3, <1>4, <1>14, <2>1, <2>2 DEF GetUpval, Running
<1>15. ASSUME NEW j, NEW v \in Vals, SetUpval(j, v) PROVE Typed'
  <2> DEFINE u == Frame.fn[j]
  <2>1. u \in UpIds
    BY <1>6, <1>15 DEF SetUpval, Running
  <2>2. /\ up[u].loc = 0 => up' = [up EXCEPT ![u].closed = v] /\ UNCHANGED stack
        /\ up[u].loc # 0 => /\ stack' = [i \in 1 .. Top |-> IF i = up[u].loc THEN v ELSE stack[i]]
                            /\ UNCHANGED up
        /\ value' = [value EXCEPT ![upVar[u]] = v]
        /\ UNCHANGED <<captured, frames, open, closures, making, var, upVar, loose>>
    BY <1>15 DEF SetUpval
  <2> HIDE DEF u
  <2>3. stack' \in Seq(Vals) /\ Len(stack') = Len(stack)
    <3>1. CASE up[u].loc = 0
      BY <2>2, <3>1 DEF StackInv
    <3>2. CASE up[u].loc # 0
      <4>1. stack \in Seq(Vals) /\ Len(stack) \in Nat /\ \A i \in 1 .. Len(stack) : stack[i] \in Vals
        BY DEF StackInv
      <4>2. stack' = [i \in 1 .. Len(stack) |-> IF i = up[u].loc THEN v ELSE stack[i]]
        BY <2>2, <3>2 DEF Top
      <4> QED
        BY <4>1, <4>2
    <3> QED
      BY <3>1, <3>2
  <2>4. up' \in [UpIds -> Upvalue]
    BY <2>1, <2>2 DEF HeapInv, Upvalue
  <2>5. StackInv' /\ Top' = Top
    BY <2>2, <2>3, Given
  <2>6. FrameInv'
    BY <2>2, <2>5 DEF FrameInv, Slots, Frame
  <2>7. HeapInv'
    BY <2>2, <2>4 DEF HeapInv
  <2> QED
    BY <2>5, <2>6, <2>7
<1>16. CASE EndScope
  <2>1. Top - 1 \in 0 .. Top /\ Frame.base <= Top - 1 /\ frames # <<>>
    BY <1>0, <1>6, <1>16 DEF EndScope, Running
  <2>2. UNCHANGED <<open, up, upVar>> \/ (\E last \in Nat : Close(last))
    BY <1>0, <1>16 DEF EndScope
  <2> QED
    BY <1>5, <1>7, <1>16, <2>1, <2>2 DEF EndScope
<1>17. CASE JumpOut
  <2>1. Top - 1 \in 0 .. Top /\ Frame.base <= Top - 1 /\ frames # <<>>
    BY <1>0, <1>6, <1>17 DEF JumpOut, Running
  <2> QED
    BY <1>5, <1>7, <1>17, <2>1 DEF JumpOut
<1>18. CASE HostPop
  <2>1. Top - 1 \in 0 .. Top /\ frames = <<>>
    BY <1>0, <1>18 DEF HostPop
  <2>2. HeapInv'
    BY <1>18 DEF HostPop, HeapInv
  <2> QED
    BY <1>5, <1>18, <2>1, <2>2 DEF HostPop
<1>19. ASSUME NEW fn \in Seq(UpIds), NEW self \in BOOLEAN, Enter(fn, self), frames = <<>> => ~self
       PROVE  Typed'
  <2>1. StackInv' /\ FrameInv'
    BY <1>19, FrameEntered, Pushed, Choices DEF Enter
  <2>2. HeapInv'
    BY <1>4, <1>19, Choices DEF Enter
  <2> QED
    BY <2>1, <2>2
<1>20. ASSUME NEW c, NEW self \in BOOLEAN, Call(c, self) PROVE Typed'
  BY <1>19, <1>20 DEF Call, HeapInv
<1>21. CASE RunScript
  <2>1. <<>> \in Seq(UpIds)
    OBVIOUS
  <2> QED
    BY <1>19, <1>21, <2>1 DEF RunScript
<1>22. CASE Ret
  <2>1. frames # <<>> /\ Frame.base \in 1 .. Top
    BY <1>0, <1>6, <1>22 DEF Ret, Running
  <2>2. StackInv' /\ FrameInv'
    BY <1>22, <2>1, Returned, FrameLeft DEF Ret
  <2>3. /\ open' \in Seq(UpIds) /\ up' \in [UpIds -> Upvalue] /\ upVar' \in [UpIds -> VarIds]
        /\ value' \in [VarIds -> Vals]
    BY <1>6, <1>22, <2>1, Closed, Remembered DEF Ret, HeapInv
  <2> QED
    BY <1>22, <2>2, <2>3 DEF Ret, HeapInv
<1>23. CASE RuntimeErr
  <2>1. /\ up' \in [UpIds -> Upvalue] /\ upVar' \in [UpIds -> VarIds]
        /\ value' \in [VarIds -> Vals]
    BY <1>23, Settled, Remembered DEF RuntimeErr, HeapInv
  <2>2. HeapInv'
    BY <1>23, <2>1 DEF RuntimeErr, HeapInv
  <2> QED
    BY <1>23, <2>2 DEF RuntimeErr, StackInv, FrameInv, Top, Slots
<1>24. CASE UNCHANGED vars
  BY <1>2, <1>24 DEF vars, code, aux, HeapInv
<1> QED
  BY <1>8, <1>9, <1>10, <1>11, <1>12, <1>13, <1>14, <1>15, <1>16, <1>17, <1>18, <1>20, <1>21,
     <1>22, <1>23, <1>24 DEF Next

-----------------------------------------------------------------------------
(* Fifth, the values: what the functions and the closures see.               *)

Sees == /\ \A u \in InUse : up[u].loc # 0 => u \in Members(open)
        /\ \A u \in Members(open) : up[u].loc <= Top /\ var[up[u].loc] = upVar[u]
        /\ \A u \in InUse : up[u].loc = 0 => up[u].closed = value[upVar[u]]
        /\ \A i \in Slots : var[i] # 0 => stack[i] = value[var[i]]

ValueInv == ~loose => Sees

IInv == Typed /\ OpenInv /\ ValueInv

LEMMA UsedAfter ==
    ASSUME NEW u
    PROVE  /\ u \in Held' <=> \/ \E c \in closures' : u \in Members(c)
                              \/ \E f \in 1 .. Len(frames') : u \in Members(frames'[f].fn)
                              \/ u \in Members(making')
           /\ u \in InUse' <=> u \in Held' \/ u \in Members(open')
<1> QED
  BY DEF Held, InUse

\* Nothing new comes into use.
LEMMA UseKept ==
    ASSUME closures' \subseteq closures \union {making},
           \A f \in 1 .. Len(frames') : Members(frames'[f].fn) \subseteq Held,
           Members(making') \subseteq Held,
           Members(open') \subseteq Members(open)
    PROVE  Held' \subseteq Held /\ InUse' \subseteq InUse
<1>1. ASSUME NEW u \in Held' PROVE u \in Held
  BY UsedAfter, UsedAre
<1>2. ASSUME NEW u \in InUse' PROVE u \in InUse
  BY <1>1, UsedAfter, UsedAre
<1> QED
  BY <1>1, <1>2

LEMMA VisibleAre ==
    /\ \A u \in InUse : upVar[u] \in Visible
    /\ \A u \in InUse' : upVar'[u] \in Visible'
    /\ Typed => \A i \in Slots : var[i] \in Visible
    /\ Typed' => \A i \in Slots' : var'[i] \in Visible'
<1> QED
  BY DEF Visible, Members, Typed, StackInv, Slots

\* The list of open upvalues loses some at its head, the topmost slots; slots
\* are left, and those that are new have no variable or a new one.
LEMMA OpenKept ==
    ASSUME Typed, OpenInv, Typed', InUse' \subseteq InUse,
           \A u \in InUse' : upVar'[u] = upVar[u],
           \E n \in 0 .. Len(open) : /\ Len(open') = Len(open) - n
                                     /\ \A x \in 1 .. Len(open) - n : open'[x] = open[x + n],
           \A u \in Members(open') : up'[u].loc = up[u].loc,
           \A i \in Slots' :
              \/ var'[i] = 0
              \/ /\ i \in Slots /\ var'[i] = var[i]
                 /\ \A u \in Members(open) : up[u].loc = i => u \in Members(open')
              \/ var'[i] \notin Visible
    PROVE  OpenInv'
<1>1. PICK n \in 0 .. Len(open) : /\ Len(open') = Len(open) - n
                                  /\ \A x \in 1 .. Len(open) - n : open'[x] = open[x + n]
  OBVIOUS
<1>2. Len(open) \in Nat /\ n \in Nat
  BY <1>1, OpenFacts DEF Typed
<1>3. ASSUME NEW p \in 1 .. Len(open')
      PROVE  /\ p + n \in 1 .. Len(open) /\ up'[open'[p]].loc = up[open[p + n]].loc
  <2>1. p + n \in 1 .. Len(open) /\ open'[p] = open[p + n]
    BY <1>1, <1>2
  <2>2. open'[p] \in Members(open')
    BY DEF Members
  <2> QED
    BY <2>1, <2>2
<1>4. \A p \in 1 .. Len(open') : up'[open'[p]].loc > 0
  BY <1>3 DEF OpenInv
<1>5. ASSUME NEW p \in 1 .. Len(open'), NEW q \in 1 .. Len(open'), p < q
      PROVE  up'[open'[p]].loc > up'[open'[q]].loc
  <2>1. p + n < q + n
    BY <1>2, <1>5
  <2>2. up[open[p + n]].loc > up[open[q + n]].loc
    BY <1>3, <2>1 DEF OpenInv
  <2> QED
    BY <1>3, <2>2
<1>6. ASSUME NEW u \in InUse', NEW i \in Slots', upVar'[u] = var'[i]
      PROVE  u \in Members(open') /\ up'[u].loc = i
  <2>1. u \in InUse /\ upVar[u] = var'[i]
    BY <1>6
  <2>2. upVar[u] \in Visible /\ upVar[u] # 0
    BY <2>1, VisibleAre, UsedAreUpvalues, UpvalueTyped, Choices DEF Typed
  <2>3. /\ i \in Slots /\ var'[i] = var[i]
        /\ \A w \in Members(open) : up[w].loc = i => w \in Members(open')
    BY <2>1, <2>2
  <2>4. u \in Members(open) /\ up[u].loc = i
    BY <2>1, <2>3 DEF OpenInv
  <2> QED
    BY <2>3, <2>4
<1>7. \A u, w \in InUse' : upVar'[u] = upVar'[w] => u = w
  BY DEF OpenInv
<1> QED
  BY <1>4, <1>5, <1>6, <1>7 DEF OpenInv

\* The slots above n are left, and the open upvalues there take the values.
LEMMA SeesBelow ==
    ASSUME Typed, OpenInv, Sees, Typed', InUse' \subseteq InUse,
           NEW n \in 0 .. Top, n <= Top',
           \A i \in Slots' : \/ var'[i] = 0
                             \/ i <= n /\ var'[i] = var[i] /\ stack'[i] = stack[i],
           \A i \in 1 .. n : var'[i] = var[i],
           Members(open') = {u \in Members(open) : up[u].loc <= n},
           \A u \in InUse' :
              /\ upVar'[u] = upVar[u]
              /\ IF u \in Members(open) /\ up[u].loc > n
                 THEN up'[u].loc = 0 /\ up'[u].closed = stack[up[u].loc]
                 ELSE up'[u] = up[u],
           \A x \in VarIds : x \in Visible' => value'[x] = value[x]
    PROVE  Sees'
<1>1. \A u \in InUse' : /\ u \in InUse /\ u \in UpIds /\ up[u].loc \in Nat
                        /\ upVar[u] \in VarIds /\ value'[upVar[u]] = value[upVar[u]]
  BY UsedAreUpvalues, UpvalueTyped, VisibleAre DEF Typed
<1>2. \A u \in Members(open') : u \in InUse'
  BY UsedAfter
<1>3. Top \in Nat /\ Top' \in Nat
  BY DEF Typed, StackInv, Top
<1>4. \A u \in Members(open) : u \in UpIds /\ up[u].loc \in Nat \ {0}
  BY OpenFacts DEF Typed
<1>5. ASSUME NEW u \in InUse', up'[u].loc # 0 PROVE u \in Members(open')
  <2>1. up'[u] = up[u] /\ ~(u \in Members(open) /\ up[u].loc > n)
    BY <1>5
  <2>2. u \in Members(open)
    BY <1>1, <1>5, <2>1 DEF Sees
  <2> QED
    BY <1>3, <1>4, <2>1, <2>2
<1>6. ASSUME NEW u \in Members(open') PROVE up'[u].loc <= Top' /\ var'[up'[u].loc] = upVar'[u]
  <2>1. u \in Members(open) /\ up[u].loc \in 1 .. n /\ u \in InUse'
    BY <1>2, <1>4
  <2>2. up'[u] = up[u] /\ upVar'[u] = upVar[u]
    BY <1>3, <2>1
  <2>3. var[up[u].loc] = upVar[u] /\ up[u].loc <= Top'
    BY <1>3, <2>1 DEF Sees
  <2> QED
    BY <2>1, <2>2, <2>3
<1>7. ASSUME NEW u \in InUse', up'[u].loc = 0 PROVE up'[u].closed = value'[upVar'[u]]
  <2>1. CASE u \in Members(open) /\ up[u].loc > n
    <3>1. up[u].loc \in Slots /\ var[up[u].loc] = upVar[u]
      BY <1>3, <1>4, <2>1 DEF Sees, Slots
    <3>2. var[up[u].loc] # 0
      BY <1>1, <3>1, Choices
    <3>3. stack[up[u].loc] = value[var[up[u].loc]]
      BY <3>1, <3>2 DEF Sees
    <3> QED
      BY <1>1, <2>1, <3>1, <3>3
  <2>2. CASE ~(u \in Members(open) /\ up[u].loc > n)
    <3>1. up'[u] = up[u]
      BY <2>2
    <3>2. up[u].closed = value[upVar[u]]
      BY <1>1, <1>7, <3>1 DEF Sees
    <3> QED
      BY <1>1, <3>1, <3>2
  <2> QED
    BY <2>1, <2>2
<1>8. ASSUME NEW i \in Slots', var'[i] # 0 PROVE stack'[i] = value'[var'[i]]
  <2>1. i \in Slots /\ var'[i] = var[i] /\ stack'[i] = stack[i]
    BY <1>3, <1>8 DEF Slots
  <2>2. var[i] \in VarIds /\ var[i] \in Visible'
    <3>1. var[i] \in VarIds \union {0}
      BY <2>1 DEF Typed, StackInv, Slots, Top
    <3> QED
      BY <1>8, <2>1, <3>1, VisibleAre
  <2> QED
    BY <1>8, <2>1, <2>2 DEF Sees
<1> QED
  BY <1>5, <1>6, <1>7, <1>8 DEF Sees

-----------------------------------------------------------------------------
(* The steps.                                                                *)

LEMMA PushKeeps ==
    ASSUME IInv, Typed', NEW v \in Vals, NEW c \in BOOLEAN, Push(v, c),
           UNCHANGED <<open, up, upVar, loose>>, InUse' \subseteq InUse
    PROVE  OpenInv' /\ ValueInv'
<1> USE DEF IInv
<1>1. /\ Top' = Top + 1 /\ Top \in Nat
      /\ \A i \in Slots : stack'[i] = stack[i] /\ var'[i] = var[i]
      /\ stack'[Top + 1] = v
      /\ var'[Top + 1] = IF c THEN FreshVar ELSE 0
      /\ c => FreshVar \in VarIds \ Visible
      /\ value' = IF c THEN [value EXCEPT ![FreshVar] = v] ELSE value
  BY Pushed DEF Typed
<1>2. \A i \in Slots' : i \in Slots \/ i = Top + 1
  BY <1>1 DEF Slots
<1>3. OpenInv'
  <2>1. Len(open) \in Nat
    BY DEF Typed, HeapInv
  <2>2. /\ 0 \in 0 .. Len(open) /\ Len(open') = Len(open) - 0
        /\ \A x \in 1 .. Len(open) - 0 : open'[x] = open[x + 0]
    BY <2>1
  <2>3. \A i \in Slots' : \/ var'[i] = 0
                          \/ /\ i \in Slots /\ var'[i] = var[i]
                             /\ \A u \in Members(open) : up[u].loc = i => u \in Members(open')
                          \/ var'[i] \notin Visible
    BY <1>1, <1>2
  <2> QED
    BY <2>2, <2>3, OpenKept
<1>4. ASSUME Sees PROVE Sees'
  <2>1. \A x \in Visible : x \in VarIds => value'[x] = value[x]
    BY <1>1 DEF Typed, HeapInv
  <2>2. \A u \in InUse : u \in UpIds /\ value'[upVar[u]] = value[upVar[u]]
    BY <2>1, UsedAreUpvalues, UpvalueTyped, VisibleAre DEF Typed
  <2>3. \A u \in Members(open) : up[u].loc \in Slots
    BY <1>1, <1>4, OpenFacts DEF Typed, Sees, Slots
  <2>4. ASSUME NEW i \in Slots', var'[i] # 0 PROVE stack'[i] = value'[var'[i]]
    <3>1. CASE i \in Slots
      <4>1. var'[i] = var[i] /\ stack'[i] = stack[i] /\ stack[i] = value[var[i]]
        BY <1>1, <1>4, <2>4, <3>1 DEF Sees
      <4>2. var[i] \in VarIds \union {0} /\ var[i] \in Visible
        BY <3>1, VisibleAre DEF Typed, StackInv, Slots, Top
      <4> QED
        BY <2>1, <2>4, <4>1, <4>2
    <3>2. CASE i = Top + 1
      <4>1. c /\ var'[i] = FreshVar /\ stack'[i] = v
        BY <1>1, <2>4, <3>2
      <4> QED
        BY <1>1, <4>1 DEF Typed, HeapInv
    <3> QED
      BY <1>2, <3>1, <3>2
  <2>5. \A u \in InUse' : up'[u].loc # 0 => u \in Members(open')
    BY <1>4 DEF Sees
  <2>6. \A u \in Members(open') : up'[u].loc <= Top' /\ var'[up'[u].loc] = upVar'[u]
    <3> SUFFICES ASSUME NEW u \in Members(open)
                 PROVE  up[u].loc <= Top' /\ var'[up[u].loc] = upVar[u]
      OBVIOUS
    <3>1. up[u].loc \in Slots /\ var[up[u].loc] = upVar[u]
      BY <1>4, <2>3 DEF Sees
    <3> QED
      BY <1>1, <3>1 DEF Slots
  <2>7. \A u \in InUse' : up'[u].loc = 0 => up'[u].closed = value'[upVar'[u]]
    BY <1>4, <2>2 DEF Sees
  <2> QED
    BY <2>4, <2>5, <2>6, <2>7 DEF Sees
<1> QED
  BY <1>3, <1>4 DEF ValueInv

\* Steps that leave the stack and the upvalues alone, but for those out of use.
LEMMA UseOnly ==
    ASSUME IInv, Typed', UNCHANGED <<stack, captured, var, open, loose>>, InUse' \subseteq InUse,
           \A u \in InUse' : up'[u] = up[u] /\ upVar'[u] = upVar[u],
           \A x \in VarIds : x \in Visible' => value'[x] = value[x]
    PROVE  OpenInv' /\ ValueInv'
<1> USE DEF IInv
<1>1. Top' = Top /\ Slots' = Slots /\ Top \in Nat /\ Top \in 0 .. Top
  BY DEF Typed, StackInv, Top, Slots
<1>2. \A u \in Members(open) : u \in InUse'
  BY UsedAfter
<1>3. OpenInv'
  <2>1. Len(open) \in Nat
    BY DEF Typed, HeapInv
  <2>2. /\ 0 \in 0 .. Len(open) /\ Len(open') = Len(open) - 0
        /\ \A x \in 1 .. Len(open) - 0 : open'[x] = open[x + 0]
    BY <2>1
  <2>3. \A i \in Slots' : /\ i \in Slots /\ var'[i] = var[i]
                          /\ \A u \in Members(open) : up[u].loc = i => u \in Members(open')
    BY <1>1
  <2> QED
    BY <1>2, <2>2, <2>3, OpenKept
<1>4. ASSUME Sees PROVE Sees'
  <2>1. \A u \in Members(open) : up[u].loc <= Top
    BY <1>4 DEF Sees
  <2>2. \A u \in Members(open) : ~(up[u].loc > Top)
    BY <1>1, <2>1, OpenFacts DEF Typed
  <2>3. Members(open') = {u \in Members(open) : up[u].loc <= Top}
    BY <2>1
  <2>4. \A i \in Slots' : i <= Top /\ var'[i] = var[i] /\ stack'[i] = stack[i]
    BY <1>1 DEF Slots
  <2>5. \A u \in InUse' :
           /\ upVar'[u] = upVar[u]
           /\ IF u \in Members(open) /\ up[u].loc > Top
              THEN up'[u].loc = 0 /\ up'[u].closed = stack[up[u].loc]
              ELSE up'[u] = up[u]
    BY <2>2
  <2> QED
    BY <1>1, <1>4, <2>3, <2>4, <2>5, SeesBelow
<1> QED
  BY <1>3, <1>4 DEF ValueInv

\* Slots are left, and the upvalues that point at them are closed.
LEMMA CloseKeeps ==
    ASSUME IInv, Typed', NEW n \in 0 .. Top, n <= Top', Close(n + 1), UNCHANGED loose,
           InUse' \subseteq InUse,
           \A i \in Slots' : \/ var'[i] = 0
                             \/ i <= n /\ var'[i] = var[i] /\ stack'[i] = stack[i],
           \A i \in 1 .. n : var'[i] = var[i],
           \A x \in VarIds : x \in Visible' => value'[x] = value[x]
    PROVE  OpenInv' /\ ValueInv'
<1> USE DEF IInv
<1>1. Top \in Nat /\ n \in Nat /\ Top' \in Nat /\ n + 1 \in Nat
  BY DEF Typed, StackInv, Top
<1>2. \A u \in InUse' : u \in UpIds
  BY UsedAreUpvalues DEF Typed
<1>3. \A u \in Members(open) : u \in UpIds /\ up[u].loc \in Nat \ {0}
  BY OpenFacts DEF Typed
<1>4. /\ \E m \in 0 .. Len(open) : open' = SubSeq(open, m + 1, Len(open))
      /\ Members(open') = {u \in Members(open) : up[u].loc < n + 1}
      /\ \A u \in UpIds : u \in InUse' => upVar'[u] = upVar[u]
      /\ \A u \in UpIds : u \in InUse' =>
            IF u \in Members(open) /\ up[u].loc >= n + 1
            THEN /\ up'[u].loc = 0
                 /\ up[u].loc <= Top => up'[u].closed = stack[up[u].loc]
            ELSE up'[u] = up[u]
  BY <1>1, Closed DEF Typed
<1>5. Members(open') = {u \in Members(open) : up[u].loc <= n}
  BY <1>1, <1>3, <1>4
<1>6. \A u \in Members(open') : u \in InUse'
  BY UsedAfter
<1>7. OpenInv'
  <2>1. PICK m \in 0 .. Len(open) : open' = SubSeq(open, m + 1, Len(open))
    BY <1>4
  <2>2. /\ Len(open') = Len(open) - m
        /\ \A x \in 1 .. Len(open) - m : open'[x] = open[x + m]
    BY <2>1, Rest DEF Typed, HeapInv
  <2>3. ASSUME NEW u \in Members(open') PROVE up'[u].loc = up[u].loc
    <3>1. u \in UpIds /\ u \in InUse' /\ ~(up[u].loc >= n + 1)
      BY <1>1, <1>2, <1>3, <1>4, <1>6
    <3> QED
      BY <1>4, <3>1
  <2>4. \A i \in Slots' : \/ var'[i] = 0
                          \/ /\ i \in Slots /\ var'[i] = var[i]
                             /\ \A u \in Members(open) : up[u].loc = i => u \in Members(open')
    BY <1>1, <1>5 DEF Slots
  <2> QED
    BY <1>2, <1>4, <2>2, <2>3, <2>4, OpenKept
<1>8. ASSUME Sees PROVE Sees'
  <2>1. ASSUME NEW u \in InUse'
        PROVE  /\ upVar'[u] = upVar[u]
               /\ IF u \in Members(open) /\ up[u].loc > n
                  THEN up'[u].loc = 0 /\ up'[u].closed = stack[up[u].loc]
                  ELSE up'[u] = up[u]
    <3>1. u \in UpIds /\ upVar'[u] = upVar[u]
      BY <1>2, <1>4
    <3>2. CASE u \in Members(open) /\ up[u].loc > n
      <4>1. up[u].loc >= n + 1 /\ up[u].loc <= Top
        BY <1>1, <1>3, <1>8, <3>2 DEF Sees
      <4> QED
        BY <1>4, <3>1, <3>2, <4>1
    <3>3. CASE ~(u \in Members(open) /\ up[u].loc > n)
      <4>1. ~(u \in Members(open) /\ up[u].loc >= n + 1)
        BY <1>1, <1>3, <3>3
      <4> QED
        BY <1>4, <3>1, <3>3, <4>1
    <3> QED
      BY <3>2, <3>3
  <2> QED
    BY <1>5, <1>8, <2>1, SeesBelow
<1> QED
  BY <1>7, <1>8 DEF ValueInv

\* Slots are left, and no upvalue is closed.
LEMMA DropKeeps ==
    ASSUME IInv, Typed', NEW n \in 0 .. Top, n <= Top', UNCHANGED open,
           ~loose' => ~loose,
           ~loose' => \A u \in Members(open) : ~(up[u].loc > n),
           InUse' \subseteq InUse,
           \A u \in InUse' : up'[u] = up[u] /\ upVar'[u] = upVar[u],
           \A i \in Slots' : i <= n /\ var'[i] = var[i] /\ stack'[i] = stack[i],
           \A i \in 1 .. n : var'[i] = var[i],
           \A x \in VarIds : x \in Visible' => value'[x] = value[x]
    PROVE  OpenInv' /\ ValueInv'
<1> USE DEF IInv
<1>1. Top \in Nat /\ n \in Nat /\ Top' \in Nat
  BY DEF Typed, StackInv, Top
<1>2. \A u \in Members(open) : u \in InUse'
  BY UsedAfter
<1>3. OpenInv'
  <2>1. Len(open) \in Nat
    BY DEF Typed, HeapInv
  <2>2. /\ 0 \in 0 .. Len(open) /\ Len(open') = Len(open) - 0
        /\ \A x \in 1 .. Len(open) - 0 : open'[x] = open[x + 0]
    BY <2>1
  <2>3. \A i \in Slots' : /\ i \in Slots /\ var'[i] = var[i]
                          /\ \A u \in Members(open) : up[u].loc = i => u \in Members(open')
    BY <1>1 DEF Slots
  <2> QED
    BY <1>2, <2>2, <2>3, OpenKept
<1>4. ASSUME ~loose' PROVE Sees'
  <2>1. Sees
    BY <1>4 DEF ValueInv
  <2>2. \A u \in Members(open) : up[u].loc <= n
    BY <1>1, <1>4, OpenFacts DEF Typed
  <2>3. Members(open') = {u \in Members(open) : up[u].loc <= n}
    BY <2>2
  <2>4. \A u \in InUse' :
           /\ upVar'[u] = upVar[u]
           /\ IF u \in Members(open) /\ up[u].loc > n
              THEN up'[u].loc = 0 /\ up'[u].closed = stack[up[u].loc]
              ELSE up'[u] = up[u]
    BY <1>4
  <2> QED
    BY <2>1, <2>3, <2>4, SeesBelow
<1> QED
  BY <1>3, <1>4 DEF ValueInv

\* A variable is given a value, where it lives: in slot i, or in upvalue w.
LEMMA AssignKeeps ==
    ASSUME IInv, Typed', NEW v \in Vals, NEW x \in VarIds,
           UNCHANGED <<captured, var, frames, open, closures, making, upVar, loose>>,
           value' = [value EXCEPT ![x] = v], Top' = Top,
           \A i \in Slots : ~loose => stack'[i] = IF var[i] = x THEN v ELSE stack[i],
           \A u \in InUse : up'[u].loc = up[u].loc,
           \A u \in InUse : ~loose /\ up[u].loc = 0 =>
                               up'[u].closed = IF upVar[u] = x THEN v ELSE up[u].closed
    PROVE  OpenInv' /\ ValueInv'
<1> USE DEF IInv
<1>1. InUse' = InUse /\ Slots' = Slots
  BY DEF InUse, Held, Slots
<1>2. \A u \in InUse : u \in UpIds /\ upVar[u] \in VarIds
  BY UsedAreUpvalues, UpvalueTyped DEF Typed
<1>3. \A y \in VarIds : value'[y] = IF y = x THEN v ELSE value[y]
  BY DEF Typed, HeapInv
<1>4. \A u \in Members(open) : u \in InUse
  BY UsedAre
<1>5. OpenInv'
  <2>1. Len(open) \in Nat
    BY DEF Typed, HeapInv
  <2>2. /\ 0 \in 0 .. Len(open) /\ Len(open') = Len(open) - 0
        /\ \A y \in 1 .. Len(open) - 0 : open'[y] = open[y + 0]
    BY <2>1
  <2>3. \A i \in Slots' : /\ i \in Slots /\ var'[i] = var[i]
                          /\ \A u \in Members(open) : up[u].loc = i => u \in Members(open')
    BY <1>1
  <2> QED
    BY <1>1, <1>4, <2>2, <2>3, OpenKept
<1>6. ASSUME ~loose, Sees PROVE Sees'
  <2>1. \A u \in InUse' : up'[u].loc # 0 => u \in Members(open')
    BY <1>1, <1>6 DEF Sees
  <2>2. \A u \in Members(open') : up'[u].loc <= Top' /\ var'[up'[u].loc] = upVar'[u]
    BY <1>4, <1>6 DEF Sees
  <2>3. \A u \in InUse' : up'[u].loc = 0 => up'[u].closed = value'[upVar'[u]]
    BY <1>1, <1>2, <1>3, <1>6 DEF Sees
  <2>4. ASSUME NEW i \in Slots', var'[i] # 0 PROVE stack'[i] = value'[var'[i]]
    <3>1. i \in Slots /\ var[i] # 0 /\ var[i] \in VarIds
      BY <1>1, <2>4 DEF Typed, StackInv, Slots, Top
    <3> QED
      BY <1>3, <1>6, <3>1 DEF Sees
  <2> QED
    BY <2>1, <2>2, <2>3, <2>4 DEF Sees
<1> QED
  BY <1>5, <1>6 DEF ValueInv

LEMMA SetLocalKeeps ==
    ASSUME IInv, Typed', NEW i, NEW v \in Vals, SetLocal(i, v) PROVE OpenInv' /\ ValueInv'
<1> USE DEF IInv
<1>1. /\ frames # <<>> /\ i \in Frame.base + 1 .. Top /\ captured[i]
      /\ stack' = [stack EXCEPT ![i] = v]
      /\ value' = [value EXCEPT ![var[i]] = v]
      /\ UNCHANGED <<captured, frames, open, up, closures, making, var, upVar, loose>>
  BY DEF SetLocal, Running
<1>2. i \in Slots /\ Top \in Nat
  BY <1>1, FrameFacts DEF Typed, StackInv, Slots, Top
<1>3. var[i] # 0 /\ var[i] \in VarIds
  BY <1>1, <1>2 DEF Typed, StackInv, Slots, Top
<1>4. \A j \in Slots : stack'[j] = IF j = i THEN v ELSE stack[j]
  BY <1>1, <1>2 DEF Typed, StackInv, Slots, Top
<1>5. \A j \in Slots : var[j] = var[i] <=> j = i
  BY <1>2, <1>3 DEF Typed, StackInv
<1>6. Top' = Top
  BY <1>1, <1>2 DEF Typed, StackInv, Top
\* An upvalue of this variable is open.
<1>7. \A u \in InUse : up[u].loc = 0 => upVar[u] # var[i]
  <2> SUFFICES ASSUME NEW u \in InUse, upVar[u] = var[i] PROVE up[u].loc # 0
    OBVIOUS
  <2>1. up[u].loc = i
    BY <1>2 DEF OpenInv
  <2> QED
    BY <1>2, <2>1 DEF Slots
<1>8. \A j \in Slots : stack'[j] = IF var[j] = var[i] THEN v ELSE stack[j]
  BY <1>4, <1>5
<1>9. /\ \A u \in InUse : up'[u].loc = up[u].loc
      /\ \A u \in InUse : up[u].loc = 0 =>
            up'[u].closed = IF upVar[u] = var[i] THEN v ELSE up[u].closed
  BY <1>1, <1>7
<1> DEFINE x == var[i]
<1>10. /\ x \in VarIds /\ value' = [value EXCEPT ![x] = v]
       /\ \A j \in Slots : stack'[j] = IF var[j] = x THEN v ELSE stack[j]
       /\ \A u \in InUse : up[u].loc = 0 =>
             up'[u].closed = IF upVar[u] = x THEN v ELSE up[u].closed
  BY <1>1, <1>3, <1>8, <1>9
<1> HIDE DEF x
<1>11. /\ \A j \in Slots : ~loose => stack'[j] = IF var[j] = x THEN v ELSE stack[j]
       /\ \A u \in InUse : ~loose /\ up[u].loc = 0 =>
                               up'[u].closed = IF upVar[u] = x THEN v ELSE up[u].closed
       /\ UNCHANGED <<captured, var, frames, open, closures, making, upVar, loose>>
  BY <1>1, <1>10
<1> QED
  BY <1>6, <1>9, <1>10, <1>11, AssignKeeps

LEMMA SetUpvalKeeps ==
    ASSUME IInv, Typed', NEW j, NEW v \in Vals, SetUpval(j, v) PROVE OpenInv' /\ ValueInv'
<1> USE DEF IInv
<1> DEFINE w == Frame.fn[j]
<1>1. /\ frames # <<>> /\ j \in 1 .. Len(Frame.fn)
      /\ up[w].loc = 0 => up' = [up EXCEPT ![w].closed = v] /\ UNCHANGED stack
      /\ up[w].loc # 0 => /\ stack' = [i \in 1 .. Top |-> IF i = up[w].loc THEN v ELSE stack[i]]
                          /\ UNCHANGED up
      /\ value' = [value EXCEPT ![upVar[w]] = v]
      /\ UNCHANGED <<captured, frames, open, closures, making, var, upVar, loose>>
  BY DEF SetUpval, Running
<1>2. w \in InUse
  <2>1. /\ Len(frames) \in 1 .. Len(frames) /\ Frame = frames[Len(frames)]
        /\ Frame.fn \in Seq(UpIds)
    BY <1>1, FrameFacts DEF Typed
  <2>2. w \in Members(frames[Len(frames)].fn)
    BY <1>1, <2>1 DEF Members
  <2> QED
    BY <2>1, <2>2, UsedAre
<1> HIDE DEF w
<1>3. w \in UpIds /\ upVar[w] \in VarIds /\ up[w].loc \in Nat
  BY <1>2, UsedAreUpvalues, UpvalueTyped DEF Typed
<1>4. Top \in Nat /\ Top' = Top
  <2>1. CASE up[w].loc = 0
    BY <1>1, <2>1 DEF Typed, StackInv, Top
  <2>2. CASE up[w].loc # 0
    BY <1>1, <2>2 DEF Typed, StackInv, Top
  <2> QED
    BY <2>1, <2>2
<1>5. \A u \in InUse : upVar[u] = upVar[w] <=> u = w
  BY <1>2 DEF OpenInv
<1>6. \A u \in InUse : up'[u].loc = up[u].loc
  BY <1>1, <1>3, UsedAreUpvalues DEF Typed, HeapInv, Upvalue
<1>7. \A u \in InUse : up[u].loc = 0 =>
         up'[u].closed = IF upVar[u] = upVar[w] THEN v ELSE up[u].closed
  <2> SUFFICES ASSUME NEW u \in InUse, up[u].loc = 0
               PROVE  up'[u].closed = IF u = w THEN v ELSE up[u].closed
    BY <1>5
  <2>1. CASE u = w
    BY <1>1, <1>3, <2>1 DEF Typed, HeapInv, Upvalue
  <2>2. CASE u # w
    <3>1. u \in UpIds
      BY UsedAreUpvalues DEF Typed
    <3> QED
      BY <1>1, <1>3, <2>2, <3>1 DEF Typed, HeapInv
  <2> QED
    BY <2>1, <2>2
<1>8. ASSUME NEW i \in Slots, ~loose
      PROVE  stack'[i] = IF var[i] = upVar[w] THEN v ELSE stack[i]
  <2>1. Sees
    BY <1>8 DEF ValueInv
  <2>2. var[i] = upVar[w] => up[w].loc = i
    BY <1>2 DEF OpenInv
  <2>3. i # 0
    BY DEF Slots
  <2>4. CASE up[w].loc = 0
    BY <1>1, <2>2, <2>3, <2>4
  <2>5. CASE up[w].loc # 0
    <3>1. w \in Members(open) /\ var[up[w].loc] = upVar[w]
      BY <1>2, <2>1, <2>5 DEF Sees
    <3> QED
      BY <1>1, <2>2, <2>5, <3>1 DEF Slots
  <2> QED
    BY <2>4, <2>5
<1> DEFINE x == upVar[w]
<1>9. /\ x \in VarIds /\ value' = [value EXCEPT ![x] = v]
      /\ \A i \in Slots : ~loose => stack'[i] = IF var[i] = x THEN v ELSE stack[i]
      /\ \A u \in InUse : up[u].loc = 0 =>
            up'[u].closed = IF upVar[u] = x THEN v ELSE up[u].closed
  BY <1>1, <1>3, <1>7, <1>8
<1> HIDE DEF x
<1>10. /\ \A u \in InUse : ~loose /\ up[u].loc = 0 =>
                               up'[u].closed = IF upVar[u] = x THEN v ELSE up[u].closed
       /\ UNCHANGED <<captured, var, frames, open, closures, making, upVar, loose>>
  BY <1>1, <1>9
<1> QED
  BY <1>4, <1>6, <1>9, <1>10, AssignKeeps

\* The upvalue of the slot is found.
LEMMA ShareKeeps ==
    ASSUME IInv, Typed', NEW u \in Held \union Members(open), making' = Append(making, u),
           UNCHANGED <<stack, captured, var, frames, open, up, closures, upVar, value, loose>>
    PROVE  OpenInv' /\ ValueInv' /\ Held' \subseteq Held \union {u}
<1> USE DEF IInv
<1>1. u \in InUse /\ u \in UpIds /\ making \in Seq(UpIds)
  BY UsedAreUpvalues DEF Typed, HeapInv, InUse
<1>2. Members(making') = Members(making) \union {u}
  BY <1>1, MembersIn
<1>3. ASSUME NEW w \in Held' PROVE w \in Held \union {u}
  BY <1>2, UsedAfter, UsedAre
<1>4. InUse' \subseteq InUse
  <2>1. ASSUME NEW w \in InUse' PROVE w \in InUse
    BY <1>1, <1>3, UsedAfter, UsedAre
  <2> QED
    BY <2>1
<1>5. OpenInv' /\ ValueInv'
  BY <1>4, UseOnly
<1> QED
  BY <1>3, <1>5

\* A new upvalue, for a variable that has none.
LEMMA CaptureKeeps ==
    ASSUME IInv, Typed', NEW i \in Slots, var[i] \in VarIds, NEW x \in UpIds \ InUse,
           NEW n \in 0 .. Len(open),
           making' = Append(making, x),
           up' = [up EXCEPT ![x] = [loc |-> i, closed |-> SetMin(Vals)]],
           upVar' = [upVar EXCEPT ![x] = var[i]],
           Len(open') = Len(open) + 1,
           \A p \in 1 .. n : open'[p] = open[p] /\ up[open[p]].loc > i,
           open'[n + 1] = x,
           \A p \in n + 1 .. Len(open) : open'[p + 1] = open[p] /\ up[open[p]].loc < i,
           UNCHANGED <<stack, captured, frames, closures, var, value, loose>>
    PROVE  /\ OpenInv' /\ ValueInv'
           /\ Held' \subseteq Held \union {x}
<1> USE DEF IInv
<1>1. Top \in Nat /\ i \in Nat \ {0} /\ i <= Top /\ Top' = Top /\ Slots' = Slots
      /\ Len(open) \in Nat /\ n \in Nat
  BY DEF Typed, StackInv, HeapInv, Top, Slots
<1>2. /\ up'[x].loc = i /\ upVar'[x] = var[i]
      /\ \A u \in UpIds : u # x => up'[u] = up[u] /\ upVar'[u] = upVar[u]
  BY DEF Typed, HeapInv
<1>3. \A p \in 1 .. Len(open) : /\ open[p] \in UpIds /\ open[p] \in InUse /\ open[p] # x
                                /\ up[open[p]].loc \in Nat \ {0}
  BY OpenFacts, UsedAre DEF Typed, Members
<1>4. \A u : u \in Members(open') <=> u \in Members(open) \/ u = x
  <2>1. ASSUME NEW u \in Members(open') PROVE u \in Members(open) \/ u = x
    <3>1. PICK p \in 1 .. Len(open') : u = open'[p]
      BY DEF Members
    <3>2. CASE p <= n
      <4>1. p \in 1 .. n /\ p \in 1 .. Len(open)
        BY <1>1, <3>2
      <4> QED
        BY <3>1, <4>1 DEF Members
    <3>3. CASE p = n + 1
      BY <3>1, <3>3
    <3>4. CASE p > n + 1
      <4>1. PICK q \in n + 1 .. Len(open) : p = q + 1
        <5>1. p - 1 \in n + 1 .. Len(open) /\ p = p - 1 + 1
          BY <1>1, <3>4
        <5> QED
          BY <5>1
      <4>2. u = open[q] /\ q \in 1 .. Len(open)
        BY <1>1, <3>1, <4>1
      <4> QED
        BY <4>2 DEF Members
    <3> QED
      BY <1>1, <3>2, <3>3, <3>4
  <2>2. ASSUME NEW u \in Members(open) PROVE u \in Members(open')
    <3>1. PICK p \in 1 .. Len(open) : u = open[p]
      BY DEF Members
    <3>2. CASE p <= n
      <4>1. p \in 1 .. n /\ p \in 1 .. Len(open')
        BY <1>1, <3>2
      <4> QED
        BY <3>1, <4>1 DEF Members
    <3>3. CASE p > n
      <4>1. p \in n + 1 .. Len(open) /\ p + 1 \in 1 .. Len(open')
        BY <1>1, <3>3
      <4> QED
        BY <3>1, <4>1 DEF Members
    <3> QED
      BY <1>1, <3>2, <3>3
  <2>3. x \in Members(open')
    <3>1. n + 1 \in 1 .. Len(open')
      BY <1>1
    <3> QED
      BY <3>1 DEF Members
  <2> QED
    BY <2>1, <2>2, <2>3
<1>5. Members(making') = Members(making) \union {x}
  BY MembersIn DEF Typed, HeapInv
<1>6. ASSUME NEW u \in Held' PROVE u \in Held \/ u = x
  BY <1>5, UsedAfter, UsedAre
<1>7. ASSUME NEW u \in InUse' PROVE u = x \/ (u # x /\ u \in InUse /\ u \in UpIds)
  <2>1. u \in Held' \/ u \in Members(open')
    BY UsedAfter
  <2>2. u = x \/ u \in InUse
    BY <1>4, <1>6, <2>1, UsedAre
  <2> QED
    BY <2>2, UsedAreUpvalues DEF Typed
\* The list with the new upvalue in its place still runs down the stack.
<1> DEFINE L(p) == up'[open'[p]].loc
<1>8. /\ \A p \in 1 .. n : L(p) = up[open[p]].loc /\ L(p) > i /\ L(p) \in Nat
      /\ L(n + 1) = i
      /\ \A p \in n + 1 .. Len(open) : L(p + 1) = up[open[p]].loc /\ L(p + 1) < i /\ L(p + 1) > 0
                                       /\ L(p + 1) \in Nat
  <2>1. ASSUME NEW p \in 1 .. n PROVE L(p) = up[open[p]].loc /\ L(p) > i /\ L(p) \in Nat
    <3>1. p \in 1 .. Len(open)
      BY <1>1
    <3> QED
      BY <1>2, <1>3, <3>1
  <2>2. ASSUME NEW p \in n + 1 .. Len(open)
        PROVE  L(p + 1) = up[open[p]].loc /\ L(p + 1) < i /\ L(p + 1) > 0 /\ L(p + 1) \in Nat
    <3>1. p \in 1 .. Len(open)
      BY <1>1
    <3>2. up'[open[p]] = up[open[p]]
      BY <1>2, <1>3, <3>1
    <3> QED
      BY <1>1, <1>3, <3>1, <3>2
  <2> QED
    BY <1>2, <2>1, <2>2
<1>9. ASSUME NEW p \in 1 .. Len(open')
      PROVE  \/ p \in 1 .. n
             \/ p = n + 1
             \/ p - 1 \in n + 1 .. Len(open) /\ p = (p - 1) + 1
  BY <1>1
<1> HIDE DEF L
<1>10. \A p \in 1 .. Len(open') : L(p) > 0
  <2> SUFFICES ASSUME NEW p \in 1 .. Len(open') PROVE L(p) > 0
    OBVIOUS
  <2>1. CASE p \in 1 .. n
    BY <1>1, <1>8, <2>1
  <2>2. CASE p = n + 1
    BY <1>1, <1>8, <2>2
  <2>3. CASE p - 1 \in n + 1 .. Len(open) /\ p = (p - 1) + 1
    BY <1>8, <2>3
  <2> QED
    BY <1>9, <2>1, <2>2, <2>3
<1>11. ASSUME NEW p \in 1 .. Len(open'), NEW q \in 1 .. Len(open'), p < q PROVE L(p) > L(q)
  <2>1. CASE p \in 1 .. n /\ q \in 1 .. n
    <3>1. p \in 1 .. Len(open) /\ q \in 1 .. Len(open)
      BY <1>1, <2>1
    <3> QED
      BY <1>8, <1>11, <2>1, <3>1 DEF OpenInv
  <2>2. CASE p \in 1 .. n /\ q = n + 1
    BY <1>8, <2>2
  <2>3. CASE p \in 1 .. n /\ q - 1 \in n + 1 .. Len(open)
    <3>1. L(p) > i /\ L(p) \in Nat
      BY <1>8, <2>3
    <3>2. L(q) < i /\ L(q) \in Nat
      <4>1. q = (q - 1) + 1
        OBVIOUS
      <4> QED
        BY <1>8, <2>3, <4>1
    <3> QED
      BY <1>1, <3>1, <3>2
  <2>4. CASE p = n + 1 /\ q - 1 \in n + 1 .. Len(open)
    <3>1. q = (q - 1) + 1
      OBVIOUS
    <3> QED
      BY <1>1, <1>8, <2>4, <3>1
  <2>5. CASE p - 1 \in n + 1 .. Len(open) /\ q - 1 \in n + 1 .. Len(open)
    <3>1. p = (p - 1) + 1 /\ q = (q - 1) + 1 /\ p - 1 < q - 1
      BY <1>11
    <3>2. p - 1 \in 1 .. Len(open) /\ q - 1 \in 1 .. Len(open)
      BY <1>1, <2>5
    <3>3. L(p) = up[open[p - 1]].loc /\ L(q) = up[open[q - 1]].loc
      BY <1>8, <2>5, <3>1
    <3> QED
      BY <3>1, <3>2, <3>3 DEF OpenInv
  <2>6. \/ p \in 1 .. n /\ q \in 1 .. n
        \/ p \in 1 .. n /\ q = n + 1
        \/ p \in 1 .. n /\ q - 1 \in n + 1 .. Len(open)
        \/ p = n + 1 /\ q - 1 \in n + 1 .. Len(open)
        \/ p - 1 \in n + 1 .. Len(open) /\ q - 1 \in n + 1 .. Len(open)
    BY <1>1, <1>11
  <2> QED
    BY <2>1, <2>2, <2>3, <2>4, <2>5, <2>6
\* No other upvalue is for this variable: it would point at the slot.
<1>12. \A u \in InUse : upVar[u] # var[i]
  <2> SUFFICES ASSUME NEW u \in InUse, upVar[u] = var[i] PROVE FALSE
    OBVIOUS
  <2>1. u \in Members(open) /\ up[u].loc = i
    BY DEF OpenInv
  <2>2. PICK p \in 1 .. Len(open) : u = open[p]
    BY <2>1 DEF Members
  <2>3. p \in 1 .. n \/ p \in n + 1 .. Len(open)
    BY <1>1
  <2> QED
    BY <1>1, <2>1, <2>2, <2>3
<1>13. ASSUME NEW u \in InUse', NEW j \in Slots', upVar'[u] = var'[j]
       PROVE  u \in Members(open') /\ up'[u].loc = j
  <2>1. CASE u = x
    <3>1. var[j] = var[i] /\ var[i] # 0 /\ j \in Slots
      BY <1>1, <1>2, <1>13, <2>1, Choices
    <3>2. j = i
      BY <3>1 DEF Typed, StackInv
    <3> QED
      BY <1>2, <1>4, <2>1, <3>2
  <2>2. CASE u # x
    <3>1. u \in InUse /\ u \in UpIds
      BY <1>7, <2>2
    <3>2. upVar[u] = var[j] /\ j \in Slots /\ up'[u] = up[u]
      BY <1>1, <1>2, <1>13, <2>2, <3>1
    <3> QED
      BY <1>4, <3>1, <3>2 DEF OpenInv
  <2> QED
    BY <2>1, <2>2
<1>14. ASSUME NEW u \in InUse', NEW w \in InUse', upVar'[u] = upVar'[w] PROVE u = w
  <2>1. \A y \in InUse' : y # x => y \in InUse /\ upVar'[y] = upVar[y] /\ upVar'[y] # var[i]
    BY <1>2, <1>7, <1>12
  <2> QED
    BY <1>2, <1>14, <2>1 DEF OpenInv
<1>15. OpenInv'
  BY <1>10, <1>11, <1>13, <1>14 DEF OpenInv, L
<1>16. ASSUME Sees PROVE Sees'
  <2>1. ASSUME NEW u \in InUse', up'[u].loc # 0 PROVE u \in Members(open')
    BY <1>2, <1>4, <1>7, <1>16, <2>1 DEF Sees
  <2>2. ASSUME NEW u \in Members(open')
        PROVE  up'[u].loc <= Top' /\ var'[up'[u].loc] = upVar'[u]
    <3>1. CASE u = x
      BY <1>1, <1>2, <3>1
    <3>2. CASE u # x
      <4>1. u \in Members(open) /\ u \in UpIds
        BY <1>4, <3>2, OpenFacts DEF Typed
      <4> QED
        BY <1>1, <1>2, <1>16, <3>2, <4>1 DEF Sees
    <3> QED
      BY <3>1, <3>2
  <2>3. ASSUME NEW u \in InUse', up'[u].loc = 0 PROVE up'[u].closed = value'[upVar'[u]]
    <3>1. u # x
      BY <1>1, <1>2, <2>3
    <3>2. u \in InUse /\ up'[u] = up[u] /\ upVar'[u] = upVar[u]
      BY <1>2, <1>7, <3>1
    <3> QED
      BY <1>16, <2>3, <3>2 DEF Sees
  <2>4. \A j \in Slots' : var'[j] # 0 => stack'[j] = value'[var'[j]]
    BY <1>1, <1>16 DEF Sees
  <2> QED
    BY <2>1, <2>2, <2>3, <2>4 DEF Sees
<1> QED
  BY <1>6, <1>15, <1>16 DEF ValueInv

-----------------------------------------------------------------------------
(* The invariant holds.                                                      *)

LEMMA InitIInv == ASSUME Init PROVE IInv
<1>1. Top = 0 /\ frames = <<>> /\ open = <<>> /\ making = <<>> /\ closures = {}
  BY DEF Init, Top
<1>2. \A u : u \notin Members(<<>>)
  BY DEF Members
<1>3. \A u : u \notin InUse
  BY <1>1, <1>2, UsedAre
<1>4. StackInv
  BY <1>1 DEF Init, StackInv, Slots, Top
<1>5. FrameInv
  BY <1>1 DEF FrameInv, Slots
<1>6. HeapInv
  BY <1>1, Choices DEF Init, HeapInv, NoUpvalue, Upvalue
<1>7. OpenInv
  BY <1>1, <1>3 DEF OpenInv
<1>8. Sees
  BY <1>1, <1>2, <1>3 DEF Sees, Slots
<1> QED
  BY <1>4, <1>5, <1>6, <1>7, <1>8 DEF IInv, Typed, ValueInv

\* What a step that forgets leaves as it was.
LEMMA Forgotten ==
    ASSUME Typed, InUse' \subseteq InUse
    PROVE  /\ Settle(up) => \A u \in InUse' : up'[u] = up[u] /\ upVar'[u] = upVar[u]
           /\ Remember(value) => \A x \in VarIds : x \in Visible' => value'[x] = value[x]
<1>1. InUse \subseteq UpIds
  BY UsedAreUpvalues DEF Typed
<1>2. up \in [UpIds -> Upvalue] /\ value \in [VarIds -> Vals]
  BY DEF Typed, HeapInv
<1>3. ASSUME Settle(up) PROVE \A u \in InUse' : up'[u] = up[u] /\ upVar'[u] = upVar[u]
  BY <1>1, <1>2, <1>3, Settled DEF Typed
<1> QED
  BY <1>2, <1>3, Remembered

\* Steps after which nothing new is held.
LEMMA UseShrinks ==
    ASSUME closures' \subseteq closures \union {making},
           \A f \in 1 .. Len(frames') : f \in 1 .. Len(frames) /\ frames'[f] = frames[f],
           making' = making \/ making' = <<>>,
           Members(open') \subseteq Members(open)
    PROVE  Held' \subseteq Held /\ InUse' \subseteq InUse
<1>1. \A f \in 1 .. Len(frames') : Members(frames'[f].fn) \subseteq Held
  BY UsedAre
<1>2. Members(making') \subseteq Held
  <2>1. Members(<<>>) = {}
    BY DEF Members
  <2> QED
    BY <2>1, UsedAre
<1> QED
  BY <1>1, <1>2, UseKept

LEMMA NextInv == ASSUME IInv, [Next]_vars PROVE IInv'
<1>0. Typed'
  BY NextTyped DEF IInv
<1>1. /\ Top \in Nat /\ Len(frames) \in Nat /\ Typed /\ OpenInv
      /\ frames # <<>> => /\ Frame.base \in Nat \ {0} /\ Frame.base <= Top
                          /\ \A j \in 1 .. Len(Frame.fn) : Frame.fn[j] \in Held
  <2>1. frames # <<>> => /\ Len(frames) \in 1 .. Len(frames) /\ Frame = frames[Len(frames)]
                         /\ Frame.base \in Nat \ {0} /\ Frame.base <= Top
    BY FrameFacts DEF IInv, Typed
  <2>2. frames # <<>> => \A j \in 1 .. Len(Frame.fn) : Frame.fn[j] \in Held
    BY <2>1, UsedAre DEF Members
  <2> QED
    BY <2>1, <2>2, FrameFacts DEF IInv, Typed, StackInv, Top
\* A push in a function, and a call.
<1>2. ASSUME NEW v \in Vals, NEW c \in BOOLEAN, Push(v, c),
             UNCHANGED <<frames, open, up, closures, making, upVar, loose>>
      PROVE  OpenInv' /\ ValueInv'
  <2>1. InUse' \subseteq InUse
    BY <1>2 DEF InUse, Held
  <2> QED
    BY <1>0, <1>2, <2>1, PushKeeps
<1>3. ASSUME NEW fn, fn \in closures \/ fn = <<>>, NEW self \in BOOLEAN, Enter(fn, self)
      PROVE  OpenInv' /\ ValueInv'
  <2>1. /\ Push(SetMin(Vals), self)
        /\ frames' = Append(frames, [base |-> Top + 1, fn |-> fn])
        /\ UNCHANGED <<open, up, closures, making, upVar, loose>>
    BY <1>3 DEF Enter
  <2>2. fn \in Seq(UpIds)
    <3>1. <<>> \in Seq(UpIds)
      OBVIOUS
    <3> QED
      BY <1>1, <1>3, <3>1 DEF Typed, HeapInv
  <2>3. /\ Len(frames') = Len(frames) + 1
        /\ \A f \in 1 .. Len(frames) : frames'[f] = frames[f]
        /\ frames'[Len(frames) + 1] = [base |-> Top + 1, fn |-> fn]
    <3>1. [base |-> Top + 1, fn |-> fn] \in CallFrame
      BY <1>1, <2>2 DEF CallFrame
    <3> QED
      BY <1>1, <2>1, <3>1, Appended DEF Typed, FrameInv
  <2>4. Members(fn) \subseteq Held
    <3>1. Members(<<>>) = {}
      BY DEF Members
    <3> QED
      BY <1>3, <3>1, UsedAre
  <2>5. ASSUME NEW f \in 1 .. Len(frames') PROVE Members(frames'[f].fn) \subseteq Held
    <3>1. CASE f \in 1 .. Len(frames)
      BY <2>3, <3>1, UsedAre
    <3>2. CASE f = Len(frames) + 1
      BY <2>3, <2>4, <3>2
    <3> QED
      BY <1>1, <2>3, <3>1, <3>2
  <2>6. InUse' \subseteq InUse
    BY <2>1, <2>5, UsedAre, UseKept
  <2> QED
    BY <1>0, <2>1, <2>6, Choices, PushKeeps
<1>4. ASSUME NEW v \in Vals, NEW c \in BOOLEAN, Declare(v, c) PROVE OpenInv' /\ ValueInv'
  BY <1>2, <1>4 DEF Declare
<1>5. ASSUME NEW i, NEW v \in Vals, SetLocal(i, v) PROVE OpenInv' /\ ValueInv'
  BY <1>0, <1>5, SetLocalKeeps
<1>6. ASSUME NEW i, CaptureLocal(i) PROVE OpenInv' /\ ValueInv'
  <2>1. UNCHANGED <<stack, captured, frames, closures, var, value, loose>>
    BY <1>6 DEF CaptureLocal
  <2>2. i \in Slots /\ var[i] \in VarIds
    BY <1>1, <1>6, CapturedLocal DEF Typed
  <2>3. CASE \E u \in Members(open) : /\ making' = Append(making, u)
                                      /\ UNCHANGED <<open, up, upVar>>
    BY <1>0, <2>1, <2>3, ShareKeeps
  <2>4. CASE \E x \in UpIds \ InUse, n \in 0 .. Len(open) :
                /\ making' = Append(making, x)
                /\ up' = [up EXCEPT ![x] = [loc |-> i, closed |-> SetMin(Vals)]]
                /\ upVar' = [upVar EXCEPT ![x] = var[i]]
                /\ Len(open') = Len(open) + 1
                /\ \A p \in 1 .. n : open'[p] = open[p] /\ up[open[p]].loc > i
                /\ open'[n + 1] = x
                /\ \A p \in n + 1 .. Len(open) : open'[p + 1] = open[p] /\ up[open[p]].loc < i
    BY <1>0, <2>1, <2>2, <2>4, CaptureKeeps
  <2> QED
    BY <1>1, <1>6, <2>3, <2>4, CapturedLocal DEF Typed
<1>7. ASSUME NEW j, CaptureOuter(j) PROVE OpenInv' /\ ValueInv'
  <2>1. /\ making' = Append(making, Frame.fn[j]) /\ Frame.fn[j] \in Held
        /\ UNCHANGED <<stack, captured, var, frames, open, up, closures, upVar, value, loose>>
    BY <1>1, <1>7 DEF CaptureOuter, Capturing, aux
  <2> QED
    BY <1>0, <2>1, ShareKeeps
<1>8. ASSUME MakeClosure PROVE OpenInv' /\ ValueInv'
  <2>1. /\ closures' = closures \union {making} /\ making' = <<>>
        /\ UNCHANGED <<stack, captured, frames, open, up, var, upVar, value, loose>>
    BY <1>8 DEF MakeClosure, aux
  <2>2. InUse' \subseteq InUse
    BY <2>1, UseShrinks
  <2> QED
    BY <1>0, <2>1, <2>2, UseOnly
<1>9. ASSUME NEW c, Forget(c) PROVE OpenInv' /\ ValueInv'
  <2>1. /\ closures' = closures \ {c} /\ Settle(up) /\ Remember(value)
        /\ UNCHANGED <<stack, captured, frames, open, making, var, loose>>
    BY <1>9 DEF Forget
  <2>2. InUse' \subseteq InUse
    BY <2>1, UseShrinks
  <2> QED
    BY <1>0, <1>1, <2>1, <2>2, Forgotten, UseOnly
<1>10. ASSUME NEW j, GetUpval(j) PROVE OpenInv' /\ ValueInv'
  <2>1. PICK v \in Reads(Frame.fn[j]) : Push(v, FALSE)
    BY <1>10 DEF GetUpval
  <2>2. Frame.fn[j] \in UpIds
    BY <1>1, <1>10, UsedAre, UsedAreUpvalues DEF GetUpval, Running, Typed
  <2>3. v \in Vals
    BY <1>1, <2>2, ReadsValues DEF Typed
  <2> QED
    BY <1>2, <1>10, <2>1, <2>3 DEF GetUpval
<1>11. ASSUME NEW j, NEW v \in Vals, SetUpval(j, v) PROVE OpenInv' /\ ValueInv'
  BY <1>0, <1>11, SetUpvalKeeps
<1>12. ASSUME EndScope PROVE OpenInv' /\ ValueInv'
  <2>1. /\ frames # <<>> /\ Top > Frame.base /\ Pop(Top - 1) /\ Remember(value)
        /\ UNCHANGED <<frames, closures, making, loose>>
        /\ captured[Top] => Close(Top)
        /\ ~captured[Top] => UNCHANGED <<open, up, upVar>>
    BY <1>12 DEF EndScope, Running
  <2>2. PICK n \in 0 .. Top : n + 1 = Top /\ n = Top - 1
    <3>1. Top - 1 \in 0 .. Top /\ Top - 1 + 1 = Top
      BY <1>1, <2>1
    <3> QED
      BY <3>1
  <2>3. /\ Top' = n /\ n <= Top' /\ \A i \in 1 .. n : var'[i] = var[i] /\ stack'[i] = stack[i]
        /\ Slots' = 1 .. n
    BY <1>1, <2>1, <2>2, Popped DEF Typed, Slots
  <2>4. \A i \in Slots' : i <= n /\ var'[i] = var[i] /\ stack'[i] = stack[i]
    BY <2>2, <2>3
  <2>5. CASE captured[Top]
    <3>1. Close(n + 1)
      BY <2>1, <2>2, <2>5 DEF Close, Closing
    <3>2. Members(open') \subseteq Members(open)
      BY <1>1, <2>2, <3>1, Closed DEF Typed
    <3>3. InUse' \subseteq InUse
      BY <2>1, <3>2, UseShrinks
    <3> QED
      BY <1>0, <1>1, <2>1, <2>3, <2>4, <3>1, <3>3, Forgotten, CloseKeeps
  <2>6. CASE ~captured[Top]
    <3>1. InUse' \subseteq InUse
      BY <2>1, <2>6, UseShrinks
    \* No open upvalue points at it: its variable would be captured.
    <3>2. ASSUME ~loose', NEW u \in Members(open) PROVE ~(up[u].loc > n)
      <4>1. Sees
        BY <2>1, <3>2 DEF IInv, ValueInv
      <4>2. up[u].loc <= Top /\ var[up[u].loc] = upVar[u] /\ up[u].loc \in Nat \ {0}
        BY <1>1, <4>1, OpenFacts DEF Sees, Typed
      <4>3. upVar[u] # 0
        BY <1>1, UsedAre, UsedAreUpvalues, UpvalueTyped, Choices DEF Typed
      <4>4. Top \in Slots /\ (captured[Top] <=> var[Top] # 0)
        BY <1>1, <2>2 DEF Typed, StackInv, Slots
      <4>5. up[u].loc # Top
        BY <2>6, <4>2, <4>3, <4>4
      <4> QED
        BY <1>1, <2>2, <4>2, <4>5
    <3>3. \A u \in InUse' : up'[u] = up[u] /\ upVar'[u] = upVar[u]
      BY <2>1, <2>6
    <3> QED
      BY <1>0, <1>1, <2>1, <2>3, <2>4, <2>6, <3>1, <3>2, <3>3, Forgotten, DropKeeps
  <2> QED
    BY <2>5, <2>6
<1>13. ASSUME JumpOut PROVE OpenInv' /\ ValueInv'
  <2>1. /\ frames # <<>> /\ Top > Frame.base /\ Pop(Top - 1) /\ Remember(value)
        /\ loose' = (loose \/ OpenAbove(Top - 1))
        /\ UNCHANGED <<frames, open, up, closures, making, upVar>>
    BY <1>13 DEF JumpOut, Running
  <2>2. PICK n \in 0 .. Top : n = Top - 1
    BY <1>1, <2>1
  <2>3. /\ Top' = n /\ n <= Top' /\ \A i \in 1 .. n : var'[i] = var[i] /\ stack'[i] = stack[i]
        /\ Slots' = 1 .. n
    BY <1>1, <2>1, <2>2, Popped DEF Typed, Slots
  <2>4. \A i \in Slots' : i <= n /\ var'[i] = var[i] /\ stack'[i] = stack[i]
    BY <2>2, <2>3
  <2>5. ~loose' => ~loose /\ \A u \in Members(open) : ~(up[u].loc > n)
    BY <2>1, <2>2 DEF OpenAbove
  <2>6. InUse' \subseteq InUse
    BY <2>1, UseShrinks
  <2> QED
    BY <1>0, <1>1, <2>1, <2>3, <2>4, <2>5, <2>6, Forgotten, DropKeeps
<1>14. ASSUME NEW c \in closures, NEW self \in BOOLEAN, Call(c, self) PROVE OpenInv' /\ ValueInv'
  <2>1. Enter(c, self)
    BY <1>14 DEF Call
  <2> QED
    BY <1>3, <2>1
<1>15. ASSUME RunScript PROVE OpenInv' /\ ValueInv'
  BY <1>3, <1>15 DEF RunScript
<1>16. ASSUME Ret PROVE OpenInv' /\ ValueInv'
  <2>1. /\ frames # <<>> /\ Remember(value) /\ Close(Frame.base)
        /\ stack' = Append(Front(stack, Frame.base - 1), SetMin(Vals))
        /\ captured' = Append(Front(captured, Frame.base - 1), FALSE)
        /\ var' = Append(Front(var, Frame.base - 1), 0)
        /\ frames' = Front(frames, Len(frames) - 1)
        /\ UNCHANGED <<closures, making, loose>>
    BY <1>16 DEF Ret, Running
  <2>2. PICK n \in 0 .. Top : n + 1 = Frame.base /\ n = Frame.base - 1
    <3>1. Frame.base \in Nat \ {0} /\ Frame.base <= Top /\ Top \in Nat
      BY <1>1, <2>1
    <3>2. Frame.base - 1 \in 0 .. Top /\ Frame.base - 1 + 1 = Frame.base
      BY <3>1
    <3> QED
      BY <3>2
  <2>3. /\ Top' = n + 1 /\ n <= Top' /\ var'[n + 1] = 0
        /\ \A i \in 1 .. n : var'[i] = var[i] /\ stack'[i] = stack[i]
    <3>1. Frame.base \in 1 .. Top
      BY <1>1, <2>1
    <3>2. /\ Top' = Frame.base /\ var'[Frame.base] = 0
          /\ \A i \in 1 .. Frame.base - 1 : stack'[i] = stack[i] /\ var'[i] = var[i]
      BY <1>1, <2>1, <3>1, Returned DEF Typed
    <3> QED
      BY <2>2, <3>2
  <2>4. ASSUME NEW i \in Slots'
        PROVE  var'[i] = 0 \/ (i <= n /\ var'[i] = var[i] /\ stack'[i] = stack[i])
    <3>1. i \in 1 .. n + 1 /\ n \in Nat
      BY <1>1, <2>2, <2>3 DEF Slots
    <3>2. i = n + 1 \/ i \in 1 .. n
      BY <3>1
    <3> QED
      BY <2>3, <3>1, <3>2
  <2>5. Close(n + 1)
    BY <2>1, <2>2 DEF Close, Closing
  <2>6. Members(open') \subseteq Members(open)
    BY <1>1, <2>2, <2>5, Closed DEF Typed
  <2>7. \A f \in 1 .. Len(frames') : f \in 1 .. Len(frames) /\ frames'[f] = frames[f]
    <3>1. Len(frames) - 1 \in 0 .. Len(frames)
      BY <1>1, <2>1, FrameFacts DEF Typed
    <3>2. Len(frames') = Len(frames) - 1 /\ \A f \in 1 .. Len(frames) - 1 : frames'[f] = frames[f]
      BY <1>1, <2>1, <3>1, Cut DEF Front, Typed, FrameInv
    <3> QED
      BY <1>1, <3>2
  <2>8. InUse' \subseteq InUse
    BY <2>1, <2>6, <2>7, UseShrinks
  <2> QED
    BY <1>0, <1>1, <2>1, <2>3, <2>4, <2>5, <2>8, Forgotten, CloseKeeps
<1>17. ASSUME HostPop PROVE OpenInv' /\ ValueInv'
  <2>1. /\ frames = <<>> /\ Top > 0 /\ Pop(Top - 1)
        /\ UNCHANGED <<frames, open, up, closures, making, upVar, value, loose>>
    BY <1>17 DEF HostPop
  <2>2. PICK n \in 0 .. Top : n = Top - 1
    BY <1>1, <2>1
  <2>3. /\ Top' = n /\ n <= Top' /\ \A i \in 1 .. n : var'[i] = var[i] /\ stack'[i] = stack[i]
        /\ Slots' = 1 .. n
    BY <1>1, <2>1, <2>2, Popped DEF Typed, Slots
  <2>4. \A i \in Slots' : i <= n /\ var'[i] = var[i] /\ stack'[i] = stack[i]
    BY <2>2, <2>3
  \* No slot of the embedding program is captured.
  <2>5. ASSUME ~loose', NEW u \in Members(open) PROVE ~(up[u].loc > n)
    <3>1. Sees
      BY <2>1, <2>5 DEF IInv, ValueInv
    <3>2. up[u].loc \in Slots /\ var[up[u].loc] = upVar[u]
      BY <1>1, <3>1, OpenFacts DEF Sees, Slots, Typed
    <3>3. var[up[u].loc] = 0
      BY <1>1, <2>1, <3>2 DEF Typed, FrameInv
    <3>4. upVar[u] # 0
      BY <1>1, UsedAre, UsedAreUpvalues, UpvalueTyped, Choices DEF Typed
    <3> QED
      BY <3>2, <3>3, <3>4
  <2>6. InUse' \subseteq InUse
    BY <2>1, UseShrinks
  <2> QED
    BY <1>0, <2>1, <2>3, <2>4, <2>5, <2>6, DropKeeps
<1>18. ASSUME RuntimeErr PROVE OpenInv' /\ ValueInv'
  <2>1. /\ stack' = <<>> /\ frames' = <<>> /\ open' = <<>> /\ Settle(up) /\ Remember(value)
        /\ loose' = (loose \/ OpenAbove(0))
        /\ UNCHANGED <<closures, making>>
    BY <1>18 DEF RuntimeErr
  <2>2. Top' = 0 /\ Slots' = {} /\ Len(open') = 0 /\ Members(open') = {}
    BY <2>1 DEF Top, Slots, Members
  <2>3. InUse' \subseteq InUse
    BY <2>1, <2>2, UseShrinks
  <2>4. /\ \A u \in InUse' : up'[u] = up[u] /\ upVar'[u] = upVar[u]
        /\ \A x \in VarIds : x \in Visible' => value'[x] = value[x]
    BY <1>1, <2>1, <2>3, Forgotten
  <2>5. OpenInv'
    <3>1. /\ Len(open) \in 0 .. Len(open) /\ Len(open') = Len(open) - Len(open)
          /\ \A x \in 1 .. Len(open) - Len(open) : open'[x] = open[x + Len(open)]
      BY <1>1, <2>2, OpenFacts DEF Typed
    <3> QED
      BY <1>0, <1>1, <2>2, <2>3, <2>4, <3>1, OpenKept
  <2>6. ASSUME ~loose' PROVE Sees'
    <3>1. Sees /\ \A u \in Members(open) : ~(up[u].loc > 0)
      BY <2>1, <2>6 DEF IInv, ValueInv, OpenAbove
    <3>2. Members(open') = {u \in Members(open) : up[u].loc <= 0}
      <4>1. \A u \in Members(open) : FALSE
        BY <1>1, <3>1, OpenFacts DEF Typed
      <4> QED
        BY <2>2, <4>1
    <3>3. 0 \in 0 .. Top /\ 0 <= Top'
      BY <1>1, <2>2
    <3> QED
      BY <1>0, <1>1, <2>2, <2>3, <2>4, <3>1, <3>2, <3>3, SeesBelow
  <2> QED
    BY <2>5, <2>6 DEF ValueInv
<1>19. ASSUME UNCHANGED vars PROVE OpenInv' /\ ValueInv'
  BY <1>19 DEF vars, code, aux, IInv, OpenInv, ValueInv, Sees, InUse, Held, Slots, Top
<1>20. OpenInv' /\ ValueInv'
  BY <1>4, <1>5, <1>6, <1>7, <1>8, <1>9, <1>10, <1>11, <1>12, <1>13, <1>14, <1>15, <1>16, <1>17,
     <1>18, <1>19 DEF Next
<1> QED
  BY <1>0, <1>20 DEF IInv

\* Upvalues in use stay the variables they are, and stay closed.
LEMMA NextKept ==
    ASSUME IInv, [Next]_vars, NEW u \in InUse, u \in InUse'
    PROVE  upVar'[u] = upVar[u] /\ (up[u].loc = 0 => up'[u].loc = 0)
<1>1. u \in UpIds /\ HeapInv /\ FrameInv /\ StackInv /\ OpenInv
  BY UsedAreUpvalues DEF IInv, Typed
<1>2. CASE UNCHANGED <<up, upVar>>
  BY <1>2
<1>3. CASE Settle(up)
  BY <1>1, <1>3, Settled DEF HeapInv
<1>4. CASE \E last \in Nat : Close(last)
  BY <1>1, <1>4, Closed
<1>5. ASSUME NEW i, CaptureLocal(i) PROVE upVar'[u] = upVar[u] /\ up'[u] = up[u]
  BY <1>1, <1>5, CapturedLocal DEF HeapInv
<1>6. ASSUME NEW j, NEW v \in Vals, SetUpval(j, v)
      PROVE  upVar'[u] = upVar[u] /\ up'[u].loc = up[u].loc
  <2>1. upVar' = upVar
    BY <1>6 DEF SetUpval
  <2>2. up' = up \/ up' = [up EXCEPT ![Frame.fn[j]].closed = v]
    BY <1>6 DEF SetUpval
  <2> QED
    BY <1>1, <2>1, <2>2 DEF HeapInv, Upvalue
<1>7. /\ Top \in Nat
      /\ frames # <<>> => Frame.base \in Nat
  BY <1>1, FrameFacts DEF StackInv, Top
<1>8. CASE EndScope \/ Ret
  BY <1>2, <1>4, <1>7, <1>8 DEF EndScope, Ret, Running
<1>9. CASE RuntimeErr \/ \E c \in closures : Forget(c)
  BY <1>3, <1>9 DEF RuntimeErr, Forget
<1>10. CASE UNCHANGED vars \/ MakeClosure \/ JumpOut \/ RunScript \/ HostPop
  BY <1>2, <1>10 DEF vars, code, aux, MakeClosure, JumpOut, RunScript, Enter, HostPop
<1>11. CASE \/ \E v \in Vals, c \in BOOLEAN : Declare(v, c)
            \/ \E i \in 1 .. MaxStack, v \in Vals : SetLocal(i, v)
            \/ \E j \in 1 .. MaxUpvals : CaptureOuter(j) \/ GetUpval(j)
            \/ \E c \in closures, self \in BOOLEAN : Call(c, self)
  BY <1>2, <1>11 DEF Declare, SetLocal, CaptureOuter, aux, GetUpval, Call, Enter
<1> QED
  BY <1>5, <1>6, <1>8, <1>9, <1>10, <1>11 DEF Next

LEMMA InvariantHolds == Spec => []IInv
<1>1. Init => IInv
  BY InitIInv
<1>2. IInv /\ [Next]_vars => IInv'
  BY NextInv
<1> QED
  BY <1>1, <1>2, PTL DEF Spec

-----------------------------------------------------------------------------
(* The theorems.                                                             *)

\* Slots, calls, upvalues and closures are of their types, every frame lies on
\* the stack, and no slot of the embedding program belongs to a variable.
THEOREM TypeCorrect == Spec => []Typed
<1>1. IInv => Typed
  BY DEF IInv
<1> QED
  BY <1>1, InvariantHolds, PTL

\* capture_upval and close_upvals may stop at the first upvalue below the slot:
\* the list runs down the stack and holds exactly the upvalues that point there.
THEOREM OpenListIsSound == Spec => []OpenListSound
<1>1. ASSUME IInv PROVE OpenListSound
  <2>1. \A u \in Members(open) : up[u].loc # 0
    BY <1>1, OpenFacts DEF IInv, Typed
  <2> QED
    BY <1>1, <2>1 DEF IInv, OpenInv, ValueInv, Sees, OpenListSound
<1> QED
  BY <1>1, InvariantHolds, PTL

\* "The value is on the stack or inside this struct", for as long as no jump and
\* no error has dropped a captured variable.
THEOREM OnlyTheLooseAreAbove == Spec => []OnlyLooseAbove
<1>1. ASSUME IInv PROVE OnlyLooseAbove
  <2>1. Top \in Nat
    BY <1>1 DEF IInv, Typed, StackInv, Top
  <2>2. \A u \in Held : u \in InUse
    BY UsedAre
  <2> QED
    BY <1>1, <2>1, <2>2 DEF IInv, ValueInv, Sees, OnlyLooseAbove, ValueOnStackOrInside
<1> QED
  BY <1>1, InvariantHolds, PTL

\* Closures that captured one variable share its upvalue, whatever happens.
THEOREM OneUpvalueEach == Spec => []OneUpvalPerVariable
<1>1. ASSUME IInv PROVE OneUpvalPerVariable
  <2>1. \A u \in Held : u \in InUse
    BY UsedAre
  <2> QED
    BY <1>1, <2>1 DEF IInv, OpenInv, OneUpvalPerVariable
<1> QED
  BY <1>1, InvariantHolds, PTL

\* Closures and functions see the value last given to the variable, before and
\* after its scope ends, for as long as none has been dropped.
THEOREM ClosuresSee == Spec => []SeesVariable
<1>1. ASSUME IInv PROVE SeesVariable
  <2> SUFFICES ASSUME ~loose PROVE /\ \A u \in Held : Reads(u) = {value[upVar[u]]}
                                   /\ \A i \in 1 .. Top : captured[i] => stack[i] = value[var[i]]
    BY DEF SeesVariable
  <2>1. Sees /\ Typed /\ OpenInv /\ Top \in Nat
    BY <1>1 DEF IInv, ValueInv, Typed, StackInv, Top
  <2>2. ASSUME NEW u \in Held PROVE Reads(u) = {value[upVar[u]]}
    <3>1. u \in InUse /\ u \in UpIds
      BY <2>1, UsedAre, UsedAreUpvalues DEF Typed
    <3>2. CASE up[u].loc = 0
      BY <2>1, <3>1, <3>2 DEF Reads, Sees
    <3>3. CASE up[u].loc # 0
      <4>1. u \in Members(open)
        BY <2>1, <3>1, <3>3 DEF Sees
      <4>2. up[u].loc <= Top /\ up[u].loc \in Slots /\ var[up[u].loc] = upVar[u]
        BY <2>1, <4>1, OpenFacts DEF Sees, Typed, Slots
      <4>3. upVar[u] # 0
        BY <2>1, <3>1, UpvalueTyped, Choices DEF Typed
      <4>4. stack[up[u].loc] = value[upVar[u]]
        BY <2>1, <4>2, <4>3 DEF Sees
      <4> QED
        BY <3>3, <4>2, <4>4 DEF Reads
    <3> QED
      BY <3>2, <3>3
  <2>3. \A i \in 1 .. Top : captured[i] => stack[i] = value[var[i]]
    BY <2>1 DEF Sees, Typed, StackInv, Slots
  <2> QED
    BY <2>2, <2>3
<1> QED
  BY <1>1, InvariantHolds, PTL

\* A closed upvalue stays closed, and no variable still on the stack is closed.
THEOREM ClosedOnceForAll == Spec => ClosedForGood
<1> DEFINE A == \A u \in Held : u \in Held' =>
                   /\ up[u].loc = 0 => up'[u].loc = 0
                   /\ up[u].loc # 0 /\ up'[u].loc = 0 =>
                         ~(\E i \in 1 .. Len(stack') : var'[i] = upVar[u])
<1>1. ASSUME IInv, [Next]_vars PROVE A
  <2> SUFFICES ASSUME NEW u \in Held, u \in Held'
               PROVE  /\ up[u].loc = 0 => up'[u].loc = 0
                      /\ up'[u].loc = 0 => ~(\E i \in 1 .. Len(stack') : var'[i] = upVar[u])
    OBVIOUS
  <2>1. u \in InUse /\ u \in InUse'
    BY UsedAre, UsedAfter
  <2>2. upVar'[u] = upVar[u] /\ (up[u].loc = 0 => up'[u].loc = 0)
    BY <1>1, <2>1, NextKept
  <2>3. ASSUME NEW i \in 1 .. Len(stack'), var'[i] = upVar[u] PROVE up'[u].loc # 0
    <3>1. i \in Slots' /\ OpenInv' /\ upVar'[u] = var'[i]
      BY <1>1, <2>2, <2>3, NextInv DEF IInv, Slots, Top
    <3>2. up'[u].loc = i /\ i # 0
      BY <2>1, <3>1 DEF OpenInv
    <3> QED
      BY <3>2
  <2> QED
    BY <2>2, <2>3
<1>2. IInv /\ [Next]_vars => [A]_vars
  BY <1>1
<1> HIDE DEF A
<1>3. Spec => [][A]_vars
  BY <1>2, InvariantHolds, PTL DEF Spec
<1> QED
  BY <1>3 DEF ClosedForGood, A
=============================================================================
