-------------------------- MODULE InterpreterProofs --------------------------
(* Theorems about Interpreter, for every chunk, every world and every answer *)
(* of the host: code that fits some heights is safe to run.  Programs checks *)
(* that what the compiler writes does fit.                                   *)
EXTENDS Interpreter, TLAPS

-----------------------------------------------------------------------------
(* What the tables say of each instruction.                                 *)

\* Those that go on with the instruction behind them.
LEMMA Straight ==
    ASSUME NEW i \in Int, Name(i) \notin {"jmp", "loop", "false_jmp", "ineq_jmp", "ret"}
    PROVE  Follow(i) = {i + 1 + Operands(Name(i))}
<1> QED
  BY SMT DEF Follow

LEMMA NoOperands ==
    ASSUME NEW i, Name(i) \in {"pop", "null", "true", "false", "add", "sub", "mul", "lt", "lte", "gt",
                               "gte", "eql", "neql", "neg", "not", "get_subscript",
                               "push_subscript", "set_subscript", "ret"}
    PROVE  Operands(Name(i)) = 0
<1> QED
  BY DEF Operands

LEMMA OneOperand ==
    ASSUME NEW i, Name(i) \in OfNames \union {"const", "get_local", "set_local", "call"}
    PROVE  Operands(Name(i)) = 1
<1> QED
  BY DEF Operands, OfNames

LEMMA TwoOperands ==
    ASSUME NEW i, Name(i) \in {"jmp", "loop", "false_jmp", "ineq_jmp"}
    PROVE  Operands(Name(i)) = 2
<1> QED
  BY DEF Operands

\* What is on the stack afterwards.
LEMMA Heights ==
    ASSUME NEW i
    PROVE  /\ Name(i) \in {"const", "null", "true", "false", "get_local", "get_global"}
                => Needs(i) = 0 /\ Rises(i) = 1
           /\ Name(i) \in {"jmp", "loop"} => Needs(i) = 0 /\ Rises(i) = 0
           /\ Name(i) \in {"neg", "not", "set_local", "set_global", "get_prop", "false_jmp"}
                => Needs(i) = 1 /\ Rises(i) = 0
           /\ Name(i) = "push_prop" => Needs(i) = 1 /\ Rises(i) = 1
           /\ Name(i) = "pop" => Needs(i) = 1 /\ Rises(i) = -1
           /\ Name(i) = "ret" => Needs(i) = 1
           /\ Name(i) \in {"add", "sub", "mul", "lt", "lte", "gt", "gte", "eql", "neql", "set_prop",
                           "get_subscript", "ineq_jmp"}
                => Needs(i) = 2 /\ Rises(i) = -1
           /\ Name(i) = "push_subscript" => Needs(i) = 2 /\ Rises(i) = 1
           /\ Name(i) = "set_subscript" => Needs(i) = 3 /\ Rises(i) = -2
           /\ Name(i) = "call" => Needs(i) = ByteAt(i + 1) + 1 /\ Rises(i) = -ByteAt(i + 1)
<1> QED
  BY DEF Needs, Rises

-----------------------------------------------------------------------------
(* Values and the stack.                                                    *)

LEMMA Values ==
    /\ \A n \in Int : Num(n) \in AnyValue
    /\ \A b \in BOOLEAN : Bool(b) \in AnyValue
    /\ {Null, Script} \subseteq AnyValue
    /\ \A v \in AnyValue : IsNum(v) => v[2] \in Int
<1>1. ASSUME NEW v \in AnyValue, IsNum(v)
      PROVE  v[2] \in Int
  <2>1. CASE v \in {"num"} \X Int
    BY <2>1
  <2>2. CASE v \in {"bool"} \X BOOLEAN
    BY <2>2, <1>1 DEF IsNum
  <2>3. CASE v \in {Null, Inst, Arr, Say, Script}
    BY <2>3, <1>1 DEF IsNum, Null, Inst, Arr, Say, Script
  <2> QED
    BY <2>1, <2>2, <2>3 DEF AnyValue
<1> QED
  BY <1>1 DEF AnyValue, Num, Bool, Null, Script

LEMMA Stacks ==
    ASSUME stack \in Seq(AnyValue)
    PROVE  /\ \A d \in Nat : d < Len(stack) => Peek(d) \in AnyValue
           /\ \A n \in Nat : n <= Len(stack) =>
                Under(n) \in Seq(AnyValue) /\ Len(Under(n)) = Len(stack) - n
           /\ \A v \in AnyValue : Pushed(v) \in Seq(AnyValue) /\ Len(Pushed(v)) = Len(stack) + 1
           /\ \A n \in Nat, v \in AnyValue : n <= Len(stack) =>
                Put(n, v) \in Seq(AnyValue) /\ Len(Put(n, v)) = Len(stack) - n + 1
<1>1. \A n \in Nat : n <= Len(stack) =>
        Under(n) \in Seq(AnyValue) /\ Len(Under(n)) = Len(stack) - n
  BY DEF Under
<1> QED
  BY <1>1 DEF Peek, Pushed, Put

LEMMA Replaced ==
    ASSUME NEW S, NEW s \in Seq(S), NEW k, NEW v \in S
    PROVE  [s EXCEPT ![k] = v] \in Seq(S) /\ Len([s EXCEPT ![k] = v]) = Len(s)
<1> DEFINE t == [s EXCEPT ![k] = v]
<1>1. s \in [1 .. Len(s) -> S] /\ Len(s) \in Nat
  OBVIOUS
<1>2. t \in [1 .. Len(s) -> S]
  BY <1>1
<1>3. t \in Seq(S) /\ Len(t) = Len(s)
  <2> HIDE DEF t
  <2> QED
    BY <1>1, <1>2
<1> QED
  BY <1>3

-----------------------------------------------------------------------------
(* The invariant, and the ways to take a step.                              *)

\* Control is at an address the heights know, with a stack of that height.
Inv(heights) ==
    /\ Fits(heights)
    /\ TypeOK
    /\ status = "running" => ip \in DOMAIN heights /\ Len(stack) = heights[ip]

\* Where a running interpreter stands.
LEMMA Stands ==
    ASSUME NEW CONSTANT heights, Inv(heights), status = "running"
    PROVE  Has(ip, Len(stack)) /\ ip \in Int /\ chunk.code \in Seq(Nat) /\ stack \in Seq(AnyValue)
<1> QED
  BY DEF Inv, Fits, TypeOK

LEMMA WorldParts ==
    ASSUME IsWorld(world)
    PROVE  /\ world.globals \in [DOMAIN world.globals -> AnyValue]
           /\ world.field \in AnyValue
           /\ world.items \in Seq(AnyValue) /\ world.log \in Seq(AnyValue)
           /\ world.tape \in Seq(AnyValue)
<1> QED
  BY DEF IsWorld

LEMMA WorldOf ==
    ASSUME NEW S, NEW globals \in [S -> AnyValue], NEW field \in AnyValue,
           NEW items \in Seq(AnyValue), NEW log \in Seq(AnyValue), NEW tape \in Seq(AnyValue)
    PROVE  IsWorld([globals |-> globals, field |-> field, items |-> items, log |-> log,
                    tape |-> tape])
<1>1. globals \in [DOMAIN globals -> AnyValue]
  OBVIOUS
<1> QED
  BY <1>1 DEF IsWorld

\* What is said of the code does not change with the rest.
LEMMA SameCode ==
    ASSUME UNCHANGED chunk
    PROVE  /\ \A i : IsInstr(i)' = IsInstr(i) /\ Name(i)' = Name(i)
           /\ \A i : Rises(i)' = Rises(i) /\ Follow(i)' = Follow(i)
           /\ \A i, height : Has(i, height)' = Has(i, height)
           /\ \A heights : Fits(heights)' = Fits(heights)
<1>1. ASSUME NEW i
      PROVE  /\ IsInstr(i)' = IsInstr(i)
             /\ Name(i)' = Name(i)
             /\ ByteAt(i)' = ByteAt(i)
             /\ ShortAt(i)' = ShortAt(i)
             /\ ConstOf(i)' = ConstOf(i)
  BY DEF IsInstr, Name, ByteAt, ShortAt, ConstOf
<1>2. ASSUME NEW i
      PROVE  Rises(i)' = Rises(i) /\ Follow(i)' = Follow(i) /\ Needs(i)' = Needs(i)
  BY <1>1 DEF Rises, Follow, Needs
<1>3. ASSUME NEW i, NEW height
      PROVE  Has(i, height)' = Has(i, height)
  BY <1>1, <1>2 DEF Has
<1>4. Starts' = Starts
  BY DEF Starts, Reads, IsInstr, Name, ByteAt
<1>5. ASSUME NEW heights
      PROVE  Fits(heights)' = Fits(heights)
  BY <1>2, <1>3, <1>4 DEF Fits
<1> QED
  BY <1>1, <1>2, <1>3, <1>5

LEMMA ChangesKeeps ==
    ASSUME NEW CONSTANT heights, Inv(heights), status = "running",
           NEW length, NEW st \in Seq(AnyValue), NEW w, IsWorld(w),
           ip + length \in Follow(ip), Len(st) = Len(stack) + Rises(ip), Changes(length, st, w)
    PROVE  Inv(heights)'
<1>1. /\ ip \in DOMAIN heights /\ Len(stack) = heights[ip]
      /\ ip + length \in DOMAIN heights /\ heights[ip + length] = heights[ip] + Rises(ip)
  BY DEF Inv, Fits
<1>2. ip' = ip + length /\ stack' = st /\ world' = w /\ UNCHANGED <<status, chunk>>
  BY DEF Changes
<1>3. ip' \in DOMAIN heights /\ Len(stack') = heights[ip']
  BY <1>1, <1>2
<1>4. Fits(heights)'
  BY <1>2, SameCode DEF Inv
<1>5. ip' \in Int
  BY <1>4, <1>3 DEF Fits, Has, IsInstr
<1> QED
  BY <1>2, <1>3, <1>4, <1>5 DEF Inv, TypeOK, IsWorld

LEMMA GoesKeeps ==
    ASSUME NEW CONSTANT heights, Inv(heights), status = "running",
           NEW length, NEW st \in Seq(AnyValue),
           ip + length \in Follow(ip), Len(st) = Len(stack) + Rises(ip), Goes(length, st)
    PROVE  Inv(heights)'
<1>1. Changes(length, st, world)
  BY DEF Goes, Changes
<1>2. IsWorld(world)
  BY DEF Inv, TypeOK
<1> QED
  BY <1>1, <1>2, ChangesKeeps

LEMMA ErrorKeeps ==
    ASSUME NEW CONSTANT heights, Inv(heights), RuntimeErr
    PROVE  Inv(heights)'
<1>1. UNCHANGED <<ip, world, chunk>> /\ status' = "error" /\ stack' = <<>>
  BY DEF RuntimeErr
<1>2. Fits(heights)'
  BY <1>1, SameCode DEF Inv
<1> QED
  BY <1>1, <1>2 DEF Inv, TypeOK, IsWorld

\* The same for the instructions without a jump: where they lead to is known.
LEMMA StraightOn ==
    ASSUME NEW CONSTANT heights, Inv(heights), status = "running",
           Name(ip) \notin {"jmp", "loop", "false_jmp", "ineq_jmp", "ret"}
    PROVE  ip + (1 + Operands(Name(ip))) \in Follow(ip)
<1>1. ip \in Int
  BY Stands
<1>2. Operands(Name(ip)) \in Int
  BY DEF Operands
<1>3. ip + (1 + Operands(Name(ip))) = ip + 1 + Operands(Name(ip))
  BY <1>1, <1>2
<1> QED
  BY <1>1, <1>3, Straight

-----------------------------------------------------------------------------
(* One lemma for each kind of instruction.                                  *)

LEMMA PopKeeps == ASSUME NEW CONSTANT heights, Inv(heights), Pop PROVE Inv(heights)'
<1>1. status = "running" /\ Name(ip) = "pop" /\ Goes(1, Under(1))
  BY DEF Pop, At
<1>2. Has(ip, Len(stack)) /\ stack \in Seq(AnyValue)
  BY <1>1, Stands
<1>3. Operands(Name(ip)) = 0 /\ Needs(ip) = 1 /\ Rises(ip) = -1
  BY <1>1, NoOperands, Heights
<1>4. ip + 1 \in Follow(ip)
  BY <1>1, <1>3, StraightOn
<1>5. Under(1) \in Seq(AnyValue) /\ Len(Under(1)) = Len(stack) + Rises(ip)
  BY <1>2, <1>3, Stacks DEF Has
<1> QED
  BY <1>1, <1>4, <1>5, GoesKeeps

LEMMA PushConstKeeps == ASSUME NEW CONSTANT heights, Inv(heights), PushConst PROVE Inv(heights)'
<1>1. status = "running" /\ Name(ip) = "const" /\ Goes(2, Pushed(Const))
  BY DEF PushConst, At
<1>2. Has(ip, Len(stack)) /\ stack \in Seq(AnyValue)
  BY <1>1, Stands
<1>3. Operands(Name(ip)) = 1 /\ Rises(ip) = 1
  BY <1>1, OneOperand, Heights
<1>4. ip + 2 \in Follow(ip)
  BY <1>1, <1>3, StraightOn
<1>5. Const \in AnyValue
  BY <1>1, <1>2 DEF Has, Const, Byte
<1>6. Pushed(Const) \in Seq(AnyValue) /\ Len(Pushed(Const)) = Len(stack) + Rises(ip)
  BY <1>2, <1>3, <1>5, Stacks
<1> QED
  BY <1>1, <1>4, <1>6, GoesKeeps

LEMMA PushLiteralKeeps ==
    ASSUME NEW CONSTANT heights, Inv(heights), PushLiteral PROVE Inv(heights)'
<1>1. /\ status = "running" /\ Name(ip) \in {"null", "true", "false"}
      /\ \E v \in {Null, Bool(TRUE), Bool(FALSE)} : Goes(1, Pushed(v))
  BY DEF PushLiteral, At
<1>2. PICK v \in {Null, Bool(TRUE), Bool(FALSE)} : Goes(1, Pushed(v))
  BY <1>1
<1>3. v \in AnyValue
  BY Values
<1>4. stack \in Seq(AnyValue)
  BY <1>1, Stands
<1>5. Operands(Name(ip)) = 0 /\ Rises(ip) = 1
  BY <1>1, NoOperands, Heights
<1>6. ip + 1 \in Follow(ip)
  BY <1>1, <1>5, StraightOn
<1>7. Pushed(v) \in Seq(AnyValue) /\ Len(Pushed(v)) = Len(stack) + Rises(ip)
  BY <1>3, <1>4, <1>5, Stacks
<1> QED
  BY <1>1, <1>2, <1>6, <1>7, GoesKeeps

\* An instruction without operands that puts a value in the place of several.
LEMMA PutKeeps ==
    ASSUME NEW CONSTANT heights, Inv(heights), status = "running",
           Name(ip) \notin {"jmp", "loop", "false_jmp", "ineq_jmp", "ret"},
           NEW n \in 1 .. Needs(ip), Rises(ip) = 1 - n, NEW v \in AnyValue, NEW w, IsWorld(w),
           NEW length, length = 1 + Operands(Name(ip)), Changes(length, Put(n, v), w)
    PROVE  Inv(heights)'
<1>1. Has(ip, Len(stack)) /\ stack \in Seq(AnyValue)
  BY Stands
<1>2. ip + length \in Follow(ip)
  BY StraightOn
<1>3. Needs(ip) \in Int /\ Len(stack) > Needs(ip)
  <2>1. Len(stack) > Needs(ip)
    BY <1>1 DEF Has
  <2>2. CASE Name(ip) = "call"
    <3>1. ByteAt(ip + 1) \in Nat
      <4>1. ip \in Nat /\ ip + 1 < Len(chunk.code) /\ chunk.code \in Seq(Nat)
        BY <2>2, <1>1, Stands, OneOperand DEF Has, IsInstr
      <4> QED
        BY <4>1 DEF ByteAt
    <3> QED
      BY <2>1, <2>2, <3>1, Heights
  <2>3. CASE Name(ip) # "call"
    BY <2>1, <2>3 DEF Needs
  <2> QED
    BY <2>2, <2>3
<1>4. Put(n, v) \in Seq(AnyValue) /\ Len(Put(n, v)) = Len(stack) + Rises(ip)
  BY <1>1, <1>3, Stacks
<1> QED
  BY <1>2, <1>4, ChangesKeeps

LEMMA PutGoesOn ==
    ASSUME NEW CONSTANT heights, Inv(heights), status = "running",
           Name(ip) \notin {"jmp", "loop", "false_jmp", "ineq_jmp", "ret"},
           NEW n \in 1 .. Needs(ip), Rises(ip) = 1 - n, NEW v \in AnyValue,
           NEW length, length = 1 + Operands(Name(ip)), Goes(length, Put(n, v))
    PROVE  Inv(heights)'
<1>1. Changes(length, Put(n, v), world)
  BY DEF Goes, Changes
<1>2. IsWorld(world)
  BY DEF Inv, TypeOK
<1> QED
  BY <1>1, <1>2, PutKeeps

\* What an instruction needs is of the kind of all values.
LEMMA Operand ==
    ASSUME NEW CONSTANT heights, Inv(heights), status = "running", Needs(ip) \in Nat,
           NEW d \in Nat, d < Needs(ip)
    PROVE  Peek(d) \in AnyValue
<1>1. Has(ip, Len(stack)) /\ stack \in Seq(AnyValue)
  BY Stands
<1> QED
  BY <1>1, Stacks DEF Has

\* What is calculated from numbers.
LEMMA Results ==
    ASSUME NEW m \in Int, NEW n \in Int
    PROVE  /\ {Num(m + n), Num(m - n), Num(m * n)} \subseteq AnyValue
           /\ {Bool(m < n), Bool(m <= n), Bool(m > n), Bool(m >= n)} \subseteq AnyValue
<1>1. {m + n, m - n, m * n} \subseteq Int
  OBVIOUS
<1>2. {m < n, m <= n, m > n, m >= n} \subseteq BOOLEAN
  OBVIOUS
<1> QED
  BY <1>1, <1>2, Values, Zenon

LEMMA CalculateKeeps == ASSUME NEW CONSTANT heights, Inv(heights), Calculate PROVE Inv(heights)'
<1>1. PICK op \in OnNumbers :
         /\ At(op)
         /\ IF IsNum(Peek(0)) /\ IsNum(Peek(1))
            THEN Goes(1, Put(2, Calculated(op, Peek(1), Peek(0))))
            ELSE RuntimeErr
  BY DEF Calculate
<1>2. status = "running" /\ Name(ip) = op
  BY <1>1 DEF At
<1>3. Operands(Name(ip)) = 0 /\ Needs(ip) = 2 /\ Rises(ip) = -1
  BY <1>2, NoOperands, Heights DEF OnNumbers
<1>4. Peek(0) \in AnyValue /\ Peek(1) \in AnyValue
  BY <1>2, <1>3, Operand
<1>5. CASE IsNum(Peek(0)) /\ IsNum(Peek(1))
  <2>1. Peek(0)[2] \in Int /\ Peek(1)[2] \in Int
    BY <1>4, <1>5, Values
  <2>2. \A m, n : m \in Int /\ n \in Int
                 => /\ {Num(m + n), Num(m - n), Num(m * n)} \subseteq AnyValue
                    /\ {Bool(m < n), Bool(m <= n), Bool(m > n), Bool(m >= n)} \subseteq AnyValue
    BY Results
  <2>3. Calculated(op, Peek(1), Peek(0)) \in AnyValue
    <3> DEFINE m == Peek(1)[2]
               n == Peek(0)[2]
    <3>1. CASE op \in {"add", "sub", "mul"}
      BY <2>1, <2>2, <3>1 DEF Calculated
    <3>2. CASE op \in {"lt", "lte", "gt", "gte"}
      <4>1. {Bool(m < n), Bool(m <= n), Bool(m > n), Bool(m >= n)} \subseteq AnyValue
        BY <2>1, <2>2
      <4>2. Calculated(op, Peek(1), Peek(0)) \in {Bool(m < n), Bool(m <= n), Bool(m > n), Bool(m >= n)}
        BY <3>2, Zenon DEF Calculated
      <4> QED
        BY <4>1, <4>2
    <3> QED
      BY <3>1, <3>2 DEF OnNumbers
  <2>4. Name(ip) \notin {"jmp", "loop", "false_jmp", "ineq_jmp", "ret"}
    BY <1>2 DEF OnNumbers
  <2> QED
    BY <1>1, <1>2, <1>3, <1>5, <2>3, <2>4, PutGoesOn
<1>6. CASE ~(IsNum(Peek(0)) /\ IsNum(Peek(1)))
  BY <1>1, <1>6, ErrorKeeps
<1> QED
  BY <1>5, <1>6

LEMMA CompareKeeps == ASSUME NEW CONSTANT heights, Inv(heights), Compare PROVE Inv(heights)'
<1>1. PICK b \in BOOLEAN : Goes(1, Put(2, Bool(b)))
  BY DEF Compare
<1>2. status = "running" /\ Name(ip) \in {"eql", "neql"}
  BY DEF Compare, At
<1>3. Operands(Name(ip)) = 0 /\ Needs(ip) = 2 /\ Rises(ip) = -1
  BY <1>2, NoOperands, Heights
<1> QED
  BY <1>1, <1>2, <1>3, Values, PutGoesOn

LEMMA NegateKeeps == ASSUME NEW CONSTANT heights, Inv(heights), Negate PROVE Inv(heights)'
<1>1. status = "running" /\ Name(ip) = "neg"
  BY DEF Negate, At
<1>2. Operands(Name(ip)) = 0 /\ Needs(ip) = 1 /\ Rises(ip) = 0
  BY <1>1, NoOperands, Heights
<1>3. CASE IsNum(Peek(0))
  <2>1. Peek(0) \in AnyValue
    BY <1>1, <1>2, Operand
  <2>2. -Peek(0)[2] \in Int
    BY <1>3, <2>1, Values
  <2>3. Num(-Peek(0)[2]) \in AnyValue
    BY <2>2, Values
  <2>4. Goes(1, Put(1, Num(-Peek(0)[2])))
    BY <1>3 DEF Negate
  <2> QED
    BY <1>1, <1>2, <2>3, <2>4, PutGoesOn
<1>4. CASE ~IsNum(Peek(0))
  BY <1>4, ErrorKeeps DEF Negate
<1> QED
  BY <1>3, <1>4

LEMMA InvertKeeps == ASSUME NEW CONSTANT heights, Inv(heights), Invert PROVE Inv(heights)'
<1>1. /\ status = "running" /\ Name(ip) = "not"
      /\ Goes(1, Put(1, Bool(IsFalse(Peek(0))))) /\ IsFalse(Peek(0)) \in BOOLEAN
  BY DEF Invert, At, IsFalse
<1>2. Operands(Name(ip)) = 0 /\ Needs(ip) = 1 /\ Rises(ip) = 0
  BY <1>1, NoOperands, Heights
<1>3. Bool(IsFalse(Peek(0))) \in AnyValue
  BY <1>1, Values
<1> QED
  BY <1>1, <1>2, <1>3, PutGoesOn

LEMMA GetLocalKeeps == ASSUME NEW CONSTANT heights, Inv(heights), GetLocal PROVE Inv(heights)'
<1>1. status = "running" /\ Name(ip) = "get_local" /\ Goes(2, Pushed(stack[Byte(1) + 1]))
  BY DEF GetLocal, At
<1>2. /\ Has(ip, Len(stack)) /\ stack \in Seq(AnyValue)
      /\ ip \in Nat /\ chunk.code \in Seq(Nat)
  BY <1>1, Stands DEF Has, IsInstr
<1>3. Operands(Name(ip)) = 1 /\ Rises(ip) = 1
  BY <1>1, OneOperand, Heights
<1>4. ip + 2 \in Follow(ip)
  BY <1>1, <1>3, StraightOn
<1>5. ByteAt(ip + 1) \in Nat
  BY <1>2, <1>3 DEF ByteAt, Has
<1>6. stack[Byte(1) + 1] \in AnyValue
  BY <1>1, <1>2, <1>5 DEF Has, Byte
<1>7. /\ Pushed(stack[Byte(1) + 1]) \in Seq(AnyValue)
      /\ Len(Pushed(stack[Byte(1) + 1])) = Len(stack) + Rises(ip)
  BY <1>2, <1>3, <1>6, Stacks
<1> QED
  BY <1>1, <1>4, <1>7, GoesKeeps

LEMMA SetLocalKeeps == ASSUME NEW CONSTANT heights, Inv(heights), SetLocal PROVE Inv(heights)'
<1> DEFINE st == [stack EXCEPT ![Byte(1) + 1] = Peek(0)]
<1>1. status = "running" /\ Name(ip) = "set_local" /\ Goes(2, st)
  BY DEF SetLocal, At
<1>2. Operands(Name(ip)) = 1 /\ Needs(ip) = 1 /\ Rises(ip) = 0
  BY <1>1, OneOperand, Heights
<1>3. ip + 2 \in Follow(ip)
  BY <1>1, <1>2, StraightOn
<1>4. stack \in Seq(AnyValue) /\ Peek(0) \in AnyValue
  BY <1>1, <1>2, Stands, Operand
<1>5. st \in Seq(AnyValue) /\ Len(st) = Len(stack)
  BY <1>4, Replaced
<1>6. Len(st) = Len(stack) + Rises(ip)
  BY <1>2, <1>4, <1>5
<1> HIDE DEF st
<1> QED
  BY <1>1, <1>3, <1>5, <1>6, GoesKeeps

LEMMA GetGlobalKeeps == ASSUME NEW CONSTANT heights, Inv(heights), GetGlobal PROVE Inv(heights)'
<1>1. status = "running" /\ Name(ip) = "get_global"
  BY DEF GetGlobal, At
<1>2. Operands(Name(ip)) = 1 /\ Rises(ip) = 1
  BY <1>1, OneOperand, Heights DEF OfNames
<1>3. CASE Const \in DOMAIN world.globals
  <2>1. world.globals[Const] \in AnyValue
    BY <1>3, WorldParts DEF Inv, TypeOK
  <2>2. Goes(2, Pushed(world.globals[Const]))
    BY <1>3 DEF GetGlobal
  <2>3. ip + 2 \in Follow(ip)
    BY <1>1, <1>2, StraightOn
  <2>4. /\ Pushed(world.globals[Const]) \in Seq(AnyValue)
        /\ Len(Pushed(world.globals[Const])) = Len(stack) + Rises(ip)
    BY <1>1, <1>2, <2>1, Stands, Stacks
  <2> QED
    BY <1>1, <2>2, <2>3, <2>4, GoesKeeps
<1>4. CASE Const \notin DOMAIN world.globals
  BY <1>4, ErrorKeeps DEF GetGlobal
<1> QED
  BY <1>3, <1>4

LEMMA SetGlobalKeeps == ASSUME NEW CONSTANT heights, Inv(heights), SetGlobal PROVE Inv(heights)'
<1>1. status = "running" /\ Name(ip) = "set_global"
  BY DEF SetGlobal, At
<1>2. Operands(Name(ip)) = 1 /\ Needs(ip) = 1 /\ Rises(ip) = 0
  BY <1>1, OneOperand, Heights DEF OfNames
<1>3. CASE Const \in DOMAIN world.globals
  <2> DEFINE w == [world EXCEPT !.globals[Const] = Peek(0)]
  <2>1. Peek(0) \in AnyValue /\ IsWorld(world) /\ stack \in Seq(AnyValue)
    BY <1>1, <1>2, Operand DEF Inv, TypeOK
  <2>2. IsWorld(w)
    <3> DEFINE globals == [world.globals EXCEPT ![Const] = Peek(0)]
    <3>0. world = [globals |-> world.globals, field |-> world.field, items |-> world.items,
                   log |-> world.log, tape |-> world.tape]
      BY <2>1 DEF IsWorld
    <3>1. globals \in [DOMAIN world.globals -> AnyValue]
      BY <2>1, WorldParts
    <3>2. w = [globals |-> globals, field |-> world.field, items |-> world.items,
               log |-> world.log, tape |-> world.tape]
      BY <3>0
    <3> HIDE DEF globals, w
    <3> QED
      BY <2>1, <3>1, <3>2, WorldOf, WorldParts
  <2>3. ip + 2 \in Follow(ip)
    BY <1>1, <1>2, StraightOn
  <2>4. Changes(2, stack, w)
    BY <1>3 DEF SetGlobal
  <2> HIDE DEF w
  <2>5. Len(stack) = Len(stack) + Rises(ip)
    BY <1>2, <2>1
  <2> QED
    BY <1>1, <2>1, <2>2, <2>3, <2>4, <2>5, ChangesKeeps
<1>4. CASE Const \notin DOMAIN world.globals
  BY <1>4, ErrorKeeps DEF SetGlobal
<1> QED
  BY <1>3, <1>4

LEMMA PushPropKeeps == ASSUME NEW CONSTANT heights, Inv(heights), PushProp PROVE Inv(heights)'
<1>1. status = "running" /\ Name(ip) = "push_prop"
  BY DEF PushProp, At
<1>2. Operands(Name(ip)) = 1 /\ Rises(ip) = 1
  BY <1>1, OneOperand, Heights DEF OfNames
<1>3. CASE HasProp(Peek(0))
  <2>1. world.field \in AnyValue
    BY WorldParts DEF Inv, TypeOK
  <2>2. ip + 2 \in Follow(ip)
    BY <1>1, <1>2, StraightOn
  <2>3. /\ Pushed(world.field) \in Seq(AnyValue)
        /\ Len(Pushed(world.field)) = Len(stack) + Rises(ip)
    BY <1>1, <1>2, <2>1, Stands, Stacks
  <2> QED
    BY <1>1, <1>3, <2>2, <2>3, GoesKeeps DEF PushProp
<1>4. CASE ~HasProp(Peek(0))
  BY <1>4, ErrorKeeps DEF PushProp
<1> QED
  BY <1>3, <1>4

LEMMA GetPropKeeps == ASSUME NEW CONSTANT heights, Inv(heights), GetProp PROVE Inv(heights)'
<1>1. status = "running" /\ Name(ip) = "get_prop"
  BY DEF GetProp, At
<1>2. Operands(Name(ip)) = 1 /\ Needs(ip) = 1 /\ Rises(ip) = 0
  BY <1>1, OneOperand, Heights DEF OfNames
<1>3. CASE HasProp(Peek(0))
  <2>1. world.field \in AnyValue
    BY WorldParts DEF Inv, TypeOK
  <2>2. Goes(2, Put(1, world.field))
    BY <1>3 DEF GetProp
  <2> QED
    BY <1>1, <1>2, <2>1, <2>2, PutGoesOn
<1>4. CASE ~HasProp(Peek(0))
  BY <1>4, ErrorKeeps DEF GetProp
<1> QED
  BY <1>3, <1>4

LEMMA SetPropKeeps == ASSUME NEW CONSTANT heights, Inv(heights), SetProp PROVE Inv(heights)'
<1>1. status = "running" /\ Name(ip) = "set_prop"
  BY DEF SetProp, At
<1>2. Operands(Name(ip)) = 1 /\ Needs(ip) = 2 /\ Rises(ip) = -1
  BY <1>1, OneOperand, Heights DEF OfNames
<1>3. CASE HasProp(Peek(1))
  <2> DEFINE w == [world EXCEPT !.field = Peek(0)]
  <2>1. Peek(0) \in AnyValue /\ IsWorld(world)
    BY <1>1, <1>2, Operand DEF Inv, TypeOK
  <2>2. IsWorld(w)
    BY <2>1 DEF IsWorld
  <2>3. Changes(2, Put(2, Peek(0)), w)
    BY <1>3 DEF SetProp
  <2> HIDE DEF w
  <2> QED
    BY <1>1, <1>2, <2>1, <2>2, <2>3, PutKeeps
<1>4. CASE ~HasProp(Peek(1))
  BY <1>4, ErrorKeeps DEF SetProp
<1> QED
  BY <1>3, <1>4

LEMMA Item ==
    ASSUME NEW CONSTANT heights, Inv(heights), NEW a, NEW k \in AnyValue, InBounds(a, k)
    PROVE  Idx(k) + 1 \in 1 .. Len(world.items) /\ world.items[Idx(k) + 1] \in AnyValue
<1>1. world.items \in Seq(AnyValue)
  BY WorldParts DEF Inv, TypeOK
<1>2. Idx(k) \in 0 .. Len(world.items) - 1
  BY DEF InBounds
<1> QED
  BY <1>1, <1>2

LEMMA GetSubscriptKeeps ==
    ASSUME NEW CONSTANT heights, Inv(heights), GetSubscript PROVE Inv(heights)'
<1> DEFINE item == world.items[Idx(Peek(0)) + 1]
<1>1. status = "running" /\ Name(ip) = "get_subscript"
  BY DEF GetSubscript, At
<1>2. Operands(Name(ip)) = 0 /\ Needs(ip) = 2 /\ Rises(ip) = -1
  BY <1>1, NoOperands, Heights
<1>3. CASE InBounds(Peek(1), Peek(0))
  <2>1. Peek(0) \in AnyValue
    BY <1>1, <1>2, Operand
  <2>2. item \in AnyValue
    BY <1>3, <2>1, Item
  <2>3. Goes(1, Put(2, item))
    BY <1>3 DEF GetSubscript
  <2> HIDE DEF item
  <2> QED
    BY <1>1, <1>2, <2>2, <2>3, PutGoesOn
<1>4. CASE ~InBounds(Peek(1), Peek(0))
  BY <1>4, ErrorKeeps DEF GetSubscript
<1> QED
  BY <1>3, <1>4

LEMMA PushSubscriptKeeps ==
    ASSUME NEW CONSTANT heights, Inv(heights), PushSubscript PROVE Inv(heights)'
<1> DEFINE item == world.items[Idx(Peek(0)) + 1]
<1>1. status = "running" /\ Name(ip) = "push_subscript"
  BY DEF PushSubscript, At
<1>2. Operands(Name(ip)) = 0 /\ Needs(ip) = 2 /\ Rises(ip) = 1
  BY <1>1, NoOperands, Heights
<1>3. CASE InBounds(Peek(1), Peek(0))
  <2>1. Peek(0) \in AnyValue /\ stack \in Seq(AnyValue)
    BY <1>1, <1>2, Operand, Stands
  <2>2. item \in AnyValue
    BY <1>3, <2>1, Item
  <2>3. Goes(1, Pushed(item))
    BY <1>3 DEF PushSubscript
  <2>4. ip + 1 \in Follow(ip)
    BY <1>1, <1>2, StraightOn
  <2> HIDE DEF item
  <2>5. Pushed(item) \in Seq(AnyValue) /\ Len(Pushed(item)) = Len(stack) + Rises(ip)
    BY <1>2, <2>1, <2>2, Stacks
  <2> QED
    BY <1>1, <2>3, <2>4, <2>5, GoesKeeps
<1>4. CASE ~InBounds(Peek(1), Peek(0))
  BY <1>4, ErrorKeeps DEF PushSubscript
<1> QED
  BY <1>3, <1>4

LEMMA SetSubscriptKeeps ==
    ASSUME NEW CONSTANT heights, Inv(heights), SetSubscript PROVE Inv(heights)'
<1>1. status = "running" /\ Name(ip) = "set_subscript"
  BY DEF SetSubscript, At
<1>2. Operands(Name(ip)) = 0 /\ Needs(ip) = 3 /\ Rises(ip) = -2
  BY <1>1, NoOperands, Heights
<1>3. CASE InBounds(Peek(2), Peek(1))
  <2> DEFINE w == [world EXCEPT !.items[Idx(Peek(1)) + 1] = Peek(0)]
  <2>1. Peek(0) \in AnyValue /\ Peek(1) \in AnyValue /\ IsWorld(world)
    BY <1>1, <1>2, Operand DEF Inv, TypeOK
  <2>2. IsWorld(w)
    <3> DEFINE items == [world.items EXCEPT ![Idx(Peek(1)) + 1] = Peek(0)]
    <3>0. world = [globals |-> world.globals, field |-> world.field, items |-> world.items,
                   log |-> world.log, tape |-> world.tape]
      BY <2>1 DEF IsWorld
    <3>1. items \in Seq(AnyValue)
      BY <2>1, WorldParts, Replaced
    <3>2. w = [globals |-> world.globals, field |-> world.field, items |-> items,
               log |-> world.log, tape |-> world.tape]
      BY <3>0
    <3> HIDE DEF items, w
    <3> QED
      BY <2>1, <3>1, <3>2, WorldOf, WorldParts
  <2>3. Changes(1, Put(3, Peek(0)), w)
    BY <1>3 DEF SetSubscript
  <2> HIDE DEF w
  <2> QED
    BY <1>1, <1>2, <2>1, <2>2, <2>3, PutKeeps
<1>4. CASE ~InBounds(Peek(2), Peek(1))
  BY <1>4, ErrorKeeps DEF SetSubscript
<1> QED
  BY <1>3, <1>4

LEMMA Jumps ==
    ASSUME NEW CONSTANT heights, Inv(heights), status = "running"
    PROVE  /\ Name(ip) = "jmp" => ip + (3 + Short) \in Follow(ip)
           /\ Name(ip) = "loop" => ip + (3 - Short) \in Follow(ip)
           /\ Name(ip) \in {"false_jmp", "ineq_jmp"}
                => ip + 3 \in Follow(ip) /\ ip + (3 + Short) \in Follow(ip)
<1>1. ip \in Int
  BY Stands
<1>2. ASSUME Name(ip) \in {"jmp", "loop", "false_jmp", "ineq_jmp"}
      PROVE  ip + 1 + Operands(Name(ip)) = ip + 3 /\ Short \in Int
  <2>1. Operands(Name(ip)) = 2
    BY <1>2, TwoOperands
  <2>2. ip \in Nat /\ ip + 2 < Len(chunk.code) /\ chunk.code \in Seq(Nat)
    BY <2>1, Stands DEF Has, IsInstr
  <2>3. ByteAt(ip + 1) \in Nat /\ ByteAt(ip + 1 + 1) \in Nat
    BY <2>2 DEF ByteAt
  <2>4. ByteAt(ip + 1) * Bytes \in Nat
    BY <2>3, CompilerAssumption
  <2>5. Short \in Int
    BY <2>3, <2>4 DEF Short, ShortAt
  <2> QED
    BY <1>1, <2>1, <2>5
<1>3. CASE Name(ip) = "jmp"
  <2>1. Follow(ip) = {ip + 1 + Operands(Name(ip)) + Short}
    BY <1>3 DEF Follow, Short
  <2> QED
    BY <1>1, <1>2, <1>3, <2>1
<1>4. CASE Name(ip) = "loop"
  <2>1. Follow(ip) = {(ip + 1 + Operands(Name(ip))) - Short}
    BY <1>4 DEF Follow, Short
  <2>2. ip + (3 - Short) = (ip + 1 + Operands(Name(ip))) - Short
    BY <1>1, <1>2, <1>4
  <2> QED
    BY <1>4, <2>1, <2>2
<1>5. CASE Name(ip) \in {"false_jmp", "ineq_jmp"}
  <2>1. Follow(ip) = {ip + 1 + Operands(Name(ip)), ip + 1 + Operands(Name(ip)) + Short}
    BY <1>5 DEF Follow, Short
  <2> QED
    BY <1>1, <1>2, <1>5, <2>1
<1> QED
  BY <1>3, <1>4, <1>5

LEMMA FalseJmpKeeps == ASSUME NEW CONSTANT heights, Inv(heights), FalseJmp PROVE Inv(heights)'
<1>1. PICK length \in {3, 3 + Short} : Goes(length, stack)
  BY DEF FalseJmp
<1>2. status = "running" /\ Name(ip) = "false_jmp"
  BY DEF FalseJmp, At
<1>3. ip + length \in Follow(ip)
  BY <1>1, <1>2, Jumps
<1>4. stack \in Seq(AnyValue) /\ Len(stack) = Len(stack) + Rises(ip)
  BY <1>2, Heights, Stands
<1> QED
  BY <1>1, <1>2, <1>3, <1>4, GoesKeeps

LEMMA IneqJmpKeeps == ASSUME NEW CONSTANT heights, Inv(heights), IneqJmp PROVE Inv(heights)'
<1>1. PICK length \in {3, 3 + Short} : Goes(length, Under(1))
  BY DEF IneqJmp
<1>2. status = "running" /\ Name(ip) = "ineq_jmp"
  BY DEF IneqJmp, At
<1>3. ip + length \in Follow(ip)
  BY <1>1, <1>2, Jumps
<1>4. Needs(ip) = 2 /\ Rises(ip) = -1 /\ Has(ip, Len(stack)) /\ stack \in Seq(AnyValue)
  BY <1>2, Heights, Stands
<1>5. Under(1) \in Seq(AnyValue) /\ Len(Under(1)) = Len(stack) + Rises(ip)
  BY <1>4, Stacks DEF Has
<1> QED
  BY <1>1, <1>2, <1>3, <1>5, GoesKeeps

LEMMA JmpKeeps == ASSUME NEW CONSTANT heights, Inv(heights), Jmp PROVE Inv(heights)'
<1>1. status = "running" /\ Name(ip) = "jmp" /\ Goes(3 + Short, stack)
  BY DEF Jmp, At
<1>2. stack \in Seq(AnyValue) /\ Len(stack) = Len(stack) + Rises(ip)
  BY <1>1, Heights, Stands
<1> QED
  BY <1>1, <1>2, Jumps, GoesKeeps

LEMMA LoopKeeps == ASSUME NEW CONSTANT heights, Inv(heights), Loop PROVE Inv(heights)'
<1>1. status = "running" /\ Name(ip) = "loop" /\ Goes(3 - Short, stack)
  BY DEF Loop, At
<1>2. stack \in Seq(AnyValue) /\ Len(stack) = Len(stack) + Rises(ip)
  BY <1>1, Heights, Stands
<1> QED
  BY <1>1, <1>2, Jumps, GoesKeeps

LEMMA CallValKeeps == ASSUME NEW CONSTANT heights, Inv(heights), CallVal PROVE Inv(heights)'
<1> DEFINE argc == Byte(1)
           w == [world EXCEPT !.log = Append(@, Peek(0)), !.tape = Tail(@)]
           answer == Head(world.tape)
<1>1. status = "running" /\ Name(ip) = "call"
  BY DEF CallVal, At
<1>2. /\ Operands(Name(ip)) = 1 /\ Needs(ip) = argc + 1 /\ Rises(ip) = -argc
  BY <1>1, OneOperand, Heights DEF Byte
<1>3. argc \in Nat
  <2>1. ip \in Nat /\ ip + 1 < Len(chunk.code) /\ chunk.code \in Seq(Nat)
    BY <1>1, <1>2, Stands DEF Has, IsInstr
  <2> QED
    BY <2>1 DEF Byte, ByteAt
<1>4. CASE Peek(argc) = Say /\ world.tape # <<>>
  <2>1. Changes(2, Put(argc + 1, answer), w)
    BY <1>4 DEF CallVal
  <2>2. Peek(0) \in AnyValue /\ IsWorld(world)
    BY <1>1, <1>2, <1>3, Operand DEF Inv, TypeOK
  <2>3. answer \in AnyValue /\ Tail(world.tape) \in Seq(AnyValue)
    BY <1>4, <2>2, WorldParts
  <2>4. IsWorld(w)
    <3>0. world = [globals |-> world.globals, field |-> world.field, items |-> world.items,
                   log |-> world.log, tape |-> world.tape]
      BY <2>2 DEF IsWorld
    <3>1. Append(world.log, Peek(0)) \in Seq(AnyValue)
      BY <2>2, WorldParts
    <3>2. w = [globals |-> world.globals, field |-> world.field, items |-> world.items,
               log |-> Append(world.log, Peek(0)), tape |-> Tail(world.tape)]
      <4>1. w = [part \in DOMAIN world |-> IF part = "tape" THEN Tail(world.tape)
                                          ELSE IF part = "log" THEN Append(world.log, Peek(0))
                                          ELSE world[part]]
        BY <3>0
      <4>2. DOMAIN world = {"globals", "field", "items", "log", "tape"}
        BY <3>0
      <4> HIDE DEF w
      <4> QED
        BY <4>1, <4>2
    <3> HIDE DEF w
    <3> QED
      BY <2>2, <2>3, <3>1, <3>2, WorldOf, WorldParts
  <2> HIDE DEF w, answer, argc
  <2>5. argc + 1 \in 1 .. Needs(ip) /\ Rises(ip) = 1 - (argc + 1)
    BY <1>2, <1>3
  <2> QED
    BY <1>1, <1>2, <2>1, <2>3, <2>4, <2>5, PutKeeps
<1>5. CASE ~(Peek(argc) = Say /\ world.tape # <<>>)
  BY <1>5, ErrorKeeps DEF CallVal
<1> QED
  BY <1>4, <1>5

LEMMA RetKeeps == ASSUME NEW CONSTANT heights, Inv(heights), Ret PROVE Inv(heights)'
<1>1. /\ status = "running" /\ Name(ip) = "ret" /\ stack' = <<Peek(0)>> /\ status' = "done"
      /\ UNCHANGED <<ip, world, chunk>>
  BY DEF Ret, At
<1>2. Peek(0) \in AnyValue
  BY <1>1, Heights, Operand
<1>3. Fits(heights)'
  BY <1>1, SameCode DEF Inv
<1> QED
  BY <1>1, <1>2, <1>3 DEF Inv, TypeOK, IsWorld

LEMMA StutterKeeps ==
    ASSUME NEW CONSTANT heights, Inv(heights), UNCHANGED machine PROVE Inv(heights)'
<1>1. UNCHANGED <<chunk, ip, stack, world, status>>
  BY DEF machine
<1>2. Fits(heights)'
  BY <1>1, SameCode DEF Inv
<1> QED
  BY <1>1, <1>2 DEF Inv, TypeOK, IsWorld

-----------------------------------------------------------------------------
(* What runs fitting code.                                                  *)

LEMMA StartsRight ==
    ASSUME NEW CONSTANT heights, Loaded, Fits(heights) PROVE Inv(heights)
<1>1. ip = 0 /\ stack = <<Script>> /\ status = "running" /\ IsWorld(world)
  BY DEF Loaded
<1>2. ip \in DOMAIN heights /\ Len(stack) = heights[ip]
  BY <1>1 DEF Fits
<1>3. stack \in Seq(AnyValue)
  BY <1>1, Values
<1> QED
  BY <1>1, <1>2, <1>3 DEF Inv, TypeOK

\* Every instruction of code that fits goes on to an address the heights know,
\* with a stack of the height known there.
THEOREM StaysFitting ==
    ASSUME NEW CONSTANT heights
    PROVE  Execution /\ Fits(heights) => []Inv(heights)
<1>1. Loaded /\ Fits(heights) => Inv(heights)
  BY StartsRight
<1>2. Inv(heights) /\ [Step]_machine => Inv(heights)'
  <2> SUFFICES ASSUME Inv(heights), [Step]_machine
               PROVE  Inv(heights)'
    OBVIOUS
  <2>1. CASE Pop \/ PushConst \/ PushLiteral
    BY <2>1, PopKeeps, PushConstKeeps, PushLiteralKeeps
  <2>2. CASE Calculate \/ Compare \/ Negate \/ Invert
    BY <2>2, CalculateKeeps, CompareKeeps, NegateKeeps, InvertKeeps
  <2>3. CASE GetLocal \/ SetLocal \/ GetGlobal \/ SetGlobal
    BY <2>3, GetLocalKeeps, SetLocalKeeps, GetGlobalKeeps, SetGlobalKeeps
  <2>4. CASE PushProp \/ GetProp \/ SetProp
    BY <2>4, PushPropKeeps, GetPropKeeps, SetPropKeeps
  <2>5. CASE PushSubscript \/ GetSubscript \/ SetSubscript
    BY <2>5, PushSubscriptKeeps, GetSubscriptKeeps, SetSubscriptKeeps
  <2>6. CASE FalseJmp \/ IneqJmp \/ Jmp \/ Loop
    BY <2>6, FalseJmpKeeps, IneqJmpKeeps, JmpKeeps, LoopKeeps
  <2>7. CASE CallVal \/ Ret
    BY <2>7, CallValKeeps, RetKeeps
  <2>8. CASE UNCHANGED machine
    BY <2>8, StutterKeeps
  <2> QED
    BY <2>1, <2>2, <2>3, <2>4, <2>5, <2>6, <2>7, <2>8 DEF Step
<1> QED
  BY <1>1, <1>2, PTL DEF Execution

\* Where fitting code stands there is something to do it with.
LEMMA Reached ==
    ASSUME NEW CONSTANT heights, Inv(heights) PROVE TypeOK /\ InCode
<1>1. ASSUME status = "running"
      PROVE  ip \in Starts /\ Has(ip, Len(stack))
  BY <1>1, Stands DEF Inv, Fits
<1> QED
  BY <1>1 DEF Inv, InCode

\* Running fitting code, control stays in the code, at beginnings of instructions,
\* and each finds its operands, its slot, its name and enough values on the stack,
\* whatever the values are and the host answers: run in vm.c tests none of it.
THEOREM RunsInCode ==
    ASSUME NEW CONSTANT heights
    PROVE  Execution /\ Fits(heights) => []InCode
<1>1. Inv(heights) => InCode
  BY Reached
<1> QED
  BY <1>1, StaysFitting, PTL

\* Running fitting code, only values come onto the stack and into the world.
THEOREM OnlyValues ==
    ASSUME NEW CONSTANT heights
    PROVE  Execution /\ Fits(heights) => []TypeOK
<1>1. Inv(heights) => TypeOK
  BY Reached
<1> QED
  BY <1>1, StaysFitting, PTL
=============================================================================
