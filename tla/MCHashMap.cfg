SPECIFICATION Spec
CONSTANTS
    k1 = k1
    k2 = k2
    k3 = k3
    Null = Null
    True = True
    NoKey = NoKey
    Absent = Absent
    Keys = {k1, k2, k3}
    Vals = {Null, True}
    Hash <- MCHash
    MinCap = 2
INVARIANTS
    CountExact
    LoadBounded
    ProbeEnds
    ChainsUnbroken
    KeysUnique
    NoSlotLeak
PROPERTIES
    SweepExact
    ImplementsMap
    OperationsShrink
