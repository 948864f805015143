SPECIFICATION FairIntern
CONSTANTS
    a1 = a1
    a2 = a2
    b1 = b1
    c1 = c1
    a = a
    b = b
    c = c
    Null = Null
    True = True
    NoKey = NoKey
    Absent = Absent
    Keys = {a1, a2, b1, c1}
    Vals = {Null, True}
    Texts <- MCTexts
    Text <- MCText
    TextHash <- MCTextHash
    Hash <- MCHash
    MinCap = 2
INVARIANTS
    NoDangling
    OneObject
    FindsStrings
PROPERTIES
    InterningEnds
