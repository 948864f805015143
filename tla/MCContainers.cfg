SPECIFICATION Spec
CONSTANTS
    v1 = v1
    v2 = v2
    Vals = {v1, v2}
    Junk = Junk
    Chars = {"a", "b"}
    Strings <- MCStrings
    Indices <- MCIndices
    MaxLen = 3
    MinCap = 2
    SizeT = 16
INVARIANTS
    NoJunkSeen
PROPERTIES
    ImplementsContainers
