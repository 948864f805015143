SPECIFICATION Spec
CONSTANTS
    MaxLocals = 2
    MaxNest = 4
    Quirks = {}
INVARIANTS
    LocalsInPlace
    ScopesKept
PROPERTIES
    LoopsReenter

