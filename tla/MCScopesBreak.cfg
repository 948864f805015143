SPECIFICATION Spec
CONSTANTS
    MaxLocals = 3
    MaxNest = 4
    Quirks = {"break"}
INVARIANT LocalsInPlace
