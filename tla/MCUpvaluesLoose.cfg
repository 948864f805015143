SPECIFICATION Spec
CONSTANTS
    Vals = {0, 1}
    UpIds = {1, 2}
    VarIds = {1, 2, 3, 4, 5, 6}
    MaxStack = 4
    MaxLoose = 2
    MaxFrames = 2
    MaxClosures = 2
    MaxUpvals = 1
INVARIANT ValueOnStackOrInside
