SPECIFICATION Spec
CONSTANTS
    FramesMax = 5
    StackSize = 7
    MaxNative = 5
    MaxArgs = 1
INVARIANTS
    Aligned
    FramesNested
    OnlyUnchecked
    EarlyErrorsCaught
