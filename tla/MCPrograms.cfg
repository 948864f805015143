SPECIFICATION Spec
CHECK_DEADLOCK FALSE
CONSTANTS
    Bytes = 12
    Fuel = 8
    Inputs <- MCInputs
    Strays <- MCStrays
INVARIANTS
    SameOutcome
    InCode
    CompiledCodeFits
    Accepts
PROPERTIES
    ExecutionEnds
