SPECIFICATION FairSpec
CONSTANTS
    c1 = c1
    c2 = c2
    s1 = s1
    NoObj = NoObj
    Objs = {c1, c2, s1}
    Strings = {s1}
    MaxRoots = 2
    MaxRefs = 2
INVARIANTS
    TypeOK
    LiveKept
    MarksCleared
PROPERTIES
    ImplementsHeap
    CollectionShrinks
    CollectionEnds
