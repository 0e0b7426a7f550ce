SPECIFICATION Spec
CONSTANTS
    MaxNested = 4
    MaxDepth = 2
INVARIANT WellFormedAccepted
