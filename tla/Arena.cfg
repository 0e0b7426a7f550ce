CONSTANTS
    Word = 256
    Owners = {"a", "b"}
    Memories <- MCMemories
    Sizes = {0, 1, 9, 20, 240, 241}
    Products <- MCProducts
SPECIFICATION Spec
INVARIANTS
    Tiled
    HolesApart
    FailsForCause
PROPERTIES
    CallsReturn
    ImplementsHeap
