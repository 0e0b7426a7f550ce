SPECIFICATION Spec
CONSTANTS
    MaxNested = 3
    MaxDepth = 2
PROPERTIES ImplementsReference ExactUntilRestConsumed OnlyElseMisjudged
