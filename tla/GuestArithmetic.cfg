CONSTANTS
    P = 2
    EB = 3
    G = 3
    WP = 5
    WEB = 4
    Samples <- MCSamples
    Doubles <- MCDoubles
    Factors <- MCFactors
    Scales <- MCScales
    Texts <- MCTexts
    Printed <- MCPrinted
    Read <- MCRead
    Pairs <- MCPairs
    Triples <- MCTriples
    Strings <- MCStrings
    Bases <- MCBases
    Moves <- MCMoves
    Tasks = {"task"}
    Exceptions = {"inexact", "underflow", "overflow", "divide", "invalid"}
    Expressions <- Operations
    Probes <- MCProbes
    Arithmetic <- Outcome
    Calls <- MCCalls
    MaxCalls <- MCMaxCalls
SPECIFICATION Spec
INVARIANTS
    RoundedOnce
    ExactWhateverTheMode
PROPERTIES
    PrivateEnvironments
    ImplementsEnvironments
