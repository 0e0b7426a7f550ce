SPECIFICATION LinkSpec
CONSTANTS
    Entry <- MCEntry
    Name <- MCName
    Inputs <- MCInputs
    CommandLines <- MCCommandLines
    Scoped <- MCScoped
INVARIANTS
    EveryMemberWasNeeded
    BindingPreserved RefusesExactlyUnlinkable
    KeepsExactlyReachable SweptIsValid RefusesOnlyReachable NothingDangles
PROPERTIES ExtractsLeastClosure LinkEnds
CHECK_DEADLOCK FALSE
