SPECIFICATION Spec
CONSTANTS
    Names <- Ids
    Joined <- Joins
    Invalid <- Damages
    Programs <- Aliases
INVARIANT ArgumentsPrescanned
CHECK_DEADLOCK FALSE
