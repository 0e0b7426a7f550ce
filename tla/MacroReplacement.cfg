SPECIFICATION Spec
CONSTANTS
    Names <- Ids
    Joined <- Joins
    Invalid <- Damages
    Programs <- All
INVARIANTS ExpandsAsStandard ErrorsReported ErrorsInOrder
PROPERTY Terminates
CHECK_DEADLOCK FALSE
