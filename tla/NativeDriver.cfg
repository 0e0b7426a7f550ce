SPECIFICATION Spec
CONSTANTS
    CommandLines <- Lines
    Names = {"d1", "d2"}
    None = "none"
INVARIANTS LeftoversHaveACause LinksEveryInput OthersKept
CHECK_DEADLOCK FALSE
