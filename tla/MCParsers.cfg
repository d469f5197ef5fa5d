SPECIFICATION Spec
CONSTANTS
    MAX_INT = 20
    Digits = {"0", "1", "2"}
    MaxLength = 4
INVARIANTS
    NumbersAreExact
    NothingIsLost
CHECK_DEADLOCK FALSE
