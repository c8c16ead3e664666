SPECIFICATION Spec
CONSTANTS
    Ids <- MCIds
    MaxKey = 3
    Millis <- MCMillis
    Limit = 2
    MaxChanges = 2
CHECK_DEADLOCK FALSE
INVARIANTS
    NoneMissed
    NoneTwice
PROPERTY WalkEnds
