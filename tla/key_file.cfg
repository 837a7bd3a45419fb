SPECIFICATION FairSpec
CONSTANTS
    Process = {"p", "q", "r"}
    Core = {"p", "q"}
    MaxStarts = 4
INVARIANTS TypeOK OneKey
PROPERTY CoreHeals
CHECK_DEADLOCK FALSE
