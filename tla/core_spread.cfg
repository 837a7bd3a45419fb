SPECIFICATION Spec
CONSTANTS
    Device = {n1, n2}
    Content = {c1, c2}
    Empty = Empty
    Absent = Absent
    NoEvent = NoEvent
    RawCap = 2
    EventCap = 1
    LinkCap = 1
    MaxChanges = 2
INVARIANTS TypeOK SpreadInv ChangeSpreads
SYMMETRY Alike
CONSTRAINT OneAtATime
CHECK_DEADLOCK FALSE
