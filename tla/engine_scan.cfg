SPECIFICATION Spec
CONSTANTS
    File = {f}
    Content = {a, b}
    NoFile = NoFile
    NoJob = NoJob
    RawCap = 2
    EventCap = 1
    MaxChanges = 2
    MaxStarts = 1
SYMMETRY Alike
INVARIANT MonitorsAll
CHECK_DEADLOCK FALSE
