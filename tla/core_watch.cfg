SPECIFICATION FairSpec
CONSTANTS
    g = g
    h = h
    d = d
    c1 = c1
    c2 = c2
    File = {g, h}
    Hidden = {h}
    Dir = {d}
    Root = Root
    DirOf <- MCHiddenDirOf
    Content = {c1, c2}
    Large = {c2}
    Absent = Absent
    NoEvent = NoEvent
    NoMessage = NoMessage
    RawCap = 2
    EventCap = 1
    MaxChanges = 2
    MaxStarts = 2
INVARIANTS TypeOK PipelineInv IndexAgrees AnnouncementAgrees
PROPERTIES IndexFollows EventuallyIndexed StopEndsSyncLoop StopEndsWatchLoop
CHECK_DEADLOCK FALSE
