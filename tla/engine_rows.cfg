SPECIFICATION FairSpec
CONSTANTS
    File = {f}
    Content = {a, b}
    NoFile = NoFile
    NoJob = NoJob
    RawCap = 2
    EventCap = 1
    MaxChanges = 3
    MaxStarts = 2
INVARIANTS TypeOK EngineInv MetadataAgrees
PROPERTIES VersionsCount RowsFollow EventuallyRecorded
CHECK_DEADLOCK FALSE
