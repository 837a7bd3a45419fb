SPECIFICATION FairSpec
CONSTANTS
    Device = {"d1", "d2"}
    MaxRetries = 2
    Slot = {1, 2}
    MaxConns = 3
    MaxCalls = 2
INVARIANTS TypeOK ConnInv HoldsItsOwn PeersFollow
PROPERTIES DeadIsResolved CloseEndsAll
CHECK_DEADLOCK FALSE
