SPECIFICATION FairSpec
CONSTANTS
    c1 = c1
    c2 = c2
    i1 = i1
    i2 = i2
    Conn = {c1, c2}
    Id = {i1, i2}
    IdOf <- MCOwnIds
    SendCap = 1
    MaxCasts = 2
    MaxAsked = 1
    None = None
INVARIANTS TypeOK ConnectedIsRegistered OnlyTheWalkDies LifeInv InOrder
PROPERTY SenderEnds
CHECK_DEADLOCK FALSE
