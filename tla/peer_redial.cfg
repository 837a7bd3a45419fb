SPECIFICATION Spec
CONSTANTS
    c1 = c1
    c2 = c2
    i1 = i1
    i2 = i2
    Conn = {c1, c2}
    Id = {i1}
    IdOf <- MCSharedId
    SendCap = 1
    MaxCasts = 2
    MaxAsked = 1
    None = None
PROPERTY RemovesItsOwn
CHECK_DEADLOCK FALSE
