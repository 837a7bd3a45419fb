SPECIFICATION FairSpec
CONSTANTS
    Node = {"a", "b"}
    Reach <- OneWay
    Stopping = {}
    MaxConns = 3
    MaxServed = 2
    MaxUnderWay = 1
    InPlace = {"a", "b"}
    Big = {}
    Laden = {}
    MaxChanges = 2
    MaxWrites = 1
    MaxVersion = 1
PROPERTIES Reconnects DevicesAgree
CHECK_DEADLOCK FALSE
