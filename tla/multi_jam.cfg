SPECIFICATION TurnSpec
CONSTANTS
    Node = {"a", "b"}
    Reach <- OneWay
    Stopping = {}
    MaxConns = 1
    MaxServed = 1
    MaxUnderWay = 3
    InPlace = {"a", "b"}
    Big = {1}
    Laden = {"a", "b"}
    MaxChanges = 1
    MaxWrites = 1
    MaxVersion = 1

PROPERTY BroadcastsEnd
CHECK_DEADLOCK FALSE
