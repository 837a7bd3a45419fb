SPECIFICATION TurnSpec
CONSTANTS
    Node = {"a", "b"}
    Reach <- StoppingDials
    Stopping = {"b"}
    MaxConns = 2
    MaxServed = 2
    MaxUnderWay = 1
    InPlace = {"a", "b"}
    Big = {1}
    Laden = {"a"}
    MaxChanges = 1
    MaxWrites = 1
    MaxVersion = 1
INVARIANTS TypeOK NetInv StopClosesMap HeldUpByReader
PROPERTIES StopLeavesWaiting HandlersEnd
CHECK_DEADLOCK FALSE
