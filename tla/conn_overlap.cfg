SPECIFICATION Spec
CONSTANTS
    Device = {"d1"}
    MaxRetries = 2
    Slot = {1, 2}
    MaxConns = 2
    MaxCalls = 1
PROPERTY GivesUpTheLost
CHECK_DEADLOCK FALSE
