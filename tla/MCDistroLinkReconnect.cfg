\* Every kind of failure once, no commands.
SPECIFICATION Spec
CONSTANTS
    Commands = {"pro"}
    Attempts = {1, 2}
    Clients = {1, 2, 3}
    MaxCmds = 0
    FaultKinds = {"cut", "crash", "open", "timeout", "database", "info", "system"}
    MaxFaults = 1
PROPERTIES
    EventuallyConnected
CHECK_DEADLOCK FALSE
