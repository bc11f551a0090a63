\* Two attempts at a connection, one command, one failure or installation.
SPECIFICATION Spec
CONSTANTS
    Commands = {"pro"}
    Attempts = {1, 2}
    Clients = {1, 2, 3}
    MaxCmds = 1
    FaultKinds = {"cut", "crash", "info", "install"}
    MaxFaults = 1
INVARIANTS
    InfoIsCurrent
PROPERTIES
    DeliversCommands
CHECK_DEADLOCK FALSE
