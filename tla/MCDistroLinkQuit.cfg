\* Daemon.Quit at any moment, next to commands and one failure, on one attempt at a time.
SPECIFICATION Spec
CONSTANTS
    Commands = {"pro"}
    Attempts = {1}
    Clients = {1, 2}
    MaxCmds = 2
    FaultKinds = {"cut", "open", "timeout", "database", "info", "system", "quit"}
    MaxFaults = 1
PROPERTIES
    QuitEnds
CHECK_DEADLOCK FALSE
