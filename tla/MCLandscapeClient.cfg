\* Two changes of the configuration, two connections, one command, one failure.
SPECIFICATION Spec
CONSTANTS
    Settings = {1, 2}
    Conns = {1, 2}
    Users = {"gui"}
    MaxWait = 2
    MaxChanges = 2
    MaxInfos = 1
    MaxCmds = 1
    MaxFaults = 1
INVARIANTS
    OneCommandAtATime
    ServerIsUpToDate
PROPERTIES
    EventuallyCurrent
    StopEnds
CHECK_DEADLOCK FALSE
