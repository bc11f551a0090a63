\* What the comment on Service promises, without exception.
SPECIFICATION Spec
CONSTANTS
    Settings = {1}
    Conns = {1, 2}
    Users = {"gui"}
    MaxWait = 2
    MaxChanges = 1
    MaxInfos = 0
    MaxCmds = 0
    MaxFaults = 1
PROPERTY
    AlwaysReconnects
CHECK_DEADLOCK FALSE
