\* Two names, a command of the server, a distro that connects, one failure.
SPECIFICATION Spec
CONSTANTS
    Names = {a, b}
    Objs = {1, 2, 3}
    Callers = {"landscape", "handler"}
    MaxGuid = 2
    MaxCalls = 2
    MaxCmds = 1
    MaxFaults = 1
SYMMETRY Symmetry
INVARIANTS
    FileIsMap
    NoStrayWorker
    CloseKeepsDistros
    DataHasADistro
PROPERTIES
    RemovesOnlyItsOwn
    InstalledIsKnown
CHECK_DEADLOCK FALSE
