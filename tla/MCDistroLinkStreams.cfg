\* One attempt, both kinds of commands.
SPECIFICATION Spec
CONSTANTS
    Commands = {"pro", "lpe"}
    Attempts = {1}
    Clients = {1, 2}
    MaxCmds = 2
    FaultKinds = {"crash", "info"}
    MaxFaults = 1
PROPERTIES
    DeliversCommands
    CommandsEnd
CHECK_DEADLOCK FALSE
