\* Two commands of each kind, two failures, crashes or renamings.
SPECIFICATION Spec
CONSTANTS
    Names = {"old", "new"}
    Tokens = {"token"}
    ConfIds = {1, 2}
    Byte = 2
    MaxOps = 2
    MaxFaults = 2
INVARIANTS
    AnswerIsInForce
    ConfigFitsDistro
    TokenIsInForce
    AddressIsRight
CHECK_DEADLOCK FALSE
