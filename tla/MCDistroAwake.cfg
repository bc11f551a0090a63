\* Five attempts as in the code, two Start commands, any number of Stops and tasks.
SPECIFICATION Spec
CONSTANTS
    MaxTries = 5
    MaxStarts = 2
INVARIANTS
    OneKeeperPerLockedDistro
    CancelIsSetWhileCounted
    CounterIsWhatUsersHold
PROPERTIES
    InvalidDistroIsReleased
    LockedDistroIsRestarted
CHECK_DEADLOCK FALSE
