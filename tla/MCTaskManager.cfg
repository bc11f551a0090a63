\* With a crash: two kinds, two submissions, one restart.
SPECIFICATION Spec
CONSTANTS
    Kinds = {pro, landscape}
    WaitCap = 1
    Submitters = {s1}
    Worker = worker
    MaxSubmits = 2
    MaxRestarts = 1
INVARIANTS
    WakeupOnlyLostInPullWindow
    NewestTaskNotLost
    SavedTasksAreOnDisk
PROPERTIES
    NoStaleExecution
    QueuedTasksAreTaken
CHECK_DEADLOCK FALSE
