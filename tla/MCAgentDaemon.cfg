\* Two calls of Quit, two subscriptions.
SPECIFICATION Spec
CONSTANTS
    Quitters = {q1, q2}
    MaxSubs = 2
INVARIANTS
    QuitMeansStopped
    ReplacedWatcherIsSilent
PROPERTIES
    QuitEndsServe
    RestartReturns
CHECK_DEADLOCK FALSE
