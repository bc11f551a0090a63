\* A call beside the watcher, one change of the registry, one failure or restart, and a
\* text that cannot be parsed among the configurations.
SPECIFICATION Spec
CONSTANTS
    None = None
    Tokens = {t1, t2}
    Confs = {c1, bad}
    BadConfs = {bad}
    Uids = {u1}
    Users = {gui}
    MaxCalls = 1
    MaxChanges = 1
    MaxFaults = 1
INVARIANTS
    TokenInForceIsDistributed
    ConfInForceIsDistributed
    ConfCarriesUid
    CloudInitIsCurrent
    NoSilentConfChange
PROPERTY
    RegistryReachesConfig
\* Everybody stops when connMu is held for good.
CHECK_DEADLOCK FALSE
