----------------------------- MODULE DistroAwake -----------------------------
(***************************************************************************)
(* Who keeps a WSL distro awake: the counter of stateManager               *)
(* (distros/distro/distro_state.go) behind Distro.LockAwake and            *)
(* ReleaseAwake, and its three users: the worker while it processes a task *)
(* (processSingleTask), the Landscape commands Start and Stop, and         *)
(* Distro.Cleanup.  The counter's operations hold stateManager.mu from     *)
(* beginning to end, the slow start of the distro included, so each is one *)
(* step; WSL stops, starts and unregisters the distro between them.        *)
(* LockAwake and ReleaseAwake ask IsValid before they take the mutex: a    *)
(* call is two steps, and the distro may be found invalid, cleaned up and  *)
(* reset between them.                                                     *)
(***************************************************************************)
EXTENDS Integers

CONSTANTS
    MaxTries,   \* attempts of waitForActiveConnection: 5 in the code
    MaxStarts   \* bound: Start commands in a behaviour

ASSUME TriesAssumption == MaxTries \in Nat \ {0}
ASSUME StartsAssumption == MaxStarts \in Nat

VARIABLES
    refcount,     \* stateManager.refcount
    cancel,       \* stateManager.cancel: nil, or of a live or of a cancelled loop
    keepers,      \* keepAwake goroutines that still poke the distro
    running,      \* WSL's state of the distro
    registered,   \* the registry has this name with this GUID
    invalidated,  \* Distro.invalidated
    pc,           \* the worker
    tries,        \* attempts made by waitForActiveConnection
    lastErr,      \* the error of the last attempt
    checked,      \* the worker's IsValid answered yes, m.mu is not taken yet
    connected,    \* Worker.conn # nil
    stopping,     \* the worker's context is cancelled
    cleanup,      \* progress of Distro.Cleanup
    dbClosed,     \* the context of the database, parent of the loops', is cancelled
    starts,       \* Start commands so far
    cmd,          \* the Landscape command whose IsValid answered yes, if any
    landscape,    \* history: successful Starts less successful Stops
    unmatched,    \* history: a Stop was served that no Start preceded
    late,         \* history: a Start took a lock after Cleanup's reset
    failedRestart \* history: a restart failed since the loop was last started

manager == <<refcount, cancel, keepers>>
wsl     == <<running, registered>>
worker  == <<pc, tries, lastErr, checked>>
closing == <<stopping, cleanup, dbClosed>>
cmds    == <<starts, cmd, landscape, unmatched, late>>
vars    == <<manager, wsl, invalidated, worker, connected, closing, cmds, failedRestart>>

TypeOK ==
    /\ refcount \in Nat
    /\ cancel \in {"nil", "live", "cancelled"}
    /\ keepers \in Nat
    /\ running \in BOOLEAN /\ registered \in BOOLEAN /\ invalidated \in BOOLEAN
    /\ pc \in {"idle", "try", "wait", "got", "lost", "exec", "unreachable", "stopped"}
    /\ tries \in 0 .. MaxTries
    /\ lastErr \in {"none", "unreachable", "stopped"}
    /\ checked \in BOOLEAN /\ connected \in BOOLEAN /\ stopping \in BOOLEAN
    /\ cleanup \in {"no", "stop", "reset", "done"}
    /\ dbClosed \in BOOLEAN
    /\ starts \in 0 .. MaxStarts /\ landscape \in Int
    /\ cmd \in {"none", "start", "stop"}
    /\ unmatched \in BOOLEAN /\ late \in BOOLEAN /\ failedRestart \in BOOLEAN

\* distro.New: a registered distro, running or not.
Init ==
    /\ refcount = 0 /\ cancel = "nil" /\ keepers = 0
    /\ running \in BOOLEAN /\ registered = TRUE /\ invalidated = FALSE
    /\ pc = "idle" /\ tries = 0 /\ lastErr = "none" /\ checked = FALSE
    /\ connected = FALSE /\ stopping = FALSE /\ cleanup = "no" /\ dbClosed = FALSE
    /\ starts = 0 /\ cmd = "none" /\ landscape = 0
    /\ unmatched = FALSE /\ late = FALSE /\ failedRestart = FALSE

\* Calling m.cancel ends the loop it belongs to, once.
Cancelled == IF cancel = "live" THEN keepers - 1 ELSE keepers

\* Distro.IsValid: what it answers, and the flag it leaves behind.
IsValid == registered /\ ~invalidated
NoteValidity == invalidated' = (invalidated \/ ~registered)

-----------------------------------------------------------------------------
(* stateManager *)

\* The counter is up and the distro runs: it only counts.
LockCounts ==
    /\ refcount > 0 /\ running
    /\ refcount' = refcount + 1
    /\ UNCHANGED <<cancel, keepers, running, failedRestart>>

\* The state of the distro is known, which takes its registration, and it is not
\* running; or nobody has asked for its state.
MustStart == refcount > 0 => registered /\ ~running

\* Wrong: the old loop goes on next to the new one.
LockKeepsOldLoop ==
    /\ ~dbClosed /\ MustStart
    /\ keepers' = keepers + 1
    /\ cancel' = "live"
    /\ running' = registered
    /\ refcount' = refcount + 1
    /\ failedRestart' = FALSE

\* Wrong: no loop is started.
LockWithoutLoop ==
    /\ ~dbClosed /\ MustStart
    /\ keepers' = IF refcount > 0 THEN Cancelled ELSE keepers
    /\ cancel' = "live"
    /\ running' = registered
    /\ refcount' = refcount + 1
    /\ failedRestart' = FALSE

\* First lock, or the distro stopped meanwhile: wake it up and keep it awake.  Touch
\* goes by name: after the distro it may wake up another that took the name.
LockStarts ==
    /\ ~dbClosed /\ MustStart
    /\ keepers' = (IF refcount > 0 THEN Cancelled ELSE keepers) + 1
    /\ cancel' = "live"
    /\ running' = registered
    /\ refcount' = refcount + 1
    /\ failedRestart' = FALSE

\* The state of the distro cannot be read.
LockStateFails ==
    /\ refcount > 0
    /\ UNCHANGED <<manager, running, failedRestart>>

\* Touch fails, as it must once its context is cancelled: the old loop, if any, is
\* already cancelled and the counter stays.
LockTouchFails ==
    /\ MustStart
    /\ keepers' = IF refcount > 0 THEN Cancelled ELSE keepers
    /\ cancel' = IF refcount > 0 THEN "cancelled" ELSE cancel
    /\ failedRestart' = (failedRestart \/ refcount > 0)
    /\ UNCHANGED <<refcount, running>>

\* stateManager.lock, and how it fails.
Lock      == LockCounts \/ LockStarts
LockFails == LockStateFails \/ LockTouchFails

\* Wrong: every release ends the loop, not only the last.
ReleaseEndsLoop ==
    /\ refcount' = IF refcount = 0 THEN 0 ELSE refcount - 1
    /\ keepers' = IF refcount = 0 THEN keepers ELSE Cancelled
    /\ cancel' = "nil"
    /\ failedRestart' = (failedRestart /\ refcount # 1)

\* stateManager.release; with nothing to release it reports an error.
Release ==
    /\ refcount' = IF refcount = 0 THEN 0 ELSE refcount - 1
    /\ keepers' = IF refcount = 1 THEN Cancelled ELSE keepers
    /\ cancel' = IF refcount = 1 THEN "nil" ELSE cancel
    /\ failedRestart' = (failedRestart /\ refcount # 1)

\* Wrong: the counter is cleared and the loop goes on.
ResetKeepsLoop ==
    /\ refcount' = 0
    /\ failedRestart' = FALSE
    /\ UNCHANGED <<cancel, keepers>>

Reset ==
    /\ refcount' = 0
    /\ keepers' = IF refcount = 0 THEN keepers ELSE Cancelled
    /\ cancel' = "nil"
    /\ failedRestart' = FALSE

\* The context of the loop is cancelled from outside: m.cancel stays set.
LoopEnds ==
    /\ keepers' = Cancelled
    /\ cancel' = IF cancel = "live" THEN "cancelled" ELSE cancel
    /\ UNCHANGED <<refcount, failedRestart>>

-----------------------------------------------------------------------------
(* Worker.processSingleTask, for one task after the other.                 *)

\* Where the worker is about to call LockAwake, and where ReleaseAwake.
AboutToLock    == (pc = "idle" /\ ~stopping) \/ (pc = "try" /\ tries < MaxTries)
AboutToRelease == pc \in {"got", "lost", "exec"} \/ (pc = "try" /\ tries = MaxTries)

\* LockAwake or ReleaseAwake finds the distro valid and goes on to take m.mu.
WorkerChecks ==
    /\ AboutToLock \/ AboutToRelease
    /\ ~checked /\ IsValid
    /\ checked' = TRUE
    /\ UNCHANGED <<manager, wsl, invalidated, pc, tries, lastErr, connected, closing, cmds,
                   failedRestart>>

\* A call that passed its check is served in the manager; one that did not changes
\* nothing there, but IsValid leaves its mark.
Served(op) == checked /\ op /\ checked' = FALSE /\ UNCHANGED invalidated
Refused ==
    /\ ~checked /\ ~IsValid /\ NoteValidity
    /\ UNCHANGED <<manager, running, failedRestart, checked>>

\* ReleaseAwake, whose error nobody reads: it refuses to release the lock of an
\* invalid distro.
ReleaseAwake == Served(Release /\ UNCHANGED running) \/ Refused

\* A task is pulled and the distro is up: waitForActiveConnection begins.  (That
\* processSingleTask asks IsValid once more changes nothing.)
BeginTask ==
    /\ pc = "idle"
    /\ Served(Lock)
    /\ pc' = "try" /\ tries' = 0 /\ lastErr' = "none"
    /\ UNCHANGED <<registered, connected, closing, cmds>>

\* A task is pulled and the distro cannot be reached, ...
BeginTaskFails ==
    /\ pc = "idle" /\ (checked \/ ~stopping)
    /\ Served(LockFails) \/ Refused
    /\ pc' = "unreachable"
    /\ UNCHANGED <<registered, tries, lastErr, connected, closing, cmds>>

\* ... for which processTasks invalidates it.
Invalidate ==
    /\ pc = "unreachable"
    /\ invalidated' = TRUE
    /\ pc' = "idle"
    /\ UNCHANGED <<manager, wsl, tries, lastErr, checked, connected, closing, cmds,
                   failedRestart>>

TryLock ==
    /\ pc = "try" /\ tries < MaxTries
    /\ Served(Lock)
    /\ pc' = "wait"
    /\ UNCHANGED <<registered, tries, lastErr, connected, closing, cmds>>

TryLockFails ==
    /\ pc = "try" /\ tries < MaxTries
    /\ Served(LockFails) \/ Refused
    /\ tries' = tries + 1 /\ lastErr' = "unreachable"
    /\ UNCHANGED <<registered, pc, connected, closing, cmds>>

\* waitForClient finds a connection.
GotClient ==
    /\ pc = "wait" /\ connected
    /\ pc' = "got"
    /\ UNCHANGED <<manager, wsl, invalidated, tries, lastErr, checked, connected, closing, cmds,
                   failedRestart>>

\* waitForClient gives up.  Cancelling the worker's context also ends the context
\* with the time limit, so teardown may be taken for a timeout.
NoClient ==
    /\ pc = "wait"
    /\ \/ ~connected /\ lastErr' = "unreachable"
       \/ stopping /\ lastErr' \in {"stopped", "unreachable"}
    /\ pc' = "lost"
    /\ UNCHANGED <<manager, wsl, invalidated, tries, checked, connected, closing, cmds,
                   failedRestart>>

\* Wrong: an attempt without a client keeps its lock.
EndTryKeepsLock ==
    /\ \/ pc = "got"  /\ pc' = "exec" /\ UNCHANGED tries /\ ReleaseAwake
       \/ /\ pc = "lost" /\ pc' = "try" /\ tries' = tries + 1 /\ checked' = FALSE
          /\ UNCHANGED <<manager, running, invalidated, failedRestart>>
    /\ UNCHANGED <<registered, lastErr, connected, closing, cmds>>

\* The attempt's own lock is released, with or without a client.
EndTry ==
    /\ \/ pc = "got"  /\ pc' = "exec" /\ UNCHANGED tries
       \/ pc = "lost" /\ pc' = "try"  /\ tries' = tries + 1
    /\ ReleaseAwake
    /\ UNCHANGED <<registered, lastErr, connected, closing, cmds>>

\* Every attempt failed: the outer lock is released; the distro is unreachable
\* unless the last error was the teardown's.
GiveUp ==
    /\ pc = "try" /\ tries = MaxTries
    /\ ReleaseAwake
    /\ pc' = IF lastErr = "unreachable" THEN "unreachable" ELSE "idle"
    /\ tries' = 0 /\ lastErr' = "none"
    /\ UNCHANGED <<registered, connected, closing, cmds>>

\* Execute returns, whatever its result.
EndTask ==
    /\ pc = "exec"
    /\ ReleaseAwake
    /\ pc' = "idle" /\ tries' = 0 /\ lastErr' = "none"
    /\ UNCHANGED <<registered, connected, closing, cmds>>

\* NextTask finds the context cancelled: processTasks returns.
WorkerReturns ==
    /\ pc = "idle" /\ stopping /\ ~checked
    /\ pc' = "stopped"
    /\ UNCHANGED <<manager, wsl, invalidated, tries, lastErr, checked, connected, closing, cmds,
                   failedRestart>>

-----------------------------------------------------------------------------
(* Landscape's Start and Stop (executor.go), one at a time.  The database   *)
(* no longer has a distro that Cleanup works on, but a command may have got *)
(* it, and passed the check, before.                                        *)

StartChecks ==
    /\ cmd = "none" /\ cleanup = "no" /\ ~dbClosed /\ starts < MaxStarts
    /\ starts' = starts + 1
    /\ cmd' = IF IsValid THEN "start" ELSE "none"
    /\ NoteValidity
    /\ UNCHANGED <<manager, wsl, worker, connected, closing, landscape, unmatched, late,
                   failedRestart>>

\* A Start that passed its check too early locks a distro nobody will release.
StartLocks ==
    /\ cmd = "start" /\ cmd' = "none"
    /\ \/ Lock /\ landscape' = landscape + 1 /\ late' = (late \/ cleanup = "done")
       \/ LockFails /\ UNCHANGED <<landscape, late>>
    /\ UNCHANGED <<registered, invalidated, worker, connected, closing, starts, unmatched>>

StopChecks ==
    /\ cmd = "none" /\ cleanup = "no" /\ ~dbClosed /\ landscape > -MaxStarts
    /\ cmd' = IF IsValid THEN "stop" ELSE "none"
    /\ NoteValidity
    /\ UNCHANGED <<manager, wsl, worker, connected, closing, starts, landscape, unmatched, late,
                   failedRestart>>

\* Nothing relates a Stop to a Start: it releases whatever lock there is.
StopReleases ==
    /\ cmd = "stop" /\ cmd' = "none"
    /\ Release
    /\ landscape' = IF refcount > 0 THEN landscape - 1 ELSE landscape
    /\ unmatched' = (unmatched \/ (refcount > 0 /\ landscape <= 0))
    /\ UNCHANGED <<wsl, invalidated, worker, connected, closing, starts, late>>

-----------------------------------------------------------------------------
(* Distro.Cleanup: Worker.Stop, then reset.                                *)

\* The database drops a distro that is no longer valid.
CleanupInvalid ==
    /\ cleanup = "no" /\ ~IsValid
    /\ NoteValidity
    /\ stopping' = TRUE /\ cleanup' = "stop"
    /\ UNCHANGED <<dbClosed, manager, wsl, worker, connected, cmds, failedRestart>>

\* The database closes with the agent, after the Landscape service, which waits for
\* its command.  It first cancels its context, and with it every keep-awake loop,
\* whatever the counters say; ...
CloseDatabase ==
    /\ ~dbClosed /\ cmd = "none"
    /\ dbClosed' = TRUE
    /\ LoopEnds
    /\ UNCHANGED <<wsl, invalidated, worker, connected, stopping, cleanup, cmds>>

\* ... after its last dump it cleans every distro up.
CleanupAllDistros ==
    /\ cleanup = "no" /\ dbClosed
    /\ stopping' = TRUE /\ cleanup' = "stop"
    /\ UNCHANGED <<manager, wsl, invalidated, worker, connected, dbClosed, cmds, failedRestart>>

\* Stop has waited for processTasks and drops the connection.
StopReturns ==
    /\ cleanup = "stop" /\ pc = "stopped"
    /\ connected' = FALSE
    /\ cleanup' = "reset"
    /\ UNCHANGED <<dbClosed, manager, wsl, invalidated, worker, stopping, cmds, failedRestart>>

CleanupReset ==
    /\ cleanup = "reset"
    /\ Reset
    /\ cleanup' = "done"
    /\ UNCHANGED <<dbClosed, wsl, invalidated, worker, connected, stopping, cmds>>

-----------------------------------------------------------------------------
(* The surroundings.                                                       *)

\* A keepAwake loop pokes the distro every five seconds.
KeepAwakeTouch ==
    /\ keepers > 0 /\ registered /\ ~running
    /\ running' = TRUE
    /\ UNCHANGED <<manager, registered, invalidated, worker, connected, closing, cmds,
                   failedRestart>>

\* WSL: the user starts or stops the distro, or it shuts down.
DistroStarts ==
    /\ registered /\ ~running
    /\ running' = TRUE
    /\ UNCHANGED <<manager, registered, invalidated, worker, connected, closing, cmds,
                   failedRestart>>

DistroStops ==
    /\ running
    /\ running' = FALSE
    /\ UNCHANGED <<manager, registered, invalidated, worker, connected, closing, cmds,
                   failedRestart>>

\* WSL: the distro is unregistered, or another takes its name.
Unregister ==
    /\ registered
    /\ registered' = FALSE /\ running' = FALSE
    /\ UNCHANGED <<manager, invalidated, worker, connected, closing, cmds, failedRestart>>

\* The Connected stream sets and, when it ends, resets the connection.
Connect ==
    /\ ~connected /\ IsValid /\ running
    /\ connected' = TRUE
    /\ UNCHANGED <<manager, wsl, invalidated, worker, closing, cmds, failedRestart>>

Disconnect ==
    /\ connected
    /\ connected' = FALSE
    /\ UNCHANGED <<manager, wsl, invalidated, worker, closing, cmds, failedRestart>>

-----------------------------------------------------------------------------
\* What the worker does once it has a task.
WorkerStep ==
    \/ pc # "idle" /\ WorkerChecks
    \/ checked /\ (BeginTask \/ BeginTaskFails)
    \/ Invalidate \/ TryLock \/ TryLockFails \/ GotClient \/ NoClient \/ EndTry
    \/ GiveUp \/ EndTask \/ WorkerReturns

Next ==
    \/ WorkerChecks \/ BeginTask \/ BeginTaskFails \/ Invalidate
    \/ TryLock \/ TryLockFails \/ GotClient \/ NoClient \/ EndTry \/ GiveUp \/ EndTask
    \/ WorkerReturns
    \/ StartChecks \/ StartLocks \/ StopChecks \/ StopReleases
    \/ CleanupInvalid \/ CloseDatabase \/ CleanupAllDistros \/ StopReturns \/ CleanupReset
    \/ KeepAwakeTouch \/ DistroStarts \/ DistroStops \/ Unregister
    \/ Connect \/ Disconnect

\* The worker's waits have time limits and Execute ends with the connection; the
\* database looks for invalid distros periodically; Cleanup and the keep-awake
\* loops are goroutines that run.
Fairness ==
    /\ WF_vars(WorkerStep)
    /\ WF_vars(CleanupInvalid) /\ WF_vars(CleanupAllDistros)
    /\ WF_vars(StopReturns) /\ WF_vars(CleanupReset)
    /\ WF_vars(KeepAwakeTouch)

Spec == Init /\ [][Next]_vars /\ Fairness

-----------------------------------------------------------------------------
\* The locks the worker holds: its own, and an attempt's.
WorkerLocks == CASE pc \in {"wait", "got", "lost"} -> 2 [] pc \in {"try", "exec"} -> 1 [] OTHER -> 0

\* At most one loop pokes the distro, none when nobody holds a lock, and one
\* whenever somebody does, except after a restart that failed: lock cancels the
\* old loop before it knows whether there will be a new one; or when the database
\* has closed, which ends the loops of tasks that still run.
OneKeeperPerLockedDistro ==
    /\ keepers <= 1
    /\ refcount = 0 => keepers = 0
    /\ refcount > 0 /\ ~failedRestart /\ ~dbClosed => keepers = 1

\* release and lock call m.cancel whenever the counter is above zero: it is never
\* nil then, so they do not crash the agent.
CancelIsSetWhileCounted == refcount > 0 => cancel # "nil"

\* Until the distro is found invalid or cleaned up, the counter is exactly what
\* its users hold, so that a task never runs on a distro nobody keeps awake;
\* only a Stop that no Start preceded can take a lock away from the worker.
CounterIsWhatUsersHold ==
    IsValid /\ cleanup \in {"no", "stop"} /\ ~unmatched => refcount = WorkerLocks + landscape

\* ReleaseAwake refuses to release the locks of an invalid distro; Cleanup does it
\* in the end, for good: an invalid distro is not kept awake forever, unless a Start
\* was told that it is valid and takes its lock only after Cleanup's reset.
InvalidDistroIsReleased == invalidated ~> ([](refcount = 0 /\ keepers = 0) \/ late)

\* A distro somebody keeps awake is started again when WSL stops it, while the
\* database is open.
LockedDistroIsRestarted ==
    refcount > 0 /\ ~failedRestart
        ~> running \/ refcount = 0 \/ failedRestart \/ dbClosed \/ ~registered
=============================================================================
