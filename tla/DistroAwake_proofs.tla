-------------------------- MODULE DistroAwake_proofs --------------------------
(***************************************************************************)
(* Proofs about the counter that keeps a distro awake, for every number of *)
(* attempts and of Start commands.                                         *)
(***************************************************************************)
EXTENDS DistroAwake, TLAPS

\* There is a loop exactly when the manager can still cancel it, and the manager
\* has something to cancel exactly when the counter is above zero.
LoopInv ==
    /\ keepers = IF cancel = "live" THEN 1 ELSE 0
    /\ refcount = 0 <=> cancel = "nil"
    /\ refcount > 0 /\ ~failedRestart /\ ~dbClosed => cancel = "live"
    /\ dbClosed => cancel # "live"

\* What the counter of a valid distro rests on: an attempt is counted once, nobody
\* but the worker took more than it gave, and Cleanup resets after the worker.
UsersInv ==
    /\ pc \in {"wait", "got", "lost"} => tries < MaxTries
    /\ ~unmatched => landscape >= 0
    /\ cleanup \in {"reset", "done"} => pc = "stopped"

IInv == TypeOK /\ LoopInv /\ UsersInv /\ CounterIsWhatUsersHold

ManagerType ==
    /\ refcount \in Nat
    /\ cancel \in {"nil", "live", "cancelled"}
    /\ keepers \in Nat

\* What the operations of stateManager have in common.
ManagerOp ==
    \/ /\ dbClosed' = dbClosed
       /\ \/ LockCounts \/ LockStarts \/ LockStateFails \/ LockTouchFails
          \/ Release \/ Reset \/ UNCHANGED <<manager, failedRestart>>
    \/ dbClosed' = TRUE /\ LoopEnds

-----------------------------------------------------------------------------
\* Every operation of stateManager keeps its loop and its counter in step.
LEMMA ManagerKeepsLoop ==
    ASSUME ManagerType, LoopInv, ManagerOp
    PROVE  ManagerType' /\ LoopInv'
<1>1. CASE dbClosed' = dbClosed /\ LockCounts
  BY <1>1 DEF LockCounts, ManagerType, LoopInv
<1>2. CASE dbClosed' = dbClosed /\ LockStarts
  <2>1. cancel' = "live" /\ refcount' = refcount + 1 /\ failedRestart' = FALSE
    BY <1>2 DEF LockStarts
  <2>4. ~dbClosed'
    BY <1>2, Zenon DEF LockStarts
  <2>2. (IF refcount > 0 THEN Cancelled ELSE keepers) = 0
    BY DEF Cancelled, ManagerType, LoopInv
  <2>3. keepers' = 1
    BY <1>2, <2>2 DEF LockStarts
  <2> QED
    BY <2>1, <2>3, <2>4 DEF ManagerType, LoopInv
<1>3. CASE dbClosed' = dbClosed /\ LockStateFails
  BY <1>3 DEF LockStateFails, ManagerType, LoopInv, manager
<1>4. CASE dbClosed' = dbClosed /\ LockTouchFails
  <2>1. CASE refcount = 0
    BY <1>4, <2>1 DEF LockTouchFails, ManagerType, LoopInv
  <2>2. CASE refcount > 0
    <3>1. failedRestart'
      BY <1>4, <2>2, Zenon DEF LockTouchFails
    <3>2. refcount' = refcount /\ cancel' = "cancelled" /\ keepers' = Cancelled
      BY <1>4, <2>2 DEF LockTouchFails
    <3> QED
      BY <2>2, <3>1, <3>2 DEF ManagerType, LoopInv, Cancelled
  <2> QED
    BY <2>1, <2>2 DEF ManagerType
<1>5. CASE dbClosed' = dbClosed /\ Release
  <2>1. CASE refcount = 0
    BY <1>5, <2>1 DEF Release, ManagerType, LoopInv
  <2>2. CASE refcount = 1
    BY <1>5, <2>2 DEF Release, ManagerType, LoopInv, Cancelled
  <2>3. CASE refcount > 1
    <3>1. refcount # 0 /\ refcount # 1
      BY <2>3 DEF ManagerType
    <3>2. failedRestart => failedRestart'
      BY <1>5, <3>1, Zenon DEF Release
    <3>3. refcount' = refcount - 1 /\ UNCHANGED <<cancel, keepers, dbClosed>>
      BY <1>5, <3>1 DEF Release
    <3> QED
      BY <2>3, <3>2, <3>3 DEF ManagerType, LoopInv
  <2> QED
    BY <2>1, <2>2, <2>3 DEF ManagerType
<1>6. CASE dbClosed' = dbClosed /\ Reset
  BY <1>6 DEF Reset, ManagerType, LoopInv, Cancelled
<1>7. CASE dbClosed' = dbClosed /\ UNCHANGED <<manager, failedRestart>>
  BY <1>7 DEF ManagerType, LoopInv, manager
<1>8. CASE dbClosed' = TRUE /\ LoopEnds
  <2>1. dbClosed'
    BY <1>8, Zenon
  <2> QED
    BY <1>8, <2>1 DEF LoopEnds, ManagerType, LoopInv, Cancelled
<1> QED
  BY <1>8, <1>1, <1>2, <1>3, <1>4, <1>5, <1>6, <1>7 DEF ManagerOp

\* Every step does one operation of stateManager, or none.
LEMMA StepIsManagerOp ==
    ASSUME [Next]_vars
    PROVE  ManagerOp
<1> USE DEF ManagerOp, closing
<1>3. CASE BeginTask \/ TryLock
  BY <1>3 DEF BeginTask, TryLock, Served, Lock
<1>4. CASE BeginTaskFails \/ TryLockFails
  BY <1>4 DEF BeginTaskFails, TryLockFails, Served, Refused, LockFails
<1>5. CASE EndTry \/ GiveUp \/ EndTask
  BY <1>5 DEF EndTry, GiveUp, EndTask, ReleaseAwake, Served, Refused
<1>6. CASE WorkerChecks \/ Invalidate \/ GotClient \/ NoClient
  BY <1>6 DEF WorkerChecks, Invalidate, GotClient, NoClient
<1>7. CASE StartChecks \/ StartLocks \/ StopChecks \/ StopReleases
  BY <1>7 DEF StartChecks, StartLocks, StopChecks, StopReleases, Lock, LockFails
<1>8. CASE CleanupReset
  BY <1>8 DEF CleanupReset
<1>9. CASE WorkerReturns \/ CleanupInvalid \/ CloseDatabase \/ CleanupAllDistros \/ StopReturns
  BY <1>9 DEF WorkerReturns, CleanupInvalid, CloseDatabase, CleanupAllDistros, StopReturns
<1>10. CASE KeepAwakeTouch \/ DistroStarts \/ DistroStops \/ Unregister \/ Connect \/ Disconnect
  BY <1>10 DEF KeepAwakeTouch, DistroStarts, DistroStops, Unregister, Connect, Disconnect
<1>11. CASE UNCHANGED vars
  BY <1>11 DEF vars
<1> QED
  BY <1>3, <1>4, <1>5, <1>6, <1>7, <1>8, <1>9, <1>10, <1>11 DEF Next

-----------------------------------------------------------------------------
FlagType ==
    /\ running \in BOOLEAN /\ registered \in BOOLEAN /\ invalidated \in BOOLEAN
    /\ connected \in BOOLEAN /\ stopping \in BOOLEAN /\ dbClosed \in BOOLEAN
    /\ checked \in BOOLEAN /\ unmatched \in BOOLEAN /\ late \in BOOLEAN
    /\ failedRestart \in BOOLEAN

ControlType ==
    /\ pc \in {"idle", "try", "wait", "got", "lost", "exec", "unreachable", "stopped"}
    /\ tries \in 0 .. MaxTries
    /\ lastErr \in {"none", "unreachable", "stopped"}
    /\ cleanup \in {"no", "stop", "reset", "done"}
    /\ starts \in 0 .. MaxStarts /\ landscape \in Int
    /\ cmd \in {"none", "start", "stop"}

\* TypeOK, by who changes what: stateManager, Boolean flags, the control state.
LEMMA TypeParts == TypeOK <=> ManagerType /\ FlagType /\ ControlType
BY DEF TypeOK, ManagerType, FlagType, ControlType

\* The flags stay flags.
LEMMA FlagStep ==
    ASSUME FlagType, [Next]_vars
    PROVE  FlagType'
<1> USE DEF FlagType
<1>1. failedRestart' \in BOOLEAN
  <2>1. ManagerOp
    BY StepIsManagerOp
  <2> QED
    BY <2>1, Zenon DEF ManagerOp, LockCounts, LockStarts, LockStateFails, LockTouchFails, Release,
                       Reset, LoopEnds
<1>2. running' \in BOOLEAN /\ registered' \in BOOLEAN
  BY Zenon DEF Next, vars, wsl, ReleaseAwake, Served, Refused, NoteValidity, Lock,
     LockFails, LockCounts, LockStarts, LockStateFails, LockTouchFails, WorkerChecks,
     BeginTask, BeginTaskFails, Invalidate, TryLock, TryLockFails, GotClient, NoClient,
     EndTry, GiveUp, EndTask, WorkerReturns, StartChecks, StartLocks, StopChecks,
     StopReleases, CleanupInvalid, CloseDatabase, CleanupAllDistros, StopReturns,
     CleanupReset, KeepAwakeTouch, DistroStarts, DistroStops, Unregister, Connect, Disconnect
<1>3. invalidated' \in BOOLEAN
  BY Zenon DEF Next, vars, ReleaseAwake, Served, Refused, NoteValidity, WorkerChecks,
     BeginTask, BeginTaskFails, Invalidate, TryLock, TryLockFails, GotClient, NoClient,
     EndTry, GiveUp, EndTask, WorkerReturns, StartChecks, StartLocks, StopChecks,
     StopReleases, CleanupInvalid, CloseDatabase, CleanupAllDistros, StopReturns,
     CleanupReset, KeepAwakeTouch, DistroStarts, DistroStops, Unregister, Connect, Disconnect
<1>4. connected' \in BOOLEAN /\ stopping' \in BOOLEAN /\ dbClosed' \in BOOLEAN
  BY Zenon DEF Next, vars, closing, WorkerChecks, BeginTask, BeginTaskFails, Invalidate,
     TryLock, TryLockFails, GotClient, NoClient, EndTry, GiveUp, EndTask, WorkerReturns,
     StartChecks, StartLocks, StopChecks, StopReleases, CleanupInvalid, CloseDatabase,
     CleanupAllDistros, StopReturns, CleanupReset, KeepAwakeTouch, DistroStarts, DistroStops,
     Unregister, Connect, Disconnect
<1>5. unmatched' \in BOOLEAN /\ late' \in BOOLEAN
  BY Zenon DEF Next, vars, cmds, WorkerChecks, BeginTask, BeginTaskFails, Invalidate,
     TryLock, TryLockFails, GotClient, NoClient, EndTry, GiveUp, EndTask, WorkerReturns,
     StartChecks, StartLocks, StopChecks, StopReleases, CleanupInvalid, CloseDatabase,
     CleanupAllDistros, StopReturns, CleanupReset, KeepAwakeTouch, DistroStarts, DistroStops,
     Unregister, Connect, Disconnect
<1>6. checked' \in BOOLEAN
  BY Zenon DEF Next, vars, worker, ReleaseAwake, Served, Refused, WorkerChecks, BeginTask,
     BeginTaskFails, Invalidate, TryLock, TryLockFails, GotClient, NoClient, EndTry, GiveUp,
     EndTask, WorkerReturns, StartChecks, StartLocks, StopChecks, StopReleases,
     CleanupInvalid, CloseDatabase, CleanupAllDistros, StopReturns, CleanupReset,
     KeepAwakeTouch, DistroStarts, DistroStops, Unregister, Connect, Disconnect
<1> QED
  BY <1>1, <1>2, <1>3, <1>4, <1>5, <1>6

\* The worker, Cleanup and the commands stay in range.
LEMMA ControlStep ==
    ASSUME ControlType, UsersInv, [Next]_vars
    PROVE  ControlType'
<1> USE TriesAssumption, StartsAssumption DEF ControlType, closing
<1>1. CASE \/ BeginTask \/ TryLock \/ BeginTaskFails \/ Invalidate \/ GotClient \/ GiveUp
           \/ EndTask \/ WorkerReturns \/ WorkerChecks
  BY <1>1 DEF BeginTask, TryLock, BeginTaskFails, Invalidate, GotClient, GiveUp, EndTask,
     WorkerReturns, WorkerChecks, cmds
<1>2. CASE TryLockFails
  BY <1>2 DEF TryLockFails, cmds
<1>3. CASE NoClient \/ EndTry
  BY <1>3 DEF NoClient, EndTry, UsersInv, cmds
<1>4. CASE StartChecks \/ StartLocks \/ StopChecks
  BY <1>4 DEF StartChecks, StartLocks, StopChecks, worker
<1>5. CASE StopReleases
  BY <1>5 DEF StopReleases, worker
<1>6. CASE CleanupInvalid \/ CloseDatabase \/ CleanupAllDistros \/ StopReturns \/ CleanupReset
  BY <1>6 DEF CleanupInvalid, CloseDatabase, CleanupAllDistros, StopReturns, CleanupReset,
     worker, cmds
<1>7. CASE KeepAwakeTouch \/ DistroStarts \/ DistroStops \/ Unregister \/ Connect \/ Disconnect
  BY <1>7 DEF KeepAwakeTouch, DistroStarts, DistroStops, Unregister, Connect, Disconnect, worker,
              cmds
<1>8. CASE UNCHANGED vars
  BY <1>8 DEF vars, worker, cmds
<1> QED
  BY <1>1, <1>2, <1>3, <1>4, <1>5, <1>6, <1>7, <1>8 DEF Next

\* An attempt is counted once, and the worker has returned before Cleanup resets.
LEMMA UsersStep ==
    ASSUME ControlType, UsersInv, [Next]_vars
    PROVE  UsersInv'
<1> USE TriesAssumption, StartsAssumption DEF ControlType, UsersInv, closing
<1>1. CASE \/ BeginTask \/ TryLock \/ BeginTaskFails \/ Invalidate \/ GotClient \/ GiveUp
           \/ EndTask \/ WorkerReturns \/ WorkerChecks
  BY <1>1 DEF BeginTask, TryLock, BeginTaskFails, Invalidate, GotClient, GiveUp, EndTask,
     WorkerReturns, WorkerChecks, cmds
<1>2. CASE TryLockFails
  BY <1>2 DEF TryLockFails, cmds
<1>3. CASE NoClient \/ EndTry
  BY <1>3 DEF NoClient, EndTry, UsersInv, cmds
<1>4. CASE StartChecks \/ StartLocks \/ StopChecks
  BY <1>4 DEF StartChecks, StartLocks, StopChecks, worker
<1>5. CASE StopReleases
  <2>1. UNCHANGED <<pc, tries, cleanup>>
    BY <1>5 DEF StopReleases, worker
  <2>2. SUFFICES ASSUME ~unmatched', landscape # landscape'
                 PROVE  landscape' >= 0
    <3>1. ~unmatched' => ~unmatched
      BY <1>5, Zenon DEF StopReleases
    <3> QED
      BY <2>1, <3>1
  <2>3. refcount > 0 /\ landscape' = landscape - 1
    BY <1>5, <2>2 DEF StopReleases
  <2>4. ~(landscape <= 0)
    BY <1>5, <2>2, <2>3, Zenon DEF StopReleases
  <2> QED
    BY <2>3, <2>4
<1>6. CASE CleanupInvalid \/ CloseDatabase \/ CleanupAllDistros \/ StopReturns \/ CleanupReset
  BY <1>6 DEF CleanupInvalid, CloseDatabase, CleanupAllDistros, StopReturns, CleanupReset,
     worker, cmds
<1>7. CASE KeepAwakeTouch \/ DistroStarts \/ DistroStops \/ Unregister \/ Connect \/ Disconnect
  BY <1>7 DEF KeepAwakeTouch, DistroStarts, DistroStops, Unregister, Connect, Disconnect, worker,
              cmds
<1>8. CASE UNCHANGED vars
  BY <1>8 DEF vars, worker, cmds
<1> QED
  BY <1>1, <1>2, <1>3, <1>4, <1>5, <1>6, <1>7, <1>8 DEF Next

-----------------------------------------------------------------------------
\* A distro that is found invalid, a Cleanup that went past Stop and a Stop without
\* a Start are there for good.
LEMMA Monotone ==
    ASSUME FlagType, ControlType, [Next]_vars,
           IsValid', cleanup' \in {"no", "stop"}, ~unmatched'
    PROVE  IsValid /\ cleanup \in {"no", "stop"} /\ ~unmatched
<1>1. registered' => registered
  BY Zenon DEF Next, vars, wsl, WorkerChecks, BeginTask, BeginTaskFails, Invalidate,
     TryLock, TryLockFails, GotClient, NoClient, EndTry, GiveUp, EndTask, WorkerReturns,
     StartChecks, StartLocks, StopChecks, StopReleases, CleanupInvalid, CloseDatabase,
     CleanupAllDistros, StopReturns, CleanupReset, KeepAwakeTouch, DistroStarts, DistroStops,
     Unregister, Connect, Disconnect
<1>2. invalidated => invalidated'
  BY Zenon DEF Next, vars, ReleaseAwake, Served, Refused, NoteValidity, WorkerChecks,
     BeginTask, BeginTaskFails, Invalidate, TryLock, TryLockFails, GotClient, NoClient,
     EndTry, GiveUp, EndTask, WorkerReturns, StartChecks, StartLocks, StopChecks,
     StopReleases, CleanupInvalid, CloseDatabase, CleanupAllDistros, StopReturns,
     CleanupReset, KeepAwakeTouch, DistroStarts, DistroStops, Unregister, Connect, Disconnect
<1>3. unmatched => unmatched'
  BY Zenon DEF Next, vars, cmds, WorkerChecks, BeginTask, BeginTaskFails, Invalidate,
     TryLock, TryLockFails, GotClient, NoClient, EndTry, GiveUp, EndTask, WorkerReturns,
     StartChecks, StartLocks, StopChecks, StopReleases, CleanupInvalid, CloseDatabase,
     CleanupAllDistros, StopReturns, CleanupReset, KeepAwakeTouch, DistroStarts, DistroStops,
     Unregister, Connect, Disconnect
<1>4. cleanup \in {"no", "stop"}
  BY DEF Next, vars, closing, WorkerChecks, BeginTask, BeginTaskFails, Invalidate,
     TryLock, TryLockFails, GotClient, NoClient, EndTry, GiveUp, EndTask, WorkerReturns,
     StartChecks, StartLocks, StopChecks, StopReleases, CleanupInvalid, CloseDatabase,
     CleanupAllDistros, StopReturns, CleanupReset, KeepAwakeTouch, DistroStarts, DistroStops,
     Unregister, Connect, Disconnect
<1> QED
  BY <1>1, <1>2, <1>3, <1>4, Zenon DEF IsValid

\* Locks and releases are paired in every path through the worker and the commands.
LEMMA CounterStep ==
    ASSUME TypeOK, UsersInv, CounterIsWhatUsersHold, [Next]_vars
    PROVE  CounterIsWhatUsersHold'
<1> SUFFICES ASSUME IsValid', cleanup' \in {"no", "stop"}, ~unmatched'
             PROVE  refcount' = WorkerLocks' + landscape'
  BY DEF CounterIsWhatUsersHold
<1>0. ManagerType /\ FlagType /\ ControlType
  BY TypeParts
<1>1. IsValid /\ cleanup \in {"no", "stop"} /\ ~unmatched
  BY <1>0, Monotone
<1>2. refcount = WorkerLocks + landscape /\ landscape \in Nat
  BY <1>0, <1>1 DEF CounterIsWhatUsersHold, UsersInv, ControlType
<1>3. ASSUME Served(Lock)
      PROVE  refcount' = refcount + 1
  BY <1>3 DEF Served, Lock, LockCounts, LockStarts
<1>4. ASSUME Served(LockFails) \/ Refused
      PROVE  refcount' = refcount
  BY <1>4 DEF Served, LockFails, Refused, LockStateFails, LockTouchFails, manager
<1>5. ASSUME ReleaseAwake, refcount > 0
      PROVE  refcount' = refcount - 1
  BY <1>0, <1>1, <1>5 DEF ReleaseAwake, Served, Refused, Release, ManagerType
<1>6. CASE BeginTask
  BY <1>2, <1>3, <1>6 DEF BeginTask, WorkerLocks, cmds
<1>7. CASE BeginTaskFails
  BY <1>2, <1>4, <1>7 DEF BeginTaskFails, WorkerLocks, cmds
<1>8. CASE TryLock
  BY <1>2, <1>3, <1>8 DEF TryLock, WorkerLocks, cmds
<1>9. CASE TryLockFails
  BY <1>2, <1>4, <1>9 DEF TryLockFails, WorkerLocks, cmds
<1>10. CASE EndTry
  BY <1>2, <1>5, <1>10 DEF EndTry, WorkerLocks, cmds
<1>11. CASE GiveUp
  BY <1>2, <1>5, <1>11 DEF GiveUp, WorkerLocks, cmds
<1>12. CASE EndTask
  BY <1>2, <1>5, <1>12 DEF EndTask, WorkerLocks, cmds
<1>13. CASE WorkerChecks \/ Invalidate \/ GotClient \/ NoClient \/ WorkerReturns
  BY <1>2, <1>13 DEF WorkerChecks, Invalidate, GotClient, NoClient, WorkerReturns, WorkerLocks,
     cmds, manager
<1>14. CASE StartChecks \/ StopChecks
  BY <1>2, <1>14 DEF StartChecks, StopChecks, WorkerLocks, worker, manager
<1>15. CASE StartLocks
  BY <1>2, <1>15 DEF StartLocks, Lock, LockFails, LockCounts, LockStarts, LockStateFails,
     LockTouchFails, WorkerLocks, worker, manager
<1>16. CASE StopReleases
  <2>1. CASE refcount > 0
    <3>1. refcount' = refcount - 1
      BY <1>0, <1>16, <2>1 DEF StopReleases, Release, ManagerType
    <3>2. landscape' = landscape - 1 /\ pc' = pc
      BY <1>16, <2>1 DEF StopReleases, worker
    <3> QED
      BY <1>2, <3>1, <3>2 DEF WorkerLocks
  <2>2. CASE refcount = 0
    <3>1. refcount' = refcount /\ landscape' = landscape /\ pc' = pc
      BY <1>16, <2>2 DEF StopReleases, Release, worker
    <3> QED
      BY <1>2, <3>1 DEF WorkerLocks
  <2> QED
    BY <1>0, <2>1, <2>2 DEF ManagerType
<1>17. CASE CleanupInvalid \/ CloseDatabase \/ CleanupAllDistros
  BY <1>2, <1>17 DEF CleanupInvalid, CloseDatabase, CleanupAllDistros, LoopEnds, WorkerLocks,
     worker, cmds, manager
<1>18. CASE StopReturns \/ CleanupReset
  BY <1>18 DEF StopReturns, CleanupReset
<1>19. CASE KeepAwakeTouch \/ DistroStarts \/ DistroStops \/ Unregister \/ Connect \/ Disconnect
  BY <1>2, <1>19 DEF KeepAwakeTouch, DistroStarts, DistroStops, Unregister, Connect, Disconnect,
                     WorkerLocks, worker, cmds, manager
<1>20. CASE UNCHANGED vars
  BY <1>2, <1>20 DEF vars, WorkerLocks, worker, cmds, manager
<1> QED
  BY <1>6, <1>7, <1>8, <1>9, <1>10, <1>11, <1>12, <1>13, <1>14, <1>15, <1>16, <1>17, <1>18,
     <1>19, <1>20 DEF Next

-----------------------------------------------------------------------------
\* distro.New establishes the invariant.
LEMMA InitIInv == Init => IInv
<1> SUFFICES ASSUME Init PROVE IInv
  OBVIOUS
<1>1. FlagType
  BY Zenon DEF Init, FlagType
<1>2. ManagerType /\ ControlType
  BY TriesAssumption, StartsAssumption DEF Init, ManagerType, ControlType
<1>3. LoopInv /\ UsersInv /\ CounterIsWhatUsersHold
  BY DEF Init, LoopInv, UsersInv, CounterIsWhatUsersHold, WorkerLocks
<1> QED
  BY <1>1, <1>2, <1>3, TypeParts DEF IInv

\* Every step keeps it.
LEMMA NextIInv == IInv /\ [Next]_vars => IInv'
<1> SUFFICES ASSUME IInv, [Next]_vars PROVE IInv'
  OBVIOUS
<1>1. ManagerType /\ FlagType /\ ControlType
  BY TypeParts DEF IInv
<1>2. ManagerType' /\ LoopInv'
  BY <1>1, StepIsManagerOp, ManagerKeepsLoop DEF IInv
<1>3. FlagType' /\ ControlType' /\ UsersInv'
  BY <1>1, FlagStep, ControlStep, UsersStep DEF IInv
<1>4. TypeOK'
  BY <1>2, <1>3 DEF TypeOK, ManagerType, FlagType, ControlType
<1>5. CounterIsWhatUsersHold'
  BY CounterStep DEF IInv
<1> QED
  BY <1>2, <1>3, <1>4, <1>5 DEF IInv

\* The inductive invariant holds in every behaviour.
THEOREM SpecIInv == Spec => []IInv
BY InitIInv, NextIInv, PTL DEF Spec

\* Every variable keeps its type; in particular the counter is never negative.
THEOREM TypeCorrect == Spec => []TypeOK
<1>1. IInv => TypeOK
  BY DEF IInv
<1> QED
  BY SpecIInv, <1>1, PTL

\* lock, release and reset keep at most one keep-awake loop, none without a lock,
\* and one with a lock unless a restart failed.
THEOREM OneKeeper == Spec => []OneKeeperPerLockedDistro
<1>1. IInv => OneKeeperPerLockedDistro
  BY DEF IInv, TypeOK, LoopInv, OneKeeperPerLockedDistro
<1> QED
  BY SpecIInv, <1>1, PTL

\* release and lock never call a nil m.cancel.
THEOREM CancelIsSet == Spec => []CancelIsSetWhileCounted
<1>1. IInv => CancelIsSetWhileCounted
  BY DEF IInv, TypeOK, LoopInv, CancelIsSetWhileCounted
<1> QED
  BY SpecIInv, <1>1, PTL

\* However many attempts the worker makes and commands Landscape sends, the counter
\* of a valid distro is what its users hold.
THEOREM CounterIsExact == Spec => []CounterIsWhatUsersHold
<1>1. IInv => CounterIsWhatUsersHold
  BY DEF IInv
<1> QED
  BY SpecIInv, <1>1, PTL
=============================================================================
