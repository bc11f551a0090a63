----------------------------- MODULE TaskManager -----------------------------
(***************************************************************************)
(* One distro's task manager and the worker goroutine that serves it       *)
(* (windows-agent/internal/distros/worker).  Submitters are goroutines of  *)
(* the agent that call Worker.SubmitTasks or SubmitDeferredTasks; the      *)
(* worker loops over NextTask, execution and TaskDone; the handler of the  *)
(* distro's Connected stream calls EnqueueDeferredTasks; the agent may die *)
(* at any step and find only the task file when it starts again.           *)
(*                                                                         *)
(* tm.mu serialises Submit and resubmit.  EnqueueDeferredTasks and the     *)
(* save of TaskDone do not take it, so their steps fall anywhere between   *)
(* the steps of the others.  "windows" records which of the unprotected    *)
(* windows a behaviour has hit; no action reads it.                        *)
(***************************************************************************)
EXTENDS TaskQueue

CONSTANTS
    Submitters,   \* goroutines that submit tasks
    Worker,       \* the processTasks goroutine
    MaxSubmits,   \* bound: calls to Submit in a behaviour
    MaxRestarts   \* bound: crashes or restarts of the agent

ASSUME ThreadsAssumption == Worker \notin Submitters

ASSUME BoundsAssumption == MaxSubmits \in Nat /\ MaxRestarts \in Nat

VARIABLES
    tasks, deferred,   \* taskManager.tasks.data, taskManager.deferredTasks.data
    tokens,            \* notifications buffered in tasks.wait
    mu,                \* taskManager.mu: the goroutine that holds it, if any
    pc,                \* where each goroutine is
    hand,              \* the task NextTask returned to the worker, if any
    waitOpen,          \* the channel Pull selects on is still tasks.wait
    req,               \* the call each submitter makes
    snap,              \* the local variable "tasks" of each goroutine's save
    tmp, file,         \* <name>.tasks.new and <name>.tasks, {} while absent
    stopping,          \* the context of the worker is cancelled
    valid,             \* ~distro.invalidated
    submits, restarts, \* counters of the bounds
    newest,            \* history: per kind, the last submission pushed, 0 once disposed of
    ran,               \* history: per kind, the last submission executed
    durable,           \* history: queued tasks whose save was reported successful
    windows            \* history: unprotected windows that were hit

queues  == <<tasks, deferred, tokens>>
disk    == <<snap, tmp, file>>
bounds  == <<submits, restarts>>
history == <<newest, ran, durable, windows>>
vars    == <<queues, mu, pc, hand, waitOpen, req, disk, stopping, valid, bounds, history>>

Threads == Submitters \cup {Worker}
WorkerSteps == {"pull", "pop", "getwait", "select", "exec", "resubmit", "pushIfNew", "stopped"}
SubmitSteps == {"idle", "remove", "push"}
SaveSteps   == {"readTasks", "readDeferred", "write", "rename"}
Windows     == {"pull", "resubmit", "snapshot", "save"}

NoCall == [task |-> {}, deferred |-> FALSE]

Queued == Elems(tasks) \cup Elems(deferred)

\* The highest submission of a kind among some tasks, 0 when there is none.
Latest(S, k) ==
    LET vers == {t.ver : t \in {u \in S : u.kind = k}}
    IN  IF vers = {} THEN 0 ELSE CHOOSE v \in vers : \A w \in vers : w <= v

TypeOK ==
    /\ tasks \in Seq(Task) /\ deferred \in Seq(Task)
    /\ tokens \in 0 .. WaitCap
    /\ mu \in SUBSET Threads
    /\ pc \in [Threads -> WorkerSteps \cup SubmitSteps \cup SaveSteps]
    /\ hand \in SUBSET Task
    /\ waitOpen \in BOOLEAN
    /\ \A s \in Submitters : req[s].task \in SUBSET Task /\ req[s].deferred \in BOOLEAN
    /\ snap \in [Threads -> Seq(Task)]
    /\ tmp \in SUBSET Seq(Task) /\ file \in SUBSET Seq(Task)
    /\ stopping \in BOOLEAN /\ valid \in BOOLEAN
    /\ submits \in 0 .. MaxSubmits /\ restarts \in 0 .. MaxRestarts
    /\ newest \in [Kinds -> Nat] /\ ran \in [Kinds -> Nat]
    /\ durable \in SUBSET Task
    /\ windows \in SUBSET Windows

\* newTaskManager with no file on disk, then Worker.start.
Init ==
    /\ tasks = <<>> /\ deferred = <<>> /\ tokens = 0
    /\ mu = {}
    /\ pc = [t \in Threads |-> IF t = Worker THEN "pull" ELSE "idle"]
    /\ hand = {} /\ waitOpen = FALSE
    /\ req = [s \in Submitters |-> NoCall]
    /\ snap = [t \in Threads |-> <<>>]
    /\ tmp = {} /\ file = {}
    /\ stopping = FALSE /\ valid = TRUE
    /\ submits = 0 /\ restarts = 0
    /\ newest = [k \in Kinds |-> 0] /\ ran = [k \in Kinds |-> 0]
    /\ durable = {} /\ windows = {}

Goto(t, step) == pc' = [pc EXCEPT ![t] = step]

-----------------------------------------------------------------------------
(* Submit(deferred, task).  Every caller in the agent passes one task.     *)

\* A distro known to be invalid refuses the call; otherwise tm.mu is taken.
SubmitLock(s) ==
    /\ pc[s] = "idle" /\ valid /\ mu = {}
    /\ submits < MaxSubmits
    /\ \E k \in Kinds, d \in BOOLEAN :
          req' = [req EXCEPT ![s] =
                     [task |-> {[kind |-> k, ver |-> submits + 1]}, deferred |-> d]]
    /\ submits' = submits + 1
    /\ mu' = {s}
    /\ Goto(s, "remove")
    /\ UNCHANGED <<queues, hand, waitOpen, disk, stopping, valid, restarts, history>>

\* otherQueue.Remove
SubmitRemove(s) ==
    /\ pc[s] = "remove"
    /\ \E t \in req[s].task :
          IF req[s].deferred
          THEN tasks' = Remove(tasks, t) /\ UNCHANGED deferred
          ELSE deferred' = Remove(deferred, t) /\ UNCHANGED tasks
    /\ Goto(s, "push")
    /\ UNCHANGED <<tokens, mu, hand, waitOpen, req, disk, stopping, valid, bounds, history>>

\* thisQueue.Push.  Nobody waits on the channel of the deferred queue.
SubmitPush(s) ==
    /\ pc[s] = "push"
    /\ \E t \in req[s].task :
          /\ IF req[s].deferred
             THEN deferred' = Push(deferred, t) /\ UNCHANGED <<tasks, tokens>>
             ELSE /\ tasks' = Push(tasks, t)
                  /\ tokens' = Notify(tokens)
                  /\ UNCHANGED deferred
          /\ newest' = [newest EXCEPT ![t.kind] = t.ver]
          /\ durable' = {u \in durable : ~Is(t, u)}
    /\ Goto(s, "readTasks")
    /\ UNCHANGED <<mu, hand, waitOpen, req, disk, stopping, valid, bounds,
                   ran, windows>>

-----------------------------------------------------------------------------
(* save: Submit and resubmit call it under tm.mu, TaskDone without.        *)

\* The task whose queueing this save makes durable.
SavedTask(t) == IF t = Worker THEN hand ELSE req[t].task

\* The end of save is the end of the caller: the deferred unlock of tm.mu, and
\* the worker's loop or the submitter's return.
EndSave(t) ==
    /\ mu' = mu \ {t}
    /\ Goto(t, IF t = Worker THEN "pull" ELSE "idle")
    /\ hand' = IF t = Worker THEN {} ELSE hand
    /\ req' = IF t = Worker THEN req ELSE [req EXCEPT ![t] = NoCall]

SaveReadTasks(t) ==
    /\ pc[t] = "readTasks"
    /\ snap' = [snap EXCEPT ![t] = tasks]
    /\ windows' = IF \E u \in Threads \ {t} : pc[u] \in SaveSteps \ {"readTasks"}
                  THEN windows \cup {"save"} ELSE windows
    /\ Goto(t, "readDeferred")
    /\ UNCHANGED <<queues, mu, hand, waitOpen, req, tmp, file, stopping, valid, bounds,
                   newest, ran, durable>>

\* Wrong: the deferred tasks are not saved.
SaveForgetsDeferred(t) ==
    /\ pc[t] = "readDeferred"
    /\ Goto(t, "write")
    /\ UNCHANGED <<queues, mu, hand, waitOpen, req, disk, stopping, valid, bounds, history>>

SaveReadDeferred(t) ==
    /\ pc[t] = "readDeferred"
    /\ snap' = [snap EXCEPT ![t] = @ \o deferred]
    /\ Goto(t, "write")
    /\ UNCHANGED <<queues, mu, hand, waitOpen, req, tmp, file, stopping, valid, bounds, history>>

SaveWrite(t) ==
    /\ pc[t] = "write"
    /\ tmp' = {snap[t]}
    /\ snap' = [snap EXCEPT ![t] = <<>>]
    /\ Goto(t, "rename")
    /\ UNCHANGED <<queues, mu, hand, waitOpen, req, file, stopping, valid, bounds, history>>

\* The rename that succeeds.
SaveRename(t) ==
    /\ pc[t] = "rename" /\ tmp # {}
    /\ file' = tmp /\ tmp' = {}
    /\ durable' = durable \cup (SavedTask(t) \cap Queued)
    /\ EndSave(t)
    /\ UNCHANGED <<queues, waitOpen, snap, stopping, valid, bounds, newest, ran, windows>>

\* WriteFile or Rename fails; Rename must when another save took the file away.
\* The caller reports the error and leaves the queues as they are.
SaveFail(t) ==
    /\ pc[t] \in {"write", "rename"}
    /\ snap' = [snap EXCEPT ![t] = <<>>]
    /\ EndSave(t)
    /\ UNCHANGED <<queues, waitOpen, tmp, file, stopping, valid, bounds, history>>

-----------------------------------------------------------------------------
(* Pull: the worker asks for the next task.                                *)

\* Pull looks at the context before anything else.
PullCheck ==
    /\ pc[Worker] = "pull"
    /\ Goto(Worker, IF stopping THEN "stopped" ELSE "pop")
    /\ UNCHANGED <<queues, mu, hand, waitOpen, req, disk, stopping, valid, bounds, history>>

\* tryPopFront, at the top of the loop and after a notification.
TryPopFront ==
    /\ pc[Worker] = "pop"
    /\ IF tasks = <<>>
       THEN Goto(Worker, "getwait") /\ UNCHANGED <<tasks, hand, durable>>
       ELSE /\ hand' = {Head(tasks)}
            /\ tasks' = Tail(tasks)
            /\ durable' = durable \ {Head(tasks)}
            /\ Goto(Worker, "exec")
    /\ UNCHANGED <<deferred, tokens, mu, waitOpen, req, disk, stopping, valid, bounds,
                   newest, ran, windows>>

\* wait := q.wait, under a read lock taken after the pop gave its lock up.
PullReadWait ==
    /\ pc[Worker] = "getwait"
    /\ waitOpen' = TRUE
    /\ Goto(Worker, "select")
    /\ UNCHANGED <<queues, mu, hand, req, disk, stopping, valid, bounds, history>>

\* case <-wait: a closed channel is always ready, an open one gives up a token.
PullWake ==
    /\ pc[Worker] = "select"
    /\ waitOpen => tokens > 0
    /\ tokens' = IF waitOpen THEN tokens - 1 ELSE tokens
    /\ waitOpen' = FALSE
    /\ Goto(Worker, "pop")
    /\ UNCHANGED <<tasks, deferred, mu, hand, req, disk, stopping, valid, bounds, history>>

\* case <-ctx.Done()
PullCancelled ==
    /\ pc[Worker] = "select" /\ stopping
    /\ waitOpen' = FALSE
    /\ Goto(Worker, "stopped")
    /\ UNCHANGED <<queues, mu, hand, req, disk, stopping, valid, bounds, history>>

-----------------------------------------------------------------------------
(* processSingleTask, by its outcome, and what processTasks does with it.  *)

Ran(t)   == ran' = [ran EXCEPT ![t.kind] = t.ver]
Ended(t) == newest' = [newest EXCEPT ![t.kind] = IF @ = t.ver THEN 0 ELSE @]

\* Executed, or the wait for a client was cut short by the agent's teardown: an
\* error that is no NeedsRetryError.  TaskDone only saves, without tm.mu.
TaskEnds ==
    /\ pc[Worker] = "exec"
    /\ \E t \in hand :
          /\ \/ valid /\ Ran(t)
             \/ stopping /\ UNCHANGED ran
          /\ Ended(t)
    /\ hand' = {}
    /\ Goto(Worker, "readTasks")
    /\ UNCHANGED <<queues, mu, waitOpen, req, disk, stopping, valid, bounds,
                   durable, windows>>

\* The distro answered with an error or hung up: NeedsRetryError.
TaskNeedsRetry ==
    /\ pc[Worker] = "exec" /\ valid
    /\ \E t \in hand : Ran(t)
    /\ Goto(Worker, "resubmit")
    /\ UNCHANGED <<queues, mu, hand, waitOpen, req, disk, stopping, valid, bounds,
                   newest, durable, windows>>

\* The distro is invalid or could not be woken up or never connected.  The loop
\* goes on without TaskDone, so the file is not written.
TaskUnreachable ==
    /\ pc[Worker] = "exec"
    /\ \E t \in hand : Ended(t)
    /\ valid' = FALSE
    /\ hand' = {}
    /\ Goto(Worker, "pull")
    /\ UNCHANGED <<queues, mu, waitOpen, req, disk, stopping, bounds, ran, durable, windows>>

\* Wrong: the queue is not searched for a newer equivalent.
ResubmitAlways ==
    /\ pc[Worker] = "resubmit" /\ mu = {}
    /\ mu' = {Worker} /\ Goto(Worker, "pushIfNew")
    /\ UNCHANGED <<queues, hand, waitOpen, req, disk, stopping, valid, bounds, history>>

\* resubmit takes tm.mu; an equivalent task in the queue wins, nothing is saved.
ResubmitContains ==
    /\ pc[Worker] = "resubmit" /\ mu = {}
    /\ \E t \in hand :
          IF Contains(tasks, t)
          THEN hand' = {} /\ Goto(Worker, "pull") /\ UNCHANGED mu
          ELSE mu' = {Worker} /\ Goto(Worker, "pushIfNew") /\ UNCHANGED hand
    /\ UNCHANGED <<queues, waitOpen, req, disk, stopping, valid, bounds, history>>

ResubmitPush ==
    /\ pc[Worker] = "pushIfNew"
    /\ \E t \in hand : deferred' = PushIfNew(deferred, t)
    /\ durable' = durable \ hand
    /\ Goto(Worker, "readTasks")
    /\ UNCHANGED <<tasks, tokens, mu, hand, waitOpen, req, disk, stopping, valid, bounds,
                   newest, ran, windows>>

-----------------------------------------------------------------------------
(* The environment of the worker.                                          *)

\* The windows a call of Absorb hits when it lands now.
Hit ==
    {w \in {"pull", "resubmit", "snapshot"} :
        \/ w = "pull" /\ pc[Worker] = "getwait" /\ tasks \o deferred # <<>>
        \/ w = "resubmit" /\ pc[Worker] = "pushIfNew" /\ \E t \in hand : Contains(deferred, t)
        \/ w = "snapshot" /\ deferred # <<>> /\ \E t \in Threads : pc[t] = "readDeferred"}

\* Wrong: Absorb leaves the channel alone and wakes nobody.
EnqueueSilently ==
    /\ tasks' = tasks \o deferred
    /\ deferred' = <<>>
    /\ windows' = windows \cup Hit
    /\ UNCHANGED <<tokens, waitOpen, mu, pc, hand, req, disk, stopping, valid, bounds,
                   newest, ran, durable>>

\* Wrong: the deferred tasks go before the others.
EnqueueAtFront ==
    /\ tasks' = deferred \o tasks
    /\ deferred' = <<>>
    /\ tokens' = 0
    /\ waitOpen' = FALSE
    /\ windows' = windows \cup Hit
    /\ UNCHANGED <<mu, pc, hand, req, disk, stopping, valid, bounds,
                   newest, ran, durable>>

\* Absorb closes the channel and makes a new one, which holds no notification.
EnqueueDeferredTasks ==
    /\ tasks' = tasks \o deferred
    /\ deferred' = <<>>
    /\ tokens' = 0
    /\ waitOpen' = FALSE
    /\ windows' = windows \cup Hit
    /\ UNCHANGED <<mu, pc, hand, req, disk, stopping, valid, bounds,
                   newest, ran, durable>>

\* Worker.Stop cancels the context; it then waits for processTasks to return.
Stop ==
    /\ ~stopping
    /\ stopping' = TRUE
    /\ UNCHANGED <<queues, mu, pc, hand, waitOpen, req, disk, valid, bounds, history>>

\* The agent dies, or ends, and starts again: load puts every task of the file
\* in the queue of non-deferred tasks.
Restart ==
    /\ restarts < MaxRestarts
    /\ restarts' = restarts + 1
    /\ tasks' = IF file = {} THEN <<>> ELSE CHOOSE data \in file : TRUE
    /\ deferred' = <<>> /\ tokens' = 0
    /\ mu' = {}
    /\ pc' = [t \in Threads |-> IF t = Worker THEN "pull" ELSE "idle"]
    /\ hand' = {} /\ waitOpen' = FALSE
    /\ req' = [s \in Submitters |-> NoCall]
    /\ snap' = [t \in Threads |-> <<>>]
    /\ stopping' = FALSE /\ valid' = TRUE
    /\ newest' = [k \in Kinds |-> Latest(Elems(tasks'), k)]
    /\ ran' = [k \in Kinds |-> 0]
    /\ durable' = Elems(tasks')
    /\ UNCHANGED <<tmp, file, submits, windows>>

-----------------------------------------------------------------------------
Save(t) == SaveReadTasks(t) \/ SaveReadDeferred(t) \/ SaveWrite(t) \/ SaveRename(t)

SubmitStep(s) == SubmitRemove(s) \/ SubmitPush(s)

Pull == PullCheck \/ TryPopFront \/ PullReadWait \/ PullWake \/ PullCancelled

Execute == TaskEnds \/ TaskNeedsRetry \/ TaskUnreachable

Resubmit == ResubmitContains \/ ResubmitPush

Next ==
    \/ \E s \in Submitters : SubmitLock(s) \/ SubmitRemove(s) \/ SubmitPush(s)
    \/ \E t \in Threads : SaveReadTasks(t) \/ SaveReadDeferred(t) \/ SaveWrite(t)
                          \/ SaveRename(t) \/ SaveFail(t)
    \/ PullCheck \/ TryPopFront \/ PullReadWait \/ PullWake \/ PullCancelled
    \/ TaskEnds \/ TaskNeedsRetry \/ TaskUnreachable
    \/ ResubmitContains \/ ResubmitPush
    \/ EnqueueDeferredTasks \/ Stop \/ Restart

\* A goroutine that can run does: the Go scheduler is fair.  Execute ends
\* because every wait in it has a time limit or ends with the connection.
\* Nothing forces a submission, a connection, a stop, a crash or an I/O error;
\* a save that cannot rename reports it.
Fairness ==
    /\ WF_vars(Pull) /\ WF_vars(Execute) /\ WF_vars(Resubmit)
    /\ \A s \in Submitters : WF_vars(SubmitStep(s))
    /\ \A t \in Threads : WF_vars(Save(t) \/ (tmp = {} /\ SaveFail(t)))

Spec == Init /\ [][Next]_vars /\ Fairness

-----------------------------------------------------------------------------
\* The worker sleeps on a channel that nobody will make ready while there is
\* work in the queue.
Asleep == pc[Worker] = "select" /\ waitOpen /\ tokens = 0 /\ tasks # <<>>

\* The same, in behaviours in which no Absorb fell between Pull's failed pop and
\* its read of q.wait: that window is the only way to miss a notification.
WakeupOnlyLostInPullWindow == "pull" \notin windows => ~Asleep

\* resubmit has the lowest priority and Submit the highest, so the newest task of a
\* kind is queued, at the worker, disposed of or about to be replaced; a retry of an
\* older one never displaces it.  Only an Absorb between Contains and PushIfNew can
\* break this.
NewestTaskNotLost ==
    "resubmit" \notin windows =>
        \A k \in Kinds :
            \/ newest[k] = 0
            \/ \E t \in Queued \cup hand : t.kind = k /\ t.ver = newest[k]
            \/ \E s \in Submitters : pc[s] = "push" /\ \E t \in req[s].task : t.kind = k

\* What a submission or a retry reported as saved is in the file for as long as
\* it is queued, so that a crash does not lose it, unless two saves overlapped or
\* an Absorb moved it past a save that was reading the queues.
SavedTasksAreOnDisk ==
    windows \cap {"snapshot", "save"} = {} =>
        \A t \in durable \cap Queued : \E data \in file : t \in Elems(data)

\* Within one life of the agent a distro is never sent an older task of a kind
\* after a newer one: an old token or configuration does not overwrite a new one.
NoStaleExecution ==
    [][\A k \in Kinds : ran'[k] < ran[k] =>
          restarts' # restarts \/ "resubmit" \in windows]_vars

\* A kind of task that is queued is eventually taken by the worker (or moved to
\* the deferred queue), unless the worker is stopped or the wake-up was lost in
\* the pull window: FIFO order starves no kind, however often the other one fails
\* and is promoted again, and over a restart.  Nothing tells one kind from another,
\* so one stands for all.
QueuedTasksAreTaken ==
    LET k == CHOOSE kind \in Kinds : TRUE
    IN  (\E t \in Elems(tasks) : t.kind = k)
            ~> \/ \A t \in Elems(tasks) : t.kind # k
               \/ pc[Worker] = "stopped"
               \/ "pull" \in windows
=============================================================================
