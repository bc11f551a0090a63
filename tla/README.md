# TLA+ models of Ubuntu Pro for WSL

Ubuntu Pro for WSL has a Windows agent (`windows-agent`), which owns the user's
Ubuntu Pro token and Landscape configuration, and a service in every WSL distro
(`wsl-pro-service`), which applies them. This directory models both, and the connection
between them, in TLA+: the modules are translated from the Go code, TLC checks them on
small instances, and TLAPS proves the central invariants for every instance.

## The system

| Part | State | Operations | What is hard | What makes it correct |
| --- | --- | --- | --- | --- |
| Task queue, task manager (`distros/worker`) | two queues per distro, a notification channel, a `.tasks` file | submit, pull, retry, promote deferred tasks, save, load | unlocked windows between operations, two savers, crashes | no task lost, none run after a newer one, what is saved survives, the worker wakes up |
| Worker (`worker.go`) | the task in hand, the connection | lock the distro, wait for a connection, execute, release | time limits, teardown in every wait | locks and releases are paired |
| Distro (`distros/distro`) | validity flag, counter, keep-awake loop | LockAwake, ReleaseAwake, Cleanup, Invalidate | WSL stops or unregisters the distro at any time | one loop exactly while somebody holds a lock |
| Distro database (`distros/database`) | map of distros, file | get or create, clean up, close, load | replaced distros, calls during Close, a file written without the lock | one worker per name, the file says what the map does |
| Agent daemon (`daemon`) | server, two one-element channels, address file, network watcher | Serve, Quit, restart | anonymous tokens, joins while others wait | Quit ends the server; nobody waits forever |
| Configuration, registry watcher (`config`, `registrywatcher`) | three sources per setting, checksums, file | set, update, notify | check-then-set, notifications outside the lock | the distros and the cloud-init file end up with the value in force |
| Landscape client (`proservices/landscape`) | connection, retrier, UID | connect, reconnect, receive commands, report | reconnection on demand against timers, a lock held during the handshake | a connection with the newest settings in the end, one command at a time, an informed server |
| Landscape commands (`executor.go`, `distroinstall`) | the command under way, cloud-init's data | install, uninstall, start, stop, assign | the user does the same meanwhile; an installation fails half-way | nothing is removed but what was installed, nothing is left behind |
| WSL instance service (`proservices/wslinstance`) | clients by name, three streams each | handshakes, send, close | streams of overlapping attempts, an old handler that closes a new client | commands at most once and, within a kind, in order, a stable connection in the end |
| wsl-pro-service daemon, streams | connection, three streams, two loops | connect with backoff, serve commands, quit | one stream fails, the agent restarts, a stop in every phase | it reconnects, commands are answered, Quit returns |
| wsl-pro-service system | `client.conf`, the distro's attachment | attach, detach, enable, disable, correct `client.conf` | killed between two steps, a distro that changes its name | what was reported as done is in force |
| Interface, Store API, contracts | | | | I/O and presentation: not modelled |

The agent's configuration and Landscape's AssignHost submit tasks to the distros'
workers; a distro's Connected stream promotes its deferred tasks and sets its
connection; the database cleans up distros that WSL no longer has; the daemon carries
the gRPC services for all of them and is stopped before they are. `wsl-pro-service`
connects to the agent, sends what is true of its distro, and executes the commands that
the distro's worker sends; after each it reports again. The agent forwards changes of
distros to the Landscape server, whose commands install, remove, start and stop distros.

`PROJECT.json` lists the components with their status and the hazards at their lines.

## Modules

`TaskQueue` has the operators of `taskQueue` on a sequence of tasks. A task is its kind
and the number of its submission: `task.Is` only compares kinds, and the number tells
an old token or configuration from a new one.

`TaskManager` extends it with a distro's task manager, its worker's loop, submitters,
the handler of the Connected stream and crashes. `tm.mu` is a variable. Each queue
operation holds the queue's own lock and is one step; `Submit`, `resubmit` and `save`
are several. `save` reads one queue, then the other, writes `.new` and renames it; any of
the last two may fail. Outcomes of a task are one action each: done (or abandoned in
teardown), needs a retry, unreachable. `Restart` loses everything but the file.
History variables (`newest`, `ran`, `durable`, `windows`) are read by no action.
`windows` names the unprotected windows a behaviour has hit, so that a property can say
exactly which interleaving is its exception: `pull` (an Absorb between Pull's failed
pop and its read of the channel), `resubmit` (an Absorb between Contains and
PushIfNew), `snapshot` (an Absorb between the two reads of save), `save` (two saves
overlap).

`DistroAwake` models `stateManager` with its users. Its operations hold `m.mu` from
beginning to end, the start of the distro included, and are one step. `LockAwake` and
`ReleaseAwake` ask `IsValid` before they take the mutex, in a step of its own (`checked` for
the worker, `cmd` for a Landscape command): in between the distro may be invalidated,
cleaned up and reset. A Start that passed its check and locks after the reset keeps an
invalid distro awake until the agent ends; `late` marks it, and it is the one exception of
`InvalidDistroIsReleased`. `keepers` counts the keep-awake goroutines; `cancel` is nil, or
belongs to a live or a cancelled loop. The worker takes its own lock, then one for each
attempt to find a connection. Closing the database, which follows the end of the Landscape
service and its command, first cancels its context, from which every loop's context
descends, then cleans the distros up. (Cancelling the worker's context also ends the context
with the time limit of `waitForClient`, so a teardown may be taken for a timeout and
invalidate the distro; only Cleanup cancels it, of a distro that is dropped anyway.)

`AgentDaemon` models Serve, Quit, restart and the watchers. `quit` is a channel for one
request, `tokens` and `closed` are the channel `stopped`. `raced` is a history variable: the
Quit calls during or after which a watcher asked for a restart.

`AgentConfig` models `Config` with its file, its three sources and its observers, the
registry watcher, the handlers of the interface and Landscape's AssignHost. A section under
`Config.mu` starts with load and is one step. What lies outside is where the others
act: the check of the priority before the value is set, the read of `c.Landscape` without
the mutex (`Seen`: what load has not restored yet may be read), the announcements after
the mutex is given up, the two reads of `cloudInit.Update` before its write, the two reads of
the registry. `sent` is the newest task of each kind that the distros were given (what
becomes of a task is `TaskManager`'s subject), `yaml` what `agent.yaml` was written from. A
Landscape configuration is its text and its `hostagent_uid`; a checksum is the value it
was made of. Between the distribution of a setting and `cloudInit.Update` the notifiers
call `reconnectIfNewSettings`, which takes Landscape's `connMu`; `wedged` says that it is held
for good, as `LandscapeClient` shows it can be while AssignHost is handled or when the
handshake takes a UID back (`Wedge`, `ExpireHandshake`): whoever announces something then waits
until the agent ends, the registry watcher included. Two history variables are read by no
guard: `missed`, the last push of the registry failed or none was made yet, and `lapses`, the
windows that the behaviour has met, which the properties name as their exceptions:

| Lapse | What happened |
| --- | --- |
| `order`, `overlap` | an announcement began before another one was finished, about the same or another setting |
| `unresolved` | a user's or the Store's value was set, and announced, although another one is in force |
| `stale` | a user's configuration was completed with a UID that was no longer the agent's |
| `shadow` | the UID changed while the registry's configuration shadowed the user's |
| `blind` | a token was set, and announced, while the registry's had not been read again after a restart |
| `silent` | a token of the registry with a known checksum came into force, which nobody is told |
| `forgotten` | a restarted agent did not take over the registry's configuration |
| `disk`, `yaml` | the configuration file, or the cloud-init file, could not be written |
| `crash` | the agent ended before it had announced a change |

`LinkTransport`, `WslInstance`, `ProService` and `DistroLink` are one specification of a
distro's connection. `LinkTransport` has the attempts at a connection, each with the
streams of the gRPC service, and what is on its way in them; it is external and modelled
from how both ends use it: neither end learns at once that the other is gone.
`WslInstance` is the agent's end: one handler per stream, the clients that group the streams
that announced the same name, the map of clients, `Worker.SetConnection`, and the worker with
its command. `ProService` is the distro's end: `Daemon.Serve` with its attempts, the
server's two loops, Quit in both ways, and crashes. `DistroLink` composes them: every step is
one of the agent, one of the distro, or the opening of an attempt, which both see. The database's
record of the distro has a second writer, Landscape's installation, which ends with empty
properties for the name (`InstallResets`). Quit is not one of the counted failures: where
`FaultKinds` allows it, it may come at any moment beside them. Numbers of
attempts and clients that nobody remembers are used again, so behaviours have any number of
reconnections with few numbers.

`CommandDelivery` is the abstract specification of what the agent may rely on when it sends a
command: at most one execution, never after a later command of its kind, an answer only for a
command that was executed. The order is promised within a kind only. The two kinds travel on
streams of their own, so a command that waits in the stream of an attempt given up by the
worker may be executed after the next one, of the other kind (with two kinds, two attempts
and one cut, 38 steps). `DistroLink` implements it under the mapping in its `Delivery`: the issued
command is the worker's job, its status the worker's outcome, the executions those of
the distro's loops. `DeliversCommands` is that refinement.

`ProSystem` models what the commands do to the distro, step by step, and what
`EnsureValidLandscapeConfig` does when the service starts: names, certificate paths, the
draft of `client.conf` and its renaming, registration, detach and attach. Any step may
fail, and the service may be killed before, during and after it, with the effect of the
program it was waiting for or without. It also has where the daemon looks for the agent:
the parsing of the route table and of the port.

`DistroDatabase` models the map of distros with its mutex, file and cleanup loop, Close and
load. A section under `db.mu` is one step for the map and two for the write, the draft and its
renaming. Close's own dump takes no lock: it reads the map, writes the draft and renames it
(`CloseReads`, `CloseWrites`, `CloseRenames`), and calls that came in before may change the map and
write through the same draft in between; `behind` keeps a `race` for that. The removal of
cloud-init's data when distros are swept may fail, which is only logged. `LandscapeExecutor`
extends it with the commands that install and remove distros, the handlers of distros that
connect, and the user. A removal looks at the GUID, then removes whatever has the name. WSL's
registry is external; a distro is its name and the number of its registration (its GUID).

`LandscapeClient` models keepConnected, connections with handshake and receiver, the
notifications, SendUpdatedInfo and Stop. `connMu` is not a variable: only the loop writes, and
`Locked` says at which of its steps it has the lock. The handshake gathers its info, sends it,
looks at the UID, waits for one and is established (when `disabled` is cleared) in steps of
their own. `dozing` and `stale` are history variables the properties name as their exceptions;
`stale` has `disabled` when the Controller drops a report because the client still counts as
disabled, and the handshake under way has gathered an older state.

`MC*` modules and their configurations are the instances. Definitions commented "Wrong:"
are deliberately broken variants of the definition that follows them; replacing the
definition by its variant makes the property named in `PROJECT.json` fail. They are in no
next-state relation.

## Runs

| Run | Configuration | Shows |
| --- | --- | --- |
| `tasks` | `MCTaskManager.cfg` | the queues, their file and the order of execution, with a crash, and that no kind of task starves |
| `awake` | `MCDistroAwake.cfg` | counter, loop, cleanup and restart of a distro |
| `daemon` | `MCAgentDaemon.cfg` | Serve, Quit and restart over their channels |
| `config` | `MCAgentConfig.cfg` | what distros and cloud-init end up with, and that no change of the registry is missed, with a failure or a restart |
| `link` | `MCDistroLink.cfg` | commands and reports over connections that follow each other, with a cut, a crash, a failed report or an installation by Landscape |
| `link_streams` | `MCDistroLinkStreams.cfg` | the three streams and both kinds of commands over one connection |
| `link_reconnect` | `MCDistroLinkReconnect.cfg` | a stable connection in the end, with every kind of failure |
| `link_quit` | `MCDistroLinkQuit.cfg` | Quit in every phase, beside commands and failures |
| `system` | `MCProSystem.cfg` | Pro and Landscape commands in a distro that fails, is killed and renamed |
| `database` | `MCLandscapeExecutor.cfg` | the database and the commands that install and remove distros |
| `landscape` | `MCLandscapeClient.cfg` | the Landscape client |
| `landscape_retry` | `MCLandscapeClientRetry.cfg` | a violation: a client that does not try again |

The properties, and the exceptions they make. An exception is not an assumption of the
model: the model does what the code does, and the property names the cases in which the code
does not keep what one would expect. The ones in bold deserve a look at the code.

* `WakeupOnlyLostInPullWindow`: the worker sleeps on a queue with work only if an Absorb
  hit the `pull` window. **That window is there**: Pull gives up the lock between its failed
  pop and its read of the channel (`task_queue.go` 161-169), and the worker then sleeps until
  another task is submitted or the distro connects again.
* `NewestTaskNotLost`, `NoStaleExecution`: the newest submission of a kind is queued, in hand
  or disposed of, and is never followed by the execution of an older one within one life of
  the agent.
* `SavedTasksAreOnDisk`: what Submit or resubmit reported as saved is in the file while it
  is queued.
* `QueuedTasksAreTaken`: a kind in the queue leaves it, also after a restart. Kinds are
  interchangeable in the model, so the property is stated of one.
* `OneKeeperPerLockedDistro`, `CancelIsSetWhileCounted`, `CounterIsWhatUsersHold`: the
  counter, the loop and the holders agree. **A restart that fails leaves a counted distro
  without a loop** (`distro_state.go` 63-72), which is their exception, and that of:
* `InvalidDistroIsReleased`, `LockedDistroIsRestarted`: an invalid distro is let go for
  good; a locked one that WSL stops is started again.
* `QuitMeansStopped`, `ReplacedWatcherIsSilent`: what holds when Quit has returned, and why
  forgetting a replaced watcher is harmless.
* `QuitEndsServe`, `RestartReturns`: nobody waits forever on the two channels, if the RPCs
  in flight end and no Quit meets a restart. **When they meet, Serve may wait forever**: its
  cleanup joins a watcher that waits for what cleanup does next (`daemon.go` 167-172).
* `TokenInForceIsDistributed`, `ConfInForceIsDistributed`: once everybody is idle, the last
  task the distros were given is the one for the value in force, unless announcements
  crossed, a check was out of date, the agent ended in between or the file was lost; and for
  the token, unless one was set before a restarted agent could read the registry's again
  (`blind`): **the registry's then comes back with a checksum that is known, and the distros
  keep the other one** (`config.go`, UpdateRegistryData). It takes two failures and two restarts and
  was found by the proof.
* `ConfCarriesUid`: the Landscape configuration in force names the agent's UID, up to `shadow`
  and `stale`. `CloudInitIsCurrent`: `agent.yaml` is what the configuration makes it.
* `NoSilentConfChange`, `RegistryReachesConfig`: when the watcher sleeps, the configuration has
  what the registry has, and a value that stays gets there. **A restart forgets the
  registry's Landscape configuration** (`config.go` 338; the lapse `forgotten`).
* `DeliversCommands`: the refinement of `CommandDelivery`, without exception.
* `InfoIsCurrent`: when nothing is under way, the database knows whether the distro is
  attached. The exceptions (`overtaken`): the two loops report over one stream, and an info
  gathered earlier may be sent later; an attempt that is over is still being read; **the end of
  Landscape's installation overwrites what the distro has reported by then with empty
  properties** (`executor.go` 235), until the next report; and **a loop
  that Serve left behind when it could not send a name** (`server.go` 134-144) **finishes its
  command and reports it to nobody**, while the next attempt has reported what was true before.
  That one was found by the proof. It takes a client that joins the streams of two attempts,
  so that a command arrives while the distro is still sending its names.
* `CommandsEnd`: a worker does not wait forever for an answer.
* `EventuallyConnected`: once nothing fails any more, the three streams of one attempt sit in
  one client, which is the worker's connection. It takes as a hypothesis that the waits
  of the backoff come to outlast the agent's cleaning up after an attempt (`WaitsSuffice`).
  Without it attempts can disturb each other forever: an old handler's Close deletes the
  client of the new attempt by its name.
* `QuitEnds`: the Quit of wsl-pro-service returns, graceful or forceful: while the daemon
  connects, greets, waits for a command or executes one, after a cut or a greeting that failed,
  and beside a loop that was left behind.
* `AnswerIsInForce`, `ConfigFitsDistro`: what a Landscape command reported as done is so and
  stays so over restarts, and `client.conf` fits the distro. The exception: **a
  `client.conf` that needs correction when the service starts is corrected and enabled, also
  if Landscape was disabled** (`landscape.go` 60-92). They say nothing of a service that is
  killed after it has renamed `client.conf` and before it has registered: **the next start finds
  the file valid and does not register it**, although the comment of
  `EnsureValidLandscapeConfig` (line 37) says "valid and enabled". The command was never
  reported as done, and the agent sends it again.
* `TokenIsInForce`: the same for the Pro token. `AddressIsRight`: the agent is looked for at the
  right address, the byte order of the route table included.
* `FileIsMap`: the file says what the map does, unless a write failed, **a distro that had
  become invalid could not be created again** (`database.go` 168-174: its entry is gone from the
  map only), it was not loaded, or Close's dump overlapped with a change of the map: **Close
  writes without the lock, and may rename its snapshot over the newer file of a call that came
  in before** (`database.go` 334).
* `NoStrayWorker`: only distros in the map have a worker that runs. `CloseKeepsDistros`: Close
  leaves in the file what the next start needs, with the same exception and that of a call that
  changes the map when Close has ended.
* `DataHasADistro`: cloud-init's data for a distro has somebody who will remove it. The
  exceptions (`orphans`): the distro was put out of the map without a clean-up or was not loaded,
  or **the data could not be removed, which is only logged while the entry goes**
  (`proservices.go` 90-95).
* `RemovesOnlyItsOwn`: a command removes the distro it installed or was asked to remove. The
  exceptions: **the user takes the name after it was found free, the installation fails for
  that, and its clean-up uninstalls the user's distro** (`executor.go` 201-210); or the user
  replaces a distro that is to be removed after its GUID was looked at, and loses the new one
  (`distro.go` 297-302).
* `InstalledIsKnown`: an installation that succeeds leaves its distro in the database with a
  running worker, also where the database still had an entry for an earlier distro.
* `OneCommandAtATime`: commands of the Landscape server do not overlap, also not across
  connections. `ServerIsUpToDate`: a connected server knows the latest state of the distros,
  unless infos overtook each other or a report was dropped because the client counted as
  disabled during its handshake, or for want of a configuration.
* `EventuallyCurrent`, `StopEnds`: in the end the client is connected with the settings in force,
  or disabled; Stop ends it. The exceptions: **the handshake gives up, or the loop drops a
  connection, while AssignHost is being handled: the loop waits for the handler, which waits
  for `connMu`** (`Wedged`; `service.go` 261, `connection.go` 151-153); **the configuration is
  removed while a command is executed: the report after it is a nil pointer that is
  dereferenced** (`crashed`; `connection.go` 224-244); and the finding below.
  The branch `stuck` of `Clear`, a UID that is there when the handshake takes it back, is not
  reached in this model: the handler that brought it would have wedged the loop before.

### Bounds

* Two kinds of task, as in the code; two submissions, so that a newer task meets an
  older one in every place; one submitter, because `tm.mu` serialises them and a second
  one only waits. One crash separates two lives, for the order of execution, the file and the
  progress of the queue alike. The channel buffer is 1 instead of 4 so
  that two submissions overflow it; the proof covers every size.
* Five attempts, as in the code; two Start commands, any number of Stops, tasks and
  connections.
* Two calls of Quit, so that one can take the other's token; two subscriptions, so that
  one replaces another.
* Two tokens, so that one source can have another token than the next; a Landscape
  configuration that can be parsed, one that cannot, and none; one UID, which the agent
  first does not have. One call, from the interface or from Landscape, meets the watcher; one
  change of the registry, which starts with any contents; one failure or restart at any point.
  Two calls that meet each other, as in the window of `SetUserLandscapeConfig` and AssignHost,
  are covered by the proofs only.
* A distro's connection: two attempts at a time, so that an old one meets a new one (a
  third would wait for a number); three clients, one for each attempt and one the worker
  still holds. One command and one failure in `link`, two commands of both kinds over one
  attempt in `link_streams`, every kind of failure in `link_reconnect`. In `link_quit` Quit meets
  two commands and one failure of any kind but a crash, which ends the caller of Quit too; one
  number for attempts is used again for the next one, and the loops that an attempt leaves behind
  outlive it all the same. Reconnections after the failure are not bounded.
* `ProSystem`: two commands of each kind, two configurations, two failures, so that a command is
  interrupted, corrected at the next start, and interrupted again; bytes of two values, which
  tell any two of the four positions apart.
* The database: two names, two registrations of each, three objects, so that an old and a
  new distro of one name stand next to another name; one Landscape command, two calls; one
  failure or restart. Names differ in nothing but what befalls them, and are symmetric.
* The Landscape client: two settings and two changes, so that a change can be taken back; two
  connections, one that is being dropped and a new one; one command, one report and one failure.

### Fairness

Weak fairness of every goroutine that has work, as the Go scheduler gives it. The
execution of a task ends because its waits have time limits or end with the connection;
the database looks for invalid distros periodically. Not assumed: that anybody submits,
connects, crashes, fails or stops; that a client ends its RPC (the daemon's liveness has
it as a hypothesis, because GracefulStop waits for streams that last as long as a
distro); that a network adapter appears; that anybody calls the interface or writes to
the registry. The delay after a failed watch ends, since it is a timer.

On a distro's connection: handlers, loops and daemon go on when they can; gRPC's keepalive
and TCP tell each end in the end that the other is gone; the programs a command runs end;
the daemon tries again, its waits being timers. Opening an attempt is fair, failures are not, and
their number is bounded. For the Landscape client: the loop, the receivers, the notifications
and the Controller go on when they can, the server answers an agent without a UID, and commands
end. Calls, changes, commands and faults are never owed.

## Proofs

Every safety invariant that a run checks is proved for all values of the constants, and so are
the refinement and the two action properties of the database. The
proofs of a component are in its `_proofs` module; each has an inductive invariant `IInv`,
a conjunction of named parts that says more than the properties, one lemma per action or group of
actions, and the theorems at the end.

| Module | Proves | Besides the property, the invariant says |
| --- | --- | --- |
| `TaskManager_proofs` | `TypeOK`, `WakeupOnlyLostInPullWindow`, `NewestTaskNotLost`, `SavedTasksAreOnDisk`, `NoStaleExecution` | from the failed pop on, not only once the worker sleeps, work in the queue means a token in the channel; who has `tm.mu` (`MutexInv`); no version is above its kind's newest; of two tasks of a kind the older comes first, in a queue and from place to place (`OrderInv`); what a save has read so far still covers what was reported as saved (`SaveInv`) |
| `DistroAwake_proofs` | `TypeOK`, `OneKeeperPerLockedDistro`, `CancelIsSetWhileCounted`, `CounterIsWhatUsersHold` | loops, cancel function and counter go together (`LoopInv`); an attempt is counted once, Landscape's balance is not negative, Cleanup resets after the worker returned (`UsersInv`) |
| `AgentDaemon_proofs` | `QuitMeansStopped`, `ReplacedWatcherIsSilent` | every token in `stopped`, every request for a restart and every restart under way has a watcher of its own that waits for it (`AwaitInv`, a count) |
| `AgentConfig_proofs` | `TokenInForceIsDistributed`, `ConfInForceIsDistributed`, `ConfCarriesUid`, `NoSilentConfChange`, `CloudInitIsCurrent` | everything is said of what the next load will find, not of what is in memory; an announcement under way has the value in force, and if there is none the distros have it (`TokenInv`, `ConfInv`, `YamlInv`); what the registry's values and their checksums have to do with each other before and after they are read again (`OrgInv`, `SumInv`, `RestoredInv`) |
| `DistroLink_proofs` | `DeliversCommands`, `InfoIsCurrent` | a stream has one client for as long as it lives (`PlaceInv`, `OneInv`); an open client's stream carries nothing but the command in hand or its answer (`OpenInv`, `CarryInv`); only the present attempt brings commands, and newer ones than were executed (`LoopInv`, `OrderInv`); the last info on its way, or the database if none is, says what is true of the distro unless a loop has yet to report (`LastInv`), and the first one is never the empty one (`FirstInv`) |
| `ProSystem_proofs` | `TypeOK`, `AnswerIsInForce`, `ConfigFitsDistro`, `TokenIsInForce`, `AddressIsRight` | what each step of an operation on `client.conf` has got so far (`LpeInv`) |
| `LandscapeExecutor_proofs` | `FileIsMap`, `NoStrayWorker`, `CloseKeepsDistros`, `DataHasADistro`, `RemovesOnlyItsOwn`, `InstalledIsKnown` | map and objects agree, and only the holder of `db.mu` is in a section of it (`ObjInv`, `LockInv`); the draft of whoever is about to rename it under the lock is the map, unless Close's dump overlapped (`DraftInv`); what an installation under way may assume of its name (`OwnInv`, `KnownInv`) |
| `LandscapeClient_proofs` | `OneCommandAtATime`, `ServerIsUpToDate` | a connection that the loop does not refer to has no receiver, and it refers to one at a time (`OwnInv`, `PhaseInv`); a message in flight is not newer than what it reports (`ReadInv`); what the handshake has gathered is the latest state, unless the Controller has it still to send, and the server is told no less afterwards (`GreetInv`) |

The assumptions on the constants are in the modules that declare them: bounds are natural
numbers, `WaitCap > 0`, the worker is no submitter and the watcher no user, the empty string is
no name, token, UID or configuration, a distro can be registered once (`MaxGuid > 0`) and there is
an object for every name. No set is assumed to be finite.

Two definitions have the form they have for the proofs' sake. `TaskQueue` finds the places that
remain when tasks are removed by their rank, because the prover knows nothing of `SelectSeq`. And
`ProSystem` puts the route table's number together with products (`Weight`), because it knows
nothing of powers; `AddressIsRight` then holds for bytes of any size.

What the proofs found. `CommandDelivery` used to promise an order across both kinds of
command, which the refinement proof could not establish and a longer run refuted (see above).
`TokenInForceIsDistributed` did not hold for three failures, which no run had (`blind`).
`InfoIsCurrent` did not hold for two kinds of command and two failures, for which the runs are too
small (a loop left behind, see above): the attempted proof showed the step, a scripted trace of TLC confirmed
it, and the history variable now marks it.
`ServerIsUpToDate` could be stated without one of its exceptions: only connections whose receiver has
ended are left out.

Only model-checked are the liveness properties `QueuedTasksAreTaken`, `InvalidDistroIsReleased`,
`LockedDistroIsRestarted`, `QuitEndsServe`, `RestartReturns`, `RegistryReachesConfig`, `CommandsEnd`,
`EventuallyConnected`, `QuitEnds`, `EventuallyCurrent` and `StopEnds`: fairness is out of the prover's
reach.

## Finding

`landscape_retry`: a Landscape client that was disabled for want of a configuration does not
try again when its first attempt with a new configuration fails, because `s.disabled` is
cleared only by a connection and suppresses the timer. The trace is described in
`PROJECT.json`.

## Abstractions

* Encodings of the files are left out; a write of `.new` is atomic, and data that reached
  a rename survives a crash of the agent (not of the machine).
* Every call of SubmitTasks in the agent carries one task. SubmitDeferredTasks has no
  caller in the agent but is part of the worker's interface, and is modelled.
* A distro that is unregistered and registered again is a new distro: `registered` never
  becomes true again.
* A configuration file that could not be written is the old one or an empty one. One cut
  off in the middle, which load may refuse, is not modelled.
* In `AgentConfig`, what a Landscape handshake does is left to `LandscapeClient`, but for the two
  ways in which it takes `connMu` for good; AssignHost always brings a UID. One AssignHost runs
  at a time.
* The fetch from the Store at the agent's start is the same code as NotifyPurchase and is
  covered by it.
* `Serve` is called once, as its comment demands.
* Real time is reduced to order. The backoff of wsl-pro-service is whether there is a wait, that
  of the Landscape client the number of failures up to a maximum, on which no guard depends;
  whether a dropped Landscape connection counts as short-lived is a choice.
* `DistroLink` has one distro: the agent's map of clients is keyed by name and distros share
  nothing else in it. `client.Close` is one step, for the reason given in `WslInstance`.
* The certificates of both ends, and what a command's text says, are left out; that they
  can be wrong is a failure of the attempt or the command.
* Infos carry whether the distro is attached; the other properties travel with it.

## Not modelled

* SetDefault and ShutdownHost of the executor are one call of WSL each.
* The interface (Flutter), the Store API, the contract server's protocol, packaging, logging,
  certificates, generated code: presentation, I/O and bindings without state of their own.
* The agent's command line with its lock file. When `landscape.New` fails, `proservices.New`
  stops a registry watcher that was never started and whose Stop waits for its loop
  (`proservices.go` 65): a deadlock of the start-up that is visible in the code, and on
  which no run depends.
* Reads of a distro's os-release, host name and profile directory.

## Plan

The model covers the parts planned, and its safety properties are proved. What is left to state is
`TypeOK` where no theorem does: `AgentConfig`, `DistroLink`, `LandscapeClient`.
