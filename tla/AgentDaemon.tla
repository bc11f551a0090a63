----------------------------- MODULE AgentDaemon -----------------------------
(***************************************************************************)
(* The life of the Windows agent's gRPC daemon                             *)
(* (windows-agent/internal/daemon/daemon.go, netwatcher.go): one goroutine *)
(* in Serve, callers of Quit, and a network watcher for every time the     *)
(* daemon had to serve on the loopback address.  They talk through two     *)
(* channels with room for one element: "quit" carries requests, "stopped"  *)
(* carries one token each time the server stops, and is closed in the end. *)
(* A token is for whoever takes it: nothing ties it to a request.          *)
(*                                                                         *)
(* "raced" records the Quit calls during or after which a watcher was      *)
(* asking for a restart; no action reads it.                               *)
(***************************************************************************)
EXTENDS Integers

CONSTANTS
    Quitters,   \* calls of Quit
    MaxSubs     \* bound: subscriptions to network changes

ASSUME SubsAssumption == MaxSubs \in Nat

VARIABLES
    serving,    \* channel d.serving is closed
    quit,       \* channel d.quit
    tokens,     \* elements in channel d.stopped
    closed,     \* channel d.stopped is closed
    pc,         \* the goroutine in Serve
    request,    \* why the server stops
    serveErr,   \* channel errCh has an element
    portFile,   \* the address file: absent, of this server, or left behind
    rpcs,       \* there are RPCs in flight
    ctxDone,    \* the context of Serve is cancelled
    subs,       \* subscriptions so far; d.netSubs is the last one
    watcher,    \* the goroutine of each subscription
    stopped,    \* subscriptions whose Stop was called
    caller,     \* the goroutine of each call of Quit
    force,      \* the calls that ask for a forceful stop
    raced       \* history: see above

channels == <<serving, quit, tokens, closed>>
server   == <<pc, request, serveErr, portFile>>
watchers == <<subs, watcher, stopped>>
callers  == <<caller, force, raced>>
vars     == <<channels, server, rpcs, ctxDone, watchers, callers>>

Watchers == 1 .. MaxSubs

TypeOK ==
    /\ serving \in BOOLEAN /\ closed \in BOOLEAN
    /\ quit \in {"empty", "graceful", "force", "restart"}
    /\ tokens \in 0 .. 1
    /\ pc \in {"new", "setup", "up", "stopping", "remove", "signal", "cleanup", "join", "returned"}
    /\ request \in {"none", "graceful", "force", "restart", "error"}
    /\ serveErr \in BOOLEAN /\ rpcs \in BOOLEAN /\ ctxDone \in BOOLEAN
    /\ portFile \in {"absent", "ours", "left"}
    /\ subs \in 0 .. MaxSubs
    /\ watcher \in [Watchers -> {"none", "wait", "send", "await", "report", "done"}]
    /\ stopped \in SUBSET Watchers
    /\ caller \in [Quitters -> {"idle", "send", "await", "returned", "refused"}]
    /\ force \in SUBSET Quitters /\ raced \in SUBSET Quitters

\* New.  An agent that died may have left an address file.
Init ==
    /\ serving = FALSE /\ quit = "empty" /\ tokens = 0 /\ closed = FALSE
    /\ pc = "new" /\ request = "none" /\ serveErr = FALSE
    /\ portFile \in {"absent", "left"}
    /\ rpcs = FALSE /\ ctxDone = FALSE
    /\ subs = 0 /\ watcher = [w \in Watchers |-> "none"] /\ stopped = {}
    /\ caller = [q \in Quitters |-> "idle"] /\ force = {} /\ raced = {}

-----------------------------------------------------------------------------
(* Serve and tryServingOnce.                                               *)

Serve ==
    /\ pc = "new"
    /\ serving' = TRUE
    /\ pc' = "setup"
    /\ UNCHANGED <<quit, tokens, closed, request, serveErr, portFile, rpcs, ctxDone, watchers,
                   callers>>

\* serve: the listener is set up, the address file written.  Without a WSL adapter
\* it listens on the loopback address and subscribes to network changes; d.netSubs
\* is overwritten.
Subscribe ==
    /\ subs < MaxSubs
    /\ subs' = subs + 1
    /\ watcher' = [watcher EXCEPT ![subs + 1] = "wait"]
    /\ UNCHANGED stopped

SetupOK ==
    /\ pc = "setup"
    /\ Subscribe \/ UNCHANGED watchers
    /\ portFile' = "ours"
    /\ pc' = "up" /\ request' = "none" /\ serveErr' = FALSE
    /\ UNCHANGED <<channels, rpcs, ctxDone, callers>>

\* The subscription, the listener or the file fails: there is no server.
SetupFails ==
    /\ pc = "setup"
    /\ Subscribe \/ UNCHANGED watchers
    /\ pc' = "up" /\ request' = "none" /\ serveErr' = TRUE
    /\ UNCHANGED <<channels, portFile, rpcs, ctxDone, callers>>

\* grpcServer.Serve returns by itself.
ServerError ==
    /\ pc = "up" /\ ~serveErr
    /\ serveErr' = TRUE
    /\ UNCHANGED <<channels, pc, request, portFile, rpcs, ctxDone, watchers, callers>>

\* The three cases of the select, in any order when several are ready.
TakeCtx ==
    /\ pc = "up" /\ ctxDone
    /\ request' = "force"
    /\ pc' = "stopping"
    /\ UNCHANGED <<channels, serveErr, portFile, rpcs, ctxDone, watchers, callers>>

TakeErr ==
    /\ pc = "up" /\ serveErr
    /\ serveErr' = FALSE
    /\ request' = "error"
    /\ pc' = "remove"
    /\ UNCHANGED <<channels, portFile, rpcs, ctxDone, watchers, callers>>

TakeQuit ==
    /\ pc = "up" /\ quit # "empty"
    /\ request' = quit /\ quit' = "empty"
    /\ pc' = "stopping"
    /\ UNCHANGED <<serving, tokens, closed, serveErr, portFile, rpcs, ctxDone, watchers, callers>>

\* stop and the join on errCh: GracefulStop waits for the RPCs in flight, Stop
\* drops them.
ServerStops ==
    /\ pc = "stopping"
    /\ request = "force" \/ ~rpcs
    /\ rpcs' = FALSE /\ serveErr' = FALSE
    /\ pc' = "remove"
    /\ UNCHANGED <<channels, request, portFile, ctxDone, watchers, callers>>

\* The deferred function: os.Remove, whose failure is only logged, ...
RemoveFile ==
    /\ pc = "remove"
    /\ portFile' \in {"absent", IF portFile = "absent" THEN "absent" ELSE "left"}
    /\ pc' = "signal"
    /\ UNCHANGED <<channels, request, serveErr, rpcs, ctxDone, watchers, callers>>

\* Wrong: a forceful stop falls through to the restart.
SignalForceRestarts ==
    /\ pc = "signal" /\ tokens = 0
    /\ tokens' = 1
    /\ pc' = IF request \in {"restart", "force"} THEN "setup" ELSE "cleanup"
    /\ UNCHANGED <<serving, quit, closed, request, serveErr, portFile, rpcs, ctxDone, watchers,
                   callers>>

\* Wrong: a restart does not tell that the server stopped.
SignalOnlyAtTheEnd ==
    /\ pc = "signal" /\ tokens = 0
    /\ tokens' = IF request = "restart" THEN tokens ELSE 1
    /\ pc' = IF request = "restart" THEN "setup" ELSE "cleanup"
    /\ UNCHANGED <<serving, quit, closed, request, serveErr, portFile, rpcs, ctxDone, watchers,
                   callers>>

\* ... then the send on d.stopped, which blocks while it is full, and Serve's loop.
Signal ==
    /\ pc = "signal" /\ tokens = 0
    /\ tokens' = 1
    /\ pc' = IF request = "restart" THEN "setup" ELSE "cleanup"
    /\ UNCHANGED <<serving, quit, closed, request, serveErr, portFile, rpcs, ctxDone, watchers,
                   callers>>

\* cleanup: NetWatcher.Stop cancels the watcher and joins it ...
CleanupCancel ==
    /\ pc = "cleanup" /\ subs > 0
    /\ stopped' = stopped \cup {subs}
    /\ pc' = "join"
    /\ UNCHANGED <<channels, request, serveErr, portFile, rpcs, ctxDone, subs, watcher, callers>>

\* ... and only then is d.stopped closed, by a deferred function.
CleanupClose ==
    /\ \/ pc = "cleanup" /\ subs = 0 /\ UNCHANGED watcher
       \/ pc = "join" /\ watcher[subs] = "report" /\ watcher' = [watcher EXCEPT ![subs] = "done"]
    /\ closed' = TRUE
    /\ pc' = "returned"
    /\ UNCHANGED <<serving, quit, tokens, request, serveErr, portFile, rpcs, ctxDone, subs, stopped,
                   callers>>

-----------------------------------------------------------------------------
\* A receive from d.stopped: a token, or nothing once the channel is closed.
ReceiveStopped ==
    /\ tokens > 0 \/ closed
    /\ tokens' = IF tokens > 0 THEN tokens - 1 ELSE 0
    /\ UNCHANGED <<serving, quit, closed>>

\* A send on d.quit.
SendQuit(req) ==
    /\ quit = "empty"
    /\ quit' = req
    /\ UNCHANGED <<serving, tokens, closed>>

(* NetWatcher.start and Daemon.restart, which it calls through notify.     *)

WatchEnds(w) ==
    /\ watcher[w] = "wait"
    /\ watcher' = [watcher EXCEPT ![w] = "report"]
    /\ UNCHANGED <<channels, server, rpcs, ctxDone, subs, stopped, callers>>

\* The watcher's context, a child of Serve's, is done.
WatchCancelled(w) == (w \in stopped \/ ctxDone) /\ WatchEnds(w)

\* WaitForDeviceChanges reports an error.
WatchFails(w) == WatchEnds(w)

\* A WSL adapter is new; for any other change the loop goes on.
WatchFound(w) ==
    /\ watcher[w] = "wait"
    /\ watcher' = [watcher EXCEPT ![w] = "send"]
    /\ raced' = raced \cup {q \in Quitters : caller[q] \in {"send", "await", "returned"}}
    /\ UNCHANGED <<channels, server, rpcs, ctxDone, subs, stopped, caller, force>>

\* restart looks at the context of Serve, not at the watcher's.
RestartCancelled(w) ==
    /\ watcher[w] = "send" /\ ctxDone
    /\ watcher' = [watcher EXCEPT ![w] = "report"]
    /\ UNCHANGED <<channels, server, rpcs, ctxDone, subs, stopped, callers>>

RestartSend(w) ==
    /\ watcher[w] = "send"
    /\ SendQuit("restart")
    /\ watcher' = [watcher EXCEPT ![w] = "await"]
    /\ UNCHANGED <<server, rpcs, ctxDone, subs, stopped, callers>>

\* Wrong: the callback returns true and the watcher goes on.
RestartWatchesOn(w) ==
    /\ watcher[w] = "await"
    /\ ReceiveStopped
    /\ watcher' = [watcher EXCEPT ![w] = "wait"]
    /\ UNCHANGED <<server, rpcs, ctxDone, subs, stopped, callers>>

\* The callback returns false, whatever restart did: the watcher is done and
\* blocks until somebody joins it.
RestartDone(w) ==
    /\ watcher[w] = "await"
    /\ ReceiveStopped
    /\ watcher' = [watcher EXCEPT ![w] = "report"]
    /\ UNCHANGED <<server, rpcs, ctxDone, subs, stopped, callers>>

-----------------------------------------------------------------------------
(* Quit(ctx, force)                                                        *)

QuitBeforeServe(q) ==
    /\ caller[q] = "idle" /\ ~serving
    /\ caller' = [caller EXCEPT ![q] = "refused"]
    /\ UNCHANGED <<channels, server, rpcs, ctxDone, watchers, force, raced>>

QuitCalled(q) ==
    /\ caller[q] = "idle" /\ serving
    /\ caller' = [caller EXCEPT ![q] = "send"]
    /\ force' \in {force, force \cup {q}}
    /\ raced' = IF \E w \in Watchers : watcher[w] \in {"send", "await"}
                THEN raced \cup {q} ELSE raced
    /\ UNCHANGED <<channels, server, rpcs, ctxDone, watchers>>

\* The caller's own context is done.
QuitCancelled(q) ==
    /\ caller[q] = "send"
    /\ caller' = [caller EXCEPT ![q] = "refused"]
    /\ UNCHANGED <<channels, server, rpcs, ctxDone, watchers, force, raced>>

\* Wrong: Quit does not wait for the server to stop.
QuitSendOnly(q) ==
    /\ caller[q] = "send"
    /\ SendQuit(IF q \in force THEN "force" ELSE "graceful")
    /\ caller' = [caller EXCEPT ![q] = "returned"]
    /\ UNCHANGED <<server, rpcs, ctxDone, watchers, force, raced>>

QuitSend(q) ==
    /\ caller[q] = "send"
    /\ SendQuit(IF q \in force THEN "force" ELSE "graceful")
    /\ caller' = [caller EXCEPT ![q] = "await"]
    /\ UNCHANGED <<server, rpcs, ctxDone, watchers, force, raced>>

QuitDone(q) ==
    /\ caller[q] = "await"
    /\ ReceiveStopped
    /\ caller' = [caller EXCEPT ![q] = "returned"]
    /\ UNCHANGED <<server, rpcs, ctxDone, watchers, force, raced>>

-----------------------------------------------------------------------------
(* The surroundings: clients and the owner of the context.                 *)

BeginRPC ==
    /\ pc = "up" /\ portFile = "ours" /\ ~rpcs
    /\ rpcs' = TRUE
    /\ UNCHANGED <<channels, server, ctxDone, watchers, callers>>

EndRPC ==
    /\ rpcs
    /\ rpcs' = FALSE
    /\ UNCHANGED <<channels, server, ctxDone, watchers, callers>>

CancelContext ==
    /\ ~ctxDone
    /\ ctxDone' = TRUE
    /\ UNCHANGED <<channels, server, rpcs, watchers, callers>>

-----------------------------------------------------------------------------
ServeStep ==
    \/ SetupOK \/ SetupFails \/ TakeCtx \/ TakeErr \/ TakeQuit \/ ServerStops
    \/ RemoveFile \/ Signal \/ CleanupCancel \/ CleanupClose

WatcherStep(w) ==
    WatchCancelled(w) \/ RestartCancelled(w) \/ RestartSend(w) \/ RestartDone(w)

QuitStep(q) == QuitSend(q) \/ QuitDone(q)

Next ==
    \/ Serve \/ SetupOK \/ SetupFails \/ ServerError \/ TakeCtx \/ TakeErr \/ TakeQuit
    \/ ServerStops \/ RemoveFile \/ Signal \/ CleanupCancel \/ CleanupClose
    \/ \E w \in Watchers :
          \/ WatchCancelled(w) \/ WatchFails(w) \/ WatchFound(w)
          \/ RestartCancelled(w) \/ RestartSend(w) \/ RestartDone(w)
    \/ \E q \in Quitters :
          QuitBeforeServe(q) \/ QuitCalled(q) \/ QuitCancelled(q) \/ QuitSend(q) \/ QuitDone(q)
    \/ BeginRPC \/ EndRPC \/ CancelContext

\* Goroutines that can run do.  Nothing forces a client to end its RPC, an adapter
\* to appear, a server to fail or a context to be cancelled.
Fairness ==
    /\ WF_vars(ServeStep)
    /\ \A w \in Watchers : WF_vars(WatcherStep(w))
    /\ \A q \in Quitters : WF_vars(QuitStep(q))

Spec == Init /\ [][Next]_vars /\ Fairness

-----------------------------------------------------------------------------
\* App.Quit stops the pro services once Quit has returned: by then the server is
\* down for good and its address file is withdrawn, unless a watcher asked for a
\* restart meanwhile, whose token Quit may have taken.
QuitMeansStopped ==
    \A q \in Quitters :
        caller[q] = "returned" /\ q \notin raced =>
            pc \in {"cleanup", "join", "returned"} /\ portFile # "ours"

\* d.netSubs forgets a watcher that is replaced.  It is harmless: a replaced
\* watcher has asked for its one restart and cannot ask for another, and the
\* request in the channel is never that of a replaced one.
ReplacedWatcherIsSilent ==
    /\ \A w \in Watchers : w < subs => watcher[w] \in {"await", "report"}
    /\ quit = "restart" => subs > 0 /\ watcher[subs] \in {"await", "report", "done"}

\* A call of Quit that got its request in ends Serve, provided the RPCs in flight
\* end, unless a watcher asked for a restart meanwhile.
QuitEndsServe ==
    <>[]~rpcs => \A q \in Quitters : caller[q] = "await" ~> pc = "returned" \/ q \in raced

\* A watcher that asks for a restart gets on, on the same condition, unless there
\* was a call of Quit.
RestartReturns ==
    <>[]~rpcs => \A w \in Watchers : watcher[w] = "await" ~> watcher[w] # "await" \/ raced # {}
=============================================================================
