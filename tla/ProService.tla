------------------------------ MODULE ProService ------------------------------
(***************************************************************************)
(* wsl-pro-service, the distro's end of the connection: the daemon that    *)
(* connects again and again (internal/daemon), the server that serves      *)
(* commands over two of its three streams (internal/streams), and what the *)
(* commands do (internal/commandservice, in more detail in ProSystem).     *)
(* Of the backoff between two attempts only remains whether there is any.  *)
(***************************************************************************)
EXTENDS LinkTransport

VARIABLES
    daemon,     \* the goroutine in Daemon.Serve
    att,        \* the attempt it is working on; 0: none
    backoff,    \* there is a wait before the next attempt
    stopping,   \* attempts whose server's gracefulCtx is done
    loop,       \* the goroutine of each handlingLoop
    seen,       \* the command it is handling
    report,     \* the info it is about to send
    quitting,   \* what Daemon.Quit cancelled: no, graceful, force
    quitter,    \* the caller of Quit: no, waiting, returned
    attached,   \* state of the distro: attached or detached
    executed    \* history: the commands that began to be executed

daemonVars == <<daemon, att, backoff, stopping>>
loopVars   == <<loop, seen, report>>
quitVars   == <<quitting, quitter>>
effects    == <<attached, executed>>
distro     == <<daemonVars, loopVars, quitVars, effects>>

ProServiceType ==
    /\ daemon \in {"new", "ensure", "wait", "greet", "serving", "exited"}
    /\ att \in Attempts \cup {0}
    /\ backoff \in BOOLEAN /\ stopping \in SUBSET Attempts
    /\ loop \in [CmdStreams -> {"off", "recv", "exec", "attach", "reply", "info", "send", "end",
                                "out"}]
    /\ seen \in [CmdStreams -> Cmds \cup {None}]
    /\ report \in [CmdStreams -> Infos]
    /\ quitting \in {"no", "graceful", "force"} /\ quitter \in {"no", "waiting", "returned"}
    /\ attached \in {"attached", "detached"} /\ executed \in Seq([to : Commands, n : 1 .. MaxCmds])

ProServiceInit ==
    /\ daemon = "new" /\ att = 0 /\ backoff = FALSE /\ stopping = {}
    /\ loop = [x \in CmdStreams |-> "off"] /\ seen = [x \in CmdStreams |-> None]
    /\ report = [x \in CmdStreams |-> "bad"]
    /\ quitting = "no" /\ quitter = "no"
    /\ attached = "detached" /\ executed = <<>>

-----------------------------------------------------------------------------
(* Daemon.Serve.                                                           *)

\* started is set, then gracefulCtx is looked at.
ServeStarts ==
    /\ daemon = "new"
    /\ daemon' = IF quitting = "no" THEN "ensure" ELSE "exited"
    /\ UNCHANGED <<att, backoff, stopping, loopVars, quitVars, effects, transport>>

\* systemd was notified, and EnsureValidLandscapeConfig returns, with no context to
\* interrupt it.
Ensured ==
    /\ daemon = "ensure"
    /\ daemon' = "wait"
    /\ UNCHANGED <<att, backoff, stopping, loopVars, quitVars, effects, transport>>

\* Serve returns an error: systemd cannot be notified, or the address of the Windows
\* host not be found, which is a SystemError.
ServeFails ==
    /\ daemon \in {"ensure", "wait"} /\ Fault("system")
    /\ daemon' = "exited"
    /\ UNCHANGED <<att, backoff, stopping, loopVars, quitVars, effects, line, named, ended, cmd, answer, reports>>

ServeQuits ==
    /\ daemon = "wait" /\ quitting # "no"
    /\ daemon' = "exited"
    /\ UNCHANGED <<att, backoff, stopping, loopVars, quitVars, effects, transport>>

\* The wait is over.  If there was none, the select may prefer the timer to gracefulCtx.
MayConnect == daemon = "wait" /\ (quitting = "no" \/ (quitting = "graceful" /\ ~backoff))

\* Daemon.connect has an address and certificates, and streams.connect opens the streams;
\* Server.Serve starts a loop for each command stream.  The next attempt will have to
\* wait, unless this one lives for a minute.
Open(k) ==
    /\ MayConnect
    /\ OpenLine(k, "up")
    /\ daemon' = "greet" /\ att' = k /\ backoff' = TRUE
    /\ loop' = [x \in CmdStreams |-> IF x[1] = k THEN "recv" ELSE loop[x]]
    /\ UNCHANGED <<stopping, seen, report, quitVars, effects, faults>>

\* One of the streams cannot be opened: the ones before it are given up.
OpenFails(k) ==
    /\ MayConnect /\ Fault("open")
    /\ OpenLine(k, "closed")
    /\ backoff' = TRUE
    /\ UNCHANGED <<daemon, att, stopping, loopVars, quitVars, effects>>

\* The timer of a server that nobody stops runs out.
MinutePasses ==
    /\ daemon = "serving" /\ backoff /\ att \notin stopping /\ quitting = "no"
    /\ backoff' = FALSE
    /\ UNCHANGED <<daemon, att, stopping, loopVars, quitVars, effects, transport>>

\* Server.Serve returns and cancels the streams' context.  A loop that is still waiting
\* to hand over its error waits forever.
HangUp(pc) ==
    /\ CloseLine(att)
    /\ loop' = [x \in CmdStreams |-> IF x[1] = att /\ loop[x] \in {"end", "out"} THEN "off"
                                     ELSE loop[x]]
    /\ daemon' = pc /\ att' = 0 /\ stopping' = stopping \ {att}

\* The stream that is due for its first message.
Order == [main |-> 1, pro |-> 2, lpe |-> 3]
Due == CHOOSE s \in StreamKinds :
    /\ <<att, s>> \notin named
    /\ \A r \in StreamKinds : <<att, r>> \in named \/ Order[s] <= Order[r]

\* The first message of each stream: the info, gathered just before, then the names.
Greet ==
    /\ daemon = "greet" /\ line[att] # "closed"
    /\ named' = named \cup {<<att, Due>>}
    /\ infos' = IF Due = "main" /\ <<att, "main">> \notin ended
                THEN [infos EXCEPT ![att] = Append(@, attached)] ELSE infos
    /\ daemon' = IF \A s \in StreamKinds : <<att, s>> \in named' THEN "serving" ELSE "greet"
    /\ UNCHANGED <<att, backoff, stopping, loopVars, quitVars, effects, line, ended, cmd, answer,
                   overtaken, faults>>

\* One of them cannot be sent: Serve returns without waiting for its loops.
GreetFails ==
    /\ daemon = "greet" /\ Broken(<<att, Due>>)
    /\ HangUp("wait")
    /\ UNCHANGED <<backoff, seen, report, quitVars, effects, faults>>

\* The info cannot be gathered: a SystemError, also when the context was cancelled.
InfoFails ==
    /\ daemon = "greet" /\ <<att, "main">> \notin named
    /\ (quitting = "force" /\ UNCHANGED faults) \/ (quitting # "force" /\ Fault("info"))
    /\ HangUp("exited")
    /\ UNCHANGED <<backoff, seen, report, quitVars, effects>>

\* Both loops have ended.
ServerEnds ==
    /\ daemon = "serving"
    /\ \A s \in Commands : loop[<<att, s>>] = "out"
    /\ HangUp("wait")
    /\ UNCHANGED <<backoff, seen, report, quitVars, effects, faults>>

-----------------------------------------------------------------------------
(* Daemon.Quit.                                                            *)

\* The cancellation, then a look at started.  The forceful one cancels the context of
\* the server and of its streams.
Quit(how) ==
    /\ quitter = "no" /\ "quit" \in FaultKinds
    /\ quitting' = how
    /\ quitter' = IF daemon = "new" THEN "returned" ELSE "waiting"
    /\ IF how = "force" /\ att # 0
       THEN CloseLine(att) /\ stopping' = stopping \cup {att}
       ELSE UNCHANGED <<stopping, line, named, ended, cmd, answer, reports>>
    /\ UNCHANGED <<daemon, att, backoff, loopVars, effects, faults>>

\* The goroutine next to Server.Serve stops the server gracefully when the daemon quits.
GracefulStop ==
    /\ att # 0 /\ quitting # "no" /\ att \notin stopping
    /\ stopping' = stopping \cup {att}
    /\ UNCHANGED <<daemon, att, backoff, loopVars, quitVars, effects, transport>>

QuitReturns ==
    /\ quitter = "waiting" /\ daemon = "exited"
    /\ quitter' = "returned"
    /\ UNCHANGED <<daemonVars, loopVars, quitting, effects, transport>>

-----------------------------------------------------------------------------
(* handlingLoop.run.                                                       *)

LoopTo(x, pc) == loop' = [loop EXCEPT ![x] = pc]

\* The loop returns; if Serve has returned early, nobody is there to know.
Exit(x) == LoopTo(x, IF att = x[1] THEN "end" ELSE "off")

RecvCmd(x) ==
    /\ loop[x] = "recv" /\ cmd[x] # None
    /\ seen' = [seen EXCEPT ![x] = cmd[x]]
    /\ cmd' = [cmd EXCEPT ![x] = None]
    /\ executed' = Append(executed, [to |-> x[2], n |-> cmd[x].n])
    /\ LoopTo(x, "exec")
    /\ UNCHANGED <<daemonVars, report, quitVars, attached, line, named, ended, answer, reports, faults>>

\* Wrong: a graceful stop waits for the next command.
RecvStopsWrong(x) ==
    /\ loop[x] = "recv" /\ Broken(x)
    /\ cmd' = [cmd EXCEPT ![x] = None]
    /\ Exit(x)
    /\ UNCHANGED <<daemonVars, seen, report, quitVars, effects, line, named, ended, answer, reports,
                   faults>>

\* Recv fails, or a graceful stop ends the wait: a command that comes with it is dropped.
RecvStops(x) ==
    /\ loop[x] = "recv" /\ (x[1] \in stopping \/ Broken(x))
    /\ cmd' = [cmd EXCEPT ![x] = None]
    /\ Exit(x)
    /\ UNCHANGED <<daemonVars, seen, report, quitVars, effects, line, named, ended, answer, reports,
                   faults>>

\* History: a loop that outlives its server (GreetFails) can still change the distro, and
\* has no stream left to report it on.
Unreported(x) == overtaken' = (overtaken \/ (x[1] # att /\ attached' # attached))

\* Wrong: a command that fails is not answered.
ExecWrong(x) ==
    /\ loop[x] = "exec"
    /\ \/ UNCHANGED attached /\ LoopTo(x, "info")
       \/ /\ x[2] = "pro" /\ attached' = "detached"
          /\ LoopTo(x, IF seen[x].token THEN "attach" ELSE "reply")
    /\ Unreported(x)
    /\ UNCHANGED <<daemonVars, seen, report, quitVars, executed, line, named, ended, cmd, answer,
                   infos, faults>>

\* ApplyProToken detaches first, even when the token is not empty; either step may
\* fail, which is the result then.  ApplyLandscapeConfig is one step.
Exec(x) ==
    /\ loop[x] = "exec"
    /\ \/ UNCHANGED attached /\ LoopTo(x, "reply")
       \/ /\ x[2] = "pro" /\ attached' = "detached"
          /\ LoopTo(x, IF seen[x].token THEN "attach" ELSE "reply")
    /\ Unreported(x)
    /\ UNCHANGED <<daemonVars, seen, report, quitVars, executed, line, named, ended, cmd, answer,
                   infos, faults>>

Attach(x) ==
    /\ loop[x] = "attach"
    /\ attached' \in {attached, "attached"}
    /\ LoopTo(x, "reply")
    /\ Unreported(x)
    /\ UNCHANGED <<daemonVars, seen, report, quitVars, executed, line, named, ended, cmd, answer,
                   infos, faults>>

SendResult(x) ==
    /\ loop[x] = "reply" /\ line[x[1]] # "closed"
    /\ answer' = IF x \in ended THEN answer ELSE [answer EXCEPT ![x] = seen[x].n]
    /\ LoopTo(x, "info")
    /\ UNCHANGED <<daemonVars, seen, report, quitVars, effects, line, named, ended, cmd, reports, faults>>

SendResultFails(x) ==
    /\ loop[x] = "reply" /\ Broken(x)
    /\ seen' = [seen EXCEPT ![x] = None]
    /\ Exit(x)
    /\ UNCHANGED <<daemonVars, report, quitVars, effects, transport>>

\* system.Info.  Its failure is only logged, and the empty info is sent.
GatherInfo(x) ==
    /\ loop[x] = "info"
    /\ \/ report' = [report EXCEPT ![x] = attached] /\ UNCHANGED faults
       \/ report' = [report EXCEPT ![x] = "bad"] /\ Fault("info")
    /\ LoopTo(x, "send")
    /\ UNCHANGED <<daemonVars, seen, quitVars, effects, line, named, ended, cmd, answer, reports>>

\* Wrong: without an info nothing is sent.
SendInfoWrong(x) ==
    /\ loop[x] = "send"
    /\ infos' = IF report[x] = "bad" \/ Broken(<<x[1], "main">>) THEN infos
                ELSE [infos EXCEPT ![x[1]] = Append(@, report[x])]
    /\ seen' = [seen EXCEPT ![x] = None] /\ report' = [report EXCEPT ![x] = "bad"]
    /\ LoopTo(x, "recv")
    /\ UNCHANGED <<daemonVars, quitVars, effects, line, named, ended, cmd, answer, overtaken,
                   faults>>

\* A send that fails is only logged.
SendInfo(x) ==
    /\ loop[x] = "send"
    /\ \/ Broken(<<x[1], "main">>) /\ UNCHANGED infos
       \/ /\ line[x[1]] # "closed" /\ <<x[1], "main">> \notin ended
          /\ infos' = [infos EXCEPT ![x[1]] = Append(@, report[x])]
    /\ seen' = [seen EXCEPT ![x] = None] /\ report' = [report EXCEPT ![x] = "bad"]
    /\ overtaken' = (overtaken \/ report[x] \notin {attached, "bad"})
    /\ LoopTo(x, "recv")
    /\ UNCHANGED <<daemonVars, quitVars, effects, line, named, ended, cmd, answer, faults>>

\* The loop hands its error to Serve, which must be draining the channel by then, and
\* stops the other loop.
LoopEnds(x) ==
    /\ loop[x] = "end" /\ daemon = "serving" /\ att = x[1]
    /\ LoopTo(x, "out")
    /\ stopping' = stopping \cup {att}
    /\ UNCHANGED <<daemon, att, backoff, seen, report, quitVars, effects, transport>>

-----------------------------------------------------------------------------
(* Faults.                                                                 *)

\* The connection is lost; the ends may notice or not.
Cut(k) ==
    /\ Fault("cut") /\ line[k] = "up"
    /\ line' = [line EXCEPT ![k] = "cut"]
    /\ UNCHANGED <<distro, named, ended, cmd, answer, reports>>

\* The distro is stopped without notice, or the service killed, and started again.
Crash ==
    /\ Fault("crash") /\ quitter = "no"
    /\ line' = [k \in Attempts |-> IF k = att THEN "cut" ELSE line[k]]
    /\ daemon' = "new" /\ att' = 0 /\ backoff' = FALSE /\ stopping' = {}
    /\ loop' = [x \in CmdStreams |-> "off"] /\ seen' = [x \in CmdStreams |-> None]
    /\ UNCHANGED <<report, quitVars, effects, named, ended, cmd, answer, reports>>

LoopStep(x) ==
    \/ RecvCmd(x) \/ RecvStops(x) \/ Exec(x) \/ Attach(x) \/ SendResult(x) \/ SendResultFails(x)
    \/ GatherInfo(x) \/ SendInfo(x) \/ LoopEnds(x)

DaemonStep ==
    \/ ServeStarts \/ Ensured \/ ServeQuits \/ Greet \/ GreetFails \/ InfoFails \/ ServerEnds
    \/ MinutePasses \/ GracefulStop \/ QuitReturns

DistroStep ==
    \/ DaemonStep \/ ServeFails \/ Crash
    \/ \E x \in CmdStreams : LoopStep(x)
    \/ \E k \in Attempts : Cut(k)
    \/ \E how \in {"graceful", "force"} : Quit(how)
=============================================================================
