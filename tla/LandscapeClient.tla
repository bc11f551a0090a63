--------------------------- MODULE LandscapeClient ---------------------------
(***************************************************************************)
(* The agent's client of the Landscape server (proservices/landscape): the *)
(* loop that keeps it connected (service.go, keepConnected), a connection  *)
(* with its handshake and the goroutine that receives commands             *)
(* (connection.go), the notifications of a changed configuration, and the  *)
(* Controller that reports a changed distro (controller.go).               *)
(*                                                                         *)
(* connMu is written by the loop only, which keeps it while it drops a     *)
(* connection and makes a new one, the handshake included; a reader takes  *)
(* one step and cannot take it meanwhile.  The server, and the executor's  *)
(* commands other than AssignHost, are external.                           *)
(***************************************************************************)
EXTENDS Integers, FiniteSets

CONSTANTS
    Settings,       \* what can be configured: the server's URL and certificate
    Conns,          \* numbers of the connections remembered at a time
    Users,          \* goroutines that change the configuration
    MaxWait,        \* bound: steps of the back-off until its maximum
    MaxChanges,     \* bound: changes of the configuration
    MaxInfos,       \* bound: changes of the distros
    MaxCmds,        \* bound: commands other than AssignHost
    MaxFaults       \* bound: broken connections, failed attempts, timeouts

ASSUME ClientAssumption ==
    /\ 0 \notin Settings \cup Conns /\ -1 \notin Settings
    /\ MaxWait \in Nat \ {0, 1} /\ MaxChanges \in Nat /\ MaxInfos \in Nat /\ MaxCmds \in Nat
    /\ MaxFaults \in Nat

VARIABLES
    token, conf,    \* the configuration: is there a Pro token, and which settings; 0: none
    uid,            \* a UID has been assigned to the agent
    connection,     \* the connections
    conn,           \* s.conn; 0: nil
    loop,           \* keepConnected's goroutine: where it is, its new connection, and the state
                    \* of the distros it has gathered to greet the server with
    wait,           \* its back-off; 0: the first attempt is still to come
    retry,          \* connRetrier's channel is closed
    disabled, stop, \* s.disabled; s.ctx is cancelled
    user,           \* the changes of the configuration under way
    ctl,            \* a call of SendUpdatedInfo
    info, known,    \* the state of the distros, and what the server has been told of it
    crashed,        \* a panic has ended the agent
    stale,          \* history: why the server may not know the state of the distros
    dozing,         \* history: the attempt to leave the disabled state failed
    changes, cmds, faults

config  == <<token, conf, uid>>
bounds  == <<changes, cmds, faults>>
reports == <<ctl, info, known, stale>>
vars    == <<config, connection, conn, loop, wait, retry, disabled, stop, user, reports, crashed,
             dozing, bounds>>

NoConn == [set |-> 0, live |-> FALSE, open |-> FALSE, asked |-> FALSE, recv |-> "none", read |-> 0]

TypeOK ==
    /\ token \in BOOLEAN /\ conf \in Settings \cup {0} /\ uid \in BOOLEAN
    /\ connection \in [Conns -> [set : Settings \cup {0}, live : BOOLEAN, open : BOOLEAN, asked : BOOLEAN,
                                 recv : {"none", "recv", "assign", "exec", "notify", "compare",
                                         "report", "send", "ended"},
                                 read : Settings \cup {-1} \cup 0 .. MaxInfos]]
    /\ conn \in Conns \cup {0}
    /\ loop \in [pc : {"wait", "drop", "dial", "hello", "greet", "look", "poll", "expire", "clear",
                       "stuck", "undo", "unset", "ready", "connected", "leave", "quit", "ended"},
                 new : Conns \cup {0}, read : 0 .. MaxInfos]
    /\ wait \in 0 .. MaxWait /\ retry \in BOOLEAN /\ disabled \in BOOLEAN /\ stop \in BOOLEAN
    /\ user \in [Users -> [pc : {"idle", "notify", "compare"}, read : Settings \cup {0}]]
    /\ ctl \in [pc : {"idle", "start", "await", "gone", "poll", "assemble", "send"},
                on : Conns \cup {0}, read : 0 .. MaxInfos]
    /\ info \in 0 .. MaxInfos /\ known \in 0 .. MaxInfos
    /\ crashed \in BOOLEAN /\ dozing \in BOOLEAN /\ stale \in SUBSET {"overtaken", "disabled", "unconfigured"}
    /\ changes \in 0 .. MaxChanges /\ cmds \in 0 .. MaxCmds /\ faults \in 0 .. MaxFaults

\* The agent has started, with or without a configuration; Connect starts the loop.
Init ==
    /\ token \in BOOLEAN /\ conf \in Settings \cup {0} /\ uid = FALSE
    /\ connection = [i \in Conns |-> NoConn] /\ conn = 0
    /\ loop = [pc |-> "wait", new |-> 0, read |-> 0] /\ wait = 0
    /\ retry = FALSE /\ disabled = FALSE /\ stop = FALSE
    /\ user = [u \in Users |-> [pc |-> "idle", read |-> 0]]
    /\ ctl = [pc |-> "idle", on |-> 0, read |-> 0] /\ info = 0 /\ known = 0
    /\ crashed = FALSE /\ dozing = FALSE /\ stale = {} /\ changes = 0 /\ cmds = 0 /\ faults = 0

-----------------------------------------------------------------------------
Fault == faults < MaxFaults /\ faults' = faults + 1 /\ UNCHANGED <<changes, cmds>>

\* newLandscapeHostConf: without a token or a URL there is nothing to connect to (0, noConfigError).
HostConf == IF token THEN conf ELSE 0

\* The contexts of the connections are made from that of the service.
Live(i) == connection[i].live /\ ~stop

\* A reader would have to wait for connMu.
Locked == loop.pc \in {"drop", "dial", "hello", "greet", "look", "poll", "expire", "clear", "stuck",
                      "undo", "unset", "leave"}
          \/ (loop.pc = "quit" /\ conn # 0)

\* connected() of the service.
Connected == conn # 0 /\ connection[conn].open

\* conn.disconnect(): the context is cancelled ...
Cancel(i) == connection' = [connection EXCEPT ![i].live = FALSE]

\* Wrong: nobody waits for the command that is being executed.
GoneWrong(i) == connection[i].open \in BOOLEAN

\* ... and the connection closed once the goroutine that receives commands has ended; who
\* comes second waits for the first.
Gone(i) == ~connection[i].open \/ connection[i].recv = "ended"

\* Nobody refers to the connection any more.
Forget(i) ==
    connection' = [connection EXCEPT ![i] = IF @.recv = "ended" THEN NoConn ELSE [@ EXCEPT !.open = FALSE]]

-----------------------------------------------------------------------------
(* The loop.                                                               *)

\* A timer or a request, which are all satisfied by this attempt (connRetrier.Reset): connectOnce
\* takes connMu and begins with the old connection.
Wake ==
    /\ loop.pc = "wait" /\ (retry \/ ~disabled)
    /\ retry' = FALSE
    /\ loop' = [loop EXCEPT !.pc = IF conn = 0 THEN "dial" ELSE "drop"]
    /\ IF conn = 0 THEN UNCHANGED connection ELSE Cancel(conn)
    /\ UNCHANGED <<config, conn, wait, disabled, stop, user, reports, crashed, dozing, bounds>>

Drop ==
    /\ loop.pc = "drop" /\ Gone(conn)
    /\ Forget(conn)
    /\ conn' = 0
    /\ loop' = [loop EXCEPT !.pc = "dial"]
    /\ UNCHANGED <<config, wait, retry, disabled, stop, user, reports, crashed, dozing, bounds>>

\* Wrong: nobody looks whether the service has been stopped.
FailedWrong(noConfig) ==
    /\ loop' = [pc |-> "wait", new |-> 0, read |-> 0]
    /\ wait' = IF wait < MaxWait THEN wait + 1 ELSE MaxWait
    /\ disabled' = (disabled \/ (noConfig /\ ~stop))
    /\ dozing' = (disabled /\ ~noConfig)

\* The end of an attempt that failed: the back-off grows; without a configuration the service
\* is disabled, and only a request will wake the loop.
Failed(noConfig) ==
    /\ loop' = [pc |-> IF stop THEN "quit" ELSE "wait", new |-> 0, read |-> 0]
    /\ wait' = IF noConfig THEN (IF wait = 0 THEN 1 ELSE wait)
               ELSE IF wait = 0 THEN 2 ELSE IF wait < MaxWait THEN wait + 1 ELSE MaxWait
    /\ disabled' = (disabled \/ (noConfig /\ ~stop))
    /\ dozing' = (disabled /\ ~noConfig)

\* newConnection: the settings are read, and the stream to the server opened.
Dial ==
    /\ loop.pc = "dial" /\ HostConf # 0 /\ ~stop
    /\ \E i \in Conns :
         /\ connection[i] = NoConn /\ \A j \in Conns : connection[j] = NoConn => i <= j
         /\ connection' = [connection EXCEPT ![i] = [NoConn EXCEPT !.set = HostConf, !.live = TRUE,
                                                     !.open = TRUE, !.recv = "recv"]]
         /\ loop' = [pc |-> "hello", new |-> i, read |-> 0]
    /\ UNCHANGED <<config, conn, wait, retry, disabled, stop, user, reports, crashed, dozing, bounds>>

\* No configuration; or no certificate, no connection.
DialFails ==
    /\ loop.pc = "dial"
    /\ Failed(HostConf = 0)
    /\ IF HostConf = 0 \/ stop THEN UNCHANGED faults ELSE Fault
    /\ UNCHANGED <<config, connection, conn, retry, stop, user, reports, crashed, changes, cmds>>

\* handshake: the state of the distros is gathered, ...
Gather ==
    /\ loop.pc = "hello" /\ HostConf # 0
    /\ loop' = [loop EXCEPT !.pc = "greet", !.read = info]
    /\ UNCHANGED <<config, connection, conn, wait, retry, disabled, stop, user, reports, crashed, dozing,
                   bounds>>

\* Wrong: an agent with a UID has nothing to say.
GreetWrong ==
    /\ loop.pc = "greet" /\ connection[loop.new].open
    /\ loop' = [loop EXCEPT !.pc = "look"]
    /\ known' = IF Live(loop.new) /\ ~uid THEN loop.read ELSE known
    /\ connection' = [connection EXCEPT ![loop.new].asked = ~uid]
    /\ UNCHANGED <<config, conn, wait, retry, disabled, stop, user, ctl, info, stale, crashed, dozing, bounds>>

\* ... and the server is told; an agent without a UID will be assigned one.
Greet ==
    /\ loop.pc = "greet" /\ connection[loop.new].open
    /\ loop' = [loop EXCEPT !.pc = "look"]
    /\ known' = IF Live(loop.new) THEN loop.read ELSE known
    /\ connection' = [connection EXCEPT ![loop.new].asked = ~uid]
    /\ UNCHANGED <<config, conn, wait, retry, disabled, stop, user, ctl, info, stale, crashed, dozing, bounds>>

\* There is a configuration no more; or gathering or sending fails, or the UID cannot be read.
HelloFails ==
    /\ loop.pc \in {"hello", "greet", "look"}
    /\ IF (loop.pc = "hello" /\ HostConf = 0) \/ (loop.pc # "look" /\ ~Live(loop.new))
       THEN UNCHANGED bounds ELSE Fault
    /\ Cancel(loop.new)
    /\ loop' = [loop EXCEPT !.pc = IF @ = "hello" /\ HostConf = 0 THEN "unset" ELSE "undo", !.read = 0]
    /\ UNCHANGED <<config, conn, wait, retry, disabled, stop, user, reports, crashed, dozing>>

\* The handshake is over: connectOnce sets the connection and gives connMu back, ...
Establish ==
    /\ conn' = loop.new
    /\ loop' = [loop EXCEPT !.pc = "ready", !.new = 0]
    /\ wait' = IF wait = 0 THEN 1 ELSE wait

\* ... and then the service is no longer disabled.
Enable ==
    /\ loop.pc = "ready"
    /\ loop' = [loop EXCEPT !.pc = "connected", !.read = 0]
    /\ disabled' = FALSE /\ dozing' = FALSE
    /\ UNCHANGED <<config, connection, conn, wait, retry, stop, user, reports, crashed, bounds>>

\* An agent that has a UID, which may be the server's quick answer, is done.
Look ==
    /\ loop.pc = "look"
    /\ IF uid THEN Establish ELSE loop' = [loop EXCEPT !.pc = "poll"] /\ UNCHANGED <<conn, wait>>
    /\ UNCHANGED <<config, connection, retry, disabled, stop, user, reports, crashed, dozing, bounds>>

Undo ==
    /\ loop.pc \in {"undo", "unset"} /\ Gone(loop.new)
    /\ Forget(loop.new)
    /\ Failed(loop.pc = "unset")
    /\ UNCHANGED <<config, conn, retry, stop, user, reports, crashed, bounds>>

\* The UID is looked for every 100 ms.
Poll ==
    /\ loop.pc = "poll" /\ uid
    /\ Establish
    /\ UNCHANGED <<config, connection, retry, disabled, stop, user, reports, crashed, dozing, bounds>>

\* After a minute, or when the connection has ended, it is given up (a fault only if there is
\* an answer, or will be one) ...
Expire ==
    /\ loop.pc = "poll"
    /\ LET new == connection[loop.new] IN
         IF Live(loop.new) /\ (uid \/ new.asked \/ new.recv = "assign") THEN Fault ELSE UNCHANGED bounds
    /\ Cancel(loop.new)
    /\ loop' = [loop EXCEPT !.pc = "expire", !.read = 0]
    /\ UNCHANGED <<config, conn, wait, retry, disabled, stop, user, reports, crashed, dozing>>

Expired ==
    /\ loop.pc = "expire" /\ Gone(loop.new)
    /\ Forget(loop.new)
    /\ loop' = [pc |-> "clear", new |-> 0, read |-> 0]
    /\ UNCHANGED <<config, conn, wait, retry, disabled, stop, user, reports, crashed, dozing, bounds>>

\* ... and a UID that came too late is taken back: SetLandscapeAgentUID("").  If there was one,
\* that notifies this service, which waits for the connMu it holds.
Clear ==
    /\ loop.pc = "clear"
    /\ IF uid /\ conf # 0
       THEN /\ uid' = FALSE
            /\ loop' = [loop EXCEPT !.pc = "stuck"]
            /\ UNCHANGED <<wait, disabled, dozing>>
       ELSE Failed(FALSE) /\ UNCHANGED uid
    /\ UNCHANGED <<token, conf, connection, conn, retry, stop, user, reports, crashed, bounds>>

\* A reconnection is asked for, and the loop disconnects; it will not wait for the timer.
Reconnect ==
    /\ loop.pc = "connected" /\ retry
    /\ Cancel(conn)
    /\ loop' = [loop EXCEPT !.pc = "leave"]
    /\ UNCHANGED <<config, conn, wait, retry, disabled, stop, user, reports, crashed, dozing, bounds>>

Leave ==
    /\ loop.pc = "leave" /\ Gone(conn)
    /\ connection' = [connection EXCEPT ![conn].open = FALSE]
    /\ loop' = [loop EXCEPT !.pc = IF stop THEN "quit" ELSE "wait"]
    /\ wait' = 1
    /\ UNCHANGED <<config, conn, retry, disabled, stop, user, reports, crashed, dozing, bounds>>

\* The connection was dropped; whether that counts as a failure depends on a timer.
Dropped ==
    /\ loop.pc = "connected" /\ ~connection[conn].open
    /\ \/ loop' = [loop EXCEPT !.pc = IF stop THEN "quit" ELSE "wait"] /\ wait' = 1
          /\ UNCHANGED <<disabled, dozing>>
       \/ Failed(FALSE)
    /\ UNCHANGED <<config, connection, conn, retry, stop, user, reports, crashed, bounds>>

\* The service is stopped: a last disconnect, and the loop ends.
StopSeen ==
    /\ loop.pc \in {"wait", "connected"} /\ stop
    /\ loop' = [loop EXCEPT !.pc = "quit"]
    /\ UNCHANGED <<config, connection, conn, wait, retry, disabled, stop, user, reports, crashed, dozing, bounds>>

Quit ==
    /\ loop.pc = "quit" /\ (conn # 0 => Gone(conn))
    /\ connection' = [i \in Conns |-> IF i = conn THEN [connection[i] EXCEPT !.live = FALSE, !.open = FALSE]
                                      ELSE connection[i]]
    /\ loop' = [loop EXCEPT !.pc = "ended"]
    /\ UNCHANGED <<config, conn, wait, retry, disabled, stop, user, reports, crashed, dozing, bounds>>

LoopStep ==
    \/ Wake \/ Drop \/ Dial \/ DialFails \/ Gather \/ Greet \/ HelloFails \/ Undo \/ Look \/ Poll
    \/ Enable \/ Expire \/ Expired \/ Clear \/ Reconnect \/ Leave \/ Dropped \/ StopSeen \/ Quit

-----------------------------------------------------------------------------
(* receiveCommands.                                                        *)

Receiver(i, at, to) ==
    /\ connection[i].recv = at
    /\ connection' = [connection EXCEPT ![i].recv = to]

unchangedRecv == <<conn, loop, wait, disabled, stop, user, dozing>>

\* AssignHost, the server's answer to an agent without a UID.
AssignHost(i) ==
    /\ connection[i].recv = "recv" /\ Live(i) /\ connection[i].asked
    /\ connection' = [connection EXCEPT ![i].recv = "assign", ![i].asked = FALSE]
    /\ UNCHANGED <<config, unchangedRecv, retry, reports, crashed, bounds>>

\* SetLandscapeAgentUID: does nothing without a configuration, and notifies of a new UID.
SetUid(i) ==
    /\ Receiver(i, "assign", IF ~uid /\ conf # 0 THEN "notify" ELSE "report")
    /\ uid' = (uid \/ conf # 0)
    /\ UNCHANGED <<token, conf, unchangedRecv, retry, reports, crashed, bounds>>

\* Any other command.
Command(i) ==
    /\ Receiver(i, "recv", "exec") /\ Live(i) /\ cmds < MaxCmds /\ conn = i
    /\ cmds' = cmds + 1
    /\ UNCHANGED <<config, unchangedRecv, retry, reports, crashed, changes, faults>>

ExecEnds(i) ==
    /\ Receiver(i, "exec", "report")
    /\ UNCHANGED <<config, unchangedRecv, retry, reports, crashed, bounds>>

\* reconnectIfNewSettings: the settings of the connection, under connMu ...
OldSettings == IF conn = 0 THEN 0 ELSE connection[conn].set

ReceiverReads(i) ==
    /\ connection[i].recv = "notify" /\ ~Locked
    /\ connection' = [connection EXCEPT ![i].recv = "compare", ![i].read = OldSettings]
    /\ UNCHANGED <<config, unchangedRecv, retry, reports, crashed, bounds>>

\* ... and those of the configuration.
ReceiverCompares(i) ==
    /\ connection[i].recv = "compare"
    /\ connection' = [connection EXCEPT ![i].recv = "report", ![i].read = 0]
    /\ retry' = (retry \/ connection[i].read # HostConf)
    /\ UNCHANGED <<config, unchangedRecv, reports, crashed, bounds>>

\* After a command the server is told the state of the distros.  Without a configuration there
\* is none (-1), which is only logged.
Report(i) ==
    /\ connection[i].recv = "report"
    /\ connection' = [connection EXCEPT ![i].recv = "send",
                                        ![i].read = IF HostConf = 0 THEN -1 ELSE info]
    /\ UNCHANGED <<config, unchangedRecv, retry, reports, crashed, bounds>>

\* sendInfo: a message that is not there is dereferenced if the connection is still open.
SendReport(i) ==
    /\ connection[i].recv = "send"
    /\ connection' = [connection EXCEPT ![i].recv = "recv", ![i].read = 0]
    /\ LET sent == connection[i].read IN
         /\ crashed' = (sent = -1 /\ connection[i].open)
         /\ known' = IF sent >= 0 /\ Live(i) THEN sent ELSE known
         /\ stale' = IF sent >= 0 /\ sent < known THEN stale \cup {"overtaken"} ELSE stale
    /\ UNCHANGED <<config, unchangedRecv, retry, ctl, info, bounds>>

\* The connection ends, or is broken.
RecvEnds(i) ==
    /\ Receiver(i, "recv", "ended")
    /\ IF Live(i) THEN Fault ELSE UNCHANGED bounds
    /\ UNCHANGED <<config, unchangedRecv, retry, reports, crashed>>

ReceiverCloses(i) ==
    /\ connection[i].recv = "ended" /\ connection[i].open
    /\ connection' = [connection EXCEPT ![i].live = FALSE, ![i].open = FALSE]
    /\ UNCHANGED <<config, unchangedRecv, retry, reports, crashed, bounds>>

ReceiverStep(i) ==
    \/ AssignHost(i) \/ SetUid(i) \/ ExecEnds(i) \/ ReceiverReads(i) \/ ReceiverCompares(i)
    \/ Report(i) \/ SendReport(i) \/ RecvEnds(i) \/ ReceiverCloses(i)

-----------------------------------------------------------------------------
(* Changes of the configuration, which notify the service.                 *)

unchangedUser == <<connection, conn, loop, wait, disabled, stop, reports, crashed, dozing>>

Change(u, t, k) ==
    /\ user[u].pc = "idle" /\ changes < MaxChanges /\ <<t, k>> # <<token, conf>> /\ ~stop
    /\ token' = t /\ conf' = k
    /\ changes' = changes + 1
    /\ user' = [user EXCEPT ![u].pc = "notify"]
    /\ UNCHANGED <<uid, unchangedUser, retry, cmds, faults>>

UserReads(u) ==
    /\ user[u].pc = "notify" /\ ~Locked
    /\ user' = [user EXCEPT ![u] = [pc |-> "compare", read |-> OldSettings]]
    /\ UNCHANGED <<config, unchangedUser, retry, bounds>>

\* Wrong: the settings are compared with those of the connection only if there is one.
UserComparesWrong(u) ==
    /\ user[u].pc = "compare"
    /\ retry' = (retry \/ (user[u].read # 0 /\ user[u].read # HostConf))
    /\ user' = [user EXCEPT ![u] = [pc |-> "idle", read |-> 0]]
    /\ UNCHANGED <<config, unchangedUser, bounds>>

UserCompares(u) ==
    /\ user[u].pc = "compare"
    /\ retry' = (retry \/ user[u].read # HostConf)
    /\ user' = [user EXCEPT ![u] = [pc |-> "idle", read |-> 0]]
    /\ UNCHANGED <<config, unchangedUser, bounds>>

-----------------------------------------------------------------------------
(* Controller.SendUpdatedInfo.                                             *)

unchangedCtl == <<config, connection, conn, loop, wait, disabled, stop, user, crashed, dozing>>

\* A distro has come or gone.
InfoChanges ==
    /\ ctl.pc = "idle" /\ info < MaxInfos /\ ~stop
    /\ info' = info + 1
    /\ ctl' = [ctl EXCEPT !.pc = "start"]
    /\ UNCHANGED <<unchangedCtl, known, stale, retry, bounds>>

\* Nothing to do if the service is disabled, which it still is while a handshake that has
\* gathered an older state is under way ...
CtlDisabled ==
    /\ ctl.pc = "start" /\ disabled
    /\ ctl' = [ctl EXCEPT !.pc = "idle"]
    /\ stale' = IF loop.pc \in {"greet", "look", "poll", "ready"} /\ loop.read # info
                THEN stale \cup {"disabled"} ELSE stale
    /\ UNCHANGED <<unchangedCtl, info, known, retry, bounds>>

\* ... else a connection is used, or asked for.
CtlConnects ==
    /\ ctl.pc = "start" /\ ~disabled /\ ~Locked
    /\ ctl' = [ctl EXCEPT !.pc = IF Connected THEN "assemble" ELSE "await"]
    /\ retry' = (retry \/ ~Connected)
    /\ UNCHANGED <<unchangedCtl, info, known, stale, bounds>>

\* connDone: the end of the connection there is now is waited for ...
CtlAwaits ==
    /\ ctl.pc = "await" /\ ~Locked
    /\ ctl' = [ctl EXCEPT !.pc = IF conn = 0 THEN "poll" ELSE "gone", !.on = conn]
    /\ UNCHANGED <<unchangedCtl, info, known, stale, retry, bounds>>

CtlGone ==
    /\ ctl.pc = "gone" /\ (~Live(ctl.on) \/ connection[ctl.on] = NoConn)
    /\ ctl' = [ctl EXCEPT !.pc = "poll", !.on = 0]
    /\ UNCHANGED <<unchangedCtl, info, known, stale, retry, bounds>>

\* ... and then the next one.
CtlPolls ==
    /\ ctl.pc = "poll" /\ ~Locked /\ Connected
    /\ ctl' = [ctl EXCEPT !.pc = "assemble"]
    /\ UNCHANGED <<unchangedCtl, info, known, stale, retry, bounds>>

\* The caller's patience ends (10 s), or the service.
CtlGivesUp ==
    /\ ctl.pc \in {"gone", "poll"}
    /\ ctl' = [ctl EXCEPT !.pc = "idle", !.on = 0]
    /\ UNCHANGED <<unchangedCtl, info, known, stale, retry, bounds>>

CtlAssembles ==
    /\ ctl.pc = "assemble"
    /\ ctl' = IF HostConf = 0 THEN [ctl EXCEPT !.pc = "idle"]
              ELSE [ctl EXCEPT !.pc = "send", !.read = info]
    /\ stale' = IF HostConf = 0 THEN stale \cup {"unconfigured"} ELSE stale
    /\ UNCHANGED <<unchangedCtl, info, known, retry, bounds>>

CtlSends ==
    /\ ctl.pc = "send" /\ ~Locked
    /\ known' = IF Connected /\ Live(conn) THEN ctl.read ELSE known
    /\ stale' = IF ctl.read < known THEN stale \cup {"overtaken"} ELSE stale
    /\ ctl' = [ctl EXCEPT !.pc = "idle", !.read = 0]
    /\ UNCHANGED <<unchangedCtl, info, retry, bounds>>

CtlStep ==
    \/ CtlDisabled \/ CtlConnects \/ CtlAwaits \/ CtlGone \/ CtlPolls \/ CtlGivesUp
    \/ CtlAssembles \/ CtlSends

-----------------------------------------------------------------------------
\* Stop: the contexts are cancelled and the loop is woken.
Stop ==
    /\ ~stop /\ wait # 0
    /\ stop' = TRUE /\ retry' = TRUE
    /\ UNCHANGED <<config, connection, conn, loop, wait, disabled, user, reports, crashed, dozing, bounds>>

Next ==
    /\ ~crashed
    /\ \/ LoopStep \/ CtlStep \/ InfoChanges \/ Stop
       \/ \E i \in Conns : ReceiverStep(i) \/ Command(i)
       \/ \E u \in Users :
            \/ UserReads(u) \/ UserCompares(u)
            \/ \E t \in BOOLEAN, k \in Settings \cup {0} : Change(u, t, k)

\* The goroutines go on as long as they can; the server answers; commands end.
Fairness ==
    /\ WF_vars(~crashed /\ LoopStep)
    /\ WF_vars(~crashed /\ CtlStep)
    /\ \A i \in Conns : WF_vars(~crashed /\ ReceiverStep(i))
    /\ \A u \in Users : WF_vars(~crashed /\ UserReads(u)) /\ WF_vars(~crashed /\ UserCompares(u))

Spec == Init /\ [][Next]_vars /\ Fairness

-----------------------------------------------------------------------------
\* The loop waits for a goroutine that receives commands, which waits for connMu to notify the
\* loop's service of the UID it was assigned; or it waits for connMu itself.
Wedged ==
    \/ loop.pc = "stuck"
    \/ loop.pc \in {"drop", "leave", "quit"} /\ conn # 0 /\ connection[conn].recv = "notify"
    \/ loop.pc \in {"expire", "undo", "unset"} /\ connection[loop.new].recv = "notify"

\* One command at a time, also across connections: a new one is made only when the command of
\* the old one has been executed ("the command is executed even if the connection is lost").
OneCommandAtATime ==
    Cardinality({i \in Conns : connection[i].recv \in {"assign", "exec", "notify", "compare"}}) <= 1

\* An established connection that is not broken has been told the latest state of the distros
\* as soon as the Controller has nothing to do, although a command's report, which may be older,
\* can be on its way at the same time, unless the Controller took the service for disabled
\* during a handshake that had gathered an older state.
ServerIsUpToDate ==
    /\ loop.pc = "connected" /\ Live(conn) /\ ctl.pc = "idle" /\ stale = {}
    /\ connection[conn].recv # "ended"
    => known = info

\* Connected with the settings in force, or disabled if there are none.
Current ==
    \/ loop.pc = "connected" /\ connection[conn].set = HostConf
    \/ loop.pc = "wait" /\ disabled /\ HostConf = 0

\* In the end the client is connected with the settings in force, or disabled if there are
\* none, whatever was changed meanwhile.  The exceptions: the agent is stopped, has crashed or
\* is wedged; or the client was disabled, its first attempt with the new configuration failed,
\* and being still disabled it waits without a timer.
EventuallyCurrent == <>[](Current \/ stop \/ crashed \/ Wedged \/ (dozing /\ loop.pc = "wait"))

\* What the comment on Service promises, that "there is always an active connection, creating
\* a new one if necessary" (service.go 22), up to the end of the agent.  It fails: see the last
\* exception of EventuallyCurrent.
AlwaysReconnects == <>[](Current \/ stop \/ crashed \/ Wedged)

\* Stop ends the loop and leaves no connection open.
StopEnds ==
    stop ~> (\/ loop.pc = "ended" /\ \A i \in Conns : ~connection[i].open
             \/ crashed \/ Wedged)
=============================================================================
