------------------------------ MODULE DistroLink ------------------------------
(***************************************************************************)
(* A distro and the agent together: ProService and WslInstance, each taking *)
(* its own steps over LinkTransport.                                       *)
(***************************************************************************)
EXTENDS WslInstance, ProService

vars == <<transport, agent, distro>>

TypeOK == TransportType /\ AgentType /\ ProServiceType

Init == TransportInit /\ AgentInit /\ ProServiceInit

\* Attempts nobody remembers.
Unused ==
    {k \in Attempts \ {att} :
        /\ line[k] = "free" \/ Over(k)
        /\ Forgotten(k)
        /\ \A s \in Commands : loop[<<k, s>>] \in {"off", "end", "out"}}

Connect(k) == Open(k) /\ Accept(k, StreamKinds)

ConnectFails(k) ==
    \E ss \in {{}, {"main"}, {"main", "pro"}} : OpenFails(k) /\ Accept(k, ss)

Next ==
    \/ AgentStep /\ UNCHANGED distro
    \/ DistroStep /\ UNCHANGED agent
    \/ /\ Unused # {}
       /\ LET k == CHOOSE u \in Unused : TRUE
          IN  Connect(k) \/ ConnectFails(k)

\* Goroutines with something to do do it; TCP and gRPC find out in the end that the
\* other side is gone; a distro's commands end.
Fairness ==
    /\ \A x \in Streams : WF_vars(HandlerStep(x) /\ faults' = faults /\ UNCHANGED distro)
    /\ \A k \in Attempts : WF_vars(AgentNotices(k) /\ UNCHANGED distro)
    /\ WF_vars(WorkerStep /\ UNCHANGED distro)
    /\ \A x \in CmdStreams : WF_vars(LoopStep(x) /\ faults' = faults /\ UNCHANGED agent)
    /\ WF_vars(DaemonStep /\ faults' = faults /\ UNCHANGED agent)
    /\ WF_vars(Unused # {} /\ Connect(CHOOSE u \in Unused : TRUE))

Spec == Init /\ [][Next]_vars /\ Fairness

-----------------------------------------------------------------------------
Delivery == INSTANCE CommandDelivery WITH
    issued <- job.n,
    status <- IF worker = "idle" THEN outcome ELSE "pending",
    executed <- executed

\* The streams, the clients and the two loops together deliver commands as
\* CommandDelivery promises: at most once, each kind in order, and answered only if
\* executed.
DeliversCommands == Delivery!Spec

Connected ==
    /\ att # 0 /\ daemon = "serving" /\ ~Over(att)
    /\ conn # 0 /\ client[conn].open
    /\ \A s \in StreamKinds : client[conn].set[s] = att /\ handler[<<att, s>>] \in {"waiting", "up"}

\* Nothing is being executed, and no info is on its way.
Settled ==
    /\ Connected /\ handler[<<att, "main">>] = "up" /\ infos[att] = <<>>
    /\ \A x \in CmdStreams : loop[x] \in {"off", "recv"}

\* After every command the distro reports what became of it (server.go, run), and a
\* connection that could not report is given up: what the database says of the distro is
\* true once nothing is under way.  The exceptions: the two loops report over the same
\* stream, and one may have gathered its info before the other's command took effect; what
\* a left-over attempt reports is old; a loop that Serve left behind reports nothing; and
\* Landscape's installation of the distro overwrites what it has reported by then.
InfoIsCurrent == Settled /\ ~overtaken => known = attached

\* Every handler of an attempt that is over has returned.
Quiet == \A x \in Streams : Over(x[1]) => handler[x] \in {"none", "done"}

\* The waits before an attempt grow until they outlast what the agent takes to get rid
\* of the attempts before it.
WaitsSuffice == <>[][att = 0 /\ att' # 0 => Quiet]_vars

\* However the streams of successive attempts meet at the agent (they share a client if
\* they overlap, an old one may delete the client of a new one, and a stream may join a
\* client that is already cancelled), once nothing fails any more the distro gets a
\* connection that stays: its three streams in one client, that client the worker's
\* connection, and the daemon serving.  Or the daemon has exited, and systemd's turn it is.
EventuallyConnected == WaitsSuffice => <>[](Connected \/ daemon = "exited")

\* A task that waits for a distro's answer gets it, or learns that the connection is
\* gone: a worker does not wait forever (and with it Worker.Stop, worker.go 112).
CommandsEnd == worker # "idle" ~> worker = "idle"

\* Daemon.Quit returns, whenever it is called: Serve notices in every phase, and the
\* server's loops end.
QuitEnds == quitter = "waiting" ~> quitter = "returned"
=============================================================================
