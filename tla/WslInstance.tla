----------------------------- MODULE WslInstance -----------------------------
(***************************************************************************)
(* The agent's end of a distro's connection (proservices/wslinstance, with *)
(* Worker.SetConnection of distros/worker): one handler per stream, the    *)
(* clients that group three streams under the name of a distro, the map of *)
(* clients with its mutex, the connection of the distro's worker, and the  *)
(* command the worker is executing.  There is one distro name, so the map  *)
(* is one entry.                                                           *)
(*                                                                         *)
(* A client's context is a child of the context of the stream that created *)
(* it.  Close cancels it and deletes the map's entry by name, whoever is   *)
(* there.  It is one step: what looks at the map does not look at the      *)
(* context, so what happens between its halves could as well happen before *)
(* or after both.                                                          *)
(***************************************************************************)
EXTENDS LinkTransport

CONSTANT Clients    \* numbers of the clients remembered at a time

ASSUME ClientsAssumption == Clients \subseteq Nat \ {0}

VARIABLES
    handler,    \* the goroutine of each stream
    mine,       \* the client it joined
    gone,       \* attempts whose stream contexts are done on this side
    client,     \* the clients
    current,    \* s.clients[name]
    conn,       \* w.conn of the distro's worker
    worker,     \* the worker: idle, send, await
    holding,    \* the client it uses
    job,        \* its command: stream, number, token
    outcome,    \* what became of the last command
    known       \* the distro's property ProAttached in the database

clientVars == <<client, current, conn>>
workerVars == <<worker, holding, job, outcome>>
agent == <<handler, mine, gone, clientVars, workerVars, known>>

NoClient == [open |-> FALSE, parent |-> <<0, "main">>, set |-> [s \in StreamKinds |-> 0]]

AgentType ==
    /\ handler \in [Streams -> {"none", "handshake", "joined", "waiting", "up", "closing", "done"}]
    /\ mine \in [Streams -> Clients \cup {0}]
    /\ gone \in SUBSET Attempts
    /\ client \in [Clients -> [open : BOOLEAN, parent : (Attempts \cup {0}) \X StreamKinds,
                               set : [StreamKinds -> Attempts \cup {0}]]]
    /\ current \in Clients \cup {0} /\ conn \in Clients \cup {0}
    /\ worker \in {"idle", "send", "await"}
    /\ holding \in Clients \cup {0}
    /\ job \in [to : {"pro", "lpe"}, n : 0 .. MaxCmds, token : BOOLEAN]
    /\ outcome \in {"none", "answered", "lost"}
    /\ known \in {"attached", "detached"}

AgentInit ==
    /\ handler = [x \in Streams |-> "none"] /\ mine = [x \in Streams |-> 0]
    /\ gone = {}
    /\ client = [c \in Clients |-> NoClient] /\ current = 0 /\ conn = 0
    /\ worker = "idle" /\ holding = 0 /\ job = [to |-> "pro", n |-> 0, token |-> FALSE]
    /\ outcome = "none" /\ known = "detached"

-----------------------------------------------------------------------------
(* Clients.                                                                *)

\* Clients somebody can still reach; the others' numbers are used again.
Held == {current, conn, holding} \cup {mine[x] : x \in Streams}

Ready(c) == \A s \in StreamKinds : client[c].set[s] # 0

\* The clients cs are cancelled, and forgotten if nobody holds them any more.
Cancel(cs) ==
    client' = [c \in Clients |-> IF c \notin Held' THEN NoClient
                                ELSE IF c \in cs THEN [client[c] EXCEPT !.open = FALSE]
                                ELSE client[c]]

\* The clients whose context descends from that of stream x.
Children(x) == {c \in Clients : client[c].parent = x}

To(x, pc) == handler' = [handler EXCEPT ![x] = pc]

\* The handler returns, and with it ends its stream's context.
Return(x) ==
    /\ To(x, "done")
    /\ mine' = [mine EXCEPT ![x] = 0]
    /\ EndStream(x)

\* The handler returns; its deferred client.Close cancels its client and deletes the
\* map's entry.
CloseAndReturn(x) ==
    /\ Return(x)
    /\ current' = 0
    /\ UNCHANGED conn
    /\ Cancel({mine[x]} \cup Children(x))

-----------------------------------------------------------------------------
(* The handlers: Connected, ProAttachmentCommands, LandscapeConfigCommands. *)

\* gRPC starts a handler for each stream in ss of the new attempt k.
Accept(k, ss) ==
    /\ handler' = [x \in Streams |-> IF x[1] # k THEN handler[x]
                                    ELSE IF x[2] \in ss THEN "handshake" ELSE "none"]
    /\ gone' = gone \ {k}
    /\ UNCHANGED <<mine, clientVars, workerVars, known>>

\* Nothing of the agent's refers to attempt k any more.
Forgotten(k) ==
    /\ \A s \in StreamKinds : handler[<<k, s>>] \in {"none", "done"}
    /\ \A c \in Held \ {0} : client[c].parent[1] # k /\ \A s \in StreamKinds : client[c].set[s] # k

\* gRPC learns that the connection is over and cancels its streams' contexts.
AgentNotices(k) ==
    /\ Over(k) /\ k \notin gone
    /\ \E s \in StreamKinds : handler[<<k, s>>] \notin {"none", "done"}
    /\ gone' = gone \cup {k}
    /\ UNCHANGED <<handler, mine, current, conn, workerVars, known, transport>>
    /\ Cancel({c \in Clients : client[c].parent[1] = k})

\* mainHandshake, commandHandshake: the name arrives and Service.client finds or
\* creates the client.
Handshake(x) ==
    /\ handler[x] = "handshake" /\ x \in named
    /\ LET c == IF current # 0 THEN current ELSE CHOOSE f \in Clients \ Held : TRUE
       IN  /\ current # 0 \/ Clients \ Held # {}
           /\ mine' = [mine EXCEPT ![x] = c]
           /\ current' = c
           /\ client' = IF current # 0 THEN client
                        ELSE [client EXCEPT ![c] = [NoClient EXCEPT !.open = x[1] \notin gone,
                                                                    !.parent = x]]
    /\ To(x, "joined")
    /\ UNCHANGED <<gone, conn, workerVars, known, transport>>

\* The stream ends first, or the 20 s do.
HandshakeFails(x) ==
    /\ handler[x] = "handshake"
    /\ (x[1] \in gone /\ UNCHANGED faults) \/ (x[1] \notin gone /\ Fault("timeout"))
    /\ Return(x)
    /\ UNCHANGED <<gone, clientVars, workerVars, known>>

\* The client's mutex is free: a worker that waits for an answer has locked it for reading.
ClientFree(c) == ~(worker = "await" /\ holding = c)

\* Stream x takes its place in its client.  Connected then registers the distro in the
\* database with the properties of its first message.
Place(x) ==
    /\ client' = [client EXCEPT ![mine[x]].set[x[2]] = x[1]]
    /\ known' = IF x[2] = "main" THEN Head(infos[x[1]]) ELSE known
    /\ infos' = IF x[2] = "main" THEN [infos EXCEPT ![x[1]] = Tail(@)] ELSE infos
    /\ overtaken' = (overtaken \/ (x[2] = "main" /\ Over(x[1])))
    /\ To(x, "waiting")
    /\ UNCHANGED <<mine, gone, current, conn, workerVars, line, named, ended, cmd, answer,
                   faults>>

\* SetConnectedStream, SetProAttachmentStream, SetLandscapeConfigStream.
SetStream(x) ==
    /\ handler[x] = "joined" /\ ClientFree(mine[x])
    /\ client[mine[x]].set[x[2]] = 0
    /\ Place(x)

\* The database refuses the distro.
RegisterFails(x) ==
    /\ handler[x] = "joined" /\ ClientFree(mine[x]) /\ x[2] = "main"
    /\ client[mine[x]].set[x[2]] = 0
    /\ Fault("database")
    /\ UNCHANGED <<gone, workerVars, known>>
    /\ CloseAndReturn(x)

\* "stream already connected": the handler returns and closes nothing, but a client it
\* created is cancelled with its stream.
Refuse(x) ==
    /\ handler[x] = "joined" /\ ClientFree(mine[x])
    /\ client[mine[x]].set[x[2]] # 0
    /\ Return(x)
    /\ UNCHANGED <<gone, current, conn, workerVars, known, faults>>
    /\ Cancel(Children(x))

\* Worker.SetConnection, under connMu: a connection that is still there is closed, with
\* the map's entry, which is by now that of the new client.
SetConnection(c) ==
    /\ conn' = c
    /\ current' = IF conn # 0 THEN 0 ELSE current

\* WaitReady returns in Connected: EnqueueDeferredTasks and SetConnection.
MainReady(x) ==
    /\ handler[x] = "waiting" /\ x[2] = "main" /\ Ready(mine[x])
    /\ To(x, "up")
    /\ SetConnection(mine[x])
    /\ UNCHANGED <<mine, gone, workerVars, known, transport>>
    /\ Cancel({conn})

\* SetConnection refuses: the distro is no longer valid.
MainRefused(x) ==
    /\ handler[x] = "waiting" /\ x[2] = "main" /\ Ready(mine[x])
    /\ Fault("database")
    /\ UNCHANGED <<gone, workerVars, known>>
    /\ CloseAndReturn(x)

\* Some stream has not had the time to join a client yet.
Joining == \E x \in Streams : handler[x] \in {"handshake", "joined"}

\* Wrong: WaitReady without its time limit.
WaitReadyFailsWrong(x) ==
    /\ handler[x] = "waiting"
    /\ ~client[mine[x]].open \/ x[1] \in gone
    /\ UNCHANGED <<gone, workerVars, known, faults>>
    /\ CloseAndReturn(x)

\* WaitReady fails: the client was closed, the stream ended, or 30 s went by, which is
\* longer than streams that are on their way take.  A command stream whose client is
\* ready goes on waiting for the first two (WaitDone).
WaitReadyFails(x) ==
    /\ handler[x] = "waiting"
    /\ \/ ~client[mine[x]].open \/ x[1] \in gone
       \/ ~Ready(mine[x]) /\ ~Joining
    /\ UNCHANGED <<gone, workerVars, known, faults>>
    /\ CloseAndReturn(x)

\* Connected's loop: the properties are set and the database written.
ReceiveInfo(x) ==
    /\ handler[x] = "up"
    /\ infos[x[1]] # <<>> /\ Head(infos[x[1]]) # "bad"
    /\ known' = Head(infos[x[1]])
    /\ infos' = [infos EXCEPT ![x[1]] = Tail(@)]
    /\ overtaken' = (overtaken \/ Over(x[1]))
    /\ UNCHANGED <<handler, mine, gone, clientVars, workerVars, line, named, ended, cmd,
                   answer, faults>>

\* Landscape's installation of this distro ends with empty properties for the database
\* (executor.go, install), also when the distro has connected before and reported others.
InstallResets ==
    /\ Fault("install")
    /\ known' = "detached"
    /\ overtaken' = (overtaken \/ known # "detached")
    /\ UNCHANGED <<handler, mine, gone, clientVars, workerVars, line, named, ended, cmd, answer,
                   infos>>

\* Connected returns: first its deferred SetConnection(nil), which closes whatever
\* connection the worker has, ...
Leave(x) ==
    /\ handler[x] = "up"
    /\ \/ ~client[mine[x]].open \/ x[1] \in gone
       \/ infos[x[1]] # <<>> /\ Head(infos[x[1]]) = "bad"
    /\ To(x, "closing")
    /\ SetConnection(0)
    /\ UNCHANGED <<mine, gone, workerVars, known, transport>>
    /\ Cancel({conn})

\* ... then client.Close.
Left(x) ==
    /\ handler[x] = "closing"
    /\ UNCHANGED <<gone, workerVars, known, faults>>
    /\ CloseAndReturn(x)

-----------------------------------------------------------------------------
(* The worker executes a task: SendProAttachment, SendLandscapeConfig.     *)

TakeConnection(to, token) ==
    /\ worker = "idle" /\ job.n < MaxCmds
    /\ conn # 0
    /\ holding' = conn
    /\ job' = [to |-> to, n |-> job.n + 1, token |-> token]
    /\ worker' = "send"
    /\ UNCHANGED <<handler, mine, gone, clientVars, outcome, known, transport>>

\* The stream of the client that carries the command.
Wire == <<client[holding].set[job.to], job.to>>

\* The task is over, with this outcome.
Finish(what) ==
    /\ worker' = "idle" /\ holding' = 0 /\ outcome' = what
    /\ job' = [to |-> "pro", n |-> job.n, token |-> FALSE]

\* Wrong: the result is not waited for.
SendCmdWrong ==
    /\ worker = "send" /\ client[holding].open
    /\ cmd' = IF line[Wire[1]] = "closed" THEN cmd
              ELSE [cmd EXCEPT ![Wire] = [n |-> job.n, token |-> job.token]]
    /\ Finish("answered")
    /\ UNCHANGED <<handler, mine, gone, current, conn, known, line, named, ended, answer,
                   reports, faults>>
    /\ Cancel({})

SendCmd ==
    /\ worker = "send" /\ client[holding].open
    /\ cmd' = IF line[Wire[1]] = "closed" THEN cmd
              ELSE [cmd EXCEPT ![Wire] = [n |-> job.n, token |-> job.token]]
    /\ worker' = "await"
    /\ UNCHANGED <<handler, mine, gone, clientVars, holding, job, outcome, known, line, named,
                   ended, answer, reports, faults>>

\* The client is closed already.
SendRefused ==
    /\ worker = "send" /\ ~client[holding].open
    /\ Finish("lost")
    /\ UNCHANGED <<handler, mine, gone, current, conn, known, transport>>
    /\ Cancel({})

\* Wrong: the command is sent again over the worker's new connection.
SendOrRecvFailsWrong ==
    /\ \/ worker = "send" /\ client[holding].open /\ Wire[1] \in gone
       \/ worker = "await" /\ (~client[holding].open \/ Wire[1] \in gone)
    /\ conn \notin {0, holding}
    /\ worker' = "send" /\ holding' = conn
    /\ UNCHANGED <<handler, mine, gone, current, conn, job, outcome, known, transport>>
    /\ Cancel({holding})

\* Send or Recv fails, or the client is closed while the worker waits: Close.
SendOrRecvFails ==
    /\ \/ worker = "send" /\ client[holding].open /\ Wire[1] \in gone
       \/ worker = "await" /\ (~client[holding].open \/ Wire[1] \in gone)
    /\ Finish("lost")
    /\ current' = 0
    /\ UNCHANGED <<handler, mine, gone, conn, known, transport>>
    /\ Cancel({holding})

RecvResult ==
    /\ worker = "await" /\ answer[Wire] # 0
    /\ answer' = [answer EXCEPT ![Wire] = 0]
    /\ Finish("answered")
    /\ UNCHANGED <<handler, mine, gone, current, conn, known, line, named, ended, cmd, reports,
                   faults>>
    /\ Cancel({})

-----------------------------------------------------------------------------
HandlerStep(x) ==
    \/ Handshake(x) \/ HandshakeFails(x) \/ SetStream(x) \/ Refuse(x)
    \/ RegisterFails(x) \/ MainReady(x) \/ MainRefused(x) \/ WaitReadyFails(x)
    \/ ReceiveInfo(x) \/ Leave(x) \/ Left(x)

WorkerStep == SendCmd \/ SendRefused \/ SendOrRecvFails \/ RecvResult

\* Tasks: an attachment, with a token or without, or a Landscape configuration.
Tasks == {<<"pro", TRUE>>, <<"pro", FALSE>>, <<"lpe", FALSE>>}

AgentStep ==
    \/ \E x \in Streams : HandlerStep(x)
    \/ \E k \in Attempts : AgentNotices(k)
    \/ \E t \in Tasks : t[1] \in Commands /\ TakeConnection(t[1], t[2])
    \/ WorkerStep \/ InstallResets
=============================================================================
