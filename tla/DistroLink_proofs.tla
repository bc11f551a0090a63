-------------------------- MODULE DistroLink_proofs --------------------------
(***************************************************************************)
(* DistroLink implements CommandDelivery: however the streams of successive *)
(* attempts meet at the agent, the commands the worker sends are executed  *)
(* at most once, those of one kind in order, and answered only if they     *)
(* were executed.                                                          *)
(*                                                                         *)
(* The argument.  A handler places its stream into at most one client      *)
(* (PlaceInv, OneInv), so that a stream belongs to one client for as long  *)
(* as it lives, and a client that was given up is never opened again.      *)
(* Hence the stream of an open client carries nothing, unless it is the    *)
(* command the worker is waiting for (OpenInv), and what arrives on it is  *)
(* the answer to that command (CarryInv).  On the distro's side only the   *)
(* streams of its present attempt can bring a command (LoopInv), so there  *)
(* is one stream of each kind that can, and what it brings is newer than   *)
(* everything executed of that kind (OrderInv).                            *)
(*                                                                         *)
(* The second part shows that the database ends up with what is true of    *)
(* the distro (InfoIsCurrent); its argument is given there.                *)
(***************************************************************************)
EXTENDS DistroLink, TLAPS

\* The loop has a command that it has not answered yet.
Busy == {"exec", "attach", "reply"}

\* Command n began to be executed.
Done(n) == \E i \in 1 .. Len(executed) : executed[i].n = n

\* Nothing is on its way on stream x, and nothing is being executed for it.
Clean(x) == cmd[x] = None /\ answer[x] = 0 /\ loop[x] \notin Busy

\* What a client looks like.
ClientRecord == [open : BOOLEAN, parent : (Attempts \cup {0}) \X StreamKinds,
                 set : [StreamKinds -> Attempts \cup {0}]]

\* Types.
LineType ==
    /\ line \in [Attempts -> {"free", "up", "cut", "closed"}]
    /\ cmd \in [CmdStreams -> Cmds \cup {None}]
    /\ answer \in [CmdStreams -> 0 .. MaxCmds]

HandlerType ==
    /\ handler \in [Streams -> {"none", "handshake", "joined", "waiting", "up", "closing", "done"}]
    /\ mine \in [Streams -> Clients \cup {0}]
    /\ current \in Clients \cup {0} /\ conn \in Clients \cup {0}

ClientType == client \in [Clients -> ClientRecord]

WorkerType ==
    /\ worker \in {"idle", "send", "await"}
    /\ holding \in Clients \cup {0}
    /\ job \in [to : {"pro", "lpe"}, n : 0 .. MaxCmds, token : BOOLEAN]
    /\ outcome \in {"none", "answered", "lost"}

LoopType ==
    /\ att \in Attempts \cup {0}
    /\ loop \in [CmdStreams -> {"off", "recv", "exec", "attach", "reply", "info", "send", "end",
                                "out"}]
    /\ seen \in [CmdStreams -> Cmds \cup {None}]
    /\ executed \in Seq([to : Commands, n : 1 .. MaxCmds])

Types == LineType /\ HandlerType /\ ClientType /\ WorkerType /\ LoopType

\* The daemon has an attempt only while it greets and serves.
AttInv == att # 0 <=> daemon \in {"greet", "serving"}

\* A loop that runs belongs to the present attempt, or can receive nothing any more.
LoopInv ==
    \A x \in CmdStreams :
        loop[x] # "off" => x[1] = att \/ (line[x[1]] = "closed" /\ cmd[x] = None)

\* A handler has a client from its handshake to its end.
MineInv ==
    \A x \in Streams : mine[x] # 0 <=> handler[x] \in {"joined", "waiting", "up", "closing"}

\* Numbers of clients that nobody holds are free.
HeldInv == \A c \in Clients : c \notin Held => client[c] = NoClient

\* A stream has a place in a client only if its handler has put it there, ...
PlaceInv ==
    \A c \in Clients, x \in Streams :
        client[c].set[x[2]] = x[1] => handler[x] \in {"waiting", "up", "closing", "done"}

\* ... and in one client only.
OneInv ==
    \A c, d \in Clients, s \in StreamKinds :
        client[c].set[s] # 0 /\ client[c].set[s] = client[d].set[s] => c = d

\* The worker's connections have their three streams.
ReadyInv ==
    /\ conn # 0 => Ready(conn)
    /\ worker # "idle" => holding # 0 /\ Ready(holding) /\ job.to \in Commands
    /\ worker = "idle" => holding = 0

\* A stream that is not placed yet carries nothing.
NewInv == \A x \in CmdStreams : handler[x] \in {"none", "handshake", "joined"} => Clean(x)

\* The streams of an open client carry at most the command that is waited for.
OpenInv ==
    \A c \in Clients, x \in CmdStreams :
        client[c].open /\ client[c].set[x[2]] = x[1] =>
            Clean(x) \/ (worker = "await" /\ holding = c /\ job.to = x[2])

\* A stream carries one thing at a time.
ExclInv ==
    \A x \in CmdStreams :
        /\ cmd[x] # None => answer[x] = 0 /\ loop[x] \notin Busy
        /\ answer[x] # 0 => loop[x] \notin Busy

\* What the stream carries on which the worker waits is its command.
CarryInv ==
    worker = "await" =>
        \A x \in CmdStreams : x = Wire =>
            /\ cmd[x] # None => cmd[x].n = job.n
            /\ loop[x] \in Busy => seen[x].n = job.n
            /\ answer[x] # 0 => answer[x] = job.n

\* A command is on its way once, and not when it has begun to be executed.
SentInv ==
    /\ \A x \in CmdStreams : cmd[x] # None => cmd[x].n \in 1 .. job.n /\ ~Done(cmd[x].n)
    /\ \A x, y \in CmdStreams : cmd[x] # None /\ cmd[y] # None /\ cmd[x].n = cmd[y].n => x = y
    /\ worker = "send" => job.n # 0 /\ ~Done(job.n) /\ \A x \in CmdStreams : cmd[x].n # job.n

\* Only commands that were issued are executed, only those that were executed answered.
DoneInv ==
    /\ \A i \in 1 .. Len(executed) : executed[i].n \in 1 .. job.n
    /\ \A x \in CmdStreams : loop[x] \in Busy => Done(seen[x].n)
    /\ \A x \in CmdStreams : answer[x] # 0 => Done(answer[x])

\* What a loop can receive is newer than what was executed of its kind.
OrderInv ==
    \A x \in CmdStreams : loop[x] # "off" /\ cmd[x] # None =>
        \A i \in 1 .. Len(executed) : executed[i].to = x[2] => executed[i].n < cmd[x].n

ClientInv == MineInv /\ HeldInv /\ PlaceInv /\ OneInv /\ ReadyInv
WireInv   == NewInv /\ OpenInv /\ ExclInv /\ CarryInv
CmdInv    == AttInv /\ LoopInv /\ SentInv /\ DoneInv /\ OrderInv

IInv == Types /\ ClientInv /\ WireInv /\ CmdInv

-----------------------------------------------------------------------------
(* Streams.                                                                *)

\* Command streams are streams, and a stream is its attempt and its kind.
LEMMA StreamFacts ==
    /\ CmdStreams \subseteq Streams
    /\ \A x \in Streams : x[1] \in Attempts /\ x[1] # 0 /\ x[2] \in StreamKinds
    /\ \A x \in CmdStreams : x[2] \in Commands
    /\ \A x, y \in Streams : x[1] = y[1] /\ x[2] = y[2] => x = y
    /\ \A k \in Attempts, s \in StreamKinds : <<k, s>> \in Streams
    /\ \A k \in Attempts, s \in Commands : <<k, s>> \in CmdStreams
    /\ Commands \subseteq StreamKinds
    /\ 0 \notin Clients
BY LinkAssumption, ClientsAssumption DEF Streams, CmdStreams, StreamKinds

\* A client nobody has made has no stream.
LEMMA NoClientFacts ==
    /\ NoClient \in ClientRecord /\ NoClient.open = FALSE
    /\ \A s \in StreamKinds : NoClient.set[s] = 0
BY DEF NoClient, ClientRecord, StreamKinds

\* The worker's wire is a command stream.
LEMMA WireIsAStream ==
    ASSUME Types, ReadyInv, worker # "idle"
    PROVE  /\ Wire \in CmdStreams /\ Wire[1] = client[holding].set[job.to] /\ Wire[2] = job.to
           /\ holding \in Clients
<1>1. holding \in Clients /\ job.to \in Commands /\ job.to \in StreamKinds
  BY DEF Types, WorkerType, ReadyInv, StreamKinds
<1>2. client[holding].set[job.to] \in Attempts
  BY <1>1 DEF Types, ClientType, ClientRecord, ReadyInv, Ready
<1> QED BY <1>1, <1>2 DEF Wire, CmdStreams

\* Nothing is refused that is not there.
LEMMA NoneFacts == None \notin Cmds /\ None.n = 0 /\ \A c \in Cmds : c.n \in 1 .. MaxCmds
BY DEF None, Cmds

LEMMA InitIInv == Init => IInv
<1> SUFFICES ASSUME Init PROVE IInv
  OBVIOUS
<1> USE DEF Init, TransportInit, AgentInit, ProServiceInit
<1>1. LineType
  BY LinkAssumption DEF LineType
<1>2. HandlerType
  BY DEF HandlerType
<1>3. ClientType
  BY NoClientFacts DEF ClientType
<1>4. WorkerType
  BY LinkAssumption DEF WorkerType
<1>5. LoopType
  BY DEF LoopType
<1>6. \A x \in CmdStreams : Clean(x) /\ loop[x] = "off"
  BY DEF Clean, Busy
<1>7. MineInv /\ HeldInv /\ ReadyInv
  BY DEF MineInv, HeldInv, ReadyInv
<1>8. PlaceInv /\ OneInv
  BY StreamFacts, NoClientFacts DEF PlaceInv, OneInv
<1>9. NewInv /\ OpenInv /\ CarryInv
  BY <1>6 DEF NewInv, OpenInv, CarryInv
<1>10. ExclInv
  BY DEF ExclInv
<1>11. AttInv /\ LoopInv /\ OrderInv
  BY DEF AttInv, LoopInv, OrderInv
<1>12. SentInv
  BY DEF SentInv
<1>13. DoneInv
  BY DEF DoneInv, Busy
<1> QED
  BY <1>1, <1>2, <1>3, <1>4, <1>5, <1>7, <1>8, <1>9, <1>10, <1>11, <1>12, <1>13
  DEF IInv, Types, ClientInv, WireInv, CmdInv

-----------------------------------------------------------------------------
(* Steps of the handlers.                                                  *)

\* A step of a handler leaves the distro, the worker and the commands alone, and may drop
\* answers.
HandlerFrame ==
    /\ line' = line /\ cmd' = cmd
    /\ answer' \in [CmdStreams -> 0 .. MaxCmds]
    /\ \A y \in CmdStreams : answer'[y] = answer[y] \/ answer'[y] = 0
    /\ daemon' = daemon /\ att' = att /\ loop' = loop /\ seen' = seen /\ executed' = executed
    /\ worker' = worker /\ holding' = holding /\ job' = job /\ outcome' = outcome

LEMMA HandlerFrameKeeps ==
    ASSUME IInv, HandlerFrame
    PROVE  /\ LineType' /\ WorkerType' /\ LoopType' /\ ExclInv' /\ CmdInv'
           /\ \A x \in CmdStreams : Clean(x) => Clean(x)'
<1>1. LineType' /\ WorkerType' /\ LoopType'
  BY DEF IInv, Types, HandlerFrame, LineType, WorkerType, LoopType
<1>2. ExclInv'
  BY DEF IInv, WireInv, HandlerFrame, ExclInv
<1>3. AttInv' /\ LoopInv'
  BY DEF IInv, CmdInv, HandlerFrame, AttInv, LoopInv
<1>4. \A n : Done(n)' <=> Done(n)
  BY DEF HandlerFrame, Done
<1>5. SentInv'
  BY <1>4, Zenon DEF IInv, CmdInv, HandlerFrame, SentInv
<1>6. DoneInv'
  <2>1. \A i \in 1 .. Len(executed') : executed'[i].n \in 1 .. job'.n
    BY Zenon DEF IInv, CmdInv, HandlerFrame, DoneInv
  <2>2. (\A x \in CmdStreams : loop[x] \in Busy => Done(seen[x].n))'
    BY DEF IInv, CmdInv, HandlerFrame, DoneInv, Done
  <2>3. (\A x \in CmdStreams : answer[x] # 0 => Done(answer[x]))'
    BY DEF IInv, CmdInv, HandlerFrame, DoneInv, Done
  <2> QED BY <2>1, <2>2, <2>3, Zenon DEF DoneInv
<1>7. OrderInv'
  BY DEF IInv, CmdInv, HandlerFrame, OrderInv
<1>8. \A x \in CmdStreams : Clean(x) => Clean(x)'
  BY DEF HandlerFrame, Clean
<1> QED BY <1>1, <1>2, <1>3, <1>5, <1>6, <1>7, <1>8 DEF CmdInv

\* What Cancel leaves of a client: its streams if somebody holds it, and nothing else.
LEMMA CancelFacts ==
    ASSUME ClientType, NEW cs, Cancel(cs)
    PROVE  /\ ClientType'
           /\ HeldInv'
           /\ \A c \in Clients : c \notin Held' => client'[c] = NoClient
           /\ \A c \in Clients : c \in Held' =>
                /\ client'[c].set = client[c].set
                /\ client'[c].open => client[c].open
                /\ client'[c].open => c \notin cs
<1>0. \A c \in Clients : client'[c] = IF c \notin Held' THEN NoClient
                                     ELSE IF c \in cs THEN [client[c] EXCEPT !.open = FALSE]
                                     ELSE client[c]
  BY DEF Cancel
<1>1. \A c \in Clients : client[c] \in ClientRecord
  BY DEF ClientType
<1>2. \A c \in Clients : client'[c] \in ClientRecord
  <2>1. \A r \in ClientRecord : [r EXCEPT !.open = FALSE] \in ClientRecord
    BY DEF ClientRecord
  <2> QED BY <1>0, <1>1, <2>1, NoClientFacts
<1>3. ClientType'
  <2>1. client' = [c \in Clients |-> client'[c]]
    BY DEF Cancel
  <2> QED BY <1>2, <2>1 DEF ClientType
<1>4. \A c \in Clients : c \in Held' => /\ client'[c].set = client[c].set
                                        /\ client'[c].open => client[c].open
                                        /\ client'[c].open => c \notin cs
  BY <1>0, <1>1 DEF ClientRecord
<1> QED BY <1>0, <1>3, <1>4 DEF HeldInv

\* A step of a handler that ends in Cancel.
LEMMA CancelKeeps ==
    ASSUME IInv, HandlerFrame, NEW cs, Cancel(cs), HandlerType', MineInv',
           \A x \in Streams : handler'[x] = handler[x] \/ handler'[x] \in {"up", "closing", "done"},
           conn' \in {0, conn} \/ (conn' \in Clients /\ \A s \in StreamKinds : client[conn'].set[s] # 0)
    PROVE  IInv'
<1> USE StreamFacts
<1>1. ClientType' /\ HeldInv'
  BY CancelFacts, Zenon DEF IInv, Types
<1>2. /\ \A c \in Clients : c \notin Held' => client'[c] = NoClient
      /\ \A c \in Clients : c \in Held' => /\ client'[c].set = client[c].set
                                           /\ client'[c].open => client[c].open
  BY CancelFacts, Zenon DEF IInv, Types
<1>3. \A c \in Clients, s \in StreamKinds : client'[c].set[s] # 0 => client'[c].set[s] = client[c].set[s]
  BY <1>2, NoClientFacts, Zenon
<1>4. PlaceInv'
  BY <1>3 DEF PlaceInv, IInv, ClientInv
<1>5. OneInv'
  BY <1>3 DEF OneInv, IInv, ClientInv
<1>6. /\ conn' # 0 => conn' \in Clients /\ conn' \in Held'
      /\ worker # "idle" => holding \in Clients /\ holding \in Held'
  BY DEF Held, HandlerType, IInv, Types, WorkerType, ClientInv, ReadyInv, HandlerFrame
<1>7. ReadyInv'
  <2>1. conn' # 0 => \A s \in StreamKinds : client'[conn'].set[s] # 0
    BY <1>2, <1>6 DEF IInv, ClientInv, ReadyInv, Ready
  <2>2. worker # "idle" => holding # 0 /\ job.to \in Commands /\ \A s \in StreamKinds : client'[holding].set[s] # 0
    BY <1>2, <1>6 DEF IInv, ClientInv, ReadyInv, Ready
  <2>3. worker = "idle" => holding = 0
    BY DEF IInv, ClientInv, ReadyInv
  <2> QED BY <2>1, <2>2, <2>3, Zenon DEF ReadyInv, Ready, HandlerFrame
<1>8. NewInv'
  BY HandlerFrameKeeps DEF NewInv, IInv, WireInv
<1>9. OpenInv'
  <2> SUFFICES ASSUME NEW c \in Clients, NEW x \in CmdStreams, client'[c].open, client'[c].set[x[2]] = x[1]
               PROVE  Clean(x)' \/ (worker = "await" /\ holding = c /\ job.to = x[2])
    BY DEF OpenInv, HandlerFrame
  <2>1. c \in Held'
    BY <1>2, NoClientFacts
  <2>2. client[c].open /\ client[c].set[x[2]] = x[1]
    BY <1>2, <2>1
  <2>3. Clean(x) \/ (worker = "await" /\ holding = c /\ job.to = x[2])
    BY <2>2 DEF OpenInv, IInv, WireInv
  <2> QED BY <2>3, HandlerFrameKeeps
<1>10. CarryInv'
  <2> SUFFICES ASSUME worker = "await"
               PROVE  \A x \in CmdStreams : x = Wire' =>
                        /\ cmd[x] # None => cmd[x].n = job.n
                        /\ loop[x] \in Busy => seen[x].n = job.n
                        /\ answer'[x] # 0 => answer'[x] = job.n
    BY DEF CarryInv, HandlerFrame
  <2>1. Wire' = Wire
    BY <1>2, <1>6 DEF Wire, HandlerFrame
  <2> QED BY <2>1 DEF CarryInv, IInv, WireInv, HandlerFrame
<1> QED
  BY <1>1, <1>4, <1>5, <1>7, <1>8, <1>9, <1>10, HandlerFrameKeeps
  DEF IInv, Types, ClientInv, WireInv

\* A handler that returns.
LEMMA ReturnFacts ==
    ASSUME IInv, NEW x \in Streams, Return(x), UNCHANGED distro, UNCHANGED workerVars
    PROVE  /\ HandlerFrame /\ MineInv'
           /\ handler' \in [Streams -> {"none", "handshake", "joined", "waiting", "up", "closing", "done"}]
           /\ mine' \in [Streams -> Clients \cup {0}]
           /\ \A y \in Streams : handler'[y] = handler[y] \/ handler'[y] \in {"up", "closing", "done"}
           /\ \A y \in Streams : y # x => handler'[y] = handler[y]
           /\ mine' = [mine EXCEPT ![x] = 0] /\ handler'[x] = "done"
<1>0. HandlerType /\ MineInv /\ LineType
  BY DEF IInv, Types, ClientInv
<1>1. handler' = [handler EXCEPT ![x] = "done"] /\ mine' = [mine EXCEPT ![x] = 0]
  BY DEF Return, To
<1>2. HandlerFrame
  <2>1. line' = line /\ cmd' = cmd /\ answer' = [y \in CmdStreams |-> IF x = y THEN 0 ELSE answer[y]]
    BY DEF Return, EndStream
  <2>2. answer' \in [CmdStreams -> 0 .. MaxCmds] /\ \A y \in CmdStreams : answer'[y] = answer[y] \/ answer'[y] = 0
    BY <2>1, <1>0, LinkAssumption DEF LineType
  <2> QED BY <2>1, <2>2 DEF HandlerFrame, distro, daemonVars, loopVars, effects, workerVars
<1>3. MineInv'
  BY <1>0, <1>1 DEF HandlerType, MineInv
<1> QED BY <1>0, <1>1, <1>2, <1>3 DEF HandlerType

\* The deferred Close: RegisterFails, WaitReadyFails, Left.
LEMMA CloseAndReturnKeeps ==
    ASSUME IInv, NEW x \in Streams, CloseAndReturn(x), UNCHANGED distro, UNCHANGED workerVars
    PROVE  IInv'
<1>1. /\ Return(x) /\ current' = 0 /\ conn' = conn /\ Cancel({mine[x]} \cup Children(x))
  BY DEF CloseAndReturn
<1>2. HandlerFrame /\ MineInv'
      /\ \A y \in Streams : handler'[y] = handler[y] \/ handler'[y] \in {"up", "closing", "done"}
  BY <1>1, ReturnFacts
<1>3. HandlerType'
  BY <1>1, ReturnFacts DEF HandlerType, IInv, Types
<1>4. PICK cs : cs = {mine[x]} \cup Children(x)
  OBVIOUS
<1>5. Cancel(cs)
  BY <1>1, <1>4
<1>6. conn' \in {0, conn}
  BY <1>1
<1> QED BY <1>2, <1>3, <1>5, <1>6, CancelKeeps

LEMMA NoticesKeeps ==
    ASSUME IInv, NEW k \in Attempts, AgentNotices(k), UNCHANGED distro
    PROVE  IInv'
<1>1. /\ handler' = handler /\ mine' = mine /\ current' = current /\ conn' = conn
      /\ UNCHANGED workerVars /\ UNCHANGED transport
      /\ Cancel({c \in Clients : client[c].parent[1] = k})
  BY DEF AgentNotices
<1>2. HandlerFrame
  BY <1>1 DEF HandlerFrame, transport, distro, daemonVars, loopVars, effects, workerVars,
              IInv, Types, LineType
<1>3. HandlerType' /\ MineInv'
  BY <1>1 DEF HandlerType, MineInv, IInv, Types, ClientInv
<1>4. PICK cs : cs = {c \in Clients : client[c].parent[1] = k}
  OBVIOUS
<1>5. Cancel(cs)
  BY <1>1, <1>4
<1> QED BY <1>1, <1>2, <1>3, <1>5, CancelKeeps

LEMMA RefuseKeeps ==
    ASSUME IInv, NEW x \in Streams, Refuse(x), UNCHANGED distro
    PROVE  IInv'
<1>1. Return(x) /\ current' = current /\ conn' = conn /\ UNCHANGED workerVars /\ Cancel(Children(x))
  BY DEF Refuse
<1>2. HandlerFrame /\ MineInv'
      /\ \A y \in Streams : handler'[y] = handler[y] \/ handler'[y] \in {"up", "closing", "done"}
  BY <1>1, ReturnFacts
<1>3. HandlerType'
  BY <1>1, ReturnFacts DEF HandlerType, IInv, Types
<1>4. PICK cs : cs = Children(x)
  OBVIOUS
<1>5. Cancel(cs)
  BY <1>1, <1>4
<1> QED BY <1>1, <1>2, <1>3, <1>5, CancelKeeps

\* Worker.SetConnection: MainReady and Leave.
LEMMA SetConnectionKeeps ==
    ASSUME IInv, NEW x \in Streams, UNCHANGED distro,
           MainReady(x) \/ Leave(x)
    PROVE  IInv'
<1>0. HandlerType /\ MineInv /\ LineType
  BY DEF IInv, Types, ClientInv
<1>1. /\ handler[x] \in {"waiting", "up"} /\ mine' = mine
      /\ handler' = [handler EXCEPT ![x] = "up"] \/ handler' = [handler EXCEPT ![x] = "closing"]
      /\ UNCHANGED workerVars /\ UNCHANGED transport /\ Cancel({conn})
      /\ current' \in {0, current}
  BY DEF MainReady, Leave, To, SetConnection
<1>2. conn' = 0 \/ (conn' = mine[x] /\ handler[x] = "waiting" /\ Ready(mine[x]))
  BY DEF MainReady, Leave, SetConnection
<1>3. HandlerFrame
  BY <1>0, <1>1 DEF HandlerFrame, transport, distro, daemonVars, loopVars, effects, workerVars, LineType
<1>4. mine[x] \in Clients
  BY <1>0, <1>1 DEF MineInv, HandlerType
<1>5. HandlerType'
  BY <1>0, <1>1, <1>2, <1>4 DEF HandlerType
<1>6. MineInv'
  BY <1>0, <1>1 DEF HandlerType, MineInv
<1>7. \A y \in Streams : handler'[y] = handler[y] \/ handler'[y] \in {"up", "closing", "done"}
  BY <1>0, <1>1 DEF HandlerType
<1>8. conn' \in {0, conn} \/ (conn' \in Clients /\ \A s \in StreamKinds : client[conn'].set[s] # 0)
  BY <1>2, <1>4 DEF Ready
<1>9. PICK cs : cs = {conn}
  OBVIOUS
<1>10. Cancel(cs)
  BY <1>1, <1>9
<1> QED BY <1>3, <1>5, <1>6, <1>7, <1>8, <1>10, CancelKeeps

\* A step of a handler that changes no client's streams.
LEMMA SameStreamsKeep ==
    ASSUME IInv, HandlerFrame, HandlerType', MineInv', ClientType', HeldInv', conn' = conn,
           \A x \in Streams : \/ handler'[x] = handler[x] \/ handler'[x] = "done"
                              \/ handler'[x] = "joined" /\ handler[x] = "handshake",
           \A c \in Clients : client'[c].set = client[c].set,
           \A c \in Clients : client'[c].open => client[c].open \/ \A s \in StreamKinds : client[c].set[s] = 0
    PROVE  IInv'
<1> USE StreamFacts
<1>1. PlaceInv'
  BY DEF PlaceInv, IInv, ClientInv
<1>2. OneInv'
  BY DEF OneInv, IInv, ClientInv
<1>3. ReadyInv'
  BY DEF ReadyInv, Ready, IInv, ClientInv, HandlerFrame, Types, HandlerType, WorkerType
<1>4. NewInv'
  BY HandlerFrameKeeps DEF NewInv, IInv, WireInv
<1>5. OpenInv'
  <2> SUFFICES ASSUME NEW c \in Clients, NEW x \in CmdStreams, client'[c].open, client'[c].set[x[2]] = x[1]
               PROVE  Clean(x)' \/ (worker = "await" /\ holding = c /\ job.to = x[2])
    BY DEF OpenInv, HandlerFrame
  <2>1. client[c].open /\ client[c].set[x[2]] = x[1]
    OBVIOUS
  <2>2. Clean(x) \/ (worker = "await" /\ holding = c /\ job.to = x[2])
    BY <2>1 DEF OpenInv, IInv, WireInv
  <2> QED BY <2>2, HandlerFrameKeeps
<1>6. CarryInv'
  <2> SUFFICES ASSUME worker = "await"
               PROVE  \A x \in CmdStreams : x = Wire' =>
                        /\ cmd[x] # None => cmd[x].n = job.n
                        /\ loop[x] \in Busy => seen[x].n = job.n
                        /\ answer'[x] # 0 => answer'[x] = job.n
    BY DEF CarryInv, HandlerFrame
  <2>1. holding \in Clients
    BY WireIsAStream DEF IInv, ClientInv
  <2>2. Wire' = Wire
    BY <2>1 DEF Wire, HandlerFrame
  <2> QED BY <2>2 DEF CarryInv, IInv, WireInv, HandlerFrame
<1> QED
  BY <1>1, <1>2, <1>3, <1>4, <1>5, <1>6, HandlerFrameKeeps
  DEF IInv, Types, ClientInv, WireInv

LEMMA HandshakeFailsKeeps ==
    ASSUME IInv, NEW x \in Streams, HandshakeFails(x), UNCHANGED distro
    PROVE  IInv'
<1>0. HandlerType /\ MineInv /\ ClientType /\ HeldInv
  BY DEF IInv, Types, ClientInv
<1>1. /\ handler[x] = "handshake" /\ Return(x) /\ client' = client /\ current' = current
      /\ conn' = conn /\ UNCHANGED workerVars /\ holding' = holding
  BY DEF HandshakeFails, clientVars, workerVars
<1>2. /\ HandlerFrame /\ MineInv' /\ mine' = [mine EXCEPT ![x] = 0] /\ handler'[x] = "done"
      /\ \A y \in Streams : y # x => handler'[y] = handler[y]
  BY <1>1, ReturnFacts
<1>3. HandlerType'
  BY <1>0, <1>1, ReturnFacts DEF HandlerType
<1>4. mine' = mine
  BY <1>0, <1>1, <1>2 DEF HandlerType, MineInv
<1>5. HeldInv' /\ ClientType'
  BY <1>0, <1>1, <1>4 DEF HeldInv, Held, ClientType
<1>6. \A y \in Streams : handler'[y] = handler[y] \/ handler'[y] = "done"
  BY <1>2
<1> QED BY <1>1, <1>2, <1>3, <1>5, <1>6, SameStreamsKeep

LEMMA ReceiveInfoKeeps ==
    ASSUME IInv, NEW x \in Streams, ReceiveInfo(x), UNCHANGED distro
    PROVE  IInv'
<1>0. HandlerType /\ MineInv /\ ClientType /\ HeldInv /\ LineType
  BY DEF IInv, Types, ClientInv
<1>1. /\ handler' = handler /\ mine' = mine /\ client' = client /\ current' = current /\ conn' = conn
      /\ holding' = holding /\ UNCHANGED workerVars /\ line' = line /\ cmd' = cmd /\ answer' = answer
  BY DEF ReceiveInfo, clientVars, workerVars
<1>2. HandlerFrame
  BY <1>0, <1>1 DEF HandlerFrame, distro, daemonVars, loopVars, effects, workerVars, LineType
<1>3. HandlerType' /\ MineInv' /\ HeldInv' /\ ClientType'
  BY <1>0, <1>1 DEF HandlerType, MineInv, HeldInv, Held, ClientType
<1> QED BY <1>1, <1>2, <1>3, SameStreamsKeep

LEMMA HandshakeKeeps ==
    ASSUME IInv, NEW x \in Streams, Handshake(x), UNCHANGED distro
    PROVE  IInv'
<1>0. HandlerType /\ MineInv /\ ClientType /\ HeldInv /\ LineType
  BY DEF IInv, Types, ClientInv
<1>1. /\ handler[x] = "handshake" /\ handler' = [handler EXCEPT ![x] = "joined"]
      /\ conn' = conn /\ holding' = holding /\ UNCHANGED workerVars /\ UNCHANGED transport
  BY DEF Handshake, To, workerVars
<1>2. PICK c : /\ c = IF current # 0 THEN current ELSE CHOOSE f \in Clients \ Held : TRUE
               /\ current # 0 \/ Clients \ Held # {}
               /\ mine' = [mine EXCEPT ![x] = c]
               /\ current' = c
               /\ client' = IF current # 0 THEN client
                            ELSE [client EXCEPT ![c] = [NoClient EXCEPT !.open = x[1] \notin gone,
                                                                        !.parent = x]]
  BY DEF Handshake
<1>3. c \in Clients /\ c # 0 /\ (current = 0 => c \notin Held)
  BY <1>0, <1>2, StreamFacts DEF HandlerType
<1>4. HandlerFrame
  BY <1>0, <1>1 DEF HandlerFrame, transport, distro, daemonVars, loopVars, effects, workerVars, LineType
<1>5. HandlerType'
  BY <1>0, <1>1, <1>2, <1>3 DEF HandlerType
<1>6. MineInv'
  BY <1>0, <1>1, <1>2, <1>3 DEF HandlerType, MineInv
<1>7. \A y \in Streams : \/ handler'[y] = handler[y] \/ handler'[y] = "done"
                         \/ handler'[y] = "joined" /\ handler[y] = "handshake"
  BY <1>0, <1>1 DEF HandlerType
<1>8. \A d \in Clients : d \in Held => d \in Held'
  <2>1. mine[x] = 0
    BY <1>0, <1>1 DEF MineInv
  <2>2. \A y \in Streams : mine[y] # 0 => mine'[y] = mine[y]
    BY <1>0, <1>2, <2>1 DEF HandlerType
  <2>3. current # 0 => current' = current
    BY <1>2
  <2> QED BY <1>1, <2>2, <2>3, StreamFacts DEF Held
<1>9. c \in Held'
  BY <1>2 DEF Held
<1>10. current = 0 => client[c] = NoClient
  BY <1>0, <1>3 DEF HeldInv
<1>11. /\ \A d \in Clients : d # c => client'[d] = client[d]
       /\ client'[c] = client[c] \/ (/\ client[c] = NoClient
                                     /\ client'[c] = [NoClient EXCEPT !.open = x[1] \notin gone, !.parent = x])
  BY <1>0, <1>2, <1>3, <1>10 DEF ClientType
<1>12. [NoClient EXCEPT !.open = x[1] \notin gone, !.parent = x].set = NoClient.set
  BY DEF NoClient
<1>13. [NoClient EXCEPT !.open = x[1] \notin gone, !.parent = x] \in ClientRecord
  BY StreamFacts DEF NoClient, ClientRecord, Streams
<1>14. ClientType'
  BY <1>0, <1>2, <1>3, <1>13 DEF ClientType
<1>15. HeldInv'
  BY <1>0, <1>8, <1>9, <1>11 DEF HeldInv
<1>16. \A d \in Clients : client'[d].set = client[d].set
  BY <1>11, <1>12
<1>17. \A d \in Clients : client'[d].open => client[d].open \/ \A s \in StreamKinds : client[d].set[s] = 0
  BY <1>11, NoClientFacts
<1> QED BY <1>1, <1>4, <1>5, <1>6, <1>7, <1>14, <1>15, <1>16, <1>17, SameStreamsKeep

LEMMA SetStreamKeeps ==
    ASSUME IInv, NEW x \in Streams, SetStream(x), UNCHANGED distro
    PROVE  IInv'
<1> USE StreamFacts
<1>0. HandlerType /\ MineInv /\ ClientType /\ HeldInv /\ LineType
  BY DEF IInv, Types, ClientInv
<1>1. /\ handler[x] = "joined" /\ client[mine[x]].set[x[2]] = 0
      /\ ~(worker = "await" /\ holding = mine[x])
      /\ handler' = [handler EXCEPT ![x] = "waiting"]
      /\ client' = [client EXCEPT ![mine[x]].set[x[2]] = x[1]]
      /\ mine' = mine /\ current' = current /\ conn' = conn /\ holding' = holding
      /\ UNCHANGED workerVars /\ line' = line /\ cmd' = cmd /\ answer' = answer
  BY DEF SetStream, Place, To, ClientFree, workerVars
<1>2. PICK m : m = mine[x]
  OBVIOUS
<1>3. m \in Clients /\ m # 0
  BY <1>0, <1>1, <1>2 DEF MineInv, HandlerType
<1>4. HandlerFrame
  BY <1>0, <1>1 DEF HandlerFrame, distro, daemonVars, loopVars, effects, workerVars, LineType
<1>5. HandlerType' /\ MineInv'
  BY <1>0, <1>1 DEF HandlerType, MineInv
<1>6. /\ \A c \in Clients : c # m => client'[c] = client[c]
      /\ client'[m] = [client[m] EXCEPT !.set = [client[m].set EXCEPT ![x[2]] = x[1]]]
  BY <1>0, <1>1, <1>2, <1>3 DEF ClientType
<1>7. client[m] \in ClientRecord /\ client'[m] \in ClientRecord
  BY <1>0, <1>3, <1>6 DEF ClientType, ClientRecord
<1>8. ClientType'
  BY <1>0, <1>1, <1>2, <1>3, <1>6, <1>7 DEF ClientType
<1>9. \A c \in Clients, s \in StreamKinds :
        client'[c].set[s] = IF c = m /\ s = x[2] THEN x[1] ELSE client[c].set[s]
  BY <1>6, <1>7 DEF ClientRecord
<1>10. \A c \in Clients : client'[c].open = client[c].open
  BY <1>6, <1>7 DEF ClientRecord
<1>11. HeldInv'
  <2>1. m \in Held
    BY <1>2 DEF Held
  <2>2. Held' = Held
    BY <1>1 DEF Held
  <2> QED BY <1>0, <1>6, <2>1, <2>2 DEF HeldInv
<1>12. \A y \in Streams : handler'[y] = IF y = x THEN "waiting" ELSE handler[y]
  BY <1>0, <1>1 DEF HandlerType
<1>13. PlaceInv'
  BY <1>9, <1>12 DEF PlaceInv, IInv, ClientInv
<1>14. \A c \in Clients : client[c].set[x[2]] # x[1]
  BY <1>1 DEF PlaceInv, IInv, ClientInv
<1>15. OneInv'
  BY <1>9, <1>14 DEF OneInv, IInv, ClientInv
<1>16. ReadyInv'
  <2>1. conn # 0 => conn \in Clients /\ \A s \in StreamKinds : client'[conn].set[s] # 0
    BY <1>0, <1>9 DEF ReadyInv, Ready, IInv, ClientInv, HandlerType
  <2>2. worker # "idle" => /\ holding # 0 /\ job.to \in Commands
                           /\ \A s \in StreamKinds : client'[holding].set[s] # 0
    BY <1>9, WireIsAStream DEF ReadyInv, Ready, IInv, ClientInv
  <2>3. worker = "idle" => holding = 0
    BY DEF IInv, ClientInv, ReadyInv
  <2> QED BY <1>1, <1>4, <2>1, <2>2, <2>3, Zenon DEF ReadyInv, Ready, HandlerFrame
<1>17. NewInv'
  BY <1>12, <1>4, HandlerFrameKeeps DEF NewInv, IInv, WireInv
<1>18. OpenInv'
  <2> SUFFICES ASSUME NEW c \in Clients, NEW y \in CmdStreams, client'[c].open, client'[c].set[y[2]] = y[1]
               PROVE  Clean(y)' \/ (worker = "await" /\ holding = c /\ job.to = y[2])
    BY <1>4 DEF OpenInv, HandlerFrame
  <2>1. CASE y = x
    BY <2>1, <1>1, <1>4, HandlerFrameKeeps DEF NewInv, IInv, WireInv
  <2>2. CASE y # x
    <3>1. client[c].open /\ client[c].set[y[2]] = y[1]
      BY <2>2, <1>9, <1>10
    <3> QED BY <3>1, <1>4, HandlerFrameKeeps DEF OpenInv, IInv, WireInv
  <2> QED BY <2>1, <2>2
<1>19. CarryInv'
  <2> SUFFICES ASSUME worker = "await"
               PROVE  \A y \in CmdStreams : y = Wire' =>
                        /\ cmd[y] # None => cmd[y].n = job.n
                        /\ loop[y] \in Busy => seen[y].n = job.n
                        /\ answer'[y] # 0 => answer'[y] = job.n
    BY <1>4 DEF CarryInv, HandlerFrame
  <2>1. holding \in Clients /\ job.to \in StreamKinds /\ client[holding].set[job.to] # 0
    BY WireIsAStream DEF IInv, ClientInv, ReadyInv, Ready
  <2>2. client'[holding].set[job.to] = client[holding].set[job.to]
    BY <2>1, <1>1, <1>2, <1>9
  <2>3. Wire' = Wire
    BY <2>2, <1>4 DEF Wire, HandlerFrame
  <2> QED BY <2>3, <1>1 DEF CarryInv, IInv, WireInv
<1> QED
  BY <1>4, <1>5, <1>8, <1>11, <1>13, <1>15, <1>16, <1>17, <1>18, <1>19, HandlerFrameKeeps
  DEF IInv, Types, ClientInv, WireInv

LEMMA HandlerStepKeeps ==
    ASSUME IInv, NEW x \in Streams, HandlerStep(x), UNCHANGED distro
    PROVE  IInv'
<1>1. CASE Handshake(x)
  BY <1>1, HandshakeKeeps
<1>2. CASE HandshakeFails(x)
  BY <1>2, HandshakeFailsKeeps
<1>3. CASE SetStream(x)
  BY <1>3, SetStreamKeeps
<1>4. CASE Refuse(x)
  BY <1>4, RefuseKeeps
<1>5. CASE RegisterFails(x)
  BY <1>5, CloseAndReturnKeeps DEF RegisterFails
<1>6. CASE MainReady(x)
  BY <1>6, SetConnectionKeeps
<1>7. CASE WaitReadyFails(x)
  BY <1>7, CloseAndReturnKeeps DEF WaitReadyFails
<1>8. CASE ReceiveInfo(x)
  BY <1>8, ReceiveInfoKeeps
<1>9. CASE Leave(x)
  BY <1>9, SetConnectionKeeps
<1>10. CASE Left(x)
  BY <1>10, CloseAndReturnKeeps DEF Left
<1>11. CASE MainRefused(x)
  BY <1>11, CloseAndReturnKeeps DEF MainRefused
<1> QED
  BY <1>1, <1>2, <1>3, <1>4, <1>5, <1>6, <1>7, <1>8, <1>9, <1>10, <1>11 DEF HandlerStep

\* An installation writes to the database only.
LEMMA InstallKeeps ==
    ASSUME IInv, InstallResets, UNCHANGED distro
    PROVE  IInv'
<1>0. HandlerType /\ MineInv /\ ClientType /\ HeldInv /\ LineType
  BY DEF IInv, Types, ClientInv
<1>1. /\ handler' = handler /\ mine' = mine /\ client' = client /\ current' = current /\ conn' = conn
      /\ holding' = holding /\ UNCHANGED workerVars /\ line' = line /\ cmd' = cmd /\ answer' = answer
  BY DEF InstallResets, clientVars, workerVars
<1>2. HandlerFrame
  BY <1>0, <1>1 DEF HandlerFrame, distro, daemonVars, loopVars, effects, workerVars, LineType
<1>3. HandlerType' /\ MineInv' /\ HeldInv' /\ ClientType'
  BY <1>0, <1>1 DEF HandlerType, MineInv, HeldInv, Held, ClientType
<1> QED BY <1>1, <1>2, <1>3, SameStreamsKeep

-----------------------------------------------------------------------------
(* Steps of the worker.                                                    *)

\* The parts of the distro the invariant is about.
DistroSame ==
    daemon' = daemon /\ att' = att /\ loop' = loop /\ seen' = seen /\ executed' = executed

LEMMA TakeConnectionKeeps ==
    ASSUME IInv, NEW to \in Commands, NEW token \in BOOLEAN, TakeConnection(to, token), UNCHANGED distro
    PROVE  IInv'
<1>0. LineType /\ HandlerType /\ ClientType /\ WorkerType /\ LoopType
  BY DEF IInv, Types
<1>1. /\ worker = "idle" /\ job.n < MaxCmds /\ conn # 0
      /\ worker' = "send" /\ holding' = conn /\ job' = [to |-> to, n |-> job.n + 1, token |-> token]
      /\ outcome' = outcome
      /\ handler' = handler /\ mine' = mine /\ client' = client /\ current' = current /\ conn' = conn
      /\ line' = line /\ cmd' = cmd /\ answer' = answer
  BY DEF TakeConnection, clientVars, transport
<1>2. DistroSame
  BY DEF DistroSame, distro, daemonVars, loopVars, effects
<1>3. job'.to = to /\ job'.n = job.n + 1 /\ job'.token = token
  BY <1>1
<1>4. job.n \in 0 .. MaxCmds /\ job'.n \in 0 .. MaxCmds
  BY <1>0, <1>1, <1>3, LinkAssumption DEF WorkerType
<1>5. LineType' /\ HandlerType' /\ ClientType' /\ LoopType'
  BY <1>0, <1>1, <1>2 DEF LineType, HandlerType, ClientType, LoopType, DistroSame
<1>6. WorkerType'
  BY <1>0, <1>1, <1>3, <1>4, LinkAssumption DEF WorkerType, HandlerType
<1>7. MineInv' /\ PlaceInv' /\ OneInv'
  BY <1>1 DEF MineInv, PlaceInv, OneInv, IInv, ClientInv
<1>8. HeldInv'
  BY <1>1, StreamFacts DEF HeldInv, Held, IInv, ClientInv, ReadyInv
<1>9. ReadyInv'
  BY <1>1, <1>3 DEF ReadyInv, Ready, IInv, ClientInv
<1>10. \A x \in CmdStreams : Clean(x)' <=> Clean(x)
  BY <1>1, <1>2 DEF Clean, DistroSame
<1>11. NewInv'
  BY <1>1, <1>10 DEF NewInv, IInv, WireInv
<1>12. OpenInv'
  BY <1>1, <1>10 DEF OpenInv, IInv, WireInv
<1>13. ExclInv' /\ CarryInv'
  BY <1>1, <1>2 DEF ExclInv, CarryInv, DistroSame, IInv, WireInv
<1>14. AttInv' /\ LoopInv' /\ OrderInv'
  BY <1>1, <1>2 DEF AttInv, LoopInv, OrderInv, DistroSame, IInv, CmdInv
<1>15. \A n : Done(n)' <=> Done(n)
  BY <1>2 DEF Done, DistroSame
<1>16. ~Done(job'.n)
  BY <1>3, <1>4 DEF Done, DoneInv, IInv, CmdInv
<1>17. \A x \in CmdStreams : cmd[x] # None => cmd[x].n \in 1 .. job'.n /\ cmd[x].n # job'.n
  BY <1>3, <1>4 DEF SentInv, IInv, CmdInv
<1>18. SentInv'
  <2>1. \A x \in CmdStreams : cmd[x].n # job'.n
    BY <1>3, <1>4, <1>17, NoneFacts
  <2>2. job'.n # 0
    BY <1>3, <1>4
  <2>3. (\A x \in CmdStreams : cmd[x] # None => cmd[x].n \in 1 .. job.n /\ ~Done(cmd[x].n))'
    BY <1>1, <1>2, <1>17 DEF SentInv, IInv, CmdInv, Done, DistroSame
  <2>4. (\A x, y \in CmdStreams : cmd[x] # None /\ cmd[y] # None /\ cmd[x].n = cmd[y].n => x = y)'
    BY <1>1 DEF SentInv, IInv, CmdInv
  <2>5. ~Done(job.n)'
    BY <1>16, <1>2 DEF Done, DistroSame
  <2> QED BY <1>1, <2>1, <2>2, <2>3, <2>4, <2>5 DEF SentInv
<1>19. DoneInv'
  <2>1. (\A i \in 1 .. Len(executed) : executed[i].n \in 1 .. job.n)'
    BY <1>2, <1>3, <1>4 DEF DoneInv, IInv, CmdInv, DistroSame
  <2>2. (\A x \in CmdStreams : loop[x] \in Busy => Done(seen[x].n))'
    BY <1>2 DEF DoneInv, IInv, CmdInv, DistroSame, Done
  <2>3. (\A x \in CmdStreams : answer[x] # 0 => Done(answer[x]))'
    BY <1>1, <1>2 DEF DoneInv, IInv, CmdInv, DistroSame, Done
  <2> QED BY <2>1, <2>2, <2>3, Zenon DEF DoneInv
<1> QED
  BY <1>5, <1>6, <1>7, <1>8, <1>9, <1>11, <1>12, <1>13, <1>14, <1>18, <1>19
  DEF IInv, Types, ClientInv, WireInv, CmdInv

LEMMA SendCmdKeeps ==
    ASSUME IInv, SendCmd, UNCHANGED distro
    PROVE  IInv'
<1> USE StreamFacts
<1>0. LineType /\ HandlerType /\ ClientType /\ WorkerType /\ LoopType
  BY DEF IInv, Types
<1>1. /\ worker = "send" /\ client[holding].open
      /\ cmd' = IF line[Wire[1]] = "closed" THEN cmd
                ELSE [cmd EXCEPT ![Wire] = [n |-> job.n, token |-> job.token]]
      /\ worker' = "await" /\ holding' = holding /\ job' = job /\ outcome' = outcome
      /\ handler' = handler /\ mine' = mine /\ client' = client /\ current' = current /\ conn' = conn
      /\ line' = line /\ answer' = answer
  BY DEF SendCmd, clientVars
<1>2. DistroSame
  BY DEF DistroSame, distro, daemonVars, loopVars, effects
<1>3. PICK w : w = Wire
  OBVIOUS
<1>4. w \in CmdStreams /\ w[1] = client[holding].set[job.to] /\ w[2] = job.to /\ holding \in Clients
  BY <1>1, <1>3, WireIsAStream DEF IInv, ClientInv
<1>5. Clean(w)
  BY <1>1, <1>4 DEF OpenInv, IInv, WireInv
<1>6. job.n \in 1 .. MaxCmds /\ ~Done(job.n) /\ \A x \in CmdStreams : cmd[x].n # job.n
  BY <1>0, <1>1, LinkAssumption DEF WorkerType, SentInv, IInv, CmdInv
<1>7. PICK m : m = [n |-> job.n, token |-> job.token]
  OBVIOUS
<1>8. m \in Cmds /\ m.n = job.n /\ m # None
  BY <1>0, <1>6, <1>7, NoneFacts DEF WorkerType, Cmds
<1>9. \A x \in CmdStreams : cmd'[x] = IF x = w /\ line[w[1]] # "closed" THEN m ELSE cmd[x]
  BY <1>0, <1>1, <1>3, <1>4, <1>7 DEF LineType
<1>10. LineType'
  BY <1>0, <1>1, <1>3, <1>4, <1>7, <1>8 DEF LineType
<1>11. HandlerType' /\ ClientType' /\ LoopType' /\ WorkerType'
  BY <1>0, <1>1, <1>2 DEF HandlerType, ClientType, LoopType, DistroSame, WorkerType
<1>12. MineInv' /\ PlaceInv' /\ OneInv' /\ HeldInv'
  BY <1>1 DEF MineInv, PlaceInv, OneInv, HeldInv, Held, IInv, ClientInv
<1>13. ReadyInv'
  BY <1>1 DEF ReadyInv, Ready, IInv, ClientInv
<1>14. \A x \in CmdStreams : x # w => (Clean(x)' <=> Clean(x))
  BY <1>1, <1>2, <1>9 DEF Clean, DistroSame
<1>15. handler[w] \in {"waiting", "up", "closing", "done"}
  BY <1>4 DEF PlaceInv, IInv, ClientInv
<1>16. NewInv'
  BY <1>1, <1>14, <1>15 DEF NewInv, IInv, WireInv
<1>17. OpenInv'
  <2> SUFFICES ASSUME NEW c \in Clients, NEW x \in CmdStreams, client[c].open, client[c].set[x[2]] = x[1]
               PROVE  Clean(x)' \/ (holding = c /\ job.to = x[2])
    BY <1>1 DEF OpenInv
  <2>1. CASE x = w
    BY <2>1, <1>4 DEF OneInv, IInv, ClientInv
  <2>2. CASE x # w
    BY <2>2, <1>1, <1>14 DEF OpenInv, IInv, WireInv
  <2> QED BY <2>1, <2>2
<1>18. ExclInv'
  BY <1>1, <1>2, <1>5, <1>9 DEF ExclInv, Clean, DistroSame, IInv, WireInv
<1>19. CarryInv'
  <2>1. Wire' = w
    BY <1>1, <1>3 DEF Wire
  <2>2. /\ cmd'[w] # None => cmd'[w].n = job.n
        /\ loop'[w] \notin Busy /\ answer'[w] = 0
    BY <1>1, <1>2, <1>4, <1>5, <1>8, <1>9 DEF Clean, DistroSame
  <2> QED BY <2>1, <2>2, <1>1 DEF CarryInv
<1>20. AttInv' /\ LoopInv'
  BY <1>1, <1>2, <1>9 DEF AttInv, LoopInv, DistroSame, IInv, CmdInv
<1>21. SentInv'
  <2>1. (\A x \in CmdStreams : cmd[x] # None => cmd[x].n \in 1 .. job.n /\ ~Done(cmd[x].n))'
    BY <1>1, <1>2, <1>6, <1>8, <1>9 DEF SentInv, IInv, CmdInv, Done, DistroSame
  <2>2. (\A x, y \in CmdStreams : cmd[x] # None /\ cmd[y] # None /\ cmd[x].n = cmd[y].n => x = y)'
    BY <1>6, <1>8, <1>9 DEF SentInv, IInv, CmdInv
  <2> QED BY <1>1, <2>1, <2>2 DEF SentInv
<1>22. DoneInv'
  BY <1>1, <1>2 DEF DoneInv, IInv, CmdInv, DistroSame, Done
<1>23. OrderInv'
  <2>1. \A i \in 1 .. Len(executed) : executed[i].n < job.n
    BY <1>6 DEF DoneInv, IInv, CmdInv, Done
  <2> QED BY <2>1, <1>2, <1>8, <1>9 DEF OrderInv, IInv, CmdInv, DistroSame
<1> QED
  BY <1>10, <1>11, <1>12, <1>13, <1>16, <1>17, <1>18, <1>19, <1>20, <1>21, <1>22, <1>23
  DEF IInv, Types, ClientInv, WireInv, CmdInv

\* The worker's command ends, and its stream is clean again or its client closed.
LEMMA FinishKeeps ==
    ASSUME IInv, UNCHANGED distro, NEW what \in {"answered", "lost"}, Finish(what), NEW cs, Cancel(cs),
           worker # "idle",
           handler' = handler, mine' = mine, conn' = conn, current' \in {0, current},
           line' = line, cmd' = cmd,
           answer' \in [CmdStreams -> 0 .. MaxCmds],
           \A y \in CmdStreams : answer'[y] = answer[y] \/ answer'[y] = 0,
           worker = "await" => \/ holding \in cs \/ ~client[holding].open
                               \/ \A x \in CmdStreams : x = Wire => Clean(x)'
    PROVE  IInv'
<1> USE StreamFacts
<1>0. LineType /\ HandlerType /\ ClientType /\ WorkerType /\ LoopType
  BY DEF IInv, Types
<1>1. /\ worker' = "idle" /\ holding' = 0 /\ outcome' = what
      /\ job' = [to |-> "pro", n |-> job.n, token |-> FALSE]
  BY DEF Finish
<1>2. DistroSame
  BY DEF DistroSame, distro, daemonVars, loopVars, effects
<1>3. job'.n = job.n
  BY <1>1
<1>4. LineType' /\ LoopType'
  BY <1>0, <1>2 DEF LineType, LoopType, DistroSame
<1>5. HandlerType'
  BY <1>0 DEF HandlerType
<1>6. WorkerType'
  BY <1>0, <1>1 DEF WorkerType
<1>7. ClientType' /\ HeldInv'
  BY <1>0, CancelFacts, Zenon
<1>8. /\ \A c \in Clients : c \notin Held' => client'[c] = NoClient
      /\ \A c \in Clients : c \in Held' => /\ client'[c].set = client[c].set
                                           /\ client'[c].open => client[c].open
                                           /\ client'[c].open => c \notin cs
  BY <1>0, CancelFacts, Zenon
<1>9. \A c \in Clients, s \in StreamKinds : client'[c].set[s] # 0 => client'[c].set[s] = client[c].set[s]
  BY <1>8, NoClientFacts, Zenon
<1>10. MineInv'
  BY DEF MineInv, IInv, ClientInv
<1>11. PlaceInv' /\ OneInv'
  BY <1>9 DEF PlaceInv, OneInv, IInv, ClientInv
<1>12. ReadyInv'
  <2>1. conn # 0 => conn \in Clients /\ conn \in Held'
    BY <1>0 DEF HandlerType, Held
  <2>2. conn # 0 => \A s \in StreamKinds : client'[conn].set[s] # 0
    BY <2>1, <1>8 DEF ReadyInv, Ready, IInv, ClientInv
  <2> QED BY <2>2, <1>1 DEF ReadyInv, Ready
<1>13. \A x \in CmdStreams : Clean(x) => Clean(x)'
  BY <1>2 DEF Clean, DistroSame
<1>14. NewInv'
  BY <1>13 DEF NewInv, IInv, WireInv
<1>15. OpenInv'
  <2> SUFFICES ASSUME NEW c \in Clients, NEW x \in CmdStreams, client'[c].open, client'[c].set[x[2]] = x[1]
               PROVE  Clean(x)'
    BY DEF OpenInv
  <2>1. c \in Held'
    BY <1>8, NoClientFacts
  <2>2. client[c].open /\ client[c].set[x[2]] = x[1] /\ c \notin cs
    BY <1>8, <2>1
  <2>3. CASE Clean(x)
    BY <2>3, <1>13
  <2>4. CASE worker = "await" /\ holding = c /\ job.to = x[2]
    <3>1. x = Wire
      BY <2>2, <2>4, WireIsAStream DEF IInv, ClientInv
    <3> QED BY <3>1, <2>2, <2>4
  <2> QED BY <2>2, <2>3, <2>4 DEF OpenInv, IInv, WireInv
<1>16. ExclInv' /\ CarryInv'
  BY <1>1, <1>2 DEF ExclInv, CarryInv, DistroSame, IInv, WireInv
<1>17. AttInv' /\ LoopInv' /\ OrderInv'
  BY <1>2 DEF AttInv, LoopInv, OrderInv, DistroSame, IInv, CmdInv
<1>18. SentInv'
  BY <1>1, <1>2, <1>3 DEF SentInv, Done, DistroSame, IInv, CmdInv
<1>19. DoneInv'
  <2>1. (\A i \in 1 .. Len(executed) : executed[i].n \in 1 .. job.n)'
    BY <1>2, <1>3 DEF DoneInv, IInv, CmdInv, DistroSame
  <2>2. (\A x \in CmdStreams : loop[x] \in Busy => Done(seen[x].n))'
    BY <1>2 DEF DoneInv, IInv, CmdInv, DistroSame, Done
  <2>3. (\A x \in CmdStreams : answer[x] # 0 => Done(answer[x]))'
    BY <1>2 DEF DoneInv, IInv, CmdInv, DistroSame, Done
  <2> QED BY <2>1, <2>2, <2>3, Zenon DEF DoneInv
<1> QED
  BY <1>4, <1>5, <1>6, <1>7, <1>10, <1>11, <1>12, <1>14, <1>15, <1>16, <1>17, <1>18, <1>19
  DEF IInv, Types, ClientInv, WireInv, CmdInv

LEMMA WorkerStepKeeps ==
    ASSUME IInv, WorkerStep, UNCHANGED distro
    PROVE  IInv'
<1>0. LineType /\ WorkerType
  BY DEF IInv, Types
<1>1. CASE SendCmd
  BY <1>1, SendCmdKeeps
<1>2. CASE SendRefused
  <2>1. /\ worker = "send" /\ Finish("lost") /\ Cancel({})
        /\ handler' = handler /\ mine' = mine /\ current' = current /\ conn' = conn
        /\ line' = line /\ cmd' = cmd /\ answer' = answer
    BY <1>2 DEF SendRefused, transport
  <2>2. PICK cs : cs = {}
    OBVIOUS
  <2>3. Cancel(cs)
    BY <2>1, <2>2
  <2>4. answer' \in [CmdStreams -> 0 .. MaxCmds] /\ \A y \in CmdStreams : answer'[y] = answer[y] \/ answer'[y] = 0
    BY <1>0, <2>1 DEF LineType
  <2>5. PICK what : what = "lost"
    OBVIOUS
  <2>6. Finish(what) /\ what \in {"answered", "lost"}
    BY <2>1, <2>5
  <2>7. worker # "idle" /\ worker # "await" /\ current' \in {0, current}
    BY <2>1
  <2> QED BY <2>1, <2>3, <2>4, <2>6, <2>7, FinishKeeps
<1>3. CASE SendOrRecvFails
  <2>1. /\ worker # "idle" /\ Finish("lost") /\ Cancel({holding})
        /\ handler' = handler /\ mine' = mine /\ current' = 0 /\ conn' = conn
        /\ line' = line /\ cmd' = cmd /\ answer' = answer
    BY <1>3 DEF SendOrRecvFails, transport
  <2>2. PICK cs : cs = {holding}
    OBVIOUS
  <2>3. Cancel(cs) /\ holding \in cs
    BY <2>1, <2>2
  <2>4. answer' \in [CmdStreams -> 0 .. MaxCmds] /\ \A y \in CmdStreams : answer'[y] = answer[y] \/ answer'[y] = 0
    BY <1>0, <2>1 DEF LineType
  <2>5. PICK what : what = "lost"
    OBVIOUS
  <2>6. Finish(what) /\ what \in {"answered", "lost"}
    BY <2>1, <2>5
  <2>7. current' \in {0, current}
    BY <2>1
  <2> QED BY <2>1, <2>3, <2>4, <2>6, <2>7, FinishKeeps
<1>4. CASE RecvResult
  <2>1. /\ worker = "await" /\ answer[Wire] # 0 /\ answer' = [answer EXCEPT ![Wire] = 0]
        /\ Finish("answered") /\ Cancel({})
        /\ handler' = handler /\ mine' = mine /\ current' = current /\ conn' = conn
        /\ line' = line /\ cmd' = cmd
    BY <1>4 DEF RecvResult
  <2>2. PICK w : w = Wire
    OBVIOUS
  <2>3. w \in CmdStreams
    BY <2>1, <2>2, WireIsAStream DEF IInv, ClientInv
  <2>4. \A y \in CmdStreams : answer'[y] = IF y = w THEN 0 ELSE answer[y]
    BY <1>0, <2>1, <2>2, <2>3 DEF LineType
  <2>5. answer' \in [CmdStreams -> 0 .. MaxCmds]
    BY <1>0, <2>1, <2>2, <2>3, LinkAssumption DEF LineType
  <2>6. DistroSame
    BY DEF DistroSame, distro, daemonVars, loopVars, effects
  <2>7. \A x \in CmdStreams : x = Wire => Clean(x)'
    BY <2>1, <2>2, <2>3, <2>4, <2>6 DEF Clean, DistroSame, ExclInv, IInv, WireInv
  <2>8. PICK cs : cs = {}
    OBVIOUS
  <2>9. Cancel(cs)
    BY <2>1, <2>8
  <2>10. PICK what : what = "answered"
    OBVIOUS
  <2>11. Finish(what) /\ what \in {"answered", "lost"}
    BY <2>1, <2>10
  <2>12. \A y \in CmdStreams : answer'[y] = answer[y] \/ answer'[y] = 0
    BY <2>4
  <2>13. worker # "idle" /\ current' \in {0, current}
    BY <2>1
  <2> QED BY <2>1, <2>5, <2>7, <2>9, <2>11, <2>12, <2>13, FinishKeeps
<1> QED BY <1>1, <1>2, <1>3, <1>4 DEF WorkerStep

LEMMA AgentStepKeeps ==
    ASSUME IInv, AgentStep, UNCHANGED distro
    PROVE  IInv'
<1>1. ASSUME NEW t \in Tasks, t[1] \in Commands, TakeConnection(t[1], t[2])
      PROVE  IInv'
  <2>1. t[2] \in BOOLEAN
    <3>1. t = <<"pro", TRUE>> \/ t = <<"pro", FALSE>> \/ t = <<"lpe", FALSE>>
      BY <1>1 DEF Tasks
    <3>2. t[2] = TRUE \/ t[2] = FALSE
      BY <3>1
    <3> QED BY <3>2
  <2> QED BY <1>1, <2>1, TakeConnectionKeeps
<1> QED BY <1>1, HandlerStepKeeps, NoticesKeeps, WorkerStepKeeps, InstallKeeps DEF AgentStep

-----------------------------------------------------------------------------
(* Steps of the distro.                                                    *)

LEMMA AgentSame ==
    ASSUME IInv, UNCHANGED agent
    PROVE  /\ HandlerType' /\ ClientType' /\ WorkerType' /\ ClientInv'
           /\ handler' = handler /\ client' = client /\ worker' = worker /\ holding' = holding /\ job' = job
           /\ Wire' = Wire
<1>1. /\ handler' = handler /\ mine' = mine /\ client' = client /\ current' = current /\ conn' = conn
      /\ worker' = worker /\ holding' = holding /\ job' = job /\ outcome' = outcome
  BY DEF agent, clientVars, workerVars
<1>2. HandlerType' /\ ClientType' /\ WorkerType'
  BY <1>1 DEF HandlerType, ClientType, WorkerType, IInv, Types
<1>3. MineInv' /\ HeldInv' /\ PlaceInv' /\ OneInv'
  BY <1>1 DEF MineInv, HeldInv, Held, PlaceInv, OneInv, IInv, ClientInv
<1>4. ReadyInv'
  BY <1>1 DEF ReadyInv, Ready, IInv, ClientInv
<1> QED BY <1>1, <1>2, <1>3, <1>4 DEF ClientInv, Wire

LEMMA CleanKeeps ==
    ASSUME IInv, UNCHANGED agent, \A x \in CmdStreams : Clean(x) => Clean(x)'
    PROVE  NewInv' /\ OpenInv'
BY AgentSame DEF IInv, WireInv, NewInv, OpenInv

\* A step that brings nothing new to any stream.
LEMMA CalmCmds ==
    ASSUME IInv, worker' = worker, job' = job, executed' = executed,
           \A x \in CmdStreams : cmd'[x] = cmd[x] \/ cmd'[x] = None,
           \A x \in CmdStreams : answer'[x] = answer[x] \/ answer'[x] = 0,
           \A x \in CmdStreams : loop'[x] \in Busy => loop[x] \in Busy /\ seen'[x] = seen[x],
           \A x \in CmdStreams : loop'[x] # "off" /\ cmd'[x] # None => loop[x] # "off"
    PROVE  ExclInv' /\ SentInv' /\ DoneInv' /\ OrderInv'
<1>1. ExclInv'
  BY DEF ExclInv, IInv, WireInv
<1>2. SentInv'
  <2>1. (\A x \in CmdStreams : cmd[x] # None => cmd[x].n \in 1 .. job.n /\ ~Done(cmd[x].n))'
    BY DEF SentInv, IInv, CmdInv, Done
  <2>2. (\A x, y \in CmdStreams : cmd[x] # None /\ cmd[y] # None /\ cmd[x].n = cmd[y].n => x = y)'
    BY DEF SentInv, IInv, CmdInv
  <2>3. (worker = "send" => job.n # 0 /\ ~Done(job.n) /\ \A x \in CmdStreams : cmd[x].n # job.n)'
    <3>1. worker = "send" => job.n # 0 /\ ~Done(job.n) /\ \A x \in CmdStreams : cmd'[x].n # job.n
      BY NoneFacts DEF SentInv, IInv, CmdInv
    <3> QED BY <3>1 DEF Done
  <2> QED BY <2>1, <2>2, <2>3, Zenon DEF SentInv
<1>3. DoneInv'
  <2>1. (\A i \in 1 .. Len(executed) : executed[i].n \in 1 .. job.n)'
    BY DEF DoneInv, IInv, CmdInv
  <2>2. (\A x \in CmdStreams : loop[x] \in Busy => Done(seen[x].n))'
    BY DEF DoneInv, IInv, CmdInv, Done
  <2>3. (\A x \in CmdStreams : answer[x] # 0 => Done(answer[x]))'
    BY DEF DoneInv, IInv, CmdInv, Done
  <2> QED BY <2>1, <2>2, <2>3, Zenon DEF DoneInv
<1>4. OrderInv'
  BY DEF OrderInv, IInv, CmdInv
<1> QED BY <1>1, <1>2, <1>3, <1>4

\* The same of a step of the distro.
LEMMA CalmKeeps ==
    ASSUME IInv, UNCHANGED agent, LineType', LoopType', AttInv', LoopInv',
           \A x \in CmdStreams : cmd'[x] = cmd[x] \/ cmd'[x] = None,
           answer' = answer, executed' = executed,
           \A x \in CmdStreams : loop'[x] \in Busy => loop[x] \in Busy /\ seen'[x] = seen[x],
           \A x \in CmdStreams : loop'[x] # "off" => loop[x] # "off"
    PROVE  IInv'
<1>1. \A x \in CmdStreams : Clean(x) => Clean(x)'
  BY DEF Clean
<1>2. NewInv' /\ OpenInv'
  BY <1>1, CleanKeeps
<1>3. CarryInv'
  BY AgentSame DEF CarryInv, IInv, WireInv
<1>4. ExclInv' /\ SentInv' /\ DoneInv' /\ OrderInv'
  BY AgentSame, CalmCmds
<1> QED
  BY <1>2, <1>3, <1>4, AgentSame DEF IInv, Types, WireInv, CmdInv

\* The daemon goes on, and nothing else.
LEMMA DaemonMoves ==
    ASSUME IInv, UNCHANGED agent, att' = att, loop' = loop, seen' = seen, executed' = executed,
           line' = line, cmd' = cmd, answer' = answer,
           att # 0 <=> daemon' \in {"greet", "serving"}
    PROVE  IInv'
<1>1. LineType' /\ LoopType'
  BY DEF LineType, LoopType, IInv, Types
<1>2. AttInv'
  BY DEF AttInv
<1>3. LoopInv'
  BY DEF LoopInv, IInv, CmdInv
<1> QED BY <1>1, <1>2, <1>3, CalmKeeps

LEMMA HangUpKeeps ==
    ASSUME IInv, UNCHANGED agent, NEW pc \in {"wait", "exited"}, HangUp(pc), seen' = seen,
           executed' = executed, att # 0
    PROVE  IInv'
<1>0. LineType /\ LoopType
  BY DEF IInv, Types
<1>1. /\ line' = [line EXCEPT ![att] = "closed"]
      /\ cmd' = [x \in CmdStreams |-> IF x[1] = att THEN None ELSE cmd[x]]
      /\ answer' = answer
      /\ loop' = [x \in CmdStreams |-> IF x[1] = att /\ loop[x] \in {"end", "out"} THEN "off"
                                       ELSE loop[x]]
      /\ att' = 0 /\ daemon' = pc
  BY DEF HangUp, CloseLine
<1>2. LineType'
  <2>1. line' \in [Attempts -> {"free", "up", "cut", "closed"}]
    BY <1>0, <1>1 DEF LineType
  <2>2. cmd' \in [CmdStreams -> Cmds \cup {None}]
    BY <1>0, <1>1 DEF LineType
  <2> QED BY <2>1, <2>2, <1>0, <1>1 DEF LineType
<1>3. LoopType'
  BY <1>0, <1>1 DEF LoopType
<1>4. AttInv'
  BY <1>1 DEF AttInv
<1>5. LoopInv'
  <2> SUFFICES ASSUME NEW x \in CmdStreams, loop'[x] # "off"
               PROVE  line'[x[1]] = "closed" /\ cmd'[x] = None
    BY DEF LoopInv
  <2>1. loop[x] # "off" /\ x[1] \in Attempts
    BY <1>1, StreamFacts
  <2>2. CASE x[1] = att
    BY <2>1, <2>2, <1>0, <1>1 DEF LineType
  <2>3. CASE x[1] # att
    BY <2>1, <2>3, <1>0, <1>1 DEF LineType, LoopInv, IInv, CmdInv
  <2> QED BY <2>2, <2>3
<1>6. /\ \A x \in CmdStreams : cmd'[x] = cmd[x] \/ cmd'[x] = None
      /\ \A x \in CmdStreams : loop'[x] \in Busy => loop[x] \in Busy /\ seen'[x] = seen[x]
      /\ \A x \in CmdStreams : loop'[x] # "off" => loop[x] # "off"
  BY <1>1 DEF Busy
<1> QED BY <1>1, <1>2, <1>3, <1>4, <1>5, <1>6, CalmKeeps

LEMMA QuitKeeps ==
    ASSUME IInv, UNCHANGED agent, NEW how, Quit(how)
    PROVE  IInv'
<1>0. LineType /\ LoopType
  BY DEF IInv, Types
<1>1. daemon' = daemon /\ att' = att /\ loop' = loop /\ seen' = seen /\ executed' = executed
  BY DEF Quit, loopVars, effects
<1>2. CASE how = "force" /\ att # 0
  <2>1. /\ line' = [line EXCEPT ![att] = "closed"]
        /\ cmd' = [x \in CmdStreams |-> IF x[1] = att THEN None ELSE cmd[x]]
        /\ answer' = answer
    BY <1>2 DEF Quit, CloseLine
  <2>2. LineType'
    <3>1. line' \in [Attempts -> {"free", "up", "cut", "closed"}]
      BY <1>0, <2>1 DEF LineType
    <3>2. cmd' \in [CmdStreams -> Cmds \cup {None}]
      BY <1>0, <2>1 DEF LineType
    <3> QED BY <3>1, <3>2, <1>0, <2>1 DEF LineType
  <2>3. LoopType' /\ AttInv'
    BY <1>0, <1>1 DEF LoopType, AttInv, IInv, CmdInv
  <2>4. LoopInv'
    BY <1>0, <1>1, <2>1, StreamFacts DEF LineType, LoopInv, IInv, CmdInv
  <2>5. \A x \in CmdStreams : cmd'[x] = cmd[x] \/ cmd'[x] = None
    BY <2>1
  <2> QED BY <1>1, <2>1, <2>2, <2>3, <2>4, <2>5, CalmKeeps
<1>3. CASE ~(how = "force" /\ att # 0)
  <2>1. line' = line /\ cmd' = cmd /\ answer' = answer
    BY <1>3 DEF Quit
  <2>2. att # 0 <=> daemon' \in {"greet", "serving"}
    BY <1>1 DEF AttInv, IInv, CmdInv
  <2> QED BY <1>1, <2>1, <2>2, DaemonMoves
<1> QED BY <1>2, <1>3

LEMMA DaemonStepKeeps ==
    ASSUME IInv, UNCHANGED agent, DaemonStep \/ ServeFails
    PROVE  IInv'
<1>0. att # 0 <=> daemon \in {"greet", "serving"}
  BY DEF AttInv, IInv, CmdInv
<1>1. CASE ServeStarts \/ Ensured \/ ServeQuits \/ ServeFails
  <2>1. /\ daemon \in {"new", "ensure", "wait"} /\ daemon' \in {"ensure", "wait", "exited"} /\ att' = att
        /\ loop' = loop /\ seen' = seen /\ executed' = executed
        /\ line' = line /\ cmd' = cmd /\ answer' = answer
    BY <1>1 DEF ServeStarts, Ensured, ServeQuits, ServeFails, loopVars, effects, transport
  <2>2. att = 0
    BY <1>0, <2>1
  <2> QED BY <2>1, <2>2, DaemonMoves
<1>2. CASE MinutePasses \/ GracefulStop \/ QuitReturns
  <2>1. /\ daemon' = daemon /\ att' = att /\ loop' = loop /\ seen' = seen /\ executed' = executed
        /\ line' = line /\ cmd' = cmd /\ answer' = answer
    BY <1>2 DEF MinutePasses, GracefulStop, QuitReturns, daemonVars, loopVars, effects, transport
  <2> QED BY <2>1, <1>0, DaemonMoves
<1>3. CASE Greet
  <2>1. /\ daemon = "greet" /\ daemon' \in {"greet", "serving"} /\ att' = att
        /\ loop' = loop /\ seen' = seen /\ executed' = executed
        /\ line' = line /\ cmd' = cmd /\ answer' = answer
    BY <1>3 DEF Greet, loopVars, effects
  <2> QED BY <2>1, <1>0, DaemonMoves
<1>4. CASE GreetFails \/ InfoFails \/ ServerEnds
  <2>1. seen' = seen /\ executed' = executed
    BY <1>4 DEF GreetFails, InfoFails, ServerEnds, effects
  <2>2. \E pc \in {"wait", "exited"} : HangUp(pc)
    BY <1>4 DEF GreetFails, InfoFails, ServerEnds
  <2>3. att # 0
    BY <1>4, <1>0 DEF GreetFails, InfoFails, ServerEnds
  <2> QED BY <2>1, <2>2, <2>3, HangUpKeeps
<1> QED BY <1>1, <1>2, <1>3, <1>4 DEF DaemonStep

\* A loop goes on, with no command that it did not have.
LEMMA LoopMoves ==
    ASSUME IInv, UNCHANGED agent, NEW x \in CmdStreams, NEW to, LoopTo(x, to), loop[x] # "off",
           to \in {"off", "recv", "exec", "attach", "reply", "info", "send", "end", "out"},
           to \in Busy => loop[x] \in Busy /\ seen' = seen,
           seen' = seen \/ seen' = [seen EXCEPT ![x] = None],
           cmd' = cmd \/ cmd' = [cmd EXCEPT ![x] = None],
           line' = line, answer' = answer, att' = att, daemon' = daemon, executed' = executed
    PROVE  IInv'
<1>0. LineType /\ LoopType
  BY DEF IInv, Types
<1>1. \A y \in CmdStreams : loop'[y] = IF y = x THEN to ELSE loop[y]
  BY <1>0 DEF LoopTo, LoopType
<1>2. \A y \in CmdStreams : cmd'[y] = cmd[y] \/ cmd'[y] = None
  BY <1>0 DEF LineType
<1>3. \A y \in CmdStreams : seen'[y] = seen[y] \/ (y = x /\ to \notin Busy)
  BY <1>0 DEF LoopType
<1>4. LineType'
  BY <1>0 DEF LineType
<1>5. LoopType'
  BY <1>0 DEF LoopType, LoopTo
<1>6. AttInv' /\ LoopInv'
  BY <1>1, <1>2 DEF AttInv, LoopInv, IInv, CmdInv
<1>7. /\ \A y \in CmdStreams : loop'[y] \in Busy => loop[y] \in Busy /\ seen'[y] = seen[y]
      /\ \A y \in CmdStreams : loop'[y] # "off" => loop[y] # "off"
  BY <1>1, <1>3
<1> QED BY <1>2, <1>4, <1>5, <1>6, <1>7, CalmKeeps

LEMMA RecvCmdKeeps ==
    ASSUME IInv, UNCHANGED agent, NEW x \in CmdStreams, RecvCmd(x)
    PROVE  IInv'
<1>0. LineType /\ LoopType
  BY DEF IInv, Types
<1>1. /\ loop[x] = "recv" /\ cmd[x] # None
      /\ seen' = [seen EXCEPT ![x] = cmd[x]] /\ cmd' = [cmd EXCEPT ![x] = None]
      /\ executed' = Append(executed, [to |-> x[2], n |-> cmd[x].n])
      /\ loop' = [loop EXCEPT ![x] = "exec"]
      /\ line' = line /\ answer' = answer /\ att' = att /\ daemon' = daemon
  BY DEF RecvCmd, LoopTo, daemonVars
<1>2. PICK n : n = cmd[x].n
  OBVIOUS
<1>3. n \in 1 .. MaxCmds /\ n \in 1 .. job.n /\ ~Done(n) /\ x[2] \in Commands /\ x[1] = att
  <2>1. cmd[x] \in Cmds
    BY <1>0, <1>1 DEF LineType
  <2> QED BY <2>1, <1>1, <1>2, NoneFacts, StreamFacts DEF SentInv, LoopInv, IInv, CmdInv
<1>4. \A y \in CmdStreams : /\ loop'[y] = IF y = x THEN "exec" ELSE loop[y]
                            /\ seen'[y] = IF y = x THEN cmd[x] ELSE seen[y]
                            /\ cmd'[y] = IF y = x THEN None ELSE cmd[y]
  BY <1>0, <1>1 DEF LineType, LoopType
<1>5. PICK e : e = [to |-> x[2], n |-> n]
  OBVIOUS
<1>6. e \in [to : Commands, n : 1 .. MaxCmds] /\ e.to = x[2] /\ e.n = n
  BY <1>3, <1>5
<1>7. /\ executed' \in Seq([to : Commands, n : 1 .. MaxCmds])
      /\ Len(executed') = Len(executed) + 1
      /\ \A i \in 1 .. Len(executed) : executed'[i] = executed[i]
      /\ executed'[Len(executed) + 1] = e
  BY <1>0, <1>1, <1>2, <1>5, <1>6 DEF LoopType
<1>8. Len(executed) \in Nat
  BY <1>0 DEF LoopType
<1>9. LineType'
  BY <1>0, <1>1 DEF LineType
<1>10. LoopType'
  <2>1. cmd[x] \in Cmds \cup {None}
    BY <1>0 DEF LineType
  <2> QED BY <1>0, <1>1, <1>7, <2>1 DEF LoopType
<1>11. AttInv' /\ LoopInv'
  BY <1>1, <1>3, <1>4 DEF AttInv, LoopInv, IInv, CmdInv
<1>12. \A y \in CmdStreams : Clean(y) => Clean(y)'
  BY <1>1, <1>4 DEF Clean
<1>13. NewInv' /\ OpenInv'
  BY <1>12, CleanKeeps
<1>14. ExclInv'
  BY <1>1, <1>4 DEF ExclInv, Busy, IInv, WireInv
<1>15. CarryInv'
  BY <1>1, <1>4, AgentSame DEF CarryInv, Busy, IInv, WireInv
<1>16. \A m : Done(m)' <=> Done(m) \/ m = n
  <2>1. 1 .. Len(executed') = (1 .. Len(executed)) \cup {Len(executed) + 1}
    BY <1>7, <1>8
  <2> QED BY <2>1, <1>6, <1>7 DEF Done
<1>17. SentInv'
  <2>1. (\A y \in CmdStreams : cmd[y] # None => cmd[y].n \in 1 .. job.n /\ ~Done(cmd[y].n))'
    <3> SUFFICES ASSUME NEW y \in CmdStreams, cmd'[y] # None
                 PROVE  cmd'[y].n \in 1 .. job.n /\ ~Done(cmd[y].n)'
      BY AgentSame
    <3>1. y # x /\ cmd'[y] = cmd[y]
      BY <1>4
    <3>2. cmd[y].n \in 1 .. job.n /\ ~Done(cmd[y].n) /\ cmd[y].n # n
      BY <3>1, <1>1, <1>2 DEF SentInv, IInv, CmdInv
    <3>3. PICK m : m = cmd[y].n
      OBVIOUS
    <3>4. ~Done(m)'
      BY <3>2, <3>3, <1>16
    <3> QED BY <3>1, <3>2, <3>3, <3>4 DEF Done
  <2>2. (\A y, z \in CmdStreams : cmd[y] # None /\ cmd[z] # None /\ cmd[y].n = cmd[z].n => y = z)'
    BY <1>4 DEF SentInv, IInv, CmdInv
  <2>3. (worker = "send" => job.n # 0 /\ ~Done(job.n) /\ \A y \in CmdStreams : cmd[y].n # job.n)'
    <3>1. worker = "send" => job.n # 0 /\ ~Done(job.n) /\ job.n # n /\ \A y \in CmdStreams : cmd'[y].n # job.n
      BY <1>2, <1>4, NoneFacts DEF SentInv, IInv, CmdInv
    <3>2. PICK m : m = job.n
      OBVIOUS
    <3>3. worker = "send" => ~Done(m)'
      BY <3>1, <3>2, <1>16
    <3> QED BY <3>1, <3>2, <3>3, AgentSame DEF Done
  <2> QED BY <2>1, <2>2, <2>3, Zenon DEF SentInv
<1>18. DoneInv'
  <2>1. (\A i \in 1 .. Len(executed) : executed[i].n \in 1 .. job.n)'
    <3>1. \A i \in 1 .. Len(executed') : executed'[i].n \in 1 .. job.n
      BY <1>3, <1>6, <1>7, <1>8 DEF DoneInv, IInv, CmdInv
    <3> QED BY <3>1, AgentSame
  <2>2. (\A y \in CmdStreams : loop[y] \in Busy => Done(seen[y].n))'
    <3> SUFFICES ASSUME NEW y \in CmdStreams, loop'[y] \in Busy PROVE Done(seen[y].n)'
      OBVIOUS
    <3>1. PICK m : m = seen'[y].n
      OBVIOUS
    <3>2. Done(m) \/ m = n
      BY <3>1, <1>2, <1>4 DEF DoneInv, IInv, CmdInv
    <3>3. Done(m)'
      BY <3>2, <1>16
    <3> QED BY <3>1, <3>3 DEF Done
  <2>3. (\A y \in CmdStreams : answer[y] # 0 => Done(answer[y]))'
    <3> SUFFICES ASSUME NEW y \in CmdStreams, answer[y] # 0 PROVE Done(answer[y])'
      BY <1>1
    <3>1. PICK m : m = answer[y]
      OBVIOUS
    <3>2. Done(m)'
      BY <3>1, <1>16 DEF DoneInv, IInv, CmdInv
    <3> QED BY <3>1, <3>2, <1>1 DEF Done
  <2> QED BY <2>1, <2>2, <2>3, Zenon DEF DoneInv
<1>19. OrderInv'
  <2> SUFFICES ASSUME NEW y \in CmdStreams, loop'[y] # "off", cmd'[y] # None,
                      NEW i \in 1 .. Len(executed'), executed'[i].to = y[2]
               PROVE  executed'[i].n < cmd'[y].n
    BY DEF OrderInv
  <2>1. y # x /\ cmd'[y] = cmd[y] /\ loop'[y] = loop[y] /\ y[1] = att
    BY <1>4 DEF LoopInv, IInv, CmdInv
  <2>2. y[2] # x[2]
    BY <2>1, <1>3, StreamFacts
  <2>3. i \in 1 .. Len(executed) /\ executed'[i] = executed[i]
    BY <2>2, <1>6, <1>7, <1>8
  <2> QED BY <2>1, <2>3 DEF OrderInv, IInv, CmdInv
<1> QED
  BY <1>9, <1>10, <1>11, <1>13, <1>14, <1>15, <1>17, <1>18, <1>19, AgentSame
  DEF IInv, Types, WireInv, CmdInv

LEMMA SendResultKeeps ==
    ASSUME IInv, UNCHANGED agent, NEW x \in CmdStreams, SendResult(x)
    PROVE  IInv'
<1>0. LineType /\ LoopType
  BY DEF IInv, Types
<1>1. /\ loop[x] = "reply" /\ loop' = [loop EXCEPT ![x] = "info"]
      /\ answer' = answer \/ answer' = [answer EXCEPT ![x] = seen[x].n]
      /\ seen' = seen /\ executed' = executed /\ line' = line /\ cmd' = cmd /\ att' = att /\ daemon' = daemon
  BY DEF SendResult, LoopTo, daemonVars, effects
<1>2. \A y \in CmdStreams : loop'[y] = IF y = x THEN "info" ELSE loop[y]
  BY <1>0, <1>1 DEF LoopType
<1>3. \A y \in CmdStreams : answer'[y] = answer[y] \/ (y = x /\ answer'[y] = seen[x].n)
  BY <1>0, <1>1 DEF LineType
<1>4. seen[x].n \in 0 .. MaxCmds /\ Done(seen[x].n)
  <2>1. seen[x] \in Cmds \cup {None}
    BY <1>0 DEF LoopType
  <2>2. seen[x].n \in 0 .. MaxCmds
    BY <2>1, NoneFacts, LinkAssumption
  <2> QED BY <2>2, <1>1 DEF DoneInv, Busy, IInv, CmdInv
<1>5. LineType'
  BY <1>0, <1>1, <1>4 DEF LineType
<1>6. LoopType'
  BY <1>0, <1>1 DEF LoopType
<1>7. AttInv' /\ LoopInv' /\ OrderInv'
  BY <1>1, <1>2 DEF AttInv, LoopInv, OrderInv, IInv, CmdInv
<1>8. \A y \in CmdStreams : Clean(y) => Clean(y)'
  BY <1>1, <1>2, <1>3 DEF Clean, Busy
<1>9. NewInv' /\ OpenInv'
  BY <1>8, CleanKeeps
<1>10. cmd[x] = None
  BY <1>1 DEF ExclInv, Busy, IInv, WireInv
<1>11. ExclInv'
  BY <1>1, <1>2, <1>3, <1>10 DEF ExclInv, Busy, IInv, WireInv
<1>12. CarryInv'
  BY <1>1, <1>2, <1>3, AgentSame DEF CarryInv, Busy, IInv, WireInv
<1>13. SentInv'
  BY <1>1, AgentSame DEF SentInv, Done, IInv, CmdInv
<1>14. DoneInv'
  <2>1. (\A i \in 1 .. Len(executed) : executed[i].n \in 1 .. job.n)'
    BY <1>1, AgentSame DEF DoneInv, IInv, CmdInv
  <2>2. (\A y \in CmdStreams : loop[y] \in Busy => Done(seen[y].n))'
    BY <1>1, <1>2 DEF DoneInv, IInv, CmdInv, Done, Busy
  <2>3. (\A y \in CmdStreams : answer[y] # 0 => Done(answer[y]))'
    BY <1>1, <1>3, <1>4 DEF DoneInv, IInv, CmdInv, Done
  <2> QED BY <2>1, <2>2, <2>3, Zenon DEF DoneInv
<1> QED
  BY <1>5, <1>6, <1>7, <1>9, <1>11, <1>12, <1>13, <1>14, AgentSame
  DEF IInv, Types, WireInv, CmdInv

LEMMA LoopStepKeeps ==
    ASSUME IInv, UNCHANGED agent, NEW x \in CmdStreams, LoopStep(x)
    PROVE  IInv'
<1>1. CASE RecvCmd(x)
  BY <1>1, RecvCmdKeeps
<1>2. CASE SendResult(x)
  BY <1>2, SendResultKeeps
<1>3. CASE RecvStops(x) \/ SendResultFails(x)
  <2>1. PICK to : to \in {"end", "off"} /\ LoopTo(x, to)
    BY <1>3 DEF RecvStops, SendResultFails, Exit
  <2>2. /\ loop[x] # "off"
        /\ seen' = seen \/ seen' = [seen EXCEPT ![x] = None]
        /\ cmd' = cmd \/ cmd' = [cmd EXCEPT ![x] = None]
        /\ line' = line /\ answer' = answer /\ att' = att /\ daemon' = daemon /\ executed' = executed
    BY <1>3 DEF RecvStops, SendResultFails, daemonVars, effects, transport
  <2>3. to \notin Busy
    BY <2>1 DEF Busy
  <2> QED BY <2>1, <2>2, <2>3, LoopMoves
<1>4. CASE Exec(x) \/ Attach(x)
  <2>1. PICK to : to \in Busy /\ LoopTo(x, to)
    BY <1>4 DEF Exec, Attach, Busy
  <2>2. /\ loop[x] \in Busy /\ seen' = seen /\ cmd' = cmd
        /\ line' = line /\ answer' = answer /\ att' = att /\ daemon' = daemon /\ executed' = executed
    BY <1>4 DEF Exec, Attach, Busy, daemonVars, transport
  <2>3. loop[x] # "off" /\ to \in {"off", "recv", "exec", "attach", "reply", "info", "send", "end", "out"}
    BY <2>1, <2>2 DEF Busy
  <2> QED BY <2>1, <2>2, <2>3, LoopMoves
<1>5. CASE GatherInfo(x) \/ SendInfo(x) \/ LoopEnds(x)
  <2>1. PICK to : to \in {"send", "recv", "out"} /\ LoopTo(x, to)
    BY <1>5 DEF GatherInfo, SendInfo, LoopEnds
  <2>2. /\ loop[x] # "off" /\ cmd' = cmd
        /\ seen' = seen \/ seen' = [seen EXCEPT ![x] = None]
        /\ line' = line /\ answer' = answer /\ att' = att /\ daemon' = daemon /\ executed' = executed
    BY <1>5 DEF GatherInfo, SendInfo, LoopEnds, daemonVars, effects, transport
  <2>3. to \notin Busy
    BY <2>1 DEF Busy
  <2> QED BY <2>1, <2>2, <2>3, LoopMoves
<1> QED BY <1>1, <1>2, <1>3, <1>4, <1>5 DEF LoopStep

LEMMA FaultKeeps ==
    ASSUME IInv, UNCHANGED agent, Crash \/ \E k \in Attempts : Cut(k)
    PROVE  IInv'
<1>0. LineType /\ LoopType
  BY DEF IInv, Types
<1>1. CASE Crash
  <2>1. /\ line' = [k \in Attempts |-> IF k = att THEN "cut" ELSE line[k]]
        /\ daemon' = "new" /\ att' = 0
        /\ loop' = [x \in CmdStreams |-> "off"] /\ seen' = [x \in CmdStreams |-> None]
        /\ cmd' = cmd /\ answer' = answer /\ executed' = executed
    BY <1>1 DEF Crash, effects
  <2>2. LineType' /\ LoopType' /\ AttInv' /\ LoopInv'
    BY <1>0, <2>1 DEF LineType, LoopType, AttInv, LoopInv
  <2>3. \A x \in CmdStreams : loop'[x] = "off" /\ loop'[x] \notin Busy
    BY <2>1 DEF Busy
  <2> QED BY <2>1, <2>2, <2>3, CalmKeeps
<1>2. ASSUME NEW k \in Attempts, Cut(k) PROVE IInv'
  <2>1. /\ line[k] = "up" /\ line' = [line EXCEPT ![k] = "cut"]
        /\ daemon' = daemon /\ att' = att /\ loop' = loop /\ seen' = seen
        /\ cmd' = cmd /\ answer' = answer /\ executed' = executed
    BY <1>2 DEF Cut, distro, daemonVars, loopVars, effects
  <2>2. LineType' /\ LoopType' /\ AttInv'
    BY <1>0, <2>1 DEF LineType, LoopType, AttInv, IInv, CmdInv
  <2>3. LoopInv'
    BY <1>0, <2>1 DEF LineType, LoopInv, IInv, CmdInv
  <2> QED BY <2>1, <2>2, <2>3, CalmKeeps
<1> QED BY <1>1, <1>2

LEMMA DistroStepKeeps ==
    ASSUME IInv, UNCHANGED agent, DistroStep
    PROVE  IInv'
BY DaemonStepKeeps, FaultKeeps, LoopStepKeeps, QuitKeeps DEF DistroStep

-----------------------------------------------------------------------------
(* A new attempt.                                                          *)

\* A number that is used again has no place in a client.
LEMMA UnusedIsInNoClient ==
    ASSUME IInv, NEW k \in Unused
    PROVE  \A c \in Clients, s \in StreamKinds : client[c].set[s] # k
<1> SUFFICES ASSUME NEW c \in Clients, NEW s \in StreamKinds PROVE client[c].set[s] # k
  OBVIOUS
<1>1. k # 0 /\ Forgotten(k)
  BY LinkAssumption DEF Unused
<1>2. CASE c \in Held
  <2>1. c # 0
    BY StreamFacts
  <2> QED BY <1>1, <1>2, <2>1 DEF Forgotten
<1>3. CASE c \notin Held
  BY <1>1, <1>3, NoClientFacts DEF HeldInv, IInv, ClientInv
<1> QED BY <1>2, <1>3

LEMMA OpenKeeps ==
    ASSUME IInv, NEW k \in Unused, NEW ss, Accept(k, ss),
           \/ Open(k)
           \/ OpenFails(k)
    PROVE  IInv'
<1> USE StreamFacts
<1>0. LineType /\ LoopType /\ HandlerType /\ ClientType /\ WorkerType
  BY DEF IInv, Types
<1>1. k \in Attempts /\ k # 0 /\ Forgotten(k) /\ \A s \in Commands : loop[<<k, s>>] \in {"off", "end", "out"}
  BY LinkAssumption DEF Unused
<1>2. /\ handler' = [x \in Streams |-> IF x[1] # k THEN handler[x]
                                      ELSE IF x[2] \in ss THEN "handshake" ELSE "none"]
      /\ mine' = mine /\ client' = client /\ current' = current /\ conn' = conn
      /\ worker' = worker /\ holding' = holding /\ job' = job /\ outcome' = outcome
  BY DEF Accept, clientVars, workerVars
<1>3. att = 0
  BY DEF Open, OpenFails, MayConnect, AttInv, IInv, CmdInv
<1>4. /\ line' = [line EXCEPT ![k] = "up"] \/ line' = [line EXCEPT ![k] = "closed"]
      /\ cmd' = [x \in CmdStreams |-> IF x[1] = k THEN None ELSE cmd[x]]
      /\ answer' = [x \in CmdStreams |-> IF x[1] = k THEN 0 ELSE answer[x]]
      /\ seen' = seen /\ executed' = executed
  BY DEF Open, OpenFails, OpenLine, loopVars, effects
<1>5. \/ /\ att' = k /\ daemon' = "greet"
         /\ loop' = [x \in CmdStreams |-> IF x[1] = k THEN "recv" ELSE loop[x]]
      \/ /\ att' = att /\ daemon' = daemon /\ loop' = loop
         /\ line' = [line EXCEPT ![k] = "closed"]
  BY DEF Open, OpenFails, OpenLine, loopVars, effects
<1>6. LineType'
  <2>1. line' \in [Attempts -> {"free", "up", "cut", "closed"}]
    BY <1>0, <1>4 DEF LineType
  <2>2. cmd' \in [CmdStreams -> Cmds \cup {None}]
    BY <1>0, <1>4 DEF LineType
  <2>3. answer' \in [CmdStreams -> 0 .. MaxCmds]
    BY <1>0, <1>4, LinkAssumption DEF LineType
  <2> QED BY <2>1, <2>2, <2>3 DEF LineType
<1>7. LoopType'
  BY <1>0, <1>1, <1>4, <1>5 DEF LoopType
<1>8. HandlerType' /\ ClientType' /\ WorkerType'
  BY <1>0, <1>2 DEF HandlerType, ClientType, WorkerType
<1>9. \A x \in Streams : x[1] = k => handler[x] \in {"none", "done"}
  <2> SUFFICES ASSUME NEW x \in Streams, x[1] = k PROVE handler[x] \in {"none", "done"}
    OBVIOUS
  <2>1. x = <<k, x[2]>> /\ x[2] \in StreamKinds
    BY <1>1
  <2> QED BY <2>1, <1>1 DEF Forgotten
<1>10. \A x \in CmdStreams : x[1] = k => loop[x] \in {"off", "end", "out"}
  <2> SUFFICES ASSUME NEW x \in CmdStreams, x[1] = k PROVE loop[x] \in {"off", "end", "out"}
    OBVIOUS
  <2>1. x = <<k, x[2]>> /\ x[2] \in Commands
    BY <1>1
  <2> QED BY <2>1, <1>1
<1>11. \A c \in Clients, s \in StreamKinds : client[c].set[s] # k
  BY UnusedIsInNoClient
<1>12. MineInv'
  BY <1>2, <1>9 DEF MineInv, IInv, ClientInv
<1>13. PlaceInv'
  BY <1>2, <1>11 DEF PlaceInv, IInv, ClientInv
<1>14. OneInv' /\ HeldInv'
  BY <1>2 DEF OneInv, HeldInv, Held, IInv, ClientInv
<1>15. ReadyInv'
  BY <1>2 DEF ReadyInv, Ready, IInv, ClientInv
<1>16. /\ \A x \in CmdStreams : x[1] = k => Clean(x)'
       /\ \A x \in CmdStreams : x[1] # k => /\ cmd'[x] = cmd[x] /\ answer'[x] = answer[x]
                                            /\ loop'[x] = loop[x]
  BY <1>4, <1>5, <1>10 DEF Clean, Busy
<1>17. \A x \in CmdStreams : Clean(x) => Clean(x)'
  BY <1>16 DEF Clean
<1>18. NewInv'
  BY <1>2, <1>16, <1>17 DEF NewInv, IInv, WireInv
<1>19. OpenInv'
  BY <1>2, <1>17 DEF OpenInv, IInv, WireInv
<1>20. CarryInv'
  <2> SUFFICES ASSUME worker = "await", NEW x \in CmdStreams, x = Wire
               PROVE  /\ cmd'[x] # None => cmd'[x].n = job.n
                      /\ loop'[x] \in Busy => seen[x].n = job.n
                      /\ answer'[x] # 0 => answer'[x] = job.n
    BY <1>2, <1>4 DEF CarryInv, Wire
  <2>1. x[1] # k
    BY <1>11, WireIsAStream DEF IInv, ClientInv, ReadyInv
  <2> QED BY <2>1, <1>16 DEF CarryInv, IInv, WireInv
<1>21. AttInv'
  BY <1>1, <1>5 DEF AttInv, IInv, CmdInv
<1>22. LoopInv'
  <2> SUFFICES ASSUME NEW x \in CmdStreams, loop'[x] # "off"
               PROVE  x[1] = att' \/ (line'[x[1]] = "closed" /\ cmd'[x] = None)
    BY DEF LoopInv
  <2>1. x[1] \in Attempts /\ x[1] # 0
    OBVIOUS
  <2>2. CASE x[1] = k
    BY <2>1, <2>2, <1>0, <1>4, <1>5 DEF LineType
  <2>3. CASE x[1] # k
    <3>1. line[x[1]] = "closed" /\ cmd[x] = None
      BY <2>1, <2>3, <1>3, <1>16 DEF LoopInv, IInv, CmdInv
    <3> QED BY <3>1, <2>1, <2>3, <1>0, <1>4, <1>16 DEF LineType
  <2> QED BY <2>2, <2>3
<1>23. ExclInv' /\ SentInv' /\ DoneInv' /\ OrderInv'
  <2>1. /\ \A x \in CmdStreams : cmd'[x] = cmd[x] \/ cmd'[x] = None
        /\ \A x \in CmdStreams : answer'[x] = answer[x] \/ answer'[x] = 0
        /\ \A x \in CmdStreams : loop'[x] \in Busy => loop[x] \in Busy /\ seen'[x] = seen[x]
        /\ \A x \in CmdStreams : loop'[x] # "off" /\ cmd'[x] # None => loop[x] # "off"
    BY <1>4, <1>5, <1>16 DEF Clean, Busy
  <2> QED BY <2>1, <1>2, <1>4, CalmCmds
<1> QED
  BY <1>6, <1>7, <1>8, <1>12, <1>13, <1>14, <1>15, <1>18, <1>19, <1>20, <1>21, <1>22, <1>23
  DEF IInv, Types, ClientInv, WireInv, CmdInv

LEMMA NextIInv == IInv /\ [Next]_vars => IInv'
<1> SUFFICES ASSUME IInv, [Next]_vars PROVE IInv'
  OBVIOUS
<1>1. CASE AgentStep /\ UNCHANGED distro
  BY <1>1, AgentStepKeeps
<1>2. CASE DistroStep /\ UNCHANGED agent
  BY <1>2, DistroStepKeeps
<1>3. ASSUME Unused # {}, NEW k, k = CHOOSE u \in Unused : TRUE, Connect(k) \/ ConnectFails(k)
      PROVE  IInv'
  <2>1. k \in Unused
    BY <1>3
  <2>2. PICK ss : Accept(k, ss) /\ (Open(k) \/ OpenFails(k))
    BY <1>3 DEF Connect, ConnectFails
  <2> QED BY <2>1, <2>2, OpenKeeps
<1>4. CASE UNCHANGED vars
  <2>1. UNCHANGED agent /\ UNCHANGED distro /\ UNCHANGED transport
    BY <1>4 DEF vars
  <2>2. /\ att' = att /\ loop' = loop /\ seen' = seen /\ executed' = executed
        /\ line' = line /\ cmd' = cmd /\ answer' = answer /\ daemon' = daemon
    BY <2>1 DEF distro, daemonVars, loopVars, effects, transport
  <2>3. att # 0 <=> daemon' \in {"greet", "serving"}
    BY <2>2 DEF AttInv, IInv, CmdInv
  <2> QED BY <2>1, <2>2, <2>3, DaemonMoves
<1> QED BY <1>1, <1>2, <1>3, <1>4 DEF Next

LEMMA Invariance == Spec => []IInv
BY InitIInv, NextIInv, PTL DEF Spec

-----------------------------------------------------------------------------
(* The refinement.                                                         *)

\* What CommandDelivery calls the status of the command.
Status == IF worker = "idle" THEN outcome ELSE "pending"

LEMMA InitRefines == Init => Delivery!Init
BY DEF Init, TransportInit, AgentInit, ProServiceInit, Delivery!Init

\* A step that neither begins nor ends a command, nor begins to execute one.
LEMMA Stutters ==
    ASSUME job'.n = job.n, Status' = Status, executed' = executed
    PROVE  UNCHANGED Delivery!vars
BY DEF Delivery!vars, Status

LEMMA HandlersStutter ==
    ASSUME UNCHANGED distro, UNCHANGED workerVars
    PROVE  UNCHANGED Delivery!vars
<1>1. job' = job /\ worker' = worker /\ outcome' = outcome /\ executed' = executed
  BY DEF distro, effects, workerVars
<1> QED BY <1>1, Stutters DEF Status

LEMMA TakeConnectionRefines ==
    ASSUME IInv, UNCHANGED distro, NEW to, NEW token, TakeConnection(to, token)
    PROVE  Delivery!Issue
<1>1. /\ worker = "idle" /\ job.n < MaxCmds /\ job'.n = job.n + 1 /\ worker' = "send" /\ executed' = executed
      /\ outcome # "pending"
  BY DEF TakeConnection, distro, effects, IInv, Types, WorkerType
<1> QED BY <1>1 DEF Delivery!Issue

LEMMA WorkerStepRefines ==
    ASSUME IInv, UNCHANGED distro, WorkerStep
    PROVE  Delivery!Answer \/ Delivery!Lose \/ UNCHANGED Delivery!vars
<1>0. executed' = executed
  BY DEF distro, effects
<1>1. CASE SendCmd
  <2>1. worker = "send" /\ worker' = "await" /\ job' = job
    BY <1>1 DEF SendCmd
  <2> QED BY <2>1, <1>0, Stutters DEF Status
<1>2. CASE SendRefused \/ SendOrRecvFails
  <2>1. worker # "idle" /\ worker' = "idle" /\ outcome' = "lost" /\ job'.n = job.n
    BY <1>2 DEF SendRefused, SendOrRecvFails, Finish
  <2> QED BY <2>1, <1>0 DEF Delivery!Lose
<1>3. CASE RecvResult
  <2>1. worker = "await" /\ answer[Wire] # 0 /\ worker' = "idle" /\ outcome' = "answered" /\ job'.n = job.n
    BY <1>3 DEF RecvResult, Finish
  <2>2. Wire \in CmdStreams
    BY <2>1, WireIsAStream DEF IInv, ClientInv
  <2>3. answer[Wire] = job.n
    BY <2>1, <2>2 DEF CarryInv, IInv, WireInv
  <2>4. Done(job.n)
    BY <2>1, <2>2, <2>3 DEF DoneInv, IInv, CmdInv
  <2> QED BY <2>1, <2>4, <1>0 DEF Delivery!Answer, Done
<1> QED BY <1>1, <1>2, <1>3 DEF WorkerStep

LEMMA AgentStepRefines ==
    ASSUME IInv, UNCHANGED distro, AgentStep
    PROVE  [Delivery!Next]_(Delivery!vars)
<1>1. ASSUME NEW x \in Streams, HandlerStep(x) PROVE UNCHANGED Delivery!vars
  <2>1. UNCHANGED workerVars
    BY <1>1 DEF HandlerStep, Handshake, HandshakeFails, SetStream, Place, Refuse, RegisterFails,
                MainReady, MainRefused, WaitReadyFails, ReceiveInfo, Leave, Left
  <2> QED BY <2>1, HandlersStutter
<1>2. ASSUME NEW k \in Attempts, AgentNotices(k) PROVE UNCHANGED Delivery!vars
  BY <1>2, HandlersStutter DEF AgentNotices
<1>3. ASSUME NEW t \in Tasks, TakeConnection(t[1], t[2]) PROVE Delivery!Issue
  BY <1>3, TakeConnectionRefines
<1>4. CASE WorkerStep
  BY <1>4, WorkerStepRefines DEF Delivery!Next
<1>5. CASE InstallResets
  BY <1>5, HandlersStutter DEF InstallResets
<1> QED BY <1>1, <1>2, <1>3, <1>4, <1>5 DEF AgentStep, Delivery!Next

LEMMA RecvCmdRefines ==
    ASSUME IInv, UNCHANGED agent, NEW x \in CmdStreams, RecvCmd(x)
    PROVE  Delivery!Execute
<1>1. loop[x] = "recv" /\ cmd[x] # None /\ executed' = Append(executed, [to |-> x[2], n |-> cmd[x].n])
  BY DEF RecvCmd
<1>2. x[2] \in Commands /\ cmd[x].n \in 1 .. job.n /\ ~Done(cmd[x].n)
  BY <1>1, StreamFacts DEF SentInv, IInv, CmdInv
<1>3. \A i \in 1 .. Len(executed) :
        executed[i].n # cmd[x].n /\ (executed[i].to = x[2] => executed[i].n < cmd[x].n)
  BY <1>1, <1>2 DEF OrderInv, Done, IInv, CmdInv
<1>4. worker' = worker /\ outcome' = outcome /\ job' = job
  BY DEF agent, workerVars
<1> QED BY <1>1, <1>2, <1>3, <1>4 DEF Delivery!Execute

LEMMA DistroStepRefines ==
    ASSUME IInv, UNCHANGED agent, DistroStep
    PROVE  [Delivery!Next]_(Delivery!vars)
<1>0. job' = job /\ Status' = Status
  BY DEF agent, workerVars, Status
<1>1. ASSUME NEW x \in CmdStreams, RecvCmd(x) PROVE Delivery!Execute
  BY <1>1, RecvCmdRefines
<1>2. CASE executed' = executed
  BY <1>0, <1>2, Stutters
<1>3. ASSUME NEW x \in CmdStreams, LoopStep(x), ~RecvCmd(x) PROVE executed' = executed
  BY <1>3 DEF LoopStep, RecvStops, Exec, Attach, SendResult, SendResultFails, GatherInfo, SendInfo, LoopEnds,
              effects
<1>4. CASE DaemonStep \/ ServeFails \/ Crash
  BY <1>4, <1>2 DEF DaemonStep, ServeStarts, Ensured, ServeQuits, Greet, GreetFails, InfoFails, ServerEnds,
              MinutePasses, GracefulStop, QuitReturns, ServeFails, Crash, effects
<1>5. ASSUME NEW k \in Attempts, Cut(k) PROVE executed' = executed
  BY <1>5 DEF Cut, distro, effects
<1>6. ASSUME NEW how \in {"graceful", "force"}, Quit(how) PROVE executed' = executed
  BY <1>6 DEF Quit, effects
<1> QED BY <1>1, <1>2, <1>3, <1>4, <1>5, <1>6 DEF DistroStep, Delivery!Next

LEMMA NextRefines == IInv /\ [Next]_vars => [Delivery!Next]_(Delivery!vars)
<1> SUFFICES ASSUME IInv, [Next]_vars PROVE [Delivery!Next]_(Delivery!vars)
  OBVIOUS
<1>1. CASE AgentStep /\ UNCHANGED distro
  BY <1>1, AgentStepRefines
<1>2. CASE DistroStep /\ UNCHANGED agent
  BY <1>2, DistroStepRefines
<1>3. ASSUME NEW k, Connect(k) \/ ConnectFails(k)
      PROVE  UNCHANGED Delivery!vars
  <2>1. job' = job /\ worker' = worker /\ outcome' = outcome /\ executed' = executed
    BY <1>3 DEF Connect, ConnectFails, Accept, Open, OpenFails, workerVars, effects
  <2> QED BY <2>1, Stutters DEF Status
<1>4. CASE UNCHANGED vars
  BY <1>4, HandlersStutter DEF vars, agent
<1> QED BY <1>1, <1>2, <1>3, <1>4 DEF Next

\* The streams of however many attempts, the clients that group them at the agent, the worker
\* and the distro's loops together implement CommandDelivery: a command is executed at most
\* once, never after a later one of its kind, and the answer the worker gets is that of the
\* command it sent.
THEOREM CommandsAreDelivered == Spec => DeliversCommands
<1>1. Init => Delivery!Init
  BY InitRefines
<1>2. IInv /\ [Next]_vars => [Delivery!Next]_(Delivery!vars)
  BY NextRefines
<1> QED BY <1>1, <1>2, Invariance, PTL DEF Spec, DeliversCommands, Delivery!Spec

-----------------------------------------------------------------------------
(* What the database knows of the distro.                                  *)
(*                                                                         *)
(* The argument.  Only the handler of the present attempt can change what  *)
(* the database says without marking it as overtaken (FarInv).  While its  *)
(* line is up, the last info on its way, or what the database says when    *)
(* none is, is what is true of the distro, unless a loop has something to  *)
(* report or to give up on (LastInv).  The first info is gathered before   *)
(* anything can be executed (NamedInv, SetInv, WorkInv), and so is never   *)
(* the empty one, which the agent does not look for when it registers the  *)
(* distro (FirstInv).                                                      *)


\* The loop has a command that it has not reported yet.
Working == {"exec", "attach", "reply", "info", "send"}

InfoType ==
    /\ named \in SUBSET Streams /\ ended \in SUBSET Streams
    /\ infos \in [Attempts -> Seq(Infos)] /\ report \in [CmdStreams -> Infos]
    /\ attached \in {"attached", "detached"}

\* What is left of other attempts than the present one is over.
FarInv == \A x \in Streams : handler[x] # "none" /\ x[1] # att => Over(x[1])

\* Only the handler Connected gets past WaitReady.
UpInv == \A x \in Streams : handler[x] = "up" => x[2] = "main"

EndInv == \A x \in ended : handler[x] = "done"

\* A handler knows its name once the distro has sent it, after the first info.
NamedInv ==
    \A x \in Streams :
        /\ handler[x] \in {"joined", "waiting", "up", "closing"} => x \in named
        /\ x \in named /\ line[x[1]] # "closed" => <<x[1], "main">> \in named

SetInv ==
    \A c \in Clients, x \in Streams :
        client[c].set[x[2]] = x[1] /\ line[x[1]] # "closed" => x \in named

WorkInv ==
    \A x \in CmdStreams :
        line[x[1]] # "closed" /\ (cmd[x] # None \/ loop[x] \in Working) => <<x[1], "main">> \in named

\* The info with which the distro is registered is there, and is not the empty one.
FirstInv ==
    \A k \in Attempts : handler[<<k, "main">>] \in {"handshake", "joined"} =>
        /\ <<k, "main">> \in named => infos[k] # <<>>
        /\ infos[k] # <<>> => Head(infos[k]) # "bad"

\* While the daemon greets, there is a name to be sent.
DueInv == daemon = "greet" => \E s \in StreamKinds : <<att, s>> \notin named

\* The daemon works on an attempt that is closed only when it was told to quit.
ForceInv == att # 0 /\ line[att] = "closed" => quitter # "no"

\* The present attempt has nothing to report.
Reported ==
    /\ att # 0 /\ ~Over(att) /\ <<att, "main">> \in named /\ <<att, "main">> \notin ended
    /\ \A s \in Commands : loop[<<att, s>>] \in {"off", "recv"}

\* The last thing the agent knows, or will be told.
LastInv ==
    Reported /\ ~overtaken =>
        /\ infos[att] = <<>> => known = attached
        /\ infos[att] # <<>> => infos[att][Len(infos[att])] \in {attached, "bad"}

InfoInv ==
    /\ InfoType /\ FarInv /\ UpInv /\ EndInv /\ NamedInv /\ SetInv /\ WorkInv /\ FirstInv
    /\ DueInv /\ ForceInv /\ LastInv

\* The stream of a distro's infos is a stream, and not one of its commands.
LEMMA MainFacts ==
    /\ \A k \in Attempts : <<k, "main">> \in Streams /\ <<k, "main">>[1] = k /\ <<k, "main">>[2] = "main"
    /\ \A x \in Streams : x[2] = "main" => x = <<x[1], "main">>
    /\ \A x \in CmdStreams : x[2] # "main"
    /\ \A x \in CmdStreams : x = <<x[1], x[2]>>
BY LinkAssumption DEF Streams, CmdStreams, StreamKinds

\* The last info stays the last when the first is taken.
LEMMA LastOfTail ==
    ASSUME NEW q \in Seq(Infos), q # <<>>
    PROVE  /\ Tail(q) \in Seq(Infos)
           /\ Tail(q) = <<>> => Head(q) = q[Len(q)]
           /\ Tail(q) # <<>> => Tail(q)[Len(Tail(q))] = q[Len(q)]
<1>1. Len(q) \in Nat /\ Len(q) >= 1 /\ Head(q) = q[1]
  OBVIOUS
<1>2. Tail(q) \in Seq(Infos) /\ Len(Tail(q)) = Len(q) - 1
  OBVIOUS
<1>3. Tail(q) = <<>> => Len(Tail(q)) = 0
  <2>1. \A t : t = <<>> => Len(t) = 0
    OBVIOUS
  <2> QED BY <2>1, Zenon
<1>4. Tail(q) # <<>> => Len(Tail(q)) >= 1
  BY <1>2
<1>5. \A i \in 1 .. Len(Tail(q)) : Tail(q)[i] = q[i + 1]
  OBVIOUS
<1>6. Tail(q) # <<>> => Tail(q)[Len(Tail(q))] = q[Len(q)]
  BY <1>1, <1>2, <1>4, <1>5
<1>7. Tail(q) = <<>> => Len(q) = 1
  BY <1>1, <1>2, <1>3
<1> QED BY <1>1, <1>2, <1>6, <1>7

\* An info that is sent becomes the last one.
LEMMA AppendFacts ==
    ASSUME NEW q \in Seq(Infos), NEW v \in Infos
    PROVE  /\ Append(q, v) \in Seq(Infos) /\ Append(q, v) # <<>>
           /\ Append(q, v)[Len(Append(q, v))] = v
           /\ q = <<>> => Head(Append(q, v)) = v
           /\ q # <<>> => Head(Append(q, v)) = Head(q)
<1>1. PICK p : p = Append(q, v)
  OBVIOUS
<1>2. p \in Seq(Infos) /\ Len(p) = Len(q) + 1 /\ p[Len(q) + 1] = v
  BY <1>1
<1>3. p # <<>> /\ Head(p) = p[1]
  BY <1>2
<1>4. q = <<>> => Head(p) = v
  BY <1>2, <1>3
<1>5. q # <<>> => Head(p) = Head(q)
  BY <1>1, <1>3
<1> QED BY <1>1, <1>2, <1>3, <1>4, <1>5

LEMMA InitInfo == Init => InfoInv
<1> SUFFICES ASSUME Init PROVE InfoInv
  OBVIOUS
<1> USE DEF Init, TransportInit, AgentInit, ProServiceInit
<1>1. InfoType
  BY DEF InfoType, Infos
<1>2. \A x \in Streams : handler[x] = "none"
  OBVIOUS
<1>3. FarInv /\ UpInv /\ EndInv /\ NamedInv /\ FirstInv
  BY <1>2, MainFacts DEF FarInv, UpInv, EndInv, NamedInv, FirstInv
<1>4. SetInv
  BY NoClientFacts, StreamFacts DEF SetInv
<1>5. WorkInv
  BY DEF WorkInv, Working
<1>6. DueInv /\ ForceInv /\ LastInv
  BY DEF DueInv, ForceInv, LastInv, Reported
<1> QED BY <1>1, <1>3, <1>4, <1>5, <1>6 DEF InfoInv

\* What the invariant promises.
LEMMA InfoInvImplies ==
    ASSUME IInv, InfoInv
    PROVE  InfoIsCurrent
<1> SUFFICES ASSUME Settled, ~overtaken PROVE known = attached
  BY DEF InfoIsCurrent
<1>1. /\ att # 0 /\ att \in Attempts /\ ~Over(att) /\ handler[<<att, "main">>] = "up"
      /\ infos[att] = <<>>
  BY DEF Settled, Connected, IInv, Types, LoopType
<1>2. <<att, "main">> \in Streams /\ line[att] # "closed"
  BY <1>1, MainFacts DEF Over
<1>3. <<att, "main">> \in named
  BY <1>1, <1>2, MainFacts DEF InfoInv, NamedInv
<1>4. <<att, "main">> \notin ended
  BY <1>1 DEF InfoInv, EndInv
<1>5. \A s \in Commands : loop[<<att, s>>] \in {"off", "recv"}
  BY <1>1, StreamFacts DEF Settled
<1> QED BY <1>1, <1>3, <1>4, <1>5 DEF Reported, LastInv, InfoInv

\* No client gets a stream.
SetsKept ==
    \A c \in Clients, x \in Streams : client'[c].set[x[2]] = x[1] => client[c].set[x[2]] = x[1]

LEMMA CancelSets ==
    ASSUME ClientType, NEW cs, Cancel(cs)
    PROVE  SetsKept
<1>1. /\ \A c \in Clients : c \notin Held' => client'[c] = NoClient
      /\ \A c \in Clients : c \in Held' => client'[c].set = client[c].set
  BY CancelFacts, Zenon
<1>2. \A x \in Streams : x[1] # 0 /\ x[2] \in StreamKinds
  BY StreamFacts
<1>3. \A s \in StreamKinds : NoClient.set[s] = 0
  BY NoClientFacts
<1> QED BY <1>1, <1>2, <1>3 DEF SetsKept

\* Steps of the agent that neither receive an info nor end a stream.
LEMMA AgentCalm ==
    ASSUME InfoInv, UNCHANGED distro, SetsKept,
           line' = line, named' = named, ended' = ended, infos' = infos, overtaken' = overtaken,
           known' = known,
           \A x \in CmdStreams : cmd'[x] # None /\ line[x[1]] # "closed" =>
               cmd[x] # None \/ <<x[1], "main">> \in named,
           \A x \in Streams :
               \/ handler'[x] = handler[x]
               \/ handler[x] = "handshake" /\ x \in named /\ handler'[x] = "joined"
               \/ handler[x] \in {"waiting", "up"} /\ handler'[x] \in {"up", "closing"} /\ x[2] = "main"
    PROVE  InfoInv'
<1>0. /\ att' = att /\ loop' = loop /\ report' = report /\ attached' = attached /\ quitter' = quitter
      /\ daemon' = daemon
  BY DEF distro, daemonVars, loopVars, quitVars, effects
<1>1. InfoType'
  BY <1>0 DEF InfoInv, InfoType
<1>2. FarInv' /\ UpInv'
  BY <1>0 DEF InfoInv, FarInv, UpInv, Over
<1>3. EndInv'
  BY DEF InfoInv, EndInv, InfoType
<1>4. NamedInv'
  BY DEF InfoInv, NamedInv
<1>5. SetInv'
  BY DEF InfoInv, SetInv, SetsKept
<1>6. WorkInv'
  BY <1>0 DEF InfoInv, WorkInv
<1>7. FirstInv'
  BY MainFacts DEF InfoInv, FirstInv
<1>8. DueInv' /\ ForceInv'
  BY <1>0 DEF InfoInv, DueInv, ForceInv
<1>9. LastInv'
  BY <1>0 DEF InfoInv, LastInv, Reported, Over
<1> QED BY <1>1, <1>2, <1>3, <1>4, <1>5, <1>6, <1>7, <1>8, <1>9 DEF InfoInv

\* A handler returns: its stream is ended, unless the distro has closed the attempt.
LEMMA ReturnInfo ==
    ASSUME IInv, InfoInv, UNCHANGED distro, SetsKept, NEW x \in Streams, Return(x),
           known' = known, handler[x] # "none"
    PROVE  InfoInv'
<1>0. /\ att' = att /\ loop' = loop /\ report' = report /\ attached' = attached /\ quitter' = quitter
      /\ daemon' = daemon
  BY DEF distro, daemonVars, loopVars, quitVars, effects
<1>1. /\ handler' = [handler EXCEPT ![x] = "done"] /\ line' = line /\ cmd' = cmd
      /\ overtaken' = overtaken
      /\ named' = IF line[x[1]] = "closed" THEN named \ {x} ELSE named
      /\ ended' = IF line[x[1]] = "closed" THEN ended ELSE ended \cup {x}
      /\ infos' = IF x[2] = "main" THEN [infos EXCEPT ![x[1]] = <<>>] ELSE infos
  BY DEF Return, To, EndStream
<1>2. handler'[x] = "done" /\ \A y \in Streams : y # x => handler'[y] = handler[y]
  BY <1>1 DEF IInv, Types, HandlerType
<1>3. \A y \in Streams : line[y[1]] # "closed" \/ y # x => (y \in named' <=> y \in named)
  BY <1>1
<1>4. \A k \in Attempts : <<k, "main">> # x => infos'[k] = infos[k]
  BY <1>1, MainFacts, StreamFacts DEF InfoInv, InfoType
<1>5. InfoType'
  BY <1>0, <1>1, StreamFacts DEF InfoInv, InfoType
<1>6. FarInv' /\ UpInv'
  BY <1>0, <1>1, <1>2 DEF InfoInv, FarInv, UpInv, Over
<1>7. EndInv'
  BY <1>1, <1>2 DEF InfoInv, EndInv, InfoType
<1>8. NamedInv'
  BY <1>1, <1>2, <1>3, MainFacts, StreamFacts DEF InfoInv, NamedInv
<1>9. SetInv'
  BY <1>1, <1>3 DEF InfoInv, SetInv, SetsKept
<1>10. WorkInv'
  BY <1>0, <1>1, <1>3, MainFacts, StreamFacts DEF InfoInv, WorkInv
<1>11. FirstInv'
  BY <1>1, <1>2, <1>3, <1>4, MainFacts DEF InfoInv, FirstInv
<1>12. DueInv' /\ ForceInv'
  BY <1>0, <1>1 DEF InfoInv, DueInv, ForceInv
<1>13. LastInv'
  <2> SUFFICES ASSUME Reported', ~overtaken'
               PROVE  (/\ infos[att] = <<>> => known = attached
                       /\ infos[att] # <<>> => infos[att][Len(infos[att])] \in {attached, "bad"})'
    BY DEF LastInv
  <2>1. att \in Attempts /\ ~Over(att) /\ <<att, "main">> \in named /\ <<att, "main">> \notin ended'
    BY <1>0, <1>1 DEF Reported, Over, IInv, Types, LoopType
  <2>2. <<att, "main">> # x
    BY <2>1, <1>1 DEF Over
  <2>3. infos'[att] = infos[att] /\ <<att, "main">> \notin ended
    BY <2>1, <2>2, <1>1, <1>4
  <2>4. Reported
    BY <2>1, <2>3, <1>0 DEF Reported
  <2> QED BY <2>3, <2>4, <1>0, <1>1 DEF InfoInv, LastInv
<1> QED
  BY <1>5, <1>6, <1>7, <1>8, <1>9, <1>10, <1>11, <1>12, <1>13 DEF InfoInv

\* A stream takes its place in its client; the main one registers the distro.
LEMMA PlaceInfo ==
    ASSUME IInv, InfoInv, UNCHANGED distro, NEW x \in Streams, SetStream(x)
    PROVE  InfoInv'
<1> USE StreamFacts
<1>0. /\ att' = att /\ loop' = loop /\ report' = report /\ attached' = attached /\ quitter' = quitter
      /\ daemon' = daemon
  BY DEF distro, daemonVars, loopVars, quitVars, effects
<1>1. /\ handler[x] = "joined" /\ handler' = [handler EXCEPT ![x] = "waiting"]
      /\ client' = [client EXCEPT ![mine[x]].set[x[2]] = x[1]]
      /\ known' = IF x[2] = "main" THEN Head(infos[x[1]]) ELSE known
      /\ infos' = IF x[2] = "main" THEN [infos EXCEPT ![x[1]] = Tail(@)] ELSE infos
      /\ overtaken' = (overtaken \/ (x[2] = "main" /\ Over(x[1])))
      /\ line' = line /\ named' = named /\ ended' = ended /\ cmd' = cmd
  BY DEF SetStream, Place, To
<1>2. handler'[x] = "waiting" /\ \A y \in Streams : y # x => handler'[y] = handler[y]
  BY <1>1 DEF IInv, Types, HandlerType
<1>3. mine[x] \in Clients
  BY <1>1 DEF IInv, Types, HandlerType, ClientInv, MineInv
<1>4. \A c \in Clients, y \in Streams : client'[c].set[y[2]] = y[1] => client[c].set[y[2]] = y[1] \/ y = x
  <2> SUFFICES ASSUME NEW c \in Clients, NEW y \in Streams, client'[c].set[y[2]] = y[1], y # x
               PROVE  client[c].set[y[2]] = y[1]
    OBVIOUS
  <2>1. client[c] \in ClientRecord /\ y[2] \in StreamKinds
    BY DEF IInv, Types, ClientType
  <2>2. client'[c].set = IF c = mine[x] THEN [client[c].set EXCEPT ![x[2]] = x[1]] ELSE client[c].set
    BY <1>1, <1>3, <2>1 DEF IInv, Types, ClientType, ClientRecord
  <2> QED BY <2>1, <2>2 DEF ClientRecord
<1>5. x \in named
  BY <1>1 DEF InfoInv, NamedInv
<1>6. \A k \in Attempts : <<k, "main">> # x => infos'[k] = infos[k]
  BY <1>1, MainFacts DEF InfoInv, InfoType
<1>7. InfoType'
  <2>0. x[2] = "main" => infos[x[1]] # <<>>
    BY <1>1, <1>5, MainFacts DEF InfoInv, FirstInv
  <2>1. x[2] = "main" => infos'[x[1]] \in Seq(Infos)
    BY <1>1, <2>0 DEF InfoInv, InfoType
  <2>2. infos' \in [Attempts -> Seq(Infos)]
    BY <1>1, <2>1 DEF InfoInv, InfoType
  <2> QED BY <1>0, <1>1, <2>2 DEF InfoInv, InfoType
<1>8. FarInv' /\ UpInv'
  BY <1>0, <1>1, <1>2 DEF InfoInv, FarInv, UpInv, Over
<1>9. EndInv'
  BY <1>1, <1>2 DEF InfoInv, EndInv, InfoType
<1>10. NamedInv'
  BY <1>1, <1>2, <1>5 DEF InfoInv, NamedInv
<1>11. SetInv'
  BY <1>1, <1>4, <1>5 DEF InfoInv, SetInv
<1>12. WorkInv'
  BY <1>0, <1>1 DEF InfoInv, WorkInv
<1>13. FirstInv'
  BY <1>1, <1>2, <1>6, MainFacts DEF InfoInv, FirstInv
<1>14. DueInv' /\ ForceInv'
  BY <1>0, <1>1 DEF InfoInv, DueInv, ForceInv
<1>15. LastInv'
  <2> SUFFICES ASSUME Reported', ~overtaken'
               PROVE  (/\ infos[att] = <<>> => known = attached
                       /\ infos[att] # <<>> => infos[att][Len(infos[att])] \in {attached, "bad"})'
    BY DEF LastInv
  <2>1. att \in Attempts /\ ~Over(att) /\ <<att, "main">> \in named /\ Reported /\ ~overtaken
    BY <1>0, <1>1 DEF Reported, Over, IInv, Types, LoopType
  <2>2. CASE x[2] # "main"
    BY <2>1, <2>2, <1>0, <1>1 DEF InfoInv, LastInv
  <2>3. CASE x[2] = "main"
    <3>1. ~Over(x[1])
      BY <2>3, <1>1
    <3>2. x[1] = att /\ x = <<att, "main">>
      BY <3>1, <2>3, <1>1, MainFacts DEF InfoInv, FarInv
    <3>3. PICK q \in Seq(Infos) : q = infos[att]
      BY <2>1 DEF InfoInv, InfoType
    <3>4. q # <<>> /\ Head(q) # "bad" /\ q[Len(q)] \in {attached, "bad"}
      <4>1. q # <<>> /\ Head(q) # "bad"
        BY <3>2, <3>3, <2>1, <1>1 DEF InfoInv, FirstInv, Over
      <4> QED BY <4>1, <3>3, <2>1 DEF InfoInv, LastInv
    <3>5. known' = Head(q) /\ infos'[att] = Tail(q)
      BY <1>1, <2>1, <2>3, <3>2, <3>3 DEF InfoInv, InfoType
    <3>6. /\ Tail(q) = <<>> => Head(q) = q[Len(q)]
          /\ Tail(q) # <<>> => Tail(q)[Len(Tail(q))] = q[Len(q)]
      BY <3>4, LastOfTail
    <3> QED BY <3>4, <3>5, <3>6, <1>0
  <2> QED BY <2>2, <2>3
<1> QED
  BY <1>7, <1>8, <1>9, <1>10, <1>11, <1>12, <1>13, <1>14, <1>15 DEF InfoInv

LEMMA ReceiveInfoInfo ==
    ASSUME IInv, InfoInv, UNCHANGED distro, NEW x \in Streams, ReceiveInfo(x)
    PROVE  InfoInv'
<1> USE StreamFacts
<1>0. /\ att' = att /\ loop' = loop /\ report' = report /\ attached' = attached /\ quitter' = quitter
      /\ daemon' = daemon
  BY DEF distro, daemonVars, loopVars, quitVars, effects
<1>1. /\ handler[x] = "up" /\ handler' = handler /\ client' = client
      /\ infos[x[1]] # <<>> /\ Head(infos[x[1]]) # "bad"
      /\ known' = Head(infos[x[1]])
      /\ infos' = [infos EXCEPT ![x[1]] = Tail(@)]
      /\ overtaken' = (overtaken \/ Over(x[1]))
      /\ line' = line /\ named' = named /\ ended' = ended /\ cmd' = cmd
  BY DEF ReceiveInfo, clientVars
<1>2. x[2] = "main"
  BY <1>1 DEF InfoInv, UpInv
<1>3. \A k \in Attempts : <<k, "main">> # x => infos'[k] = infos[k]
  BY <1>1, <1>2, MainFacts DEF InfoInv, InfoType
<1>4. InfoType'
  <2>1. infos'[x[1]] \in Seq(Infos)
    BY <1>1 DEF InfoInv, InfoType
  <2>2. infos' \in [Attempts -> Seq(Infos)]
    BY <1>1, <2>1 DEF InfoInv, InfoType
  <2> QED BY <1>0, <1>1, <2>2 DEF InfoInv, InfoType
<1>5. FarInv' /\ UpInv' /\ EndInv' /\ NamedInv' /\ SetInv' /\ WorkInv' /\ DueInv' /\ ForceInv'
  BY <1>0, <1>1 DEF InfoInv, FarInv, UpInv, Over, EndInv, NamedInv, SetInv, WorkInv, DueInv, ForceInv
<1>6. FirstInv'
  BY <1>1, <1>2, <1>3, MainFacts DEF InfoInv, FirstInv
<1>7. LastInv'
  <2> SUFFICES ASSUME Reported', ~overtaken'
               PROVE  (/\ infos[att] = <<>> => known = attached
                       /\ infos[att] # <<>> => infos[att][Len(infos[att])] \in {attached, "bad"})'
    BY DEF LastInv
  <2>1. att \in Attempts /\ ~Over(x[1]) /\ Reported /\ ~overtaken
    BY <1>0, <1>1 DEF Reported, Over, IInv, Types, LoopType
  <2>2. x[1] = att
    BY <2>1, <1>1 DEF InfoInv, FarInv
  <2>3. PICK q \in Seq(Infos) : q = infos[att]
    BY <2>1 DEF InfoInv, InfoType
  <2>4. q # <<>> /\ Head(q) # "bad" /\ q[Len(q)] \in {attached, "bad"}
    BY <2>1, <2>2, <2>3, <1>1 DEF InfoInv, LastInv
  <2>5. known' = Head(q) /\ infos'[att] = Tail(q)
    BY <1>1, <2>1, <2>2, <2>3 DEF InfoInv, InfoType
  <2>6. /\ Tail(q) = <<>> => Head(q) = q[Len(q)]
        /\ Tail(q) # <<>> => Tail(q)[Len(Tail(q))] = q[Len(q)]
    BY <2>4, LastOfTail
  <2> QED BY <2>4, <2>5, <2>6, <1>0
<1> QED BY <1>4, <1>5, <1>6, <1>7 DEF InfoInv

\* Steps of the handlers.
LEMMA HandlerStepInfo ==
    ASSUME IInv, InfoInv, UNCHANGED distro, NEW x \in Streams, HandlerStep(x)
    PROVE  InfoInv'
<1>0. ClientType /\ HandlerType
  BY DEF IInv, Types
<1>1. CASE Handshake(x)
  <2>1. PICK c : /\ c = IF current # 0 THEN current ELSE CHOOSE f \in Clients \ Held : TRUE
                 /\ current # 0 \/ Clients \ Held # {}
                 /\ client' = IF current # 0 THEN client
                              ELSE [client EXCEPT ![c] = [NoClient EXCEPT !.open = x[1] \notin gone,
                                                                          !.parent = x]]
    BY <1>1 DEF Handshake
  <2>2. /\ handler[x] = "handshake" /\ x \in named /\ handler' = [handler EXCEPT ![x] = "joined"]
        /\ known' = known /\ UNCHANGED transport
    BY <1>1 DEF Handshake, To
  <2>3. \A d \in Clients : client'[d] = client[d] \/ client'[d].set = NoClient.set
    BY <2>1, <1>0 DEF ClientType, NoClient
  <2>4. SetsKept
    BY <2>3, NoClientFacts, StreamFacts DEF SetsKept
  <2>5. \A y \in Streams : handler'[y] = handler[y] \/ (y = x /\ handler'[y] = "joined")
    BY <2>2, <1>0 DEF HandlerType
  <2> QED BY <2>2, <2>4, <2>5, AgentCalm DEF transport, reports
<1>2. CASE HandshakeFails(x)
  <2>1. Return(x) /\ client' = client /\ known' = known /\ handler[x] # "none"
    BY <1>2 DEF HandshakeFails, clientVars
  <2> QED BY <2>1, ReturnInfo DEF SetsKept
<1>3. CASE SetStream(x)
  BY <1>3, PlaceInfo
<1>4. CASE Refuse(x)
  <2>1. Return(x) /\ known' = known /\ handler[x] # "none" /\ Cancel(Children(x))
    BY <1>4 DEF Refuse
  <2>2. PICK cs : cs = Children(x)
    OBVIOUS
  <2>3. SetsKept
    BY <2>1, <2>2, <1>0, CancelSets
  <2> QED BY <2>1, <2>3, ReturnInfo
<1>5. CASE RegisterFails(x) \/ MainRefused(x) \/ WaitReadyFails(x) \/ Left(x)
  <2>1. CloseAndReturn(x) /\ known' = known /\ handler[x] # "none"
    BY <1>5 DEF RegisterFails, MainRefused, WaitReadyFails, Left
  <2>2. Return(x) /\ Cancel({mine[x]} \cup Children(x))
    BY <2>1 DEF CloseAndReturn
  <2>3. PICK cs : cs = {mine[x]} \cup Children(x)
    OBVIOUS
  <2>4. SetsKept
    BY <2>2, <2>3, <1>0, CancelSets
  <2> QED BY <2>1, <2>2, <2>4, ReturnInfo
<1>6. CASE MainReady(x) \/ Leave(x)
  <2>1. /\ handler[x] \in {"waiting", "up"} /\ x[2] = "main" /\ known' = known /\ UNCHANGED transport /\ Cancel({conn})
        /\ handler' = [handler EXCEPT ![x] = "up"] \/ handler' = [handler EXCEPT ![x] = "closing"]
    BY <1>6 DEF MainReady, Leave, To, InfoInv, UpInv
  <2>2. PICK cs : cs = {conn}
    OBVIOUS
  <2>3. SetsKept
    BY <2>1, <2>2, <1>0, CancelSets
  <2>4. \A y \in Streams : handler'[y] = handler[y] \/ (y = x /\ handler'[y] \in {"up", "closing"})
    BY <2>1, <1>0 DEF HandlerType
  <2> QED BY <2>1, <2>3, <2>4, AgentCalm DEF transport, reports
<1>7. CASE ReceiveInfo(x)
  BY <1>7, ReceiveInfoInfo
<1> QED
  BY <1>1, <1>2, <1>3, <1>4, <1>5, <1>6, <1>7 DEF HandlerStep

\* An installation that changes what the database says is marked.
LEMMA InstallInfo ==
    ASSUME InfoInv, UNCHANGED distro, InstallResets
    PROVE  InfoInv'
<1>0. /\ att' = att /\ loop' = loop /\ report' = report /\ attached' = attached /\ quitter' = quitter
      /\ daemon' = daemon
  BY DEF distro, daemonVars, loopVars, quitVars, effects
<1>1. /\ handler' = handler /\ client' = client /\ infos' = infos
      /\ line' = line /\ named' = named /\ ended' = ended /\ cmd' = cmd
      /\ known' = "detached" /\ overtaken' = (overtaken \/ known # "detached")
  BY DEF InstallResets, clientVars
<1>2. /\ InfoType' /\ FarInv' /\ UpInv' /\ EndInv' /\ NamedInv' /\ SetInv' /\ WorkInv'
      /\ DueInv' /\ ForceInv' /\ FirstInv'
  BY <1>0, <1>1 DEF InfoInv, InfoType, FarInv, UpInv, Over, EndInv, NamedInv, SetInv, WorkInv,
                    DueInv, ForceInv, FirstInv
<1>3. ~overtaken' => ~overtaken /\ known' = known
  BY <1>1
<1>4. LastInv'
  BY <1>0, <1>1, <1>3 DEF InfoInv, LastInv, Reported, Over
<1> QED BY <1>2, <1>4 DEF InfoInv

\* Steps of the worker, and the news of gRPC.
LEMMA AgentStepInfo ==
    ASSUME IInv, InfoInv, UNCHANGED distro, AgentStep
    PROVE  InfoInv'
<1>0. ClientType
  BY DEF IInv, Types
<1>1. ASSUME NEW x \in Streams, HandlerStep(x) PROVE InfoInv'
  BY <1>1, HandlerStepInfo
<1>2. ASSUME NEW k \in Attempts, AgentNotices(k) PROVE InfoInv'
  <2>1. /\ handler' = handler /\ known' = known /\ UNCHANGED transport
        /\ Cancel({c \in Clients : client[c].parent[1] = k})
    BY <1>2 DEF AgentNotices
  <2>2. PICK cs : cs = {c \in Clients : client[c].parent[1] = k}
    OBVIOUS
  <2>3. SetsKept
    BY <2>1, <2>2, <1>0, CancelSets
  <2> QED BY <2>1, <2>3, AgentCalm DEF transport, reports
<1>3. ASSUME NEW t \in Tasks, TakeConnection(t[1], t[2]) PROVE InfoInv'
  <2>1. handler' = handler /\ client' = client /\ known' = known /\ UNCHANGED transport
    BY <1>3 DEF TakeConnection, clientVars
  <2> QED BY <2>1, AgentCalm DEF transport, reports, SetsKept
<1>4. CASE SendCmd
  <2>1. /\ worker = "send" /\ handler' = handler /\ client' = client /\ known' = known
        /\ line' = line /\ named' = named /\ ended' = ended /\ infos' = infos /\ overtaken' = overtaken
        /\ cmd' = IF line[Wire[1]] = "closed" THEN cmd
                  ELSE [cmd EXCEPT ![Wire] = [n |-> job.n, token |-> job.token]]
    BY <1>4 DEF SendCmd, clientVars, reports
  <2>2. /\ Wire \in CmdStreams /\ Wire[1] = client[holding].set[job.to] /\ Wire[2] = job.to
        /\ holding \in Clients
    BY <2>1, WireIsAStream DEF IInv, ClientInv
  <2>3. PICK w \in CmdStreams : w = Wire
    BY <2>2
  <2>4. w \in Streams /\ client[holding].set[w[2]] = w[1]
    BY <2>2, <2>3, StreamFacts
  <2>5. line[w[1]] # "closed" => <<w[1], "main">> \in named
    BY <2>2, <2>4 DEF InfoInv, SetInv, NamedInv
  <2>6. cmd' = IF line[w[1]] = "closed" THEN cmd
               ELSE [cmd EXCEPT ![w] = [n |-> job.n, token |-> job.token]]
    BY <2>1, <2>3
  <2>7. \A x \in CmdStreams : cmd'[x] = cmd[x] \/ (x = w /\ line[w[1]] # "closed")
    BY <2>6 DEF IInv, Types, LineType
  <2> QED BY <2>1, <2>5, <2>7, AgentCalm DEF SetsKept
<1>5. CASE SendRefused \/ SendOrRecvFails \/ RecvResult
  <2>1. /\ handler' = handler /\ known' = known /\ cmd' = cmd
        /\ line' = line /\ named' = named /\ ended' = ended /\ infos' = infos /\ overtaken' = overtaken
        /\ \E cs \in {{}, {holding}} : Cancel(cs)
    BY <1>5 DEF SendRefused, SendOrRecvFails, RecvResult, transport, reports
  <2>2. SetsKept
    BY <2>1, <1>0, CancelSets
  <2> QED BY <2>1, <2>2, AgentCalm
<1>6. CASE InstallResets
  BY <1>6, InstallInfo
<1> QED
  BY <1>1, <1>2, <1>3, <1>4, <1>5, <1>6 DEF AgentStep, WorkerStep

-----------------------------------------------------------------------------
(* Steps of the distro.                                                    *)

\* Steps that neither send an info nor open or close a line.
LEMMA DistroCalm ==
    ASSUME InfoInv, UNCHANGED agent,
           att' = att, line' = line, named' = named, ended' = ended, infos' = infos,
           quitter' = "no" => quitter = "no", daemon' = "greet" => daemon = "greet",
           report' \in [CmdStreams -> Infos], attached' \in {"attached", "detached"},
           \A x \in CmdStreams : cmd'[x] # None => cmd[x] # None,
           \A x \in CmdStreams : loop'[x] \in Working => loop[x] \in Working \/ cmd[x] # None,
           Reported' /\ ~overtaken' => Reported /\ ~overtaken /\ attached' = attached
    PROVE  InfoInv'
<1>0. handler' = handler /\ client' = client /\ known' = known
  BY DEF agent, clientVars
<1>1. InfoType'
  BY DEF InfoInv, InfoType
<1>2. FarInv' /\ UpInv' /\ EndInv' /\ NamedInv' /\ SetInv' /\ DueInv' /\ ForceInv'
  BY <1>0 DEF InfoInv, FarInv, UpInv, Over, EndInv, NamedInv, SetInv, DueInv, ForceInv
<1>3. WorkInv'
  BY DEF InfoInv, WorkInv
<1>4. FirstInv'
  BY <1>0 DEF InfoInv, FirstInv
<1>5. LastInv'
  BY <1>0 DEF InfoInv, LastInv
<1> QED BY <1>1, <1>2, <1>3, <1>4, <1>5 DEF InfoInv

\* The line of the present attempt is closed: Serve returns, or is told to.
LEMMA CloseInfo ==
    ASSUME IInv, InfoInv, UNCHANGED agent, CloseLine(att), att # 0, att' \in {0, att},
           att' = att => quitter' # "no" /\ daemon' = daemon,
           att' = 0 => daemon' # "greet",
           report' = report, attached' = attached,
           \A x \in CmdStreams : loop'[x] \in Working => loop[x] \in Working
    PROVE  InfoInv'
<1> USE StreamFacts
<1>0. handler' = handler /\ client' = client /\ known' = known /\ att \in Attempts
  BY DEF agent, clientVars, IInv, Types, LoopType
<1>1. /\ line' = [line EXCEPT ![att] = "closed"]
      /\ named' = named \ Of(att, ended) /\ ended' = ended \ Of(att, ended)
      /\ cmd' = [x \in CmdStreams |-> IF x[1] = att THEN None ELSE cmd[x]]
      /\ infos' = infos /\ overtaken' = overtaken
  BY DEF CloseLine, reports
<1>2. line'[att] = "closed" /\ \A k \in Attempts : k # att => line'[k] = line[k]
  BY <1>0, <1>1 DEF IInv, Types, LineType
<1>3. \A x \in Streams : x[1] # att \/ x \notin ended => (x \in named' <=> x \in named)
  BY <1>1 DEF Of
<1>4. InfoType'
  BY <1>1 DEF InfoInv, InfoType
<1>5. FarInv' /\ UpInv'
  BY <1>0, <1>2 DEF InfoInv, FarInv, UpInv, Over
<1>6. EndInv'
  BY <1>0, <1>1 DEF InfoInv, EndInv
<1>7. NamedInv'
  BY <1>0, <1>2, <1>3, MainFacts DEF InfoInv, NamedInv, EndInv
<1>8. SetInv'
  BY <1>0, <1>2, <1>3 DEF InfoInv, SetInv
<1>9. WorkInv'
  <2> SUFFICES ASSUME NEW x \in CmdStreams, line'[x[1]] # "closed", cmd'[x] # None \/ loop'[x] \in Working
               PROVE  <<x[1], "main">> \in named'
    BY DEF WorkInv
  <2>1. x \in Streams /\ x[1] # att /\ x[1] \in Attempts
    BY <1>2
  <2>2. <<x[1], "main">> \in named
    BY <2>1, <1>1, <1>2 DEF InfoInv, WorkInv
  <2> QED BY <2>1, <2>2, <1>3, MainFacts
<1>10. FirstInv'
  BY <1>0, <1>1 DEF InfoInv, FirstInv, Of
<1>11. DueInv' /\ ForceInv'
  BY <1>1 DEF InfoInv, DueInv, ForceInv
<1>12. LastInv'
  BY <1>2 DEF LastInv, Reported, Over
<1> QED
  BY <1>4, <1>5, <1>6, <1>7, <1>8, <1>9, <1>10, <1>11, <1>12 DEF InfoInv

\* The first info is due first.
LEMMA DueFacts ==
    ASSUME InfoInv, daemon = "greet"
    PROVE  /\ Due \in StreamKinds /\ <<att, Due>> \notin named
           /\ <<att, "main">> \notin named => Due = "main"
<1> DEFINE Next1(s) == /\ <<att, s>> \notin named
                       /\ \A r \in StreamKinds : <<att, r>> \in named \/ Order[s] <= Order[r]
<1>1. Order["main"] = 1 /\ Order["pro"] = 2 /\ Order["lpe"] = 3
  BY DEF Order
<1>2. StreamKinds \subseteq {"main", "pro", "lpe"} /\ "main" \in StreamKinds
  BY LinkAssumption DEF StreamKinds
<1>3. \E s \in StreamKinds : <<att, s>> \notin named
  BY DEF InfoInv, DueInv
<1>4. \E s \in StreamKinds : Next1(s)
  <2>1. CASE <<att, "main">> \notin named
    BY <2>1, <1>1, <1>2
  <2>2. CASE <<att, "main">> \in named /\ "pro" \in StreamKinds /\ <<att, "pro">> \notin named
    BY <2>2, <1>1, <1>2
  <2>3. CASE <<att, "main">> \in named /\ ~("pro" \in StreamKinds /\ <<att, "pro">> \notin named)
    BY <2>3, <1>1, <1>2, <1>3
  <2> QED BY <2>1, <2>2, <2>3
<1>5. Due = CHOOSE s \in StreamKinds : Next1(s)
  BY DEF Due
<1> HIDE DEF Next1
<1>6. Due \in StreamKinds /\ Next1(Due)
  BY <1>4, <1>5
<1> USE DEF Next1
<1>7. ASSUME <<att, "main">> \notin named PROVE Due = "main"
  BY <1>1, <1>2, <1>6, <1>7
<1> QED BY <1>6, <1>7

LEMMA GreetInfo ==
    ASSUME IInv, InfoInv, UNCHANGED agent, Greet
    PROVE  InfoInv'
<1> USE StreamFacts
<1>0. /\ handler' = handler /\ client' = client /\ known' = known /\ att' = att /\ loop' = loop
      /\ line' = line /\ ended' = ended /\ cmd' = cmd /\ overtaken' = overtaken
      /\ report' = report /\ attached' = attached /\ quitter' = quitter
      /\ daemon = "greet" /\ line[att] # "closed" /\ att # 0 /\ att \in Attempts
  BY DEF Greet, agent, clientVars, loopVars, quitVars, effects, IInv, CmdInv, AttInv, Types, LoopType
<1>1. PICK s \in StreamKinds : s = Due
  BY <1>0, DueFacts
<1>2. <<att, s>> \notin named /\ (<<att, "main">> \notin named => s = "main")
  BY <1>0, <1>1, DueFacts
<1>3. /\ named' = named \cup {<<att, s>>}
      /\ infos' = IF s = "main" /\ <<att, "main">> \notin ended
                  THEN [infos EXCEPT ![att] = Append(@, attached)] ELSE infos
      /\ daemon' = IF \A r \in StreamKinds : <<att, r>> \in named' THEN "serving" ELSE "greet"
  BY <1>1 DEF Greet
<1>4. <<att, "main">> \in named'
  BY <1>2, <1>3
<1>5. PICK q \in Seq(Infos) : q = infos[att]
  BY <1>0 DEF InfoInv, InfoType
<1>6. attached \in Infos /\ attached # "bad"
  BY DEF InfoInv, InfoType, Infos
<1>7. PICK p \in Seq(Infos) : p = Append(q, attached)
  BY <1>6, AppendFacts
<1>8. /\ p # <<>> /\ p[Len(p)] = attached
      /\ q = <<>> => Head(p) = attached
      /\ q # <<>> => Head(p) = Head(q)
  BY <1>6, <1>7, AppendFacts
<1>9. /\ \A k \in Attempts : k # att => infos'[k] = infos[k]
      /\ s = "main" /\ <<att, "main">> \notin ended => infos'[att] = p
      /\ s # "main" \/ <<att, "main">> \in ended => infos' = infos
  BY <1>0, <1>3, <1>5, <1>7 DEF InfoInv, InfoType
<1>10. InfoType'
  <2>1. infos' \in [Attempts -> Seq(Infos)]
    BY <1>3, <1>5, <1>7 DEF InfoInv, InfoType
  <2> QED BY <2>1, <1>0, <1>3 DEF InfoInv, InfoType
<1>11. FarInv' /\ UpInv' /\ EndInv' /\ ForceInv'
  BY <1>0 DEF InfoInv, FarInv, UpInv, Over, EndInv, ForceInv
<1>12. NamedInv'
  <2>1. \A x \in Streams : x \in named' => x \in named \/ x[1] = att
    BY <1>3
  <2> QED BY <2>1, <1>0, <1>3, <1>4 DEF InfoInv, NamedInv
<1>13. SetInv' /\ WorkInv'
  BY <1>0, <1>3 DEF InfoInv, SetInv, WorkInv
<1>14. FirstInv'
  <2> SUFFICES ASSUME NEW k \in Attempts, handler[<<k, "main">>] \in {"handshake", "joined"}
               PROVE  /\ <<k, "main">> \in named' => infos'[k] # <<>>
                      /\ infos'[k] # <<>> => Head(infos'[k]) # "bad"
    BY <1>0 DEF FirstInv
  <2>1. <<k, "main">> \notin ended
    BY DEF InfoInv, EndInv
  <2>2. CASE k = att /\ s = "main"
    BY <2>1, <2>2, <1>5, <1>6, <1>8, <1>9 DEF InfoInv, FirstInv
  <2>3. CASE k # att \/ s # "main"
    BY <2>3, <1>3, <1>9 DEF InfoInv, FirstInv
  <2> QED BY <2>2, <2>3
<1>15. DueInv'
  BY <1>0, <1>3 DEF DueInv
<1>16. LastInv'
  <2> SUFFICES ASSUME Reported', ~overtaken'
               PROVE  (/\ infos[att] = <<>> => known = attached
                       /\ infos[att] # <<>> => infos[att][Len(infos[att])] \in {attached, "bad"})'
    BY DEF LastInv
  <2>1. <<att, "main">> \notin ended
    BY <1>0 DEF Reported
  <2>2. CASE s = "main"
    BY <2>1, <2>2, <1>0, <1>8, <1>9
  <2>3. CASE s # "main"
    <3>1. Reported /\ ~overtaken
      BY <2>3, <1>0, <1>2 DEF Reported, Over
    <3> QED BY <3>1, <2>3, <1>0, <1>9 DEF InfoInv, LastInv
  <2> QED BY <2>2, <2>3
<1> QED
  BY <1>10, <1>11, <1>12, <1>13, <1>14, <1>15, <1>16 DEF InfoInv

\* A loop reports what it did.
LEMMA SendInfoInfo ==
    ASSUME IInv, InfoInv, UNCHANGED agent, NEW x \in CmdStreams, SendInfo(x)
    PROVE  InfoInv'
<1> USE StreamFacts
<1>0. /\ handler' = handler /\ client' = client /\ known' = known /\ att' = att /\ daemon' = daemon
      /\ line' = line /\ ended' = ended /\ named' = named /\ cmd' = cmd
      /\ attached' = attached /\ quitter' = quitter
      /\ overtaken' = (overtaken \/ report[x] \notin {attached, "bad"})
      /\ loop[x] = "send" /\ loop' = [loop EXCEPT ![x] = "recv"]
      /\ report' = [report EXCEPT ![x] = "bad"]
      /\ x \in Streams /\ x[1] \in Attempts
  BY DEF SendInfo, LoopTo, agent, clientVars, daemonVars, quitVars, effects
<1>1. \A y \in CmdStreams : loop'[y] = loop[y] \/ (y = x /\ loop'[y] = "recv")
  BY <1>0 DEF IInv, Types, LoopType
<1>2. report' \in [CmdStreams -> Infos]
  BY <1>0 DEF InfoInv, InfoType, Infos
<1>3. FarInv' /\ UpInv' /\ EndInv' /\ NamedInv' /\ SetInv' /\ DueInv' /\ ForceInv'
  BY <1>0 DEF InfoInv, FarInv, UpInv, Over, EndInv, NamedInv, SetInv, DueInv, ForceInv
<1>4. WorkInv'
  BY <1>0, <1>1 DEF InfoInv, WorkInv, Working
<1>5. CASE Broken(<<x[1], "main">>) /\ infos' = infos
  <2>1. InfoType'
    BY <1>0, <1>2, <1>5 DEF InfoInv, InfoType
  <2>2. FirstInv'
    BY <1>0, <1>5 DEF InfoInv, FirstInv
  <2>3. LastInv'
    <3> SUFFICES ASSUME Reported', ~overtaken'
                 PROVE  (/\ infos[att] = <<>> => known = attached
                         /\ infos[att] # <<>> => infos[att][Len(infos[att])] \in {attached, "bad"})'
      BY DEF LastInv
    <3>1. x[1] # att
      BY <1>0, <1>5, MainFacts DEF Broken, Reported, Over
    <3>2. \A s \in Commands : <<att, s>> # x
      BY <3>1
    <3>3. att \in Attempts
      BY <1>0 DEF Reported, IInv, Types, LoopType
    <3>4. \A s \in Commands : loop'[<<att, s>>] = loop[<<att, s>>]
      BY <3>2, <3>3, <1>1
    <3>5. Reported /\ ~overtaken
      BY <3>4, <1>0 DEF Reported, Over
    <3> QED BY <3>5, <1>0, <1>5 DEF InfoInv, LastInv
  <2> QED BY <2>1, <2>2, <2>3, <1>3, <1>4 DEF InfoInv
<1>6. CASE /\ line[x[1]] # "closed" /\ <<x[1], "main">> \notin ended
           /\ infos' = [infos EXCEPT ![x[1]] = Append(@, report[x])]
  <2>1. x[1] = att
    BY <1>0, <1>6 DEF IInv, CmdInv, LoopInv
  <2>2. PICK q \in Seq(Infos) : q = infos[att]
    BY <1>0, <2>1 DEF InfoInv, InfoType
  <2>3. PICK v \in Infos : v = report[x]
    BY DEF InfoInv, InfoType
  <2>4. PICK p \in Seq(Infos) : p = Append(q, v)
    BY AppendFacts
  <2>5. p # <<>> /\ p[Len(p)] = v /\ (q # <<>> => Head(p) = Head(q))
    BY <2>4, AppendFacts
  <2>6. infos'[att] = p /\ \A k \in Attempts : k # att => infos'[k] = infos[k]
    BY <1>0, <1>6, <2>1, <2>2, <2>3, <2>4 DEF InfoInv, InfoType
  <2>7. InfoType'
    <3>1. infos' \in [Attempts -> Seq(Infos)]
      BY <1>6, <2>1, <2>2, <2>3, <2>4 DEF InfoInv, InfoType
    <3> QED BY <3>1, <1>0, <1>2 DEF InfoInv, InfoType
  <2>8. <<att, "main">> \in named
    BY <1>0, <1>6, <2>1 DEF InfoInv, WorkInv, Working
  <2>9. FirstInv'
    BY <1>0, <2>2, <2>5, <2>6, <2>8 DEF InfoInv, FirstInv
  <2>10. LastInv'
    BY <1>0, <2>3, <2>5, <2>6 DEF LastInv
  <2> QED BY <2>7, <2>9, <2>10, <1>3, <1>4 DEF InfoInv
<1> QED BY <1>5, <1>6 DEF SendInfo

\* Steps of a loop.
LEMMA LoopStepInfo ==
    ASSUME IInv, InfoInv, UNCHANGED agent, NEW x \in CmdStreams, LoopStep(x)
    PROVE  InfoInv'
<1> USE StreamFacts
<1>0. LoopType /\ LineType /\ InfoType
  BY DEF IInv, Types, InfoInv
<1>1. CASE SendInfo(x)
  BY <1>1, SendInfoInfo
<1>2. CASE RecvCmd(x) \/ RecvStops(x) \/ SendResult(x) \/ SendResultFails(x) \/ GatherInfo(x) \/ LoopEnds(x)
  <2>1. /\ att' = att /\ line' = line /\ named' = named /\ ended' = ended /\ infos' = infos
        /\ quitter' = quitter /\ daemon' = daemon /\ attached' = attached /\ overtaken' = overtaken
        /\ cmd' = cmd \/ cmd' = [cmd EXCEPT ![x] = None]
    BY <1>2 DEF RecvCmd, RecvStops, SendResult, SendResultFails, GatherInfo, LoopEnds, daemonVars,
                quitVars, effects, transport, reports
  <2>2. report' \in [CmdStreams -> Infos]
    <3>1. report' = report \/ \E v \in Infos : report' = [report EXCEPT ![x] = v]
      BY <1>2, <1>0 DEF RecvCmd, RecvStops, SendResult, SendResultFails, GatherInfo, LoopEnds, loopVars,
                  InfoType, Infos
    <3> QED BY <3>1, <1>0 DEF InfoType
  <2>3. PICK pc \in {"exec", "info", "send", "end", "off", "out"} :
                  /\ loop' = [loop EXCEPT ![x] = pc]
                  /\ pc \in Working => loop[x] \in Working \/ cmd[x] # None
                  /\ pc # "recv" /\ (pc = "off" => x[1] # att)
    <3>1. CASE RecvCmd(x)
      <4>1. loop' = [loop EXCEPT ![x] = "exec"] /\ cmd[x] # None
        BY <3>1 DEF RecvCmd, LoopTo
      <4> QED BY <4>1
    <3>2. CASE RecvStops(x) \/ SendResultFails(x)
      <4>1. loop' = [loop EXCEPT ![x] = IF att = x[1] THEN "end" ELSE "off"]
        BY <3>2 DEF RecvStops, SendResultFails, Exit, LoopTo
      <4>2. CASE att = x[1]
        BY <4>1, <4>2 DEF Working
      <4>3. CASE att # x[1]
        BY <4>1, <4>3 DEF Working
      <4> QED BY <4>2, <4>3
    <3>3. CASE SendResult(x) \/ GatherInfo(x)
      <4>1. loop[x] \in Working /\ \E pc \in {"info", "send"} : loop' = [loop EXCEPT ![x] = pc]
        BY <3>3 DEF SendResult, GatherInfo, LoopTo, Working
      <4> QED BY <4>1
    <3>4. CASE LoopEnds(x)
      <4>1. loop' = [loop EXCEPT ![x] = "out"]
        BY <3>4 DEF LoopEnds, LoopTo
      <4> QED BY <4>1 DEF Working
    <3> QED BY <1>2, <3>1, <3>2, <3>3, <3>4
  <2>4. \A y \in CmdStreams : loop'[y] = IF y = x THEN pc ELSE loop[y]
    BY <2>3, <1>0 DEF LoopType
  <2>5. Reported' => Reported
    <3> SUFFICES ASSUME Reported' PROVE Reported
      OBVIOUS
    <3>1. att \in Attempts /\ att # 0
      BY <2>1, <1>0 DEF Reported, LoopType
    <3>2. \A s \in Commands : loop'[<<att, s>>] \in {"off", "recv"} /\ <<att, s>> \in CmdStreams
      BY <2>1, <3>1 DEF Reported
    <3>3. \A s \in Commands : <<att, s>> # x
      BY <3>2, <2>3, <2>4
    <3> QED BY <3>2, <3>3, <2>1, <2>4 DEF Reported, Over
  <2>6. \A y \in CmdStreams : cmd'[y] # None => cmd[y] # None
    BY <2>1, <1>0 DEF LineType
  <2>7. \A y \in CmdStreams : loop'[y] \in Working => loop[y] \in Working \/ cmd[y] # None
    BY <2>3, <2>4
  <2>8. attached' \in {"attached", "detached"}
    BY <2>1, <1>0 DEF InfoType
  <2> QED BY <2>1, <2>2, <2>5, <2>6, <2>7, <2>8, DistroCalm
<1>3. CASE Exec(x) \/ Attach(x)
  <2>1. /\ att' = att /\ line' = line /\ named' = named /\ ended' = ended /\ infos' = infos /\ cmd' = cmd
        /\ quitter' = quitter /\ daemon' = daemon /\ report' = report
        /\ overtaken' = (overtaken \/ (x[1] # att /\ attached' # attached))
        /\ attached' \in {attached, "attached", "detached"}
    BY <1>3 DEF Exec, Attach, Unreported, daemonVars, quitVars
  <2>2. PICK pc \in {"attach", "reply"} : loop' = [loop EXCEPT ![x] = pc]
    BY <1>3, Zenon DEF Exec, Attach, LoopTo
  <2>3. loop[x] \in Working
    BY <1>3 DEF Exec, Attach, Working
  <2>4. \A y \in CmdStreams : loop'[y] = IF y = x THEN pc ELSE loop[y]
    BY <2>2, <1>0 DEF LoopType
  <2>5. Reported' /\ ~overtaken' => Reported /\ ~overtaken /\ attached' = attached
    <3> SUFFICES ASSUME Reported', ~overtaken' PROVE Reported /\ ~overtaken /\ attached' = attached
      OBVIOUS
    <3>1. att \in Attempts /\ att # 0
      BY <2>1, <1>0 DEF Reported, LoopType
    <3>2. \A s \in Commands : loop'[<<att, s>>] \in {"off", "recv"} /\ <<att, s>> \in CmdStreams
      BY <2>1, <3>1 DEF Reported
    <3>3. \A s \in Commands : <<att, s>> # x
      BY <3>2, <2>2, <2>4
    <3>4. x[1] # att
      BY <3>3, MainFacts
    <3>5. Reported
      BY <3>2, <3>3, <2>1, <2>4 DEF Reported, Over
    <3> QED BY <3>4, <3>5, <2>1
  <2>6. \A y \in CmdStreams : loop'[y] \in Working => loop[y] \in Working \/ cmd[y] # None
    BY <2>3, <2>4
  <2>7. attached' \in {"attached", "detached"} /\ report' \in [CmdStreams -> Infos]
    BY <2>1, <1>0 DEF InfoType
  <2> QED BY <2>1, <2>5, <2>6, <2>7, DistroCalm
<1> QED BY <1>1, <1>2, <1>3 DEF LoopStep

\* Steps of the daemon.
LEMMA DaemonStepInfo ==
    ASSUME IInv, InfoInv, UNCHANGED agent, DaemonStep \/ ServeFails
    PROVE  InfoInv'
<1>1. CASE Greet
  BY <1>1, GreetInfo
<1>2. CASE GreetFails \/ InfoFails \/ ServerEnds
  <2>1. /\ CloseLine(att) /\ att' = 0 /\ daemon' # "greet" /\ att # 0
        /\ report' = report /\ attached' = attached
        /\ loop' = [x \in CmdStreams |-> IF x[1] = att /\ loop[x] \in {"end", "out"} THEN "off"
                                         ELSE loop[x]]
    BY <1>2 DEF GreetFails, InfoFails, ServerEnds, HangUp, effects, IInv, CmdInv, AttInv
  <2>2. \A x \in CmdStreams : loop'[x] \in Working => loop[x] \in Working
    BY <2>1 DEF Working
  <2> QED BY <2>1, <2>2, CloseInfo
<1>3. CASE \/ ServeStarts \/ Ensured \/ ServeQuits \/ MinutePasses \/ GracefulStop \/ QuitReturns
           \/ ServeFails
  <2>1. /\ att' = att /\ line' = line /\ named' = named /\ ended' = ended /\ infos' = infos /\ cmd' = cmd
        /\ overtaken' = overtaken /\ report' = report /\ attached' = attached /\ loop' = loop
        /\ quitter' = "no" => quitter = "no"
        /\ daemon' = "greet" => daemon = "greet"
    BY <1>3 DEF ServeStarts, Ensured, ServeQuits, MinutePasses, GracefulStop, QuitReturns, ServeFails,
                daemonVars, loopVars, quitVars, effects, transport, reports
  <2>2. report' \in [CmdStreams -> Infos] /\ attached' \in {"attached", "detached"}
    BY <2>1 DEF InfoInv, InfoType
  <2>3. Reported' => Reported
    BY <2>1 DEF Reported, Over
  <2> QED BY <2>1, <2>2, <2>3, DistroCalm
<1> QED BY <1>1, <1>2, <1>3 DEF DaemonStep

LEMMA QuitInfo ==
    ASSUME IInv, InfoInv, UNCHANGED agent, NEW how \in {"graceful", "force"}, Quit(how)
    PROVE  InfoInv'
<1>1. /\ quitter' # "no" /\ att' = att /\ daemon' = daemon /\ loop' = loop /\ report' = report
      /\ attached' = attached
  BY DEF Quit, loopVars, effects
<1>2. CASE how = "force" /\ att # 0
  <2>1. CloseLine(att)
    BY <1>2 DEF Quit
  <2> QED BY <1>1, <1>2, <2>1, CloseInfo
<1>3. CASE ~(how = "force" /\ att # 0)
  <2>1. /\ line' = line /\ named' = named /\ ended' = ended /\ infos' = infos /\ cmd' = cmd
        /\ overtaken' = overtaken
    BY <1>3 DEF Quit, reports
  <2>2. report' \in [CmdStreams -> Infos] /\ attached' \in {"attached", "detached"}
    BY <1>1 DEF InfoInv, InfoType
  <2>3. Reported' => Reported
    BY <1>1, <2>1 DEF Reported, Over
  <2> QED BY <1>1, <2>1, <2>2, <2>3, DistroCalm
<1> QED BY <1>2, <1>3

\* A line is cut, alone or with the whole distro.
LEMMA CutInfo ==
    ASSUME IInv, InfoInv, UNCHANGED agent, (\E k \in Attempts : Cut(k)) \/ Crash
    PROVE  InfoInv'
<1> USE StreamFacts
<1>0. /\ handler' = handler /\ client' = client /\ known' = known /\ named' = named /\ ended' = ended
      /\ cmd' = cmd /\ infos' = infos /\ overtaken' = overtaken /\ report' = report
      /\ attached' = attached /\ quitter' = quitter
  BY DEF Cut, Crash, agent, clientVars, distro, loopVars, quitVars, effects, reports
<1>1. /\ att' = att \/ (att' = 0 /\ (att # 0 => line'[att] = "cut"))
      /\ (att' = att /\ daemon' = daemon) \/ daemon' # "greet"
      /\ loop' = loop \/ \A x \in CmdStreams : loop'[x] = "off"
  BY DEF Cut, Crash, distro, daemonVars, loopVars, IInv, Types, LoopType, Over
<1>2. /\ \A k \in Attempts : line'[k] = "closed" <=> line[k] = "closed"
      /\ \A k \in Attempts : Over(k) => Over(k)'
  <2>1. ASSUME NEW k \in Attempts, Cut(k)
        PROVE  \A j \in Attempts : line'[j] = IF j = k THEN "cut" ELSE line[j]
    BY <2>1 DEF Cut, IInv, Types, LineType
  <2>2. ASSUME NEW k \in Attempts, Cut(k) PROVE line[k] = "up"
    BY <2>2 DEF Cut
  <2>3. ASSUME Crash
        PROVE  /\ \A j \in Attempts : line'[j] = IF j = att THEN "cut" ELSE line[j]
               /\ att # 0 => line[att] # "closed"
    BY <2>3 DEF Crash, InfoInv, ForceInv
  <2>4. CASE \E k \in Attempts : Cut(k)
    BY <2>1, <2>2, <2>4 DEF Over
  <2>5. CASE Crash
    BY <2>3, <2>5, LinkAssumption DEF Over
  <2> QED BY <2>4, <2>5
<1>3. InfoType' /\ UpInv' /\ EndInv' /\ FirstInv'
  BY <1>0 DEF InfoInv, InfoType, UpInv, EndInv, FirstInv
<1>4. FarInv'
  BY <1>0, <1>1, <1>2 DEF InfoInv, FarInv, Over
<1>5. NamedInv' /\ SetInv'
  BY <1>0, <1>2 DEF InfoInv, NamedInv, SetInv
<1>6. WorkInv'
  BY <1>0, <1>1, <1>2 DEF InfoInv, WorkInv, Working
<1>7. DueInv'
  BY <1>0, <1>1 DEF InfoInv, DueInv
<1>8. ForceInv'
  BY <1>0, <1>1, <1>2 DEF InfoInv, ForceInv, IInv, Types, LoopType
<1>9. LastInv'
  <2> SUFFICES ASSUME Reported' PROVE Reported /\ att' = att
    BY <1>0 DEF LastInv, InfoInv
  <2>1. att' = att /\ att # 0 /\ att \in Attempts
    BY <1>1 DEF Reported, IInv, Types, LoopType
  <2>2. ~Over(att)
    BY <2>1, <1>2 DEF Reported
  <2>3. loop' = loop
    BY <2>1 DEF Reported, Cut, Crash, distro, loopVars
  <2> QED BY <2>1, <2>2, <2>3, <1>0 DEF Reported
<1> QED BY <1>3, <1>4, <1>5, <1>6, <1>7, <1>8, <1>9 DEF InfoInv

LEMMA DistroStepInfo ==
    ASSUME IInv, InfoInv, UNCHANGED agent, DistroStep
    PROVE  InfoInv'
BY DaemonStepInfo, LoopStepInfo, QuitInfo, CutInfo DEF DistroStep

\* A new attempt starts with nothing said and nothing known of it.
LEMMA OpenInfo ==
    ASSUME IInv, InfoInv, NEW k \in Unused, NEW ss, Accept(k, ss),
           Open(k) \/ OpenFails(k)
    PROVE  InfoInv'
<1> USE StreamFacts
<1>0. LineType /\ LoopType /\ HandlerType /\ InfoType
  BY DEF IInv, Types, InfoInv
<1>1. k \in Attempts /\ k # 0 /\ \A s \in Commands : loop[<<k, s>>] \in {"off", "end", "out"}
  BY LinkAssumption DEF Unused
<1>2. /\ handler' = [x \in Streams |-> IF x[1] # k THEN handler[x]
                                      ELSE IF x[2] \in ss THEN "handshake" ELSE "none"]
      /\ client' = client /\ known' = known
  BY DEF Accept, clientVars
<1>3. att = 0
  BY DEF Open, OpenFails, MayConnect, AttInv, IInv, CmdInv
<1>4. /\ line' = [line EXCEPT ![k] = "up"] \/ line' = [line EXCEPT ![k] = "closed"]
      /\ named' = named \ Of(k, named) /\ ended' = ended \ Of(k, ended)
      /\ cmd' = [x \in CmdStreams |-> IF x[1] = k THEN None ELSE cmd[x]]
      /\ infos' = [infos EXCEPT ![k] = <<>>]
      /\ report' = report /\ attached' = attached
  BY DEF Open, OpenFails, OpenLine, loopVars, effects
<1>5. \/ /\ att' = k /\ daemon' = "greet" /\ line'[k] = "up"
         /\ loop' = [x \in CmdStreams |-> IF x[1] = k THEN "recv" ELSE loop[x]]
      \/ /\ att' = 0 /\ daemon' = "wait" /\ line'[k] = "closed" /\ loop' = loop
  BY <1>0, <1>1, <1>3 DEF Open, OpenFails, OpenLine, MayConnect, loopVars, LineType
<1>6. \A x \in Streams : /\ x[1] = k => x \notin named' /\ x \notin ended'
                         /\ x[1] # k => (x \in named' <=> x \in named) /\ (x \in ended' <=> x \in ended)
  BY <1>4 DEF Of
<1>7. \A j \in Attempts : j # k => line'[j] = line[j] /\ infos'[j] = infos[j]
  BY <1>0, <1>4 DEF LineType, InfoType
<1>8. infos'[k] = <<>>
  BY <1>0, <1>1, <1>4 DEF InfoType
<1>9. \A x \in Streams : /\ x[1] # k => handler'[x] = handler[x]
                         /\ x[1] = k => handler'[x] \in {"none", "handshake"}
  BY <1>2
<1>10. InfoType'
  <2>1. <<>> \in Seq(Infos)
    OBVIOUS
  <2>2. infos' \in [Attempts -> Seq(Infos)]
    BY <2>1, <1>0, <1>4 DEF InfoType
  <2> QED BY <2>2, <1>0, <1>4 DEF InfoType
<1>11. FarInv'
  <2> SUFFICES ASSUME NEW x \in Streams, handler'[x] # "none", x[1] # att'
               PROVE  line'[x[1]] \in {"cut", "closed"}
    BY DEF FarInv, Over
  <2>1. CASE x[1] = k
    BY <2>1, <1>5
  <2>2. CASE x[1] # k
    BY <2>2, <1>3, <1>7, <1>9 DEF InfoInv, FarInv, Over
  <2> QED BY <2>1, <2>2
<1>12. UpInv' /\ EndInv'
  BY <1>0, <1>4, <1>6, <1>9 DEF InfoInv, UpInv, EndInv, InfoType
<1>13. NamedInv'
  BY <1>6, <1>7, <1>9, MainFacts DEF InfoInv, NamedInv
<1>14. SetInv'
  <2>1. \A c \in Clients, s \in StreamKinds : client[c].set[s] # k
    BY UnusedIsInNoClient
  <2> QED BY <2>1, <1>2, <1>6, <1>7 DEF InfoInv, SetInv
<1>15. WorkInv'
  <2> SUFFICES ASSUME NEW x \in CmdStreams, line'[x[1]] # "closed", cmd'[x] # None \/ loop'[x] \in Working
               PROVE  <<x[1], "main">> \in named'
    BY DEF WorkInv
  <2>1. x \in Streams /\ x[1] \in Attempts /\ x[1] # k
    BY <1>4, <1>5 DEF Working
  <2>2. cmd[x] # None \/ loop[x] \in Working
    BY <2>1, <1>4, <1>5
  <2>3. <<x[1], "main">> \in named
    BY <2>1, <2>2, <1>7 DEF InfoInv, WorkInv
  <2> QED BY <2>1, <2>3, <1>6, MainFacts
<1>16. FirstInv'
  BY <1>6, <1>7, <1>8, <1>9, MainFacts DEF InfoInv, FirstInv
<1>17. DueInv'
  BY <1>1, <1>5, <1>6, MainFacts DEF DueInv, StreamKinds
<1>18. ForceInv'
  BY <1>5 DEF ForceInv
<1>19. LastInv'
  BY <1>1, <1>5, <1>6, MainFacts DEF LastInv, Reported
<1> QED
  BY <1>10, <1>11, <1>12, <1>13, <1>14, <1>15, <1>16, <1>17, <1>18, <1>19 DEF InfoInv

LEMMA NextInfo == IInv /\ InfoInv /\ [Next]_vars => InfoInv'
<1> SUFFICES ASSUME IInv, InfoInv, [Next]_vars PROVE InfoInv'
  OBVIOUS
<1>1. CASE AgentStep /\ UNCHANGED distro
  BY <1>1, AgentStepInfo
<1>2. CASE DistroStep /\ UNCHANGED agent
  BY <1>2, DistroStepInfo
<1>3. ASSUME Unused # {}, NEW k, k = CHOOSE u \in Unused : TRUE, Connect(k) \/ ConnectFails(k)
      PROVE  InfoInv'
  <2>1. k \in Unused
    BY <1>3
  <2>2. PICK ss : Accept(k, ss) /\ (Open(k) \/ OpenFails(k))
    BY <1>3 DEF Connect, ConnectFails
  <2> QED BY <2>1, <2>2, OpenInfo
<1>4. CASE UNCHANGED vars
  <2>1. handler' = handler /\ client' = client /\ known' = known /\ UNCHANGED distro /\ UNCHANGED transport
    BY <1>4 DEF vars, agent, clientVars
  <2> QED BY <2>1, AgentCalm DEF transport, reports, SetsKept
<1> QED BY <1>1, <1>2, <1>3, <1>4 DEF Next

\* Once nothing is being executed and no info is on its way, what the agent's database says
\* of the distro is true, whatever became of the attempts before: a loop that has changed the
\* distro reports it or gives its connection up, and a handler that is left over from an
\* earlier attempt does not go unnoticed.  The exceptions are in overtaken: a report gathered
\* before the other loop's command took effect, one from an attempt that is over, and the
\* command of a loop that its server has left behind.
THEOREM DatabaseIsCurrent == Spec => []InfoIsCurrent
<1>1. Init => InfoInv
  BY InitInfo
<1>2. IInv /\ InfoInv /\ [Next]_vars => InfoInv'
  BY NextInfo
<1>3. IInv /\ InfoInv => InfoIsCurrent
  BY InfoInvImplies
<1> QED BY <1>1, <1>2, <1>3, Invariance, PTL DEF Spec
==============================================================================
