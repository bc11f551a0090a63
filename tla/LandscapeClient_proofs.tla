------------------------ MODULE LandscapeClient_proofs ------------------------
(***************************************************************************)
(* The two safety invariants of LandscapeClient.                           *)
(*                                                                         *)
(* One command at a time: only a connection that the loop refers to, as    *)
(* s.conn or as the one it is making, has a goroutine that receives        *)
(* commands (OwnInv), and it never refers to two (PhaseInv); that needs    *)
(* that a connection is closed only when its goroutine has ended           *)
(* (ClosedInv).                                                            *)
(*                                                                         *)
(* The server is up to date: from the greeting on, unless the Controller   *)
(* has a change that it has not sent yet (UpInv).  The greeting itself may *)
(* be older than the state when it is sent; then the Controller has a      *)
(* change to send, or the greeting is the state (GreetInv).  A message in  *)
(* flight is never newer than the state it reports (ReadInv), and an older *)
(* one that arrives after a newer one is what the history variable stale   *)
(* records.                                                                *)
(***************************************************************************)
EXTENDS LandscapeClient, FiniteSetTheorems, TLAPS

ConnRecord ==
    [set : Settings \cup {0}, live : BOOLEAN, open : BOOLEAN, asked : BOOLEAN,
     recv : {"none", "recv", "assign", "exec", "notify", "compare", "report", "send", "ended"},
     read : Settings \cup {-1} \cup 0 .. MaxInfos]

\* Types.
ConnType == connection \in [Conns -> ConnRecord]

LoopType ==
    /\ conn \in Conns \cup {0}
    /\ loop \in [pc : {"wait", "drop", "dial", "hello", "greet", "look", "poll", "expire", "clear",
                       "stuck", "undo", "unset", "ready", "connected", "leave", "quit", "ended"},
                 new : Conns \cup {0}, read : 0 .. MaxInfos]

ConfType == conf \in Settings \cup {0}

CtlType ==
    /\ ctl \in [pc : {"idle", "start", "await", "gone", "poll", "assemble", "send"},
                on : Conns \cup {0}, read : 0 .. MaxInfos]
    /\ info \in 0 .. MaxInfos /\ known \in 0 .. MaxInfos

Types == ConnType /\ LoopType /\ ConfType /\ CtlType

\* Only the connections the loop refers to receive commands.
OwnInv == \A i \in Conns : i # conn /\ i # loop.new => connection[i].recv = "none"

\* A closed connection receives no commands any more.
ClosedInv ==
    \A i \in Conns : connection[i].open = FALSE => connection[i].recv \in {"none", "ended"}

\* A connection whose context is not done is open.
LiveInv == \A i \in Conns : connection[i].live = TRUE => connection[i].open = TRUE

\* What the loop refers to, depending on where it is.
PhaseInv ==
    /\ loop.new # 0 <=> loop.pc \in {"hello", "greet", "look", "poll", "expire", "undo", "unset"}
    /\ loop.pc \in {"dial", "hello", "greet", "look", "poll", "expire", "clear", "stuck", "undo", "unset"}
       => conn = 0
    /\ loop.pc \in {"drop", "ready", "connected", "leave"} => conn # 0
    /\ loop.pc \in {"drop", "leave"} => connection[conn].live = FALSE
    /\ loop.pc \in {"expire", "undo", "unset"} => connection[loop.new].live = FALSE

\* A client that is connected is not disabled.
EnabledInv == loop.pc = "connected" => disabled = FALSE

\* Messages in flight, and what the server has been told, are not newer than the state.
ReadInv ==
    /\ known <= info /\ loop.read <= info
    /\ ctl.pc = "send" => ctl.read = info
    /\ \A i \in Conns : connection[i].recv = "send" => connection[i].read \in -1 .. info

\* The connection over which the server has been greeted.
Greeted == IF loop.pc \in {"look", "poll"} THEN loop.new ELSE conn

\* The server knows the state, unless the Controller is about to tell it.
UpInv ==
    /\ loop.pc \in {"look", "poll", "ready", "connected"} /\ stale = {}
    /\ ctl.pc \notin {"start", "assemble", "send"} /\ connection[Greeted].live = TRUE /\ stop = FALSE
    => known = info

\* What was gathered for the greeting is the state, unless the Controller is about to tell the
\* server; and the server has been told no less since.
GreetInv ==
    /\ loop.pc = "greet" /\ stale = {} /\ ctl.pc \notin {"start", "assemble", "send"} => loop.read = info
    /\ /\ loop.pc \in {"look", "poll", "ready"} /\ stale = {} /\ connection[Greeted].live = TRUE
       /\ stop = FALSE
       => loop.read <= known

ConnInv == OwnInv /\ ClosedInv /\ LiveInv /\ PhaseInv

IInv == Types /\ ConnInv /\ EnabledInv /\ ReadInv /\ UpInv /\ GreetInv

-----------------------------------------------------------------------------
LEMMA Zero == 0 \notin Conns /\ 0 \in 0 .. MaxInfos /\ MaxInfos \in Nat
BY ClientAssumption

LEMMA NoConnFacts ==
    /\ NoConn \in ConnRecord
    /\ NoConn.live = FALSE /\ NoConn.open = FALSE /\ NoConn.recv = "none"
BY Zero DEF NoConn, ConnRecord

LEMMA InitIInv == Init => IInv
<1> SUFFICES ASSUME Init PROVE IInv
  OBVIOUS
<1>1. ConnType
  BY NoConnFacts DEF Init, ConnType
<1>2. LoopType /\ ConfType
  BY Zero DEF Init, LoopType, ConfType
<1>3. CtlType
  BY Zero DEF Init, CtlType
<1>4. \A i \in Conns : connection[i] = NoConn
  BY DEF Init
<1>5. OwnInv /\ ClosedInv /\ LiveInv
  BY <1>4, NoConnFacts DEF OwnInv, ClosedInv, LiveInv
<1>6. PhaseInv /\ EnabledInv /\ UpInv /\ GreetInv
  BY DEF Init, PhaseInv, EnabledInv, UpInv, GreetInv
<1>7. ReadInv
  BY <1>4, NoConnFacts DEF Init, ReadInv
<1> QED BY <1>1, <1>2, <1>3, <1>5, <1>6, <1>7 DEF IInv, Types, ConnInv

-----------------------------------------------------------------------------
(* Steps that leave connections or reports alone.                          *)

LEMMA ConnFrame ==
    ASSUME IInv, connection' = connection, conn' = conn, loop' = loop, disabled' = disabled
    PROVE  ConnType' /\ LoopType' /\ ConnInv' /\ EnabledInv'
<1>1. ConnType' /\ LoopType' /\ EnabledInv'
  BY DEF ConnType, LoopType, EnabledInv, IInv, Types
<1>2. OwnInv' /\ ClosedInv' /\ LiveInv' /\ PhaseInv'
  BY DEF OwnInv, ClosedInv, LiveInv, PhaseInv, IInv, ConnInv
<1> QED BY <1>1, <1>2 DEF ConnInv

LEMMA ReportFrame ==
    ASSUME IInv, UNCHANGED reports
    PROVE  /\ CtlType' /\ ctl' = ctl /\ info' = info /\ known' = known /\ stale' = stale
<1>1. ctl' = ctl /\ info' = info /\ known' = known /\ stale' = stale
  BY DEF reports
<1> QED BY <1>1 DEF CtlType, IInv, Types

-----------------------------------------------------------------------------
(* The Controller.                                                         *)

LEMMA CtlFrame ==
    ASSUME IInv, UNCHANGED unchangedCtl
    PROVE  /\ ConnType' /\ LoopType' /\ ConfType' /\ ConnInv' /\ EnabledInv'
           /\ connection' = connection /\ conn' = conn /\ loop' = loop /\ stop' = stop
           /\ Greeted' = Greeted
<1>1. connection' = connection /\ conn' = conn /\ loop' = loop /\ disabled' = disabled /\ stop' = stop
      /\ conf' = conf
  BY DEF unchangedCtl, config
<1>2. ConfType'
  BY <1>1 DEF ConfType, IInv, Types
<1> QED BY <1>1, <1>2, ConnFrame DEF Greeted

LEMMA CtlRange ==
    ASSUME IInv
    PROVE  info \in Int /\ known \in Int /\ loop.read \in Int
<1>1. CtlType /\ LoopType
  BY DEF IInv, Types
<1> QED BY <1>1, Zero DEF CtlType, LoopType

\* The Controller goes on with nothing sent; it becomes idle only if the server is told
\* already, or if stale says why not.
LEMMA CtlMoves ==
    ASSUME IInv, UNCHANGED unchangedCtl, info' = info, known' = known,
           ctl' \in [pc : {"idle", "start", "await", "gone", "poll", "assemble", "send"},
                     on : Conns \cup {0}, read : 0 .. MaxInfos],
           ctl'.pc = "send" => ctl'.read = info, stale' = {} => stale = {},
           \/ ctl'.pc \in {"start", "assemble", "send"}
           \/ stale' # {}
           \/ stale' = stale /\ ctl.pc \notin {"start", "assemble", "send"}
           \/ stale' = stale /\ loop.pc # "greet"
              /\ ~(/\ loop.pc \in {"look", "poll", "ready", "connected"}
                   /\ connection[Greeted].live = TRUE /\ stop = FALSE)
           \/ stale' = stale /\ loop.pc \in {"greet", "look", "poll", "ready"} /\ loop.read = info
    PROVE  IInv'
<1>1. CtlType'
  BY DEF CtlType, IInv, Types
<1>2. ReadInv'
  BY CtlFrame DEF ReadInv, IInv
<1>3. ASSUME stale = {}, loop.pc \in {"look", "poll", "ready"}, loop.read = info,
             connection[Greeted].live = TRUE, stop = FALSE
      PROVE  known = info
  <2>1. loop.read <= known
    BY <1>3 DEF GreetInv, IInv
  <2>2. known <= info
    BY DEF ReadInv, IInv
  <2> QED BY <1>3, <2>1, <2>2, CtlRange
<1>4. UpInv'
  BY <1>3, CtlFrame DEF UpInv, IInv
<1>5. GreetInv'
  BY CtlFrame DEF GreetInv, IInv
<1> QED BY <1>1, <1>2, <1>4, <1>5, CtlFrame DEF IInv, Types

LEMMA CtlStepKeeps ==
    ASSUME IInv, CtlStep
    PROVE  IInv'
<1>0. CtlType /\ LoopType /\ ConnType
  BY DEF IInv, Types
<1>a. ctl.pc \in {"idle", "start", "await", "gone", "poll", "assemble", "send"} /\ ctl.on \in Conns \cup {0}
      /\ ctl.read \in 0 .. MaxInfos /\ info \in 0 .. MaxInfos /\ known \in 0 .. MaxInfos
  BY <1>0 DEF CtlType
<1>1. CASE CtlDisabled
  <2>1. /\ ctl.pc = "start" /\ disabled /\ ctl' = [ctl EXCEPT !.pc = "idle"]
        /\ stale' = IF loop.pc \in {"greet", "look", "poll", "ready"} /\ loop.read # info
                    THEN stale \cup {"disabled"} ELSE stale
        /\ info' = info /\ known' = known /\ UNCHANGED unchangedCtl
    BY <1>1 DEF CtlDisabled
  <2>2. loop.pc # "connected"
    BY <2>1 DEF EnabledInv, IInv
  <2>3. ctl'.pc = "idle" /\ ctl' \in [pc : {"idle", "start", "await", "gone", "poll", "assemble", "send"},
                                      on : Conns \cup {0}, read : 0 .. MaxInfos]
    BY <2>1, <1>0 DEF CtlType
  <2> QED BY <2>1, <2>2, <2>3, CtlMoves
<1>2. CASE CtlConnects
  <2>1. /\ ctl.pc = "start" /\ ~Locked /\ ctl' = [ctl EXCEPT !.pc = IF Connected THEN "assemble" ELSE "await"]
        /\ info' = info /\ known' = known /\ stale' = stale /\ UNCHANGED unchangedCtl
    BY <1>2 DEF CtlConnects
  <2>2. loop.pc \notin {"greet", "look", "poll"}
    BY <2>1 DEF Locked
  <2>3. loop.pc \in {"ready", "connected"} /\ connection[Greeted].live = TRUE => Connected
    <3> SUFFICES ASSUME loop.pc \in {"ready", "connected"}, connection[conn].live = TRUE PROVE Connected
      BY DEF Greeted
    <3>1. conn \in Conns /\ conn # 0
      BY <1>0 DEF LoopType, PhaseInv, IInv, ConnInv
    <3>2. connection[conn].open = TRUE
      BY <3>1 DEF LiveInv, IInv, ConnInv
    <3> QED BY <3>1, <3>2 DEF Connected
  <2>4. ctl'.pc \in {"assemble", "await"} /\ (Connected => ctl'.pc = "assemble")
        /\ ctl' \in [pc : {"idle", "start", "await", "gone", "poll", "assemble", "send"},
                     on : Conns \cup {0}, read : 0 .. MaxInfos]
    BY <2>1, <1>0 DEF CtlType
  <2> QED BY <2>1, <2>2, <2>3, <2>4, CtlMoves
<1>3. CASE CtlAwaits \/ CtlGone \/ CtlPolls \/ CtlGivesUp
  <2>1. /\ ctl.pc \notin {"start", "assemble", "send"}
        /\ info' = info /\ known' = known /\ stale' = stale /\ UNCHANGED unchangedCtl
    BY <1>3 DEF CtlAwaits, CtlGone, CtlPolls, CtlGivesUp
  <2>2. ctl'.pc # "send" /\ ctl' \in [pc : {"idle", "start", "await", "gone", "poll", "assemble", "send"},
                                      on : Conns \cup {0}, read : 0 .. MaxInfos]
    BY <1>3, <1>0 DEF CtlAwaits, CtlGone, CtlPolls, CtlGivesUp, CtlType, LoopType
  <2> QED BY <2>1, <2>2, CtlMoves
<1>4. CASE CtlAssembles
  <2>1. /\ ctl' = IF HostConf = 0 THEN [ctl EXCEPT !.pc = "idle"] ELSE [ctl EXCEPT !.pc = "send", !.read = info]
        /\ stale' = IF HostConf = 0 THEN stale \cup {"unconfigured"} ELSE stale
        /\ info' = info /\ known' = known /\ UNCHANGED unchangedCtl
    BY <1>4 DEF CtlAssembles
  <2>2. ctl' \in [pc : {"idle", "start", "await", "gone", "poll", "assemble", "send"},
                  on : Conns \cup {0}, read : 0 .. MaxInfos]
    BY <2>1, <1>0 DEF CtlType
  <2>3. (ctl'.pc = "send" /\ ctl'.read = info) \/ (stale' # {} /\ ctl'.pc = "idle")
    BY <2>1, <1>0 DEF CtlType
  <2> QED BY <2>1, <2>2, <2>3, CtlMoves
<1>5. CASE CtlSends
  <2>1. /\ ctl.pc = "send" /\ ~Locked
        /\ known' = IF Connected /\ Live(conn) THEN ctl.read ELSE known
        /\ stale' = IF ctl.read < known THEN stale \cup {"overtaken"} ELSE stale
        /\ ctl' = [ctl EXCEPT !.pc = "idle", !.read = 0] /\ info' = info
        /\ UNCHANGED unchangedCtl
    BY <1>5 DEF CtlSends
  <2>2. ctl.read = info
    BY <2>1 DEF ReadInv, IInv
  <2>3. ctl'.pc = "idle"
    BY <2>1, <1>0 DEF CtlType
  <2>4. CtlType'
    BY <2>1, <1>0, <1>a, Zero DEF CtlType
  <2>5. ReadInv'
    <3>1. known' <= info
      BY <2>1, <2>2, <1>a DEF ReadInv, IInv
    <3> QED BY <3>1, <2>1, <2>3, CtlFrame DEF ReadInv, IInv
  <2>6. UpInv'
    <3> SUFFICES ASSUME loop.pc \in {"look", "poll", "ready", "connected"},
                        connection[Greeted].live = TRUE, stop = FALSE
                 PROVE  known' = info
      BY <2>1, CtlFrame DEF UpInv
    <3>1. loop.pc \in {"ready", "connected"} /\ connection[conn].live = TRUE
      BY <2>1 DEF Locked, Greeted
    <3>2. conn \in Conns /\ conn # 0
      BY <3>1, <1>0 DEF LoopType, PhaseInv, IInv, ConnInv
    <3>3. connection[conn].open = TRUE
      BY <3>1, <3>2 DEF LiveInv, IInv, ConnInv
    <3>4. Connected /\ Live(conn)
      BY <3>1, <3>2, <3>3 DEF Connected, Live
    <3> QED BY <3>4, <2>1, <2>2
  <2>7. GreetInv'
    <3>1. loop.pc # "greet"
      BY <2>1 DEF Locked
    <3>2. stale' = {} => stale = {} /\ known <= known'
      BY <2>1, <1>a
    <3>3. known' \in 0 .. MaxInfos
      BY <2>4 DEF CtlType
    <3>4. loop.read <= known /\ stale' = {} => loop.read <= known'
      BY <3>2, <3>3, CtlRange, Zero
    <3>5. ASSUME loop.pc \in {"look", "poll", "ready"}, stale' = {}, connection[Greeted].live = TRUE, stop = FALSE
          PROVE  loop.read <= known'
      <4>1. stale = {}
        BY <2>1, <3>5
      <4>2. loop.read <= known
        BY <4>1, <3>5 DEF GreetInv, IInv
      <4> QED BY <4>2, <3>4, <3>5
    <3> QED BY <2>1, <3>1, <3>5, CtlFrame DEF GreetInv
  <2> QED BY <2>1, <2>4, <2>5, <2>6, <2>7, CtlFrame DEF IInv, Types
<1> QED BY <1>1, <1>2, <1>3, <1>4, <1>5 DEF CtlStep

LEMMA InfoChangesKeeps ==
    ASSUME IInv, InfoChanges
    PROVE  IInv'
<1>0. CtlType
  BY DEF IInv, Types
<1>1. /\ info < MaxInfos /\ info' = info + 1 /\ ctl' = [ctl EXCEPT !.pc = "start"]
      /\ known' = known /\ UNCHANGED unchangedCtl
  BY DEF InfoChanges
<1>2. ctl'.pc = "start" /\ ctl' \in [pc : {"idle", "start", "await", "gone", "poll", "assemble", "send"},
                                     on : Conns \cup {0}, read : 0 .. MaxInfos]
  BY <1>0, <1>1 DEF CtlType
<1>3. info \in 0 .. MaxInfos /\ info' \in 0 .. MaxInfos /\ known \in 0 .. MaxInfos /\ known <= info
  BY <1>0, <1>1, Zero DEF CtlType, ReadInv, IInv
<1>4. CtlType'
  BY <1>0, <1>1, <1>2, <1>3 DEF CtlType
<1>5. ReadInv'
  <2>1. \A i \in Conns : connection[i].recv = "send" => connection[i].read \in -1 .. info'
    BY <1>1, <1>3 DEF ReadInv, IInv
  <2>2. known' <= info' /\ loop.read <= info'
    BY <1>1, <1>3, CtlRange DEF ReadInv, IInv
  <2> QED BY <1>2, <2>1, <2>2, <1>1, CtlFrame DEF ReadInv
<1>6. UpInv'
  BY <1>2 DEF UpInv
<1>7. GreetInv'
  BY <1>1, <1>2, CtlFrame DEF GreetInv, IInv, InfoChanges
<1> QED BY <1>1, <1>4, <1>5, <1>6, <1>7, CtlFrame DEF IInv, Types

-----------------------------------------------------------------------------
(* Changes of the configuration, and the end.                              *)

LEMMA OutsideKeeps ==
    ASSUME IInv, connection' = connection, conn' = conn, loop' = loop, disabled' = disabled,
           UNCHANGED reports, ConfType', stop' = stop \/ stop' = TRUE
    PROVE  IInv'
<1>1. ReadInv'
  BY ReportFrame DEF ReadInv, IInv
<1>2. UpInv' /\ GreetInv'
  BY ReportFrame DEF UpInv, GreetInv, Greeted, IInv
<1> QED BY <1>1, <1>2, ReportFrame, ConnFrame DEF IInv, Types

LEMMA UserStepKeeps ==
    ASSUME IInv, NEW u \in Users,
           \/ UserReads(u) \/ UserCompares(u)
           \/ \E t \in BOOLEAN, k \in Settings \cup {0} : Change(u, t, k)
    PROVE  IInv'
<1>1. UNCHANGED unchangedUser
  BY DEF UserReads, UserCompares, Change
<1>2. ConfType'
  BY DEF UserReads, UserCompares, Change, ConfType, config, IInv, Types
<1> QED BY <1>1, <1>2, OutsideKeeps DEF unchangedUser

LEMMA StopKeeps ==
    ASSUME IInv, Stop
    PROVE  IInv'
<1>1. /\ connection' = connection /\ conn' = conn /\ loop' = loop /\ disabled' = disabled /\ conf' = conf
      /\ UNCHANGED reports /\ stop' = TRUE
  BY DEF Stop, config
<1>2. ConfType'
  BY <1>1 DEF ConfType, IInv, Types
<1> QED BY <1>1, <1>2, OutsideKeeps

-----------------------------------------------------------------------------
(* Receivers.                                                              *)

\* The goroutine of connection i goes on: its connection stays as open as it was, ...
LEMMA ReceiverConns ==
    ASSUME IInv, NEW i \in Conns, connection[i].recv # "none",
           ConnType', conn' = conn, loop' = loop, disabled' = disabled,
           \A j \in Conns : j # i => connection'[j] = connection[j],
           connection'[i].open = FALSE => connection'[i].recv = "ended",
           \/ connection'[i].live = connection[i].live /\ connection'[i].open = connection[i].open
           \/ connection'[i].live = FALSE
    PROVE  /\ LoopType' /\ ConnInv' /\ EnabledInv'
           /\ \A j \in Conns : connection'[j].live = TRUE => connection[j].live = TRUE
<1>0. LoopType /\ ConnType
  BY DEF IInv, Types
<1>1. LoopType' /\ EnabledInv'
  BY <1>0 DEF LoopType, EnabledInv, IInv
<1>2. i = conn \/ i = loop.new
  BY DEF OwnInv, IInv, ConnInv
<1>3. OwnInv'
  BY <1>2 DEF OwnInv, IInv, ConnInv
<1>4. ClosedInv'
  BY DEF ClosedInv, IInv, ConnInv
<1>5. LiveInv'
  BY <1>0 DEF LiveInv, IInv, ConnInv
<1>6. \A j \in Conns : connection[j].live = FALSE => connection'[j].live = FALSE
  OBVIOUS
<1>7. PhaseInv'
  <2>1. (conn # 0 => conn \in Conns) /\ (loop.new # 0 => loop.new \in Conns)
    BY <1>0 DEF LoopType
  <2> QED BY <2>1, <1>6 DEF PhaseInv, IInv, ConnInv
<1>8. \A j \in Conns : connection'[j].live = TRUE => connection[j].live = TRUE
  OBVIOUS
<1> QED BY <1>1, <1>3, <1>4, <1>5, <1>7, <1>8 DEF ConnInv

\* ... and if it reports nothing, the rest of the invariant holds as well.
LEMMA ReceiverMoves ==
    ASSUME IInv, NEW i \in Conns, connection[i].recv # "none",
           ConnType', ConfType', conn' = conn, loop' = loop, disabled' = disabled, stop' = stop,
           UNCHANGED reports,
           \A j \in Conns : j # i => connection'[j] = connection[j],
           connection'[i].open = FALSE => connection'[i].recv = "ended",
           \/ connection'[i].live = connection[i].live /\ connection'[i].open = connection[i].open
           \/ connection'[i].live = FALSE,
           connection'[i].recv = "send" => connection'[i].read \in -1 .. info
    PROVE  IInv'
<1>0. LoopType
  BY DEF IInv, Types
<1>1. /\ LoopType' /\ ConnInv' /\ EnabledInv'
      /\ \A j \in Conns : connection'[j].live = TRUE => connection[j].live = TRUE
  BY ReceiverConns
<1>2. ReadInv'
  BY ReportFrame DEF ReadInv, IInv
<1>3. UpInv' /\ GreetInv'
  <2>1. loop.pc \in {"look", "poll", "ready", "connected"} => Greeted \in Conns
    BY <1>0 DEF Greeted, LoopType, PhaseInv, IInv, ConnInv
  <2> QED BY <1>1, <2>1, ReportFrame DEF UpInv, GreetInv, Greeted, IInv
<1> QED BY <1>1, <1>2, <1>3, ReportFrame DEF IInv, Types

LEMMA RecvFrame ==
    ASSUME IInv, UNCHANGED unchangedRecv
    PROVE  conn' = conn /\ loop' = loop /\ disabled' = disabled /\ stop' = stop
BY DEF unchangedRecv

\* A goroutine that has not ended keeps its connection open.
LEMMA ReceiverIsOpen ==
    ASSUME IInv, NEW i \in Conns, connection[i].recv \notin {"none", "ended"}
    PROVE  connection[i].open # FALSE
BY DEF ClosedInv, IInv, ConnInv

\* An update of one connection.
LEMMA ConnUpdate ==
    ASSUME ConnType, NEW i \in Conns, NEW r \in ConnRecord, connection' = [connection EXCEPT ![i] = r]
    PROVE  ConnType' /\ connection'[i] = r /\ \A j \in Conns : j # i => connection'[j] = connection[j]
BY DEF ConnType

LEMMA ReceiverStepKeeps ==
    ASSUME IInv, NEW i \in Conns, ReceiverStep(i) \/ Command(i)
    PROVE  IInv'
<1>0. ConnType /\ ConfType /\ CtlType /\ LoopType
  BY DEF IInv, Types
<1>a. connection[i] \in ConnRecord
  BY <1>0 DEF ConnType
<1>b. info \in 0 .. MaxInfos /\ MaxInfos \in Nat /\ info \in -1 .. info /\ -1 \in -1 .. info
  BY <1>0, Zero DEF CtlType
<1>1. CASE SetUid(i) \/ Command(i) \/ ExecEnds(i) \/ RecvEnds(i)
  <2>1. PICK to : to \in {"notify", "report", "exec", "ended"} /\ connection' = [connection EXCEPT ![i].recv = to]
    BY <1>1 DEF SetUid, Command, ExecEnds, RecvEnds, Receiver
  <2>2. connection[i].recv \in {"assign", "recv", "exec"} /\ UNCHANGED unchangedRecv /\ UNCHANGED reports /\ conf' = conf
    BY <1>1 DEF SetUid, Command, ExecEnds, RecvEnds, Receiver, config
  <2>3. PICK r : r = [connection[i] EXCEPT !.recv = to]
    OBVIOUS
  <2>4. connection' = [connection EXCEPT ![i] = r]
    BY <2>1, <2>3
  <2>5. r \in ConnRecord /\ r.live = connection[i].live /\ r.open = connection[i].open /\ r.recv = to
    BY <2>1, <2>3, <1>a DEF ConnRecord
  <2>6. ConfType' /\ r.open # FALSE /\ connection[i].recv # "none"
    BY <2>2, <2>5, <1>0, ReceiverIsOpen DEF ConfType
  <2>7. ConnType' /\ connection'[i] = r /\ \A j \in Conns : j # i => connection'[j] = connection[j]
    BY <1>0, <2>4, <2>5, ConnUpdate
  <2> QED BY <2>1, <2>2, <2>5, <2>6, <2>7, RecvFrame, ReceiverMoves
<1>2. CASE AssignHost(i)
  <2>1. /\ connection[i].recv = "recv" /\ UNCHANGED unchangedRecv /\ UNCHANGED reports /\ conf' = conf
        /\ connection' = [connection EXCEPT ![i].recv = "assign", ![i].asked = FALSE]
    BY <1>2 DEF AssignHost, config
  <2>2. PICK r : r = [connection[i] EXCEPT !.recv = "assign", !.asked = FALSE]
    OBVIOUS
  <2>3. connection' = [connection EXCEPT ![i] = r]
    BY <2>1, <2>2, <1>0 DEF ConnType
  <2>4. r \in ConnRecord /\ r.live = connection[i].live /\ r.open = connection[i].open /\ r.recv = "assign"
    BY <2>2, <1>a DEF ConnRecord
  <2>5. ConfType' /\ r.open # FALSE /\ connection[i].recv # "none"
    BY <2>1, <2>4, <1>0, ReceiverIsOpen DEF ConfType
  <2>6. ConnType' /\ connection'[i] = r /\ \A j \in Conns : j # i => connection'[j] = connection[j]
    BY <1>0, <2>3, <2>4, ConnUpdate
  <2> QED BY <2>1, <2>4, <2>5, <2>6, RecvFrame, ReceiverMoves
<1>3. CASE ReceiverReads(i) \/ ReceiverCompares(i) \/ Report(i)
  <2>1. /\ connection[i].recv \in {"notify", "compare", "report"} /\ UNCHANGED unchangedRecv /\ UNCHANGED reports
        /\ conf' = conf
    BY <1>3 DEF ReceiverReads, ReceiverCompares, Report, config
  <2>2. OldSettings \in Settings \cup {0}
    BY <1>0, Zero DEF OldSettings, ConnType, ConnRecord, LoopType
  <2>3. PICK to, v : /\ connection' = [connection EXCEPT ![i].recv = to, ![i].read = v]
                     /\ to \in {"compare", "report", "send"}
                     /\ v \in Settings \cup {0, -1, info} /\ (to = "send" => v \in {-1, info})
    BY <1>3, <2>2 DEF ReceiverReads, ReceiverCompares, Report
  <2>4. PICK r : r = [connection[i] EXCEPT !.recv = to, !.read = v]
    OBVIOUS
  <2>5. connection' = [connection EXCEPT ![i] = r]
    BY <2>3, <2>4, <1>0 DEF ConnType
  <2>6. v \in Settings \cup {-1} \cup 0 .. MaxInfos
    BY <2>3, <1>b, Zero
  <2>7. r \in ConnRecord /\ r.live = connection[i].live /\ r.open = connection[i].open /\ r.recv = to /\ r.read = v
    BY <2>3, <2>4, <2>6, <1>a DEF ConnRecord
  <2>8. ConfType' /\ r.open # FALSE /\ connection[i].recv # "none"
    BY <2>1, <2>7, <1>0, ReceiverIsOpen DEF ConfType
  <2>9. ConnType' /\ connection'[i] = r /\ \A j \in Conns : j # i => connection'[j] = connection[j]
    BY <1>0, <2>5, <2>7, ConnUpdate
  <2>10. to = "send" => v \in -1 .. info
    BY <2>3, <1>b
  <2> QED BY <2>1, <2>7, <2>8, <2>9, <2>10, RecvFrame, ReceiverMoves
<1>4. CASE ReceiverCloses(i)
  <2>1. /\ connection[i].recv = "ended" /\ UNCHANGED unchangedRecv /\ UNCHANGED reports /\ conf' = conf
        /\ connection' = [connection EXCEPT ![i].live = FALSE, ![i].open = FALSE]
    BY <1>4 DEF ReceiverCloses, config
  <2>2. PICK r : r = [connection[i] EXCEPT !.live = FALSE, !.open = FALSE]
    OBVIOUS
  <2>3. connection' = [connection EXCEPT ![i] = r]
    BY <2>1, <2>2, <1>0 DEF ConnType
  <2>4. r \in ConnRecord /\ r.live = FALSE /\ r.recv = "ended"
    BY <2>1, <2>2, <1>a DEF ConnRecord
  <2>5. ConfType' /\ connection[i].recv # "none"
    BY <2>1, <1>0 DEF ConfType
  <2>6. ConnType' /\ connection'[i] = r /\ \A j \in Conns : j # i => connection'[j] = connection[j]
    BY <1>0, <2>3, <2>4, ConnUpdate
  <2> QED BY <2>1, <2>4, <2>5, <2>6, RecvFrame, ReceiverMoves
<1>5. CASE SendReport(i)
  <2>1. PICK sent : sent = connection[i].read
    OBVIOUS
  <2>2. /\ connection[i].recv = "send" /\ UNCHANGED unchangedRecv /\ conf' = conf /\ ctl' = ctl /\ info' = info
        /\ connection' = [connection EXCEPT ![i].recv = "recv", ![i].read = 0]
        /\ known' = IF sent >= 0 /\ Live(i) THEN sent ELSE known
        /\ stale' = IF sent >= 0 /\ sent < known THEN stale \cup {"overtaken"} ELSE stale
    BY <1>5, <2>1 DEF SendReport, config
  <2>3. PICK r : r = [connection[i] EXCEPT !.recv = "recv", !.read = 0]
    OBVIOUS
  <2>4. connection' = [connection EXCEPT ![i] = r]
    BY <2>2, <2>3, <1>0 DEF ConnType
  <2>5. r \in ConnRecord /\ r.live = connection[i].live /\ r.open = connection[i].open /\ r.recv = "recv"
    BY <2>3, <1>a, Zero DEF ConnRecord
  <2>6. ConfType' /\ r.open # FALSE /\ connection[i].recv # "none"
    BY <2>2, <2>5, <1>0, ReceiverIsOpen DEF ConfType
  <2>7. ConnType' /\ connection'[i] = r /\ \A j \in Conns : j # i => connection'[j] = connection[j]
    BY <1>0, <2>4, <2>5, ConnUpdate
  <2>8. conn' = conn /\ loop' = loop /\ disabled' = disabled /\ stop' = stop
    BY <2>2, RecvFrame
  <2>9. /\ LoopType' /\ ConnInv' /\ EnabledInv'
        /\ \A j \in Conns : connection'[j].live = TRUE => connection[j].live = TRUE
    BY <2>5, <2>6, <2>7, <2>8, ReceiverConns
  <2>10. sent \in -1 .. info /\ known \in 0 .. info
    BY <2>1, <2>2, <1>0, <1>b DEF ReadInv, CtlType, IInv
  <2>11. known' \in 0 .. info
    BY <2>2, <2>10, <1>b
  <2>12. CtlType'
    BY <1>0, <2>2, <2>11, <1>b DEF CtlType
  <2>13. ReadInv'
    <3>1. \A j \in Conns : connection'[j].recv = "send" => connection'[j].read \in -1 .. info
      BY <2>5, <2>7 DEF ReadInv, IInv
    <3>2. known' <= info /\ loop.read <= info
      BY <2>11, <1>b DEF ReadInv, IInv
    <3>3. ctl.pc = "send" => ctl.read = info
      BY DEF ReadInv, IInv
    <3> QED BY <3>1, <3>2, <3>3, <2>2, <2>8 DEF ReadInv
  <2>14. UpInv'
    <3> SUFFICES ASSUME loop.pc \in {"look", "poll", "ready", "connected"}, stale' = {},
                        ctl.pc \notin {"start", "assemble", "send"},
                        connection'[Greeted].live = TRUE, stop = FALSE
                 PROVE  known' = info
      BY <2>2, <2>8 DEF UpInv, Greeted
    <3>1. Greeted \in Conns
      BY <1>0 DEF Greeted, LoopType, PhaseInv, IInv, ConnInv
    <3>2. connection[Greeted].live = TRUE
      BY <3>1, <2>9
    <3>3. stale = {} /\ ~(sent >= 0 /\ sent < known)
      BY <2>2
    <3>4. known = info
      BY <3>2, <3>3 DEF UpInv, IInv
    <3> QED BY <3>3, <3>4, <2>2, <2>10, <1>b
  <2>15. GreetInv'
    <3>1. loop.pc \in {"look", "poll", "ready"} => Greeted \in Conns
      BY <1>0 DEF Greeted, LoopType, PhaseInv, IInv, ConnInv
    <3>2. stale' = {} => stale = {} /\ known <= known'
      BY <2>2, <2>10, <1>b
    <3>3. known' \in Int
      BY <2>11, <1>b
    <3>4. loop.pc = "greet" /\ stale' = {} /\ ctl.pc \notin {"start", "assemble", "send"} => loop.read = info
      BY <3>2 DEF GreetInv, IInv
    <3>5. ASSUME loop.pc \in {"look", "poll", "ready"}, stale' = {}, connection'[Greeted].live = TRUE, stop = FALSE
          PROVE  loop.read <= known'
      <4>1. loop.read <= known
        BY <3>1, <3>2, <3>5, <2>9 DEF GreetInv, IInv
      <4> QED BY <4>1, <3>2, <3>3, <3>5, CtlRange
    <3> QED BY <3>4, <3>5, <2>2, <2>8 DEF GreetInv, Greeted
  <2> QED BY <2>6, <2>7, <2>9, <2>12, <2>13, <2>14, <2>15 DEF IInv, Types
<1> QED BY <1>1, <1>2, <1>3, <1>4, <1>5 DEF ReceiverStep

-----------------------------------------------------------------------------
(* The loop.                                                               *)

\* A step of the loop that does not end in a greeted connection and reports nothing.
LEMMA LoopMoves ==
    ASSUME IInv, ConnType', LoopType', ConnInv', conf' = conf, UNCHANGED reports,
           loop'.pc \notin {"greet", "look", "poll", "ready", "connected"},
           loop'.read \in {0, loop.read},
           \A j \in Conns : connection'[j].recv = "send" =>
               connection[j].recv = "send" /\ connection'[j].read = connection[j].read
    PROVE  IInv'
<1>1. ConfType'
  BY DEF ConfType, IInv, Types
<1>2. ReadInv'
  <2>1. info \in 0 .. MaxInfos
    BY DEF CtlType, IInv, Types
  <2>2. loop'.read <= info
    BY <2>1, Zero DEF ReadInv, IInv
  <2> QED BY <2>2, ReportFrame DEF ReadInv, IInv
<1>3. UpInv' /\ EnabledInv' /\ GreetInv'
  BY DEF UpInv, EnabledInv, GreetInv
<1> QED BY <1>1, <1>2, <1>3, ReportFrame DEF IInv, Types

\* A cancelled context changes nothing else.
LEMMA CancelConns ==
    ASSUME IInv, NEW i \in Conns, connection' = [connection EXCEPT ![i].live = FALSE]
    PROVE  /\ ConnType' /\ ClosedInv' /\ LiveInv' /\ connection'[i].live = FALSE
           /\ \A j \in Conns : /\ connection'[j].recv = connection[j].recv
                               /\ connection'[j].read = connection[j].read
                               /\ connection'[j].open = connection[j].open
                               /\ connection'[j].live = TRUE => connection[j].live = TRUE
<1>0. ConnType /\ connection[i] \in ConnRecord
  BY DEF IInv, Types, ConnType
<1>1. PICK r : r = [connection[i] EXCEPT !.live = FALSE]
  OBVIOUS
<1>2. connection' = [connection EXCEPT ![i] = r]
  BY <1>1
<1>3. /\ r \in ConnRecord /\ r.live = FALSE /\ r.recv = connection[i].recv /\ r.read = connection[i].read
      /\ r.open = connection[i].open
  BY <1>0, <1>1 DEF ConnRecord
<1>4. ConnType' /\ connection'[i] = r /\ \A j \in Conns : j # i => connection'[j] = connection[j]
  BY <1>0, <1>2, <1>3, ConnUpdate
<1>5. \A j \in Conns : /\ connection'[j].recv = connection[j].recv
                       /\ connection'[j].read = connection[j].read
                       /\ connection'[j].open = connection[j].open
                       /\ connection'[j].live = TRUE => connection[j].live = TRUE
  BY <1>3, <1>4
<1>6. ClosedInv' /\ LiveInv'
  BY <1>5 DEF ClosedInv, LiveInv, IInv, ConnInv
<1> QED BY <1>3, <1>4, <1>5, <1>6

\* A closed connection has no goroutine, or one that has ended.
LEMMA GoneFacts ==
    ASSUME IInv, NEW i \in Conns, Gone(i)
    PROVE  connection[i].recv \in {"none", "ended"} /\ connection[i] \in ConnRecord
<1>1. connection[i] \in ConnRecord
  BY DEF IInv, Types, ConnType
<1>2. connection[i].open \in BOOLEAN
  BY <1>1 DEF ConnRecord
<1>3. connection[i].open = FALSE \/ connection[i].recv = "ended"
  BY <1>2 DEF Gone
<1> QED BY <1>1, <1>3 DEF ClosedInv, IInv, ConnInv

\* A connection that is forgotten has no goroutine.
LEMMA ForgetConns ==
    ASSUME IInv, NEW i \in Conns, Gone(i), Forget(i)
    PROVE  /\ ConnType' /\ ClosedInv' /\ LiveInv' /\ connection'[i].recv = "none"
           /\ \A j \in Conns : j # i => connection'[j] = connection[j]
<1>0. ConnType /\ connection[i] \in ConnRecord /\ connection[i].recv \in {"none", "ended"}
  BY GoneFacts DEF IInv, Types
<1>1. PICK r : r = IF connection[i].recv = "ended" THEN NoConn ELSE [connection[i] EXCEPT !.open = FALSE]
  OBVIOUS
<1>2. connection' = [connection EXCEPT ![i] = r]
  BY <1>0, <1>1 DEF Forget, ConnType
<1>3. connection[i].recv # "ended" => connection[i].live = FALSE
  <2>1. connection[i].open \in BOOLEAN /\ connection[i].live \in BOOLEAN
    BY <1>0 DEF ConnRecord
  <2>2. connection[i].recv # "ended" => connection[i].open = FALSE
    BY <2>1 DEF Gone
  <2> QED BY <2>1, <2>2 DEF LiveInv, IInv, ConnInv
<1>4. r \in ConnRecord /\ r.recv = "none" /\ r.live = FALSE
  <2>1. CASE connection[i].recv = "ended"
    BY <2>1, <1>1, NoConnFacts
  <2>2. CASE connection[i].recv # "ended"
    BY <2>2, <1>0, <1>1, <1>3 DEF ConnRecord
  <2> QED BY <2>1, <2>2
<1>5. ConnType' /\ connection'[i] = r /\ \A j \in Conns : j # i => connection'[j] = connection[j]
  BY <1>0, <1>2, <1>4, ConnUpdate
<1>6. ClosedInv' /\ LiveInv'
  BY <1>4, <1>5 DEF ClosedInv, LiveInv, IInv, ConnInv
<1> QED BY <1>4, <1>5, <1>6

\* A connection without a goroutine is closed.
LEMMA CloseConns ==
    ASSUME IInv, NEW i \in Conns, Gone(i), NEW r, r = [connection[i] EXCEPT !.live = FALSE, !.open = FALSE],
           connection' = [connection EXCEPT ![i] = r]
    PROVE  /\ ConnType' /\ ClosedInv' /\ LiveInv' /\ connection'[i].live = FALSE
           /\ connection'[i].recv \in {"none", "ended"}
           /\ \A j \in Conns : j # i => connection'[j] = connection[j]
<1>0. ConnType /\ connection[i] \in ConnRecord /\ connection[i].recv \in {"none", "ended"}
  BY GoneFacts DEF IInv, Types
<1>1. r \in ConnRecord /\ r.live = FALSE /\ r.recv \in {"none", "ended"}
  BY <1>0 DEF ConnRecord
<1>2. ConnType' /\ connection'[i] = r /\ \A j \in Conns : j # i => connection'[j] = connection[j]
  BY <1>0, <1>1, ConnUpdate
<1>3. ClosedInv' /\ LiveInv'
  BY <1>1, <1>2 DEF ClosedInv, LiveInv, IInv, ConnInv
<1> QED BY <1>1, <1>2, <1>3

\* The connection in use is given up.
LEMMA CancelConnKeeps ==
    ASSUME IInv, conn \in Conns, loop.pc \in {"wait", "connected"}, Cancel(conn), conn' = conn,
           NEW p \in {"drop", "leave"}, loop' = [loop EXCEPT !.pc = p],
           conf' = conf, UNCHANGED reports
    PROVE  IInv'
<1>0. LoopType /\ loop.new = 0
  BY DEF IInv, Types, ConnInv, PhaseInv
<1>1. PICK i \in Conns : i = conn
  OBVIOUS
<1>2. connection' = [connection EXCEPT ![i].live = FALSE]
  BY <1>1 DEF Cancel
<1>3. /\ ConnType' /\ ClosedInv' /\ LiveInv' /\ connection'[i].live = FALSE
      /\ \A j \in Conns : /\ connection'[j].recv = connection[j].recv
                          /\ connection'[j].read = connection[j].read
  BY <1>2, CancelConns
<1>4. loop'.pc = p /\ loop'.new = 0 /\ loop'.read = loop.read /\ LoopType'
  BY <1>0 DEF LoopType
<1>5. OwnInv'
  BY <1>0, <1>3, <1>4 DEF OwnInv, IInv, ConnInv
<1>6. PhaseInv'
  BY <1>1, <1>3, <1>4, Zero DEF PhaseInv
<1> QED BY <1>3, <1>4, <1>5, <1>6, LoopMoves DEF ConnInv

\* The connection being made is given up.
LEMMA CancelNewKeeps ==
    ASSUME IInv, loop.pc \in {"hello", "greet", "look", "poll"}, Cancel(loop.new), conn' = conn,
           NEW p \in {"undo", "unset", "expire"}, loop' = [loop EXCEPT !.pc = p, !.read = 0],
           conf' = conf, UNCHANGED reports
    PROVE  IInv'
<1>0. LoopType /\ loop.new \in Conns /\ conn = 0
  BY DEF IInv, Types, ConnInv, PhaseInv, LoopType
<1>1. PICK i \in Conns : i = loop.new
  BY <1>0
<1>2. connection' = [connection EXCEPT ![i].live = FALSE]
  BY <1>1 DEF Cancel
<1>3. /\ ConnType' /\ ClosedInv' /\ LiveInv' /\ connection'[i].live = FALSE
      /\ \A j \in Conns : /\ connection'[j].recv = connection[j].recv
                          /\ connection'[j].read = connection[j].read
  BY <1>2, CancelConns
<1>4. loop'.pc = p /\ loop'.new = i /\ loop'.read = 0 /\ LoopType'
  BY <1>0, <1>1, Zero DEF LoopType
<1>5. OwnInv'
  BY <1>1, <1>3, <1>4 DEF OwnInv, IInv, ConnInv
<1>6. PhaseInv'
  BY <1>0, <1>1, <1>3, <1>4, Zero DEF PhaseInv
<1> QED BY <1>3, <1>4, <1>5, <1>6, LoopMoves DEF ConnInv

\* The loop goes on, and refers to the same connections.
LEMMA LoopStays ==
    ASSUME IInv, connection' = connection, conn' = conn, conf' = conf, UNCHANGED reports,
           loop.new = 0, NEW p \in {"wait", "quit", "dial", "stuck"}, NEW rd \in {0, loop.read},
           loop' = [pc |-> p, new |-> 0, read |-> rd],
           p \in {"dial", "stuck"} => conn = 0
    PROVE  IInv'
<1>0. LoopType /\ ConnType
  BY DEF IInv, Types
<1>1. ConnType' /\ LoopType' /\ loop'.pc = p /\ loop'.new = 0 /\ loop'.read = rd
  BY <1>0, Zero DEF ConnType, LoopType
<1>2. OwnInv' /\ ClosedInv' /\ LiveInv'
  BY <1>1 DEF OwnInv, ClosedInv, LiveInv, IInv, ConnInv
<1>3. PhaseInv'
  BY <1>1 DEF PhaseInv
<1> QED BY <1>1, <1>2, <1>3, LoopMoves DEF ConnInv

\* The connection the loop was making is given up for good.
LEMMA ForgetNewKeeps ==
    ASSUME IInv, loop.pc \in {"expire", "undo", "unset"}, Gone(loop.new), Forget(loop.new), conn' = conn,
           conf' = conf, UNCHANGED reports,
           NEW p \in {"wait", "quit", "clear"}, loop' = [pc |-> p, new |-> 0, read |-> 0]
    PROVE  IInv'
<1>0. LoopType /\ loop.new \in Conns /\ conn = 0
  BY DEF IInv, Types, ConnInv, PhaseInv, LoopType
<1>1. PICK i \in Conns : i = loop.new
  BY <1>0
<1>2. /\ ConnType' /\ ClosedInv' /\ LiveInv' /\ connection'[i].recv = "none"
      /\ \A j \in Conns : j # i => connection'[j] = connection[j]
  BY <1>1, ForgetConns
<1>3. loop'.pc = p /\ loop'.new = 0 /\ loop'.read = 0 /\ LoopType'
  BY <1>0, Zero DEF LoopType
<1>4. OwnInv'
  BY <1>1, <1>2, <1>3 DEF OwnInv, IInv, ConnInv
<1>5. PhaseInv'
  BY <1>0, <1>3 DEF PhaseInv
<1> QED BY <1>2, <1>3, <1>4, <1>5, LoopMoves DEF ConnInv

\* The connection that was being made is used.
LEMMA EstablishKeeps ==
    ASSUME IInv, loop.pc \in {"look", "poll"}, Establish, connection' = connection, conf' = conf,
           stop' = stop, UNCHANGED reports
    PROVE  IInv'
<1>0. LoopType /\ ConnType /\ ConfType /\ loop.new \in Conns /\ conn = 0
  BY DEF IInv, Types, ConnInv, PhaseInv, LoopType
<1>1. conn' = loop.new /\ loop' = [loop EXCEPT !.pc = "ready", !.new = 0]
  BY DEF Establish
<1>2. loop'.pc = "ready" /\ loop'.new = 0 /\ loop'.read = loop.read /\ LoopType'
  BY <1>0, <1>1 DEF LoopType
<1>3. ConnType' /\ ConfType' /\ EnabledInv'
  BY <1>0, <1>1, <1>2 DEF ConnType, ConfType, EnabledInv
<1>4. OwnInv' /\ ClosedInv' /\ LiveInv'
  BY <1>0, <1>1, <1>2, Zero DEF OwnInv, ClosedInv, LiveInv, IInv, ConnInv
<1>5. PhaseInv'
  BY <1>0, <1>1, <1>2, Zero DEF PhaseInv
<1>6. ReadInv'
  BY <1>2, ReportFrame DEF ReadInv, IInv
<1>7. Greeted' = loop.new /\ Greeted = loop.new
  BY <1>1, <1>2 DEF Greeted
<1>8. UpInv' /\ GreetInv'
  BY <1>2, <1>7, ReportFrame DEF UpInv, GreetInv, IInv
<1> QED BY <1>2, <1>3, <1>4, <1>5, <1>6, <1>8, ReportFrame DEF IInv, Types, ConnInv

\* The loop goes on with the connection it has; nothing is told.
LEMMA HandshakeMoves ==
    ASSUME IInv, connection' = connection, conn' = conn, conf' = conf, stop' = stop, UNCHANGED reports,
           NEW p \in {"greet", "poll", "connected"}, NEW rd \in {0, info, loop.read},
           loop' = [loop EXCEPT !.pc = p, !.read = rd],
           \/ loop.pc = "hello" /\ p = "greet" /\ rd = info
           \/ loop.pc = "look" /\ p = "poll" /\ rd = loop.read
           \/ loop.pc = "ready" /\ p = "connected",
           p = "connected" => disabled' = FALSE
    PROVE  IInv'
<1>0. LoopType /\ ConnType /\ ConfType /\ CtlType
  BY DEF IInv, Types
<1>1. loop'.pc = p /\ loop'.new = loop.new /\ loop'.read = rd /\ LoopType'
  BY <1>0, Zero DEF LoopType, CtlType
<1>2. ConnType' /\ ConfType' /\ EnabledInv'
  BY <1>0, <1>1 DEF ConnType, ConfType, EnabledInv
<1>3. OwnInv' /\ ClosedInv' /\ LiveInv'
  BY <1>1 DEF OwnInv, ClosedInv, LiveInv, IInv, ConnInv
<1>4. PhaseInv'
  BY <1>1 DEF PhaseInv, IInv, ConnInv
<1>5. ReadInv'
  <2>1. rd <= info
    BY <1>0, Zero DEF CtlType, ReadInv, IInv
  <2> QED BY <2>1, <1>1, ReportFrame DEF ReadInv, IInv
<1>6. loop.pc # "hello" => Greeted' = Greeted
  BY <1>1 DEF Greeted
<1>7. UpInv'
  BY <1>1, <1>6, ReportFrame DEF UpInv, IInv
<1>8. GreetInv'
  BY <1>1, <1>6, ReportFrame DEF GreetInv, IInv
<1> QED BY <1>1, <1>2, <1>3, <1>4, <1>5, <1>7, <1>8, ReportFrame DEF IInv, Types, ConnInv

\* No connection receives commands while a new one is being made.
LEMMA DialKeeps ==
    ASSUME IInv, Dial
    PROVE  IInv'
<1>0. LoopType /\ ConnType /\ ConfType
  BY DEF IInv, Types
<1>1. /\ loop.pc = "dial" /\ conn' = conn /\ conf' = conf /\ UNCHANGED reports
  BY DEF Dial, config
<1>2. PICK i \in Conns :
         /\ connection' = [connection EXCEPT ![i] = [NoConn EXCEPT !.set = HostConf, !.live = TRUE,
                                                     !.open = TRUE, !.recv = "recv"]]
         /\ loop' = [pc |-> "hello", new |-> i, read |-> 0]
  BY DEF Dial
<1>3. PICK r : r = [NoConn EXCEPT !.set = HostConf, !.live = TRUE, !.open = TRUE, !.recv = "recv"]
  OBVIOUS
<1>4. HostConf \in Settings \cup {0}
  BY <1>0 DEF HostConf, ConfType
<1>5. r \in ConnRecord /\ r.live = TRUE /\ r.open = TRUE /\ r.recv = "recv"
  BY <1>3, <1>4, Zero DEF NoConn, ConnRecord
<1>6. ConnType' /\ connection'[i] = r /\ \A j \in Conns : j # i => connection'[j] = connection[j]
  BY <1>0, <1>2, <1>3, <1>5, ConnUpdate
<1>7. loop'.pc = "hello" /\ loop'.new = i /\ loop'.read = 0 /\ LoopType'
  BY <1>0, <1>1, <1>2, Zero DEF LoopType
<1>8. conn = 0 /\ loop.new = 0
  BY <1>1 DEF PhaseInv, IInv, ConnInv
<1>9. OwnInv'
  BY <1>1, <1>6, <1>7, <1>8, Zero DEF OwnInv, IInv, ConnInv
<1>10. ClosedInv' /\ LiveInv'
  BY <1>5, <1>6 DEF ClosedInv, LiveInv, IInv, ConnInv
<1>11. PhaseInv'
  BY <1>1, <1>7, <1>8, Zero DEF PhaseInv
<1> QED BY <1>1, <1>5, <1>6, <1>7, <1>9, <1>10, <1>11, LoopMoves DEF ConnInv

\* An attempt that failed sends the loop back.
LEMMA FailedLoop ==
    ASSUME NEW b, Failed(b)
    PROVE  \E p \in {"wait", "quit"} : loop' = [pc |-> p, new |-> 0, read |-> 0]
BY DEF Failed

\* The server is greeted: what was gathered is the state, or the Controller is about to tell it.
LEMMA GreetKeeps ==
    ASSUME IInv, Greet
    PROVE  IInv'
<1>0. LoopType /\ ConnType /\ CtlType /\ ConfType
  BY DEF IInv, Types
<1>1. /\ loop.pc = "greet" /\ ctl' = ctl /\ info' = info /\ stale' = stale
      /\ known' = IF Live(loop.new) THEN loop.read ELSE known
      /\ conf' = conf /\ stop' = stop /\ conn' = conn /\ disabled' = disabled
      /\ loop' = [loop EXCEPT !.pc = "look"]
      /\ connection' = [connection EXCEPT ![loop.new].asked = ~uid]
  BY DEF Greet, config
<1>2. loop.new \in Conns /\ conn = 0
  BY <1>0, <1>1 DEF LoopType, PhaseInv, IInv, ConnInv
<1>3. PICK i \in Conns : i = loop.new
  BY <1>2
<1>4. PICK b \in BOOLEAN : b = ~uid
  OBVIOUS
<1>5. PICK r : r = [connection[i] EXCEPT !.asked = b]
  OBVIOUS
<1>6. connection' = [connection EXCEPT ![i] = r]
  BY <1>1, <1>3, <1>4, <1>5
<1>7. /\ r \in ConnRecord /\ r.live = connection[i].live /\ r.open = connection[i].open
      /\ r.recv = connection[i].recv /\ r.read = connection[i].read
  <2>1. connection[i] \in ConnRecord
    BY <1>0 DEF ConnType
  <2> QED BY <2>1, <1>5 DEF ConnRecord
<1>8. ConnType' /\ connection'[i] = r /\ \A j \in Conns : j # i => connection'[j] = connection[j]
  BY <1>0, <1>6, <1>7, ConnUpdate
<1>9. loop'.pc = "look" /\ loop'.new = i /\ loop'.read = loop.read /\ LoopType'
  BY <1>0, <1>1, <1>3 DEF LoopType
<1>10. OwnInv' /\ ClosedInv' /\ LiveInv'
  BY <1>1, <1>3, <1>7, <1>8, <1>9 DEF OwnInv, ClosedInv, LiveInv, IInv, ConnInv
<1>11. PhaseInv'
  BY <1>1, <1>2, <1>9, Zero DEF PhaseInv
<1>12. known' \in {known, loop.read}
  BY <1>1
<1>13. CtlType'
  BY <1>0, <1>1, <1>12 DEF CtlType, LoopType
<1>14. ReadInv'
  <2>1. known' <= info /\ loop.read <= info
    BY <1>12 DEF ReadInv, IInv
  <2>2. \A j \in Conns : connection'[j].recv = "send" => connection'[j].read \in -1 .. info
    BY <1>7, <1>8 DEF ReadInv, IInv
  <2> QED BY <1>1, <1>9, <2>1, <2>2 DEF ReadInv, IInv
<1>15. Greeted' = i
  BY <1>9 DEF Greeted
<1>16. connection'[i].live = TRUE /\ stop = FALSE => known' = loop.read
  BY <1>1, <1>3, <1>7, <1>8 DEF Live
<1>17. UpInv'
  BY <1>1, <1>9, <1>15, <1>16 DEF UpInv, GreetInv, IInv
<1>18. GreetInv'
  BY <1>1, <1>9, <1>15, <1>16, CtlRange DEF GreetInv
<1>19. ConfType' /\ EnabledInv'
  BY <1>0, <1>1, <1>9 DEF ConfType, EnabledInv
<1> QED BY <1>8, <1>9, <1>10, <1>11, <1>13, <1>14, <1>17, <1>18, <1>19 DEF IInv, Types, ConnInv

\* The connection in use is dropped, or closed.
LEMMA DropKeeps ==
    ASSUME IInv, Drop
    PROVE  IInv'
<1>0. LoopType
  BY DEF IInv, Types
<1>1. /\ loop.pc = "drop" /\ Gone(conn) /\ Forget(conn) /\ conn' = 0 /\ conf' = conf /\ UNCHANGED reports
      /\ loop' = [loop EXCEPT !.pc = "dial"]
  BY DEF Drop, config
<1>2. conn \in Conns /\ loop.new = 0
  BY <1>0, <1>1 DEF LoopType, PhaseInv, IInv, ConnInv
<1>3. PICK i \in Conns : i = conn
  BY <1>2
<1>4. /\ ConnType' /\ ClosedInv' /\ LiveInv' /\ connection'[i].recv = "none"
      /\ \A j \in Conns : j # i => connection'[j] = connection[j]
  BY <1>1, <1>3, ForgetConns
<1>5. loop'.pc = "dial" /\ loop'.new = 0 /\ loop'.read = loop.read /\ LoopType'
  BY <1>0, <1>1, <1>2 DEF LoopType
<1>6. OwnInv'
  BY <1>1, <1>2, <1>3, <1>4, <1>5 DEF OwnInv, IInv, ConnInv
<1>7. PhaseInv'
  BY <1>1, <1>5 DEF PhaseInv
<1> QED BY <1>1, <1>4, <1>5, <1>6, <1>7, LoopMoves DEF ConnInv

LEMMA CloseKeeps ==
    ASSUME IInv, conn \in Conns, loop.pc \in {"leave", "quit"}, Gone(conn), conn' = conn,
           connection' = [connection EXCEPT ![conn] = [connection[conn] EXCEPT !.live = FALSE, !.open = FALSE]],
           NEW p \in {"wait", "quit", "ended"}, loop' = [loop EXCEPT !.pc = p],
           conf' = conf, UNCHANGED reports
    PROVE  IInv'
<1>0. LoopType /\ loop.new = 0
  BY DEF IInv, Types, PhaseInv, ConnInv
<1>1. PICK i \in Conns : i = conn
  OBVIOUS
<1>2. PICK r : r = [connection[i] EXCEPT !.live = FALSE, !.open = FALSE]
  OBVIOUS
<1>3. Gone(i) /\ connection' = [connection EXCEPT ![i] = r]
  BY <1>1, <1>2
<1>4. /\ ConnType' /\ ClosedInv' /\ LiveInv' /\ connection'[i].recv \in {"none", "ended"}
      /\ \A j \in Conns : j # i => connection'[j] = connection[j]
  BY <1>2, <1>3, CloseConns
<1>5. loop'.pc = p /\ loop'.new = 0 /\ loop'.read = loop.read /\ LoopType'
  BY <1>0 DEF LoopType
<1>6. OwnInv'
  BY <1>0, <1>1, <1>4, <1>5 DEF OwnInv, IInv, ConnInv
<1>7. PhaseInv'
  BY <1>5 DEF PhaseInv
<1> QED BY <1>4, <1>5, <1>6, <1>7, LoopMoves DEF ConnInv

LEMMA LoopStepKeeps ==
    ASSUME IInv, LoopStep
    PROVE  IInv'
<1>0. LoopType /\ ConnType /\ PhaseInv
  BY DEF IInv, Types, ConnInv
<1>a. loop = [pc |-> loop.pc, new |-> loop.new, read |-> loop.read] /\ conn \in Conns \cup {0} /\ loop.new \in Conns \cup {0}
  BY <1>0 DEF LoopType
<1>1. CASE Wake
  <2>1. /\ loop.pc = "wait" /\ conn' = conn /\ conf' = conf /\ UNCHANGED reports
        /\ loop' = [loop EXCEPT !.pc = IF conn = 0 THEN "dial" ELSE "drop"]
        /\ IF conn = 0 THEN connection' = connection ELSE Cancel(conn)
    BY <1>1 DEF Wake, config
  <2>2. loop.new = 0
    BY <1>0, <2>1 DEF PhaseInv
  <2>3. CASE conn = 0
    <3>1. loop' = [pc |-> "dial", new |-> 0, read |-> loop.read]
      BY <2>1, <2>2, <2>3, <1>0 DEF LoopType
    <3> QED BY <2>1, <2>2, <2>3, <3>1, LoopStays
  <2>4. CASE conn # 0
    BY <2>1, <2>4, <1>a, CancelConnKeeps
  <2> QED BY <2>3, <2>4
<1>2. CASE Drop
  BY <1>2, DropKeeps
<1>3. CASE Dial
  BY <1>3, DialKeeps
<1>4. CASE DialFails
  <2>1. loop.pc = "dial" /\ connection' = connection /\ conn' = conn /\ conf' = conf /\ UNCHANGED reports
    BY <1>4 DEF DialFails, config
  <2>2. PICK b : b = (HostConf = 0)
    OBVIOUS
  <2>3. Failed(b)
    BY <1>4, <2>2 DEF DialFails
  <2>4. \E p \in {"wait", "quit"} : loop' = [pc |-> p, new |-> 0, read |-> 0]
    BY <2>3, FailedLoop
  <2>5. loop.new = 0
    BY <1>0, <2>1 DEF PhaseInv
  <2> QED BY <2>1, <2>4, <2>5, LoopStays
<1>5. CASE Gather
  <2>1. /\ loop.pc = "hello" /\ connection' = connection /\ conn' = conn /\ conf' = conf /\ stop' = stop
        /\ UNCHANGED reports /\ loop' = [loop EXCEPT !.pc = "greet", !.read = info]
    BY <1>5 DEF Gather, config
  <2> QED BY <2>1, HandshakeMoves
<1>6. CASE HelloFails
  <2>1. /\ loop.pc \in {"hello", "greet", "look"} /\ Cancel(loop.new) /\ conn' = conn /\ conf' = conf
        /\ UNCHANGED reports
        /\ \E p \in {"undo", "unset", "expire"} : loop' = [loop EXCEPT !.pc = p, !.read = 0]
    BY <1>6 DEF HelloFails, config
  <2> QED BY <2>1, CancelNewKeeps
<1>7. CASE Undo
  <2>1. /\ loop.pc \in {"undo", "unset"} /\ Gone(loop.new) /\ Forget(loop.new) /\ conn' = conn /\ conf' = conf
        /\ UNCHANGED reports
    BY <1>7 DEF Undo, config
  <2>2. PICK b : b = (loop.pc = "unset")
    OBVIOUS
  <2>3. Failed(b)
    BY <1>7, <2>2 DEF Undo
  <2>4. \E p \in {"wait", "quit"} : loop' = [pc |-> p, new |-> 0, read |-> 0]
    BY <2>3, FailedLoop
  <2> QED BY <2>1, <2>4, ForgetNewKeeps
<1>8. CASE Poll
  <2>1. /\ loop.pc = "poll" /\ Establish /\ connection' = connection /\ conf' = conf /\ stop' = stop
        /\ UNCHANGED reports
    BY <1>8 DEF Poll, config
  <2> QED BY <2>1, EstablishKeeps
<1>9. CASE Expire
  <2>1. /\ loop.pc = "poll" /\ Cancel(loop.new) /\ conn' = conn /\ conf' = conf /\ UNCHANGED reports
        /\ loop' = [loop EXCEPT !.pc = "expire", !.read = 0]
    BY <1>9 DEF Expire, config
  <2> QED BY <2>1, CancelNewKeeps
<1>10. CASE Expired
  <2>1. /\ loop.pc = "expire" /\ Gone(loop.new) /\ Forget(loop.new) /\ conn' = conn /\ conf' = conf
        /\ UNCHANGED reports /\ loop' = [pc |-> "clear", new |-> 0, read |-> 0]
    BY <1>10 DEF Expired, config
  <2> QED BY <2>1, ForgetNewKeeps
<1>11. CASE Clear
  <2>1. loop.pc = "clear" /\ connection' = connection /\ conn' = conn /\ conf' = conf /\ UNCHANGED reports
    BY <1>11 DEF Clear
  <2>2. loop.new = 0 /\ conn = 0
    BY <1>0, <2>1 DEF PhaseInv
  <2>3. loop' = [loop EXCEPT !.pc = "stuck"] \/ Failed(FALSE)
    BY <1>11 DEF Clear
  <2>4. \E p \in {"wait", "quit", "stuck"}, rd \in {0, loop.read} : loop' = [pc |-> p, new |-> 0, read |-> rd]
    <3>1. CASE loop' = [loop EXCEPT !.pc = "stuck"]
      BY <3>1, <2>2, <1>0 DEF LoopType
    <3>2. CASE Failed(FALSE)
      BY <3>2, FailedLoop
    <3> QED BY <2>3, <3>1, <3>2
  <2> QED BY <2>1, <2>2, <2>4, LoopStays
<1>12. CASE Reconnect
  <2>1. /\ loop.pc = "connected" /\ Cancel(conn) /\ conn' = conn /\ conf' = conf /\ UNCHANGED reports
        /\ loop' = [loop EXCEPT !.pc = "leave"]
    BY <1>12 DEF Reconnect, config
  <2>2. conn \in Conns
    BY <1>0, <1>a, <2>1 DEF PhaseInv
  <2> QED BY <2>1, <2>2, CancelConnKeeps
<1>13. CASE Leave
  <2>1. /\ loop.pc = "leave" /\ Gone(conn) /\ conn' = conn /\ conf' = conf /\ UNCHANGED reports
        /\ connection' = [connection EXCEPT ![conn].open = FALSE]
        /\ \E p \in {"wait", "quit"} : loop' = [loop EXCEPT !.pc = p]
    BY <1>13 DEF Leave, config
  <2>2. conn \in Conns /\ connection[conn].live = FALSE
    BY <1>0, <1>a, <2>1 DEF PhaseInv
  <2>3. connection[conn] \in ConnRecord
    BY <1>0, <2>2 DEF ConnType
  <2>4. [connection[conn] EXCEPT !.open = FALSE] = [connection[conn] EXCEPT !.live = FALSE, !.open = FALSE]
    BY <2>2, <2>3 DEF ConnRecord
  <2>5. connection' = [connection EXCEPT ![conn] = [connection[conn] EXCEPT !.live = FALSE, !.open = FALSE]]
    BY <2>1, <2>4
  <2> QED BY <2>1, <2>2, <2>5, CloseKeeps
<1>14. CASE Dropped
  <2>1. loop.pc = "connected" /\ connection' = connection /\ conn' = conn /\ conf' = conf /\ UNCHANGED reports
    BY <1>14 DEF Dropped, config
  <2>2. loop.new = 0
    BY <1>0, <2>1 DEF PhaseInv
  <2>3. (\E p \in {"wait", "quit"} : loop' = [loop EXCEPT !.pc = p]) \/ Failed(FALSE)
    BY <1>14 DEF Dropped
  <2>4. \E p \in {"wait", "quit"}, rd \in {0, loop.read} : loop' = [pc |-> p, new |-> 0, read |-> rd]
    <3>1. CASE \E p \in {"wait", "quit"} : loop' = [loop EXCEPT !.pc = p]
      BY <3>1, <2>2, <1>0 DEF LoopType
    <3>2. CASE Failed(FALSE)
      BY <3>2, FailedLoop
    <3> QED BY <2>3, <3>1, <3>2
  <2> QED BY <2>1, <2>2, <2>4, LoopStays
<1>15. CASE StopSeen
  <2>1. /\ loop.pc \in {"wait", "connected"} /\ connection' = connection /\ conn' = conn /\ conf' = conf
        /\ UNCHANGED reports /\ loop' = [loop EXCEPT !.pc = "quit"]
    BY <1>15 DEF StopSeen, config
  <2>2. loop.new = 0
    BY <1>0, <2>1 DEF PhaseInv
  <2>3. loop' = [pc |-> "quit", new |-> 0, read |-> loop.read]
    BY <2>1, <2>2, <1>0 DEF LoopType
  <2> QED BY <2>1, <2>2, <2>3, LoopStays
<1>16. CASE Quit
  <2>1. /\ loop.pc = "quit" /\ (conn # 0 => Gone(conn)) /\ conn' = conn /\ conf' = conf /\ UNCHANGED reports
        /\ connection' = [i \in Conns |-> IF i = conn
                                          THEN [connection[i] EXCEPT !.live = FALSE, !.open = FALSE]
                                          ELSE connection[i]]
        /\ loop' = [loop EXCEPT !.pc = "ended"]
    BY <1>16 DEF Quit, config
  <2>2. loop.new = 0
    BY <1>0, <2>1 DEF PhaseInv
  <2>3. CASE conn = 0
    <3>1. connection' = connection
      BY <2>1, <2>3, <1>0, Zero DEF ConnType
    <3>2. loop'.pc = "ended" /\ loop'.new = 0 /\ loop'.read = loop.read /\ LoopType' /\ ConnType'
      BY <2>1, <2>2, <3>1, <1>0 DEF LoopType, ConnType
    <3>3. OwnInv' /\ ClosedInv' /\ LiveInv'
      BY <2>1, <2>2, <3>1, <3>2 DEF OwnInv, ClosedInv, LiveInv, IInv, ConnInv
    <3>4. PhaseInv'
      BY <3>2 DEF PhaseInv
    <3> QED BY <2>1, <3>1, <3>2, <3>3, <3>4, LoopMoves DEF ConnInv
  <2>4. CASE conn # 0
    <3>1. conn \in Conns
      BY <2>4, <1>a
    <3>2. connection' = [connection EXCEPT ![conn] = [connection[conn] EXCEPT !.live = FALSE, !.open = FALSE]]
      BY <2>1, <3>1, <1>0 DEF ConnType
    <3> QED BY <2>1, <2>4, <3>1, <3>2, CloseKeeps
  <2> QED BY <2>3, <2>4
<1>17. CASE Greet
  BY <1>17, GreetKeeps
<1>18. CASE Look
  <2>1. loop.pc = "look" /\ connection' = connection /\ conf' = conf /\ stop' = stop /\ UNCHANGED reports
    BY <1>18 DEF Look, config
  <2>2. CASE uid
    BY <1>18, <2>1, <2>2, EstablishKeeps DEF Look
  <2>3. CASE ~uid
    <3>1. conn' = conn /\ loop' = [loop EXCEPT !.pc = "poll"]
      BY <1>18, <2>3 DEF Look
    <3>2. loop' = [loop EXCEPT !.pc = "poll", !.read = loop.read]
      BY <3>1, <1>0 DEF LoopType
    <3> QED BY <2>1, <3>1, <3>2, HandshakeMoves
  <2> QED BY <2>2, <2>3
<1>19. CASE Enable
  <2>1. /\ loop.pc = "ready" /\ connection' = connection /\ conn' = conn /\ conf' = conf /\ stop' = stop
        /\ UNCHANGED reports /\ loop' = [loop EXCEPT !.pc = "connected", !.read = 0] /\ disabled' = FALSE
    BY <1>19 DEF Enable, config
  <2> QED BY <2>1, HandshakeMoves
<1> QED BY <1>1, <1>2, <1>3, <1>4, <1>5, <1>6, <1>7, <1>8, <1>9, <1>10, <1>11, <1>12, <1>13, <1>14,
           <1>15, <1>16, <1>17, <1>18, <1>19 DEF LoopStep

-----------------------------------------------------------------------------
LEMMA NextIInv ==
    ASSUME IInv, [Next]_vars
    PROVE  IInv'
<1>1. CASE UNCHANGED vars
  <2>1. /\ connection' = connection /\ conn' = conn /\ loop' = loop /\ disabled' = disabled /\ conf' = conf
        /\ UNCHANGED reports /\ stop' = stop
    BY <1>1 DEF vars, config
  <2>2. ConfType'
    BY <2>1 DEF ConfType, IInv, Types
  <2> QED BY <2>1, <2>2, OutsideKeeps
<1>2. CASE Next
  BY <1>2, LoopStepKeeps, CtlStepKeeps, InfoChangesKeeps, StopKeeps, ReceiverStepKeeps, UserStepKeeps DEF Next
<1> QED BY <1>1, <1>2

LEMMA Invariance == Spec => []IInv
BY InitIInv, NextIInv, PTL DEF Spec

\* For any number of connections, at most one of them executes a command: connectOnce makes a
\* new one only when the goroutine of the old one has ended.
THEOREM OneCommand == Spec => []OneCommandAtATime
<1>1. IInv => OneCommandAtATime
  <2> SUFFICES ASSUME IInv PROVE OneCommandAtATime
    OBVIOUS
  <2>1. PICK c : c = IF loop.new = 0 THEN conn ELSE loop.new
    OBVIOUS
  <2>2. \A i \in Conns : i # c => connection[i].recv = "none"
    BY <2>1, Zero DEF IInv, ConnInv, OwnInv, PhaseInv
  <2>3. PICK S : S = {i \in Conns : connection[i].recv \in {"assign", "exec", "notify", "compare"}}
    OBVIOUS
  <2>4. S \subseteq {c}
    BY <2>2, <2>3
  <2>5. IsFiniteSet({c}) /\ Cardinality({c}) = 1
    BY FS_Singleton
  <2>6. Cardinality(S) <= 1
    BY <2>4, <2>5, FS_Subset
  <2> QED BY <2>3, <2>6 DEF OneCommandAtATime
<1> QED BY Invariance, <1>1, PTL

\* Whatever the order in which the handshake, the reports of the commands and the Controller's
\* messages are sent, the server ends up with the latest state of the distros; the exceptions
\* are the three that stale records.
THEOREM ServerKnows == Spec => []ServerIsUpToDate
<1>1. IInv => ServerIsUpToDate
  <2> SUFFICES ASSUME IInv, loop.pc = "connected", Live(conn), ctl.pc = "idle", stale = {}
               PROVE  known = info
    BY DEF ServerIsUpToDate
  <2>1. conn \in Conns
    BY DEF IInv, Types, ConnInv, LoopType, PhaseInv
  <2>2. connection[conn].live \in BOOLEAN
    BY <2>1 DEF IInv, Types, ConnType, ConnRecord
  <2>3. connection[conn].live = TRUE
    BY <2>2 DEF Live
  <2>4. Greeted = conn
    BY DEF Greeted
  <2> QED BY <2>3, <2>4 DEF Live, UpInv, IInv
<1> QED BY Invariance, <1>1, PTL
==============================================================================
