---------------------------- MODULE LinkTransport ----------------------------
(***************************************************************************)
(* What lies between a distro and the agent: the connection attempts of    *)
(* wsl-pro-service, each with the streams of the WSLInstance service       *)
(* (gRPC, external; modelled from how both ends use it).  An attempt is    *)
(* opened by the distro, and closed by it, or cut.  Neither end learns at  *)
(* once what happened to the other one.  The numbers of attempts that      *)
(* nobody remembers are used again, and messages nobody can receive are    *)
(* not kept.                                                               *)
(***************************************************************************)
EXTENDS Integers, Sequences

CONSTANTS
    Commands,   \* the command streams: "pro", "lpe" or both
    Attempts,   \* numbers of the connection attempts remembered at a time
    MaxCmds,    \* bound: commands
    FaultKinds, \* what may go wrong
    MaxFaults   \* bound: how often

ASSUME LinkAssumption ==
    /\ Commands \subseteq {"pro", "lpe"}
    /\ Attempts \subseteq Nat \ {0} /\ Attempts # {}
    /\ FaultKinds \subseteq {"cut", "crash", "open", "timeout", "database", "install", "info", "system",
                            "quit"}
    /\ MaxCmds \in Nat /\ MaxFaults \in Nat

VARIABLES
    line,       \* each attempt: free, up, cut, or closed by the distro
    named,      \* streams <<k, s>> on which the distro sent its name
    ended,      \* streams the agent's handler has ended
    cmd,        \* the command on its way to the distro, per command stream
    answer,     \* the result on its way to the agent, per command stream
    infos,      \* per attempt, the DistroInfo messages on their way to the agent
    overtaken,  \* history: an info was sent or arrived when it was old, was overwritten, or never sent
    faults      \* faults so far

reports   == <<infos, overtaken>>
transport == <<line, named, ended, cmd, answer, reports, faults>>

StreamKinds == {"main"} \cup Commands
Streams     == Attempts \X StreamKinds
CmdStreams  == Attempts \X Commands

\* A command for Ubuntu Pro carries a token or none; one for Landscape its configuration.
Cmds == [n : 1 .. MaxCmds, token : BOOLEAN]
None == [n |-> 0, token |-> FALSE]

\* DistroInfo: whether the distro is attached.  "bad" is the info without a name that
\* is sent when it could not be gathered.
Infos == {"attached", "detached", "bad"}

TransportType ==
    /\ line \in [Attempts -> {"free", "up", "cut", "closed"}]
    /\ named \in SUBSET Streams /\ ended \in SUBSET Streams
    /\ cmd \in [CmdStreams -> Cmds \cup {None}]
    /\ answer \in [CmdStreams -> 0 .. MaxCmds]
    /\ infos \in [Attempts -> Seq(Infos)]
    /\ faults \in 0 .. MaxFaults
    /\ overtaken \in BOOLEAN

TransportInit ==
    /\ line = [k \in Attempts |-> "free"]
    /\ named = {} /\ ended = {}
    /\ cmd = [x \in CmdStreams |-> None]
    /\ answer = [x \in CmdStreams |-> 0]
    /\ infos = [k \in Attempts |-> <<>>]
    /\ faults = 0
    /\ overtaken = FALSE

\* A fault out of the budget.
Fault(kind) == kind \in FaultKinds /\ faults < MaxFaults /\ faults' = faults + 1

\* Attempt k cannot carry anything any more; the ends may or may not know.
Over(k) == line[k] \in {"cut", "closed"}

\* Sending or receiving on stream x may fail at the distro's end.
Broken(x) == Over(x[1]) \/ x \in ended

Of(k, S) == {x \in S : x[1] = k}

\* The distro opens attempt k, or tries to.
OpenLine(k, state) ==
    /\ line' = [line EXCEPT ![k] = state]
    /\ named' = named \ Of(k, named) /\ ended' = ended \ Of(k, ended)
    /\ cmd' = [x \in CmdStreams |-> IF x[1] = k THEN None ELSE cmd[x]]
    /\ answer' = [x \in CmdStreams |-> IF x[1] = k THEN 0 ELSE answer[x]]
    /\ infos' = [infos EXCEPT ![k] = <<>>]
    /\ overtaken' = FALSE

\* The distro cancels the streams of attempt k.
CloseLine(k) ==
    /\ line' = [line EXCEPT ![k] = "closed"]
    /\ named' = named \ Of(k, ended) /\ ended' = ended \ Of(k, ended)
    /\ cmd' = [x \in CmdStreams |-> IF x[1] = k THEN None ELSE cmd[x]]
    /\ UNCHANGED <<answer, reports>>

\* The agent's handler of stream x returns.
EndStream(x) ==
    /\ named' = IF line[x[1]] = "closed" THEN named \ {x} ELSE named
    /\ ended' = IF line[x[1]] = "closed" THEN ended ELSE ended \cup {x}
    /\ answer' = [y \in CmdStreams |-> IF x = y THEN 0 ELSE answer[y]]
    /\ infos' = IF x[2] = "main" THEN [infos EXCEPT ![x[1]] = <<>>] ELSE infos
    /\ UNCHANGED <<line, cmd, overtaken>>
=============================================================================
