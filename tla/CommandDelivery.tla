--------------------------- MODULE CommandDelivery ---------------------------
(***************************************************************************)
(* What the agent may rely on when it sends a distro a command: an abstract *)
(* specification, with no streams and no connections.  Commands are        *)
(* numbered, and there are several kinds of them.  The sender has one      *)
(* outstanding command at a time.  The distro executes a command at most   *)
(* once and never after a later one of its kind; a command that was given  *)
(* up may still be executed after, or beside, a later one of another kind. *)
(* The sender is given an answer only for the command it sent and only if  *)
(* that was executed; if it is told that the command is lost, the distro   *)
(* may have executed it, may still do so, or may never do so.              *)
(***************************************************************************)
EXTENDS Naturals, Sequences

CONSTANTS
    Commands,   \* the kinds of commands
    MaxCmds     \* bound: commands

VARIABLES
    issued,     \* number of the last command
    status,     \* what the sender knows of it
    executed    \* the commands the distro began to execute, in this order

vars == <<issued, status, executed>>

Init == issued = 0 /\ status = "none" /\ executed = <<>>

Issue ==
    /\ status # "pending" /\ issued < MaxCmds
    /\ issued' = issued + 1 /\ status' = "pending"
    /\ UNCHANGED executed

Execute ==
    /\ \E s \in Commands, n \in 1 .. issued :
          /\ \A i \in 1 .. Len(executed) :
                executed[i].n # n /\ (executed[i].to = s => executed[i].n < n)
          /\ executed' = Append(executed, [to |-> s, n |-> n])
    /\ UNCHANGED <<issued, status>>

Answer ==
    /\ status = "pending" /\ \E i \in 1 .. Len(executed) : executed[i].n = issued
    /\ status' = "answered"
    /\ UNCHANGED <<issued, executed>>

Lose ==
    /\ status = "pending"
    /\ status' = "lost"
    /\ UNCHANGED <<issued, executed>>

Next == Issue \/ Execute \/ Answer \/ Lose

Spec == Init /\ [][Next]_vars
=============================================================================
