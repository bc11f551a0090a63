------------------------------ MODULE TaskQueue ------------------------------
(***************************************************************************)
(* The data structure of a distro's task queue                             *)
(* (windows-agent/internal/distros/worker/task_queue.go): what each        *)
(* operation does to the slice of queued tasks and to the notification     *)
(* channel.  Every operation of the code runs under the queue's own lock,  *)
(* so each is one step of the modules that use these operators.            *)
(*                                                                         *)
(* A task is its kind (ProAttachment, LandscapeConfigure: what task.Is     *)
(* compares) and the number of the submission that carried it.             *)
(***************************************************************************)
EXTENDS Integers, Sequences, FiniteSets

CONSTANTS
    Kinds,     \* the types of task
    WaitCap    \* the buffer of the notification channel: 4 in the code

ASSUME WaitCapAssumption == WaitCap \in Nat \ {0}

Task == [kind : Kinds, ver : Nat \ {0}]

\* The tasks of a queue, whatever their order.
Elems(data) == {data[i] : i \in DOMAIN data}

\* task.Is: tasks of one kind are equivalent whatever they carry.
Is(t, u) == t.kind = u.kind

Contains(data, t) == \E i \in DOMAIN data : Is(data[i], t)

\* removeIf.  Every equivalent of t goes, the order of the others stays: the task kept at i
\* moves to the place that the number of tasks kept up to i gives it.
Remove(data, t) ==
    LET kept    == {i \in DOMAIN data : ~Is(t, data[i])}
        Rank(i) == Cardinality({j \in kept : j <= i})
    IN  [p \in 1 .. Cardinality(kept) |-> data[CHOOSE i \in kept : Rank(i) = p]]

\* Push and PushIfNew differ in who wins: the new task or the queued one.
Push(data, t) == Append(Remove(data, t), t)
\* Wrong: the retried task takes the place of the queued one.
PushIfNewDisplaces(data, t) == Push(data, t)

PushIfNew(data, t) == IF Contains(data, t) THEN data ELSE Append(data, t)

\* A send that does not block: a full buffer drops the notification.
Notify(tokens) == IF tokens < WaitCap THEN tokens + 1 ELSE tokens
=============================================================================
