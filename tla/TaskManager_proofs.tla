-------------------------- MODULE TaskManager_proofs --------------------------
(***************************************************************************)
(* Proofs about a distro's task manager, for every set of submitters and   *)
(* of kinds of task, every number of submissions and restarts and every    *)
(* buffer of the notification channel.                                     *)
(***************************************************************************)
EXTENDS TaskManager, FiniteSetTheorems, WellFoundedInduction, TLAPS

(* The queues.                                                             *)

\* Of two tasks of a kind in a queue the older comes first ...
Sorted(data) ==
    \A i, j \in DOMAIN data : i < j /\ Is(data[i], data[j]) => data[i].ver < data[j].ver

\* ... and of two in different places the one in S is the older.
Older(S, T) == \A u \in S, v \in T : Is(u, v) => u.ver < v.ver

\* A set of numbers has a least element ...
LEMMA Least ==
    ASSUME NEW S \in SUBSET Nat, S # {}
    PROVE  \E m \in S : \A x \in S : m <= x
<1> DEFINE R == {ss \in Nat \X Nat : ss[1] < ss[2]}
<1>1. IsWellFoundedOn(R, Nat)
  BY NatLessThanWellFounded DEF OpToRel
<1>2. \A x, y \in Nat : x < y => <<x, y>> \in R
  OBVIOUS
<1> HIDE DEF R
<1>3. PICK m \in S : \A x \in S : ~(<<x, m>> \in R)
  BY <1>1, WFMin
<1>4. \A x \in S : x \in Nat /\ m \in Nat /\ ~(x < m)
  BY <1>2, <1>3
<1> QED
  BY <1>4

\* ... and, when it is bounded, a greatest one.
LEMMA Greatest ==
    ASSUME NEW S \in SUBSET Nat, S # {}, NEW n \in Nat, \A x \in S : x <= n
    PROVE  \E m \in S : \A x \in S : x <= m
<1> DEFINE T == {n - x : x \in S}
<1>1. T \in SUBSET Nat /\ T # {}
  <2>1. \A x \in S : n - x \in Nat
    OBVIOUS
  <2> QED
    BY <2>1
<1>2. PICK d \in T : \A y \in T : d <= y
  BY <1>1, Least
<1>3. PICK m \in S : d = n - m
  OBVIOUS
<1>4. \A x \in S : n - m <= n - x
  BY <1>2, <1>3
<1> QED
  BY <1>3, <1>4

\* The ranks of some positions of a sequence number them, in their order.
LEMMA Ranks ==
    ASSUME NEW n \in Nat, NEW kept \in SUBSET (1 .. n)
    PROVE  LET Rank(i) == Cardinality({j \in kept : j <= i})
           IN  /\ Cardinality(kept) \in Nat
               /\ \A i \in kept : Rank(i) \in 1 .. Cardinality(kept)
               /\ \A i, j \in kept : i < j => Rank(i) < Rank(j)
               /\ \A p \in 1 .. Cardinality(kept) : \E i \in kept : Rank(i) = p
<1> DEFINE Upto(i) == {j \in kept : j <= i}
           Rank(i) == Cardinality(Upto(i))
<1>1. IsFiniteSet(kept) /\ Cardinality(kept) \in Nat
  <2>1. IsFiniteSet(1 .. n)
    BY FS_Interval
  <2> QED
    BY <2>1, FS_Subset, FS_CardinalityType
<1>2. \A i \in kept : Upto(i) \in SUBSET kept /\ i \in Upto(i)
  OBVIOUS
<1>3. \A i \in kept : IsFiniteSet(Upto(i)) /\ Rank(i) \in Nat /\ Rank(i) <= Cardinality(kept)
  BY <1>1, <1>2, FS_Subset, FS_CardinalityType
<1>4. \A i \in kept : Rank(i) # 0
  BY <1>2, <1>3, FS_EmptySet
<1>5. ASSUME NEW i \in kept, NEW j \in kept, i < j PROVE Rank(i) < Rank(j)
  <2>1. Upto(i) \in SUBSET Upto(j) /\ j \notin Upto(i) /\ j \in Upto(j)
    <3>1. i \in Nat /\ j \in Nat /\ \A x \in kept : x \in Nat
      OBVIOUS
    <3>2. \A x \in kept : x <= i => x <= j
      BY <1>5, <3>1
    <3>3. j <= j /\ ~(j <= i)
      BY <1>5, <3>1
    <3> QED
      BY <3>2, <3>3
  <2>2. IsFiniteSet(Upto(j)) /\ Rank(i) \in Nat /\ Rank(j) \in Nat
    BY <1>3
  <2> HIDE DEF Upto
  <2>3. Rank(i) <= Rank(j) /\ (Rank(j) = Rank(i) => Upto(j) = Upto(i))
    BY <2>1, <2>2, FS_Subset
  <2> QED
    BY <2>1, <2>2, <2>3
<1>6. ASSUME NEW p \in 1 .. Cardinality(kept), \A i \in kept : Rank(i) # p PROVE FALSE
  <2> DEFINE T == (1 .. Cardinality(kept)) \ {p}
             f == [i \in kept |-> Rank(i)]
  <2>1. IsFiniteSet(T) /\ Cardinality(T) < Cardinality(kept)
    <3>1. IsFiniteSet(1 .. Cardinality(kept)) /\ Cardinality(1 .. Cardinality(kept)) = Cardinality(kept)
      BY <1>1, FS_Interval
    <3>2. T \in SUBSET (1 .. Cardinality(kept)) /\ T # 1 .. Cardinality(kept)
      OBVIOUS
    <3>3. IsFiniteSet(T) /\ Cardinality(T) <= Cardinality(kept) /\ Cardinality(T) # Cardinality(kept)
      BY <3>1, <3>2, FS_Subset
    <3>4. Cardinality(T) \in Nat
      BY <3>3, FS_CardinalityType
    <3> QED
      BY <1>1, <3>3, <3>4
  <2>2. f \in [kept -> T]
    BY <1>3, <1>4, <1>6
  <2>3. PICK x, y \in kept : x # y /\ f[x] = f[y]
    <3> HIDE DEF T, f
    <3> QED
      BY <1>1, <2>1, <2>2, FS_PigeonHole
  <2>4. Rank(x) = Rank(y) /\ (x < y \/ y < x) /\ Rank(x) \in Nat /\ Rank(y) \in Nat
    BY <1>3, <2>3
  <2> HIDE DEF Rank
  <2> QED
    BY <1>5, <2>4
<1>7. \A i \in kept : Rank(i) \in 1 .. Cardinality(kept)
  BY <1>1, <1>3, <1>4
<1> QED
  BY <1>1, <1>5, <1>6, <1>7

\* What is left after Remove, and in which order.
LEMMA RemoveProperties ==
    ASSUME NEW data \in Seq(Task), NEW t
    PROVE  /\ Remove(data, t) \in Seq(Task)
           /\ Elems(Remove(data, t)) = {u \in Elems(data) : ~Is(t, u)}
           /\ Sorted(data) => Sorted(Remove(data, t))
<1> DEFINE kept    == {i \in DOMAIN data : ~Is(t, data[i])}
           Rank(i) == Cardinality({j \in kept : j <= i})
           Pos(p)  == CHOOSE i \in kept : Rank(i) = p
           size    == Cardinality(kept)
<1>1. Len(data) \in Nat /\ DOMAIN data = 1 .. Len(data) /\ \A i \in DOMAIN data : data[i] \in Task
  OBVIOUS
<1>2. kept \in SUBSET (1 .. Len(data))
  BY <1>1
<1>3. /\ size \in Nat
      /\ \A i \in kept : Rank(i) \in 1 .. size
      /\ \A i, j \in kept : i < j => Rank(i) < Rank(j)
      /\ \A p \in 1 .. size : \E i \in kept : Rank(i) = p
  <2> HIDE DEF kept
  <2> QED
    BY <1>1, <1>2, Ranks
<1>4. Remove(data, t) = [p \in 1 .. size |-> data[Pos(p)]]
  BY DEF Remove
<1>5. \A i \in kept : i \in DOMAIN data /\ data[i] \in Task /\ ~Is(t, data[i]) /\ i \in Nat
  BY <1>1
<1>6. \A i \in DOMAIN data : ~Is(t, data[i]) => i \in kept
  OBVIOUS
<1> HIDE DEF kept, Rank, size
<1>7. \A p \in 1 .. size : Pos(p) \in kept /\ Rank(Pos(p)) = p
  BY <1>3
<1>8. \A i \in kept : Pos(Rank(i)) = i
  <2> SUFFICES ASSUME NEW i \in kept PROVE Pos(Rank(i)) = i
    OBVIOUS
  <2> DEFINE j == Pos(Rank(i))
  <2>1. Rank(i) \in 1 .. size /\ j \in kept /\ Rank(j) = Rank(i)
    BY <1>3, <1>7
  <2> HIDE DEF j
  <2>2. ~(i < j) /\ ~(j < i)
    BY <1>3, <2>1
  <2>3. i \in Nat /\ j \in Nat
    BY <1>5, <2>1
  <2>4. i = j
    BY <2>2, <2>3
  <2> QED
    BY <2>4 DEF j
<1> HIDE DEF Pos
<1> DEFINE new == [p \in 1 .. size |-> data[Pos(p)]]
<1>9. new \in Seq(Task) /\ DOMAIN new = 1 .. size /\ \A p \in 1 .. size : new[p] = data[Pos(p)]
  BY <1>3, <1>5, <1>7
<1>10. Elems(new) = {u \in Elems(data) : ~Is(t, u)}
  <2>1. ASSUME NEW u \in Elems(new) PROVE u \in Elems(data) /\ ~Is(t, u)
    <3>1. PICK p \in 1 .. size : u = data[Pos(p)]
      BY <1>9, <2>1 DEF Elems
    <3> QED
      BY <1>5, <1>7, <3>1 DEF Elems
  <2>2. ASSUME NEW u \in Elems(data), ~Is(t, u) PROVE u \in Elems(new)
    <3>1. PICK i \in DOMAIN data : u = data[i]
      BY <2>2 DEF Elems
    <3>2. i \in kept /\ Rank(i) \in 1 .. size /\ new[Rank(i)] = data[i]
      BY <1>3, <1>6, <1>8, <1>9, <2>2, <3>1
    <3> QED
      BY <1>9, <3>1, <3>2 DEF Elems
  <2> QED
    BY <2>1, <2>2
<1>11. Sorted(data) => Sorted(new)
  <2> SUFFICES ASSUME Sorted(data), NEW p \in 1 .. size, NEW q \in 1 .. size, p < q, Is(new[p], new[q])
               PROVE  new[p].ver < new[q].ver
    BY <1>9 DEF Sorted
  <2>1. Pos(p) \in kept /\ Pos(q) \in kept /\ Rank(Pos(p)) = p /\ Rank(Pos(q)) = q
    BY <1>7
  <2>2. Pos(p) \in Nat /\ Pos(q) \in Nat /\ Pos(p) # Pos(q) /\ ~(Pos(q) < Pos(p))
    BY <1>3, <1>5, <2>1
  <2>3. Pos(p) < Pos(q)
    BY <2>2
  <2> QED
    BY <1>5, <1>9, <2>1, <2>3 DEF Sorted
<1> QED
  BY <1>4, <1>9, <1>10, <1>11

\* What the other operations leave in a queue, and in which order.
LEMMA EmptyQueue == Elems(<<>>) = {} /\ Sorted(<<>>) /\ <<>> \in Seq(Task)
BY DEF Elems, Sorted

LEMMA ElemsType ==
    ASSUME NEW data \in Seq(Task)
    PROVE  Elems(data) \in SUBSET Task
BY DEF Elems

LEMMA ContainsProperties ==
    ASSUME NEW data, NEW t
    PROVE  Contains(data, t) <=> \E u \in Elems(data) : Is(u, t)
BY DEF Contains, Elems

LEMMA ConcatProperties ==
    ASSUME NEW a \in Seq(Task), NEW b \in Seq(Task)
    PROVE  /\ a \o b \in Seq(Task)
           /\ Elems(a \o b) = Elems(a) \cup Elems(b)
           /\ Sorted(a) /\ Sorted(b) /\ Older(Elems(a), Elems(b)) => Sorted(a \o b)
<1> DEFINE c == a \o b
<1>1. /\ c \in Seq(Task) /\ Len(a) \in Nat /\ Len(b) \in Nat
      /\ DOMAIN a = 1 .. Len(a) /\ DOMAIN b = 1 .. Len(b) /\ DOMAIN c = 1 .. Len(a) + Len(b)
  OBVIOUS
<1>2. /\ \A i \in 1 .. Len(a) : i \in DOMAIN c /\ c[i] = a[i]
      /\ \A i \in 1 .. Len(b) : Len(a) + i \in DOMAIN c /\ c[Len(a) + i] = b[i]
  OBVIOUS
<1> HIDE DEF c
<1>3. \A i \in DOMAIN c : \/ i \in 1 .. Len(a) /\ c[i] = a[i]
                          \/ i - Len(a) \in 1 .. Len(b) /\ c[i] = b[i - Len(a)]
  <2>1. ASSUME NEW i \in DOMAIN c, i \notin 1 .. Len(a)
        PROVE  i - Len(a) \in 1 .. Len(b) /\ c[i] = b[i - Len(a)]
    <3>1. i - Len(a) \in 1 .. Len(b) /\ Len(a) + (i - Len(a)) = i
      BY <1>1, <2>1
    <3> QED
      BY <1>2, <3>1
  <2>2. ASSUME NEW i \in 1 .. Len(a) PROVE c[i] = a[i]
    BY <1>2
  <2> QED
    BY <2>1, <2>2
<1>4. Elems(c) = Elems(a) \cup Elems(b)
  <2>1. ASSUME NEW u \in Elems(c) PROVE u \in Elems(a) \cup Elems(b)
    BY <1>1, <1>3, <2>1 DEF Elems
  <2>2. ASSUME NEW u \in Elems(a) PROVE u \in Elems(c)
    BY <1>1, <1>2, <2>2 DEF Elems
  <2>3. ASSUME NEW u \in Elems(b) PROVE u \in Elems(c)
    BY <1>1, <1>2, <2>3 DEF Elems
  <2> QED
    BY <2>1, <2>2, <2>3
<1>5. ASSUME Sorted(a), Sorted(b), Older(Elems(a), Elems(b)),
             NEW i \in DOMAIN c, NEW j \in DOMAIN c, i < j, Is(c[i], c[j])
      PROVE  c[i].ver < c[j].ver
  <2>1. i \in Nat /\ j \in Nat
    BY <1>1
  <2>2. CASE j \in 1 .. Len(a)
    <3>1. i \in 1 .. Len(a) /\ c[i] = a[i] /\ c[j] = a[j]
      BY <1>1, <1>2, <1>5, <2>1, <2>2
    <3> QED
      BY <1>1, <1>5, <2>2, <3>1 DEF Sorted
  <2>3. CASE i \in 1 .. Len(a) /\ j - Len(a) \in 1 .. Len(b) /\ c[j] = b[j - Len(a)]
    <3>1. c[i] = a[i] /\ a[i] \in Elems(a) /\ c[j] \in Elems(b)
      BY <1>1, <1>2, <2>3 DEF Elems
    <3> QED
      BY <1>5, <3>1 DEF Older
  <2>4. CASE /\ i - Len(a) \in 1 .. Len(b) /\ c[i] = b[i - Len(a)]
             /\ j - Len(a) \in 1 .. Len(b) /\ c[j] = b[j - Len(a)]
    <3>1. i - Len(a) < j - Len(a)
      BY <1>1, <1>5, <2>1
    <3> QED
      BY <1>1, <1>5, <2>4, <3>1 DEF Sorted
  <2> QED
    BY <1>3, <2>2, <2>3, <2>4
<1>6. Sorted(a) /\ Sorted(b) /\ Older(Elems(a), Elems(b)) => Sorted(c)
  BY <1>5 DEF Sorted
<1> QED
  BY <1>1, <1>4, <1>6 DEF c

LEMMA AppendProperties ==
    ASSUME NEW data \in Seq(Task), NEW t \in Task
    PROVE  /\ Append(data, t) \in Seq(Task)
           /\ Elems(Append(data, t)) = Elems(data) \cup {t}
           /\ Sorted(data) /\ Older(Elems(data), {t}) => Sorted(Append(data, t))
<1>1. Append(data, t) = data \o <<t>> /\ <<t>> \in Seq(Task)
  OBVIOUS
<1>2. Elems(<<t>>) = {t}
  BY DEF Elems
<1>3. Sorted(<<t>>)
  BY DEF Sorted
<1> QED
  BY <1>1, <1>2, <1>3, ConcatProperties

LEMMA PushProperties ==
    ASSUME NEW data \in Seq(Task), NEW t \in Task
    PROVE  /\ Push(data, t) \in Seq(Task)
           /\ Elems(Push(data, t)) = {u \in Elems(data) : ~Is(t, u)} \cup {t}
           /\ Sorted(data) => Sorted(Push(data, t))
<1>1. /\ Remove(data, t) \in Seq(Task)
      /\ Elems(Remove(data, t)) = {u \in Elems(data) : ~Is(t, u)}
      /\ Sorted(data) => Sorted(Remove(data, t))
  BY RemoveProperties
<1>2. Older({u \in Elems(data) : ~Is(t, u)}, {t})
  BY DEF Older, Is
<1> HIDE DEF Remove
<1> QED
  BY <1>1, <1>2, AppendProperties DEF Push

LEMMA PopProperties ==
    ASSUME NEW data \in Seq(Task), data # <<>>
    PROVE  /\ Head(data) \in Task /\ Tail(data) \in Seq(Task)
           /\ Elems(data) = {Head(data)} \cup Elems(Tail(data))
           /\ Sorted(data) => Sorted(Tail(data)) /\ Older({Head(data)}, Elems(Tail(data)))
<1> DEFINE rest == Tail(data)
<1>1. /\ Head(data) \in Task /\ rest \in Seq(Task) /\ Head(data) = data[1]
      /\ Len(data) \in Nat /\ DOMAIN data = 1 .. Len(data) /\ DOMAIN rest = 1 .. Len(data) - 1
      /\ 1 \in DOMAIN data
  OBVIOUS
<1>2. \A i \in DOMAIN rest : i \in Nat \ {0} /\ i + 1 \in DOMAIN data /\ rest[i] = data[i + 1]
  OBVIOUS
<1>3. \A i \in DOMAIN data : i = 1 \/ (i - 1 \in DOMAIN rest /\ data[i] = rest[i - 1])
  OBVIOUS
<1> HIDE DEF rest
<1>4. Elems(data) = {Head(data)} \cup Elems(rest)
  <2>1. ASSUME NEW u \in Elems(data) PROVE u \in {Head(data)} \cup Elems(rest)
    BY <1>1, <1>3, <2>1 DEF Elems
  <2>2. Head(data) \in Elems(data)
    BY <1>1 DEF Elems
  <2>3. ASSUME NEW u \in Elems(rest) PROVE u \in Elems(data)
    BY <1>2, <2>3 DEF Elems
  <2> QED
    BY <2>1, <2>2, <2>3
<1>5. ASSUME Sorted(data), NEW i \in DOMAIN rest, NEW j \in DOMAIN rest, i < j, Is(rest[i], rest[j])
      PROVE  rest[i].ver < rest[j].ver
  <2>1. i + 1 < j + 1
    BY <1>2, <1>5
  <2> QED
    BY <1>2, <1>5, <2>1 DEF Sorted
<1>6. ASSUME Sorted(data), NEW j \in DOMAIN rest, Is(Head(data), rest[j])
      PROVE  Head(data).ver < rest[j].ver
  <2>1. 1 < j + 1
    BY <1>2
  <2> QED
    BY <1>1, <1>2, <1>6, <2>1 DEF Sorted
<1>7. Sorted(data) => Sorted(rest) /\ Older({Head(data)}, Elems(rest))
  BY <1>5, <1>6 DEF Sorted, Older, Elems
<1> QED
  BY <1>1, <1>4, <1>7 DEF rest

-----------------------------------------------------------------------------
(* A wake-up is lost in one window only.                                   *)

\* The worker has found the queue empty and has not been notified since.
Committed == pc[Worker] = "getwait" \/ (pc[Worker] = "select" /\ waitOpen)

\* From the failed pop on, work in the queue means a token in the channel, unless
\* an Absorb replaced the channel in between.
NotifyInv == "pull" \notin windows => (Committed /\ tasks # <<>> => tokens > 0)

ControlOK ==
    /\ tokens \in 0 .. WaitCap
    /\ pc \in [Threads -> WorkerSteps \cup SubmitSteps \cup SaveSteps]

IInv == ControlOK /\ NotifyInv

-----------------------------------------------------------------------------
\* An operation that takes tasks away does not put work in an empty queue.
LEMMA RemoveFromEmpty ==
    ASSUME NEW t
    PROVE  Remove(<<>>, t) = <<>>
<1>1. /\ Remove(<<>>, t) \in Seq(Task)
      /\ Elems(Remove(<<>>, t)) = {u \in Elems(<<>>) : ~Is(t, u)}
  BY RemoveProperties, EmptyQueue
<1>2. Elems(Remove(<<>>, t)) = {}
  BY <1>1, EmptyQueue
<1> HIDE DEF Remove
<1> QED
  BY <1>1, <1>2 DEF Elems

\* Push leaves a token in the channel, within its buffer.
LEMMA NotifyLeavesToken ==
    ASSUME tokens \in 0 .. WaitCap
    PROVE  Notify(tokens) \in 0 .. WaitCap /\ Notify(tokens) > 0
BY WaitCapAssumption DEF Notify

\* A step by which the worker is not newly committed, and after which there is
\* neither work that was not there nor a token less, keeps NotifyInv.
LEMMA QuietStep ==
    ASSUME NotifyInv, Committed' => Committed, tasks = <<>> => tasks' = <<>>,
           tokens' = tokens, windows \subseteq windows'
    PROVE  NotifyInv'
BY DEF NotifyInv

\* A goroutine's move keeps the shape of pc and leaves the others where they are.
LEMMA Moves ==
    ASSUME ControlOK, NEW t \in Threads,
           NEW step \in WorkerSteps \cup SubmitSteps \cup SaveSteps, Goto(t, step)
    PROVE  /\ pc' \in [Threads -> WorkerSteps \cup SubmitSteps \cup SaveSteps]
           /\ pc'[Worker] = IF t = Worker THEN step ELSE pc[Worker]
BY DEF ControlOK, Goto, Threads

-----------------------------------------------------------------------------
\* Submit
LEMMA SubmitIInv ==
    ASSUME IInv, NEW s \in Submitters, SubmitLock(s) \/ SubmitRemove(s) \/ SubmitPush(s)
    PROVE  IInv'
<1>1. s \in Threads /\ s # Worker
  BY ThreadsAssumption DEF Threads
<1>2. CASE SubmitLock(s)
  <2>1. Goto(s, "remove") /\ UNCHANGED <<tasks, tokens, waitOpen, windows>>
    BY <1>2 DEF SubmitLock, queues, history
  <2>2. pc' \in [Threads -> WorkerSteps \cup SubmitSteps \cup SaveSteps] /\ pc'[Worker] = pc[Worker]
    BY <1>1, <2>1, Moves DEF IInv, SubmitSteps
  <2> QED
    BY <2>1, <2>2, QuietStep DEF IInv, ControlOK, Committed
<1>3. CASE SubmitRemove(s)
  <2>1. Goto(s, "push") /\ UNCHANGED <<tokens, waitOpen, windows>>
    BY <1>3 DEF SubmitRemove, history
  <2>2. tasks = <<>> => tasks' = <<>>
    BY <1>3, RemoveFromEmpty DEF SubmitRemove
  <2>3. pc' \in [Threads -> WorkerSteps \cup SubmitSteps \cup SaveSteps] /\ pc'[Worker] = pc[Worker]
    BY <1>1, <2>1, Moves DEF IInv, SubmitSteps
  <2> QED
    BY <2>1, <2>2, <2>3, QuietStep DEF IInv, ControlOK, Committed
<1>4. CASE SubmitPush(s)
  <2>1. Goto(s, "readTasks") /\ UNCHANGED <<waitOpen, windows>>
    BY <1>4 DEF SubmitPush
  <2>2. UNCHANGED <<tasks, tokens>> \/ tokens' = Notify(tokens)
    BY <1>4 DEF SubmitPush
  <2>3. pc' \in [Threads -> WorkerSteps \cup SubmitSteps \cup SaveSteps] /\ pc'[Worker] = pc[Worker]
    BY <1>1, <2>1, Moves DEF IInv, SaveSteps
  <2>4. CASE UNCHANGED <<tasks, tokens>>
    BY <2>1, <2>3, <2>4, QuietStep DEF IInv, ControlOK, Committed
  <2>5. CASE tokens' = Notify(tokens)
    BY <2>3, <2>5, NotifyLeavesToken DEF IInv, ControlOK, NotifyInv
  <2> QED
    BY <2>2, <2>4, <2>5
<1> QED
  BY <1>2, <1>3, <1>4

\* save, by whoever calls it: it touches neither the queue nor the channel.
LEMMA SaveIInv ==
    ASSUME IInv, NEW t \in Threads, Save(t) \/ SaveFail(t)
    PROVE  IInv'
<1>1. UNCHANGED <<tasks, tokens, waitOpen>> /\ windows \subseteq windows'
  BY DEF Save, SaveReadTasks, SaveReadDeferred, SaveWrite, SaveRename, SaveFail, queues, history
<1>2. PICK step \in SaveSteps \cup {"pull", "idle"} : Goto(t, step)
  BY DEF Save, SaveReadTasks, SaveReadDeferred, SaveWrite, SaveRename, SaveFail, EndSave, SaveSteps
<1>3. /\ pc' \in [Threads -> WorkerSteps \cup SubmitSteps \cup SaveSteps]
      /\ pc'[Worker] = IF t = Worker THEN step ELSE pc[Worker]
  BY <1>2, Moves DEF IInv, WorkerSteps, SubmitSteps
<1>4. Committed' => Committed
  BY <1>1, <1>3 DEF Committed, SaveSteps
<1> QED
  BY <1>1, <1>3, <1>4, QuietStep DEF IInv, ControlOK

\* The worker.
LEMMA WorkerIInv ==
    ASSUME IInv, Pull \/ Execute \/ Resubmit
    PROVE  IInv'
<1>0. Worker \in Threads
  BY DEF Threads
<1>1. windows' = windows
  BY DEF Pull, PullCheck, TryPopFront, PullReadWait, PullWake, PullCancelled, Execute, TaskEnds,
         TaskNeedsRetry, TaskUnreachable, Resubmit, ResubmitContains, ResubmitPush, history
<1>2. ASSUME NEW step \in WorkerSteps \cup SaveSteps, Goto(Worker, step)
      PROVE  pc' \in [Threads -> WorkerSteps \cup SubmitSteps \cup SaveSteps] /\ pc'[Worker] = step
  BY <1>0, <1>2, Moves DEF IInv
<1>3. CASE TryPopFront /\ tasks = <<>>
  <2>1. Goto(Worker, "getwait") /\ UNCHANGED <<tasks, tokens>>
    BY <1>3 DEF TryPopFront
  <2>2. pc' \in [Threads -> WorkerSteps \cup SubmitSteps \cup SaveSteps]
    BY <1>2, <2>1 DEF WorkerSteps
  <2> QED
    BY <1>3, <2>1, <2>2 DEF IInv, ControlOK, NotifyInv
<1>4. CASE PullReadWait
  <2>1. pc[Worker] = "getwait" /\ Goto(Worker, "select") /\ UNCHANGED <<tasks, tokens>>
    BY <1>4 DEF PullReadWait, queues
  <2>2. pc' \in [Threads -> WorkerSteps \cup SubmitSteps \cup SaveSteps]
    BY <1>2, <2>1 DEF WorkerSteps
  <2> QED
    BY <1>1, <2>1, <2>2, QuietStep DEF IInv, ControlOK, Committed
<1>5. CASE PullWake
  <2>1. Goto(Worker, "pop") /\ tokens' \in 0 .. WaitCap
    BY <1>5, WaitCapAssumption DEF PullWake, IInv, ControlOK
  <2>2. pc' \in [Threads -> WorkerSteps \cup SubmitSteps \cup SaveSteps] /\ pc'[Worker] = "pop"
    BY <1>2, <2>1 DEF WorkerSteps
  <2> QED
    BY <2>1, <2>2 DEF IInv, ControlOK, NotifyInv, Committed
<1>6. CASE \/ PullCheck \/ (TryPopFront /\ tasks # <<>>) \/ PullCancelled
           \/ Execute \/ Resubmit
  <2>1. tokens' = tokens
    BY <1>6 DEF PullCheck, TryPopFront, PullCancelled, Execute, TaskEnds, TaskNeedsRetry,
                TaskUnreachable, Resubmit, ResubmitContains, ResubmitPush, queues
  <2>2. PICK step \in {"stopped", "pop", "exec", "readTasks", "resubmit", "pull", "pushIfNew"} :
           Goto(Worker, step)
    BY <1>6 DEF PullCheck, TryPopFront, PullCancelled, Execute, TaskEnds, TaskNeedsRetry,
                TaskUnreachable, Resubmit, ResubmitContains, ResubmitPush
  <2>3. pc' \in [Threads -> WorkerSteps \cup SubmitSteps \cup SaveSteps] /\ pc'[Worker] = step
    BY <1>2, <2>2 DEF WorkerSteps, SaveSteps
  <2> QED
    BY <2>1, <2>3 DEF IInv, ControlOK, NotifyInv, Committed
<1> QED
  BY <1>3, <1>4, <1>5, <1>6 DEF Pull

\* An Absorb that lands on a committed worker is the one that hits the window.
LEMMA EnqueueIInv ==
    ASSUME IInv, EnqueueDeferredTasks
    PROVE  IInv'
<1>1. pc' = pc /\ tokens' = 0 /\ ~waitOpen'
  BY DEF EnqueueDeferredTasks
<1>2. pc[Worker] = "getwait" /\ tasks' # <<>> => "pull" \in windows'
  BY DEF EnqueueDeferredTasks, Hit
<1> QED
  BY <1>1, <1>2, WaitCapAssumption DEF IInv, ControlOK, NotifyInv, Committed

\* Stop changes neither; after Restart the worker has yet to look at the queue.
LEMMA RestIInv ==
    ASSUME IInv, Stop \/ Restart \/ UNCHANGED vars
    PROVE  IInv'
<1>1. CASE Stop \/ UNCHANGED vars
  <2>1. UNCHANGED <<tasks, tokens, pc, waitOpen, windows>>
    BY <1>1 DEF Stop, vars, queues, history
  <2> QED
    BY <2>1, QuietStep DEF IInv, ControlOK, Committed
<1>2. CASE Restart
  <2>1. /\ tokens' = 0
        /\ pc' = [t \in Threads |-> IF t = Worker THEN "pull" ELSE "idle"]
    BY <1>2 DEF Restart
  <2>2. pc' \in [Threads -> WorkerSteps \cup SubmitSteps \cup SaveSteps] /\ pc'[Worker] = "pull"
    BY <2>1 DEF Threads, WorkerSteps, SubmitSteps
  <2> QED
    BY <2>1, <2>2, WaitCapAssumption DEF IInv, ControlOK, NotifyInv, Committed
<1> QED
  BY <1>1, <1>2

-----------------------------------------------------------------------------
\* newTaskManager and Worker.start establish the invariant.
LEMMA InitIInv == Init => IInv
<1> SUFFICES ASSUME Init PROVE IInv
  OBVIOUS
<1>1. pc \in [Threads -> WorkerSteps \cup SubmitSteps \cup SaveSteps] /\ pc[Worker] = "pull"
  BY DEF Init, Threads, WorkerSteps, SubmitSteps
<1> QED
  BY <1>1, WaitCapAssumption DEF Init, IInv, ControlOK, NotifyInv, Committed

\* Every step keeps it.
LEMMA NextIInv == IInv /\ [Next]_vars => IInv'
<1> SUFFICES ASSUME IInv, [Next]_vars PROVE IInv'
  OBVIOUS
<1>1. CASE \E s \in Submitters : SubmitLock(s) \/ SubmitRemove(s) \/ SubmitPush(s)
  BY <1>1, SubmitIInv
<1>2. CASE \E t \in Threads : \/ SaveReadTasks(t) \/ SaveReadDeferred(t) \/ SaveWrite(t)
                              \/ SaveRename(t) \/ SaveFail(t)
  BY <1>2, SaveIInv DEF Save
<1>3. CASE \/ PullCheck \/ TryPopFront \/ PullReadWait \/ PullWake \/ PullCancelled
           \/ TaskEnds \/ TaskNeedsRetry \/ TaskUnreachable
           \/ ResubmitContains \/ ResubmitPush
  BY <1>3, WorkerIInv DEF Pull, Execute, Resubmit
<1>4. CASE EnqueueDeferredTasks
  BY <1>4, EnqueueIInv
<1>5. CASE Stop \/ Restart \/ UNCHANGED vars
  BY <1>5, RestIInv
<1> QED
  BY <1>1, <1>2, <1>3, <1>4, <1>5 DEF Next

\* Pull misses a notification only if an Absorb fell between its failed pop and its
\* read of q.wait: the worker does not otherwise sleep on a queue that holds a task.
THEOREM NoOtherLostWakeup == Spec => []WakeupOnlyLostInPullWindow
<1>1. IInv => WakeupOnlyLostInPullWindow
  BY DEF IInv, ControlOK, NotifyInv, Committed, WakeupOnlyLostInPullWindow, Asleep
<1> QED
  BY InitIInv, NextIInv, <1>1, PTL DEF Spec

-----------------------------------------------------------------------------
(* The order of submissions and what is on disk.                           *)

\* The worker has a task that is in no queue, unless one was pushed meanwhile.
AtWork == pc[Worker] \in {"exec", "resubmit", "pushIfNew"}
InHand == IF AtWork THEN hand ELSE {}

TypeInv == TypeOK /\ req \in [Submitters -> [task : SUBSET Task, deferred : BOOLEAN]]

\* Who holds tm.mu, and what the goroutines have in their hands.
MutexInv ==
    /\ \A t, u \in mu : t = u
    /\ \A s \in Submitters :
         /\ pc[s] \in SubmitSteps \cup SaveSteps
         /\ s \in mu <=> pc[s] # "idle"
         /\ pc[s] # "idle" => \E t \in Task : req[s].task = {t}
    /\ pc[Worker] \in WorkerSteps \cup SaveSteps
    /\ Worker \in mu <=> pc[Worker] = "pushIfNew" \/ (pc[Worker] \in SaveSteps /\ hand # {})
    /\ AtWork => \E t \in Task : hand = {t}
    /\ hand # {} => AtWork \/ (pc[Worker] \in SaveSteps /\ \E t \in Task : hand = {t})

\* A submission is newer than everything else there is.
VersionInv ==
    /\ \A u \in Queued \cup hand : u.ver <= submits
    /\ \A t \in Threads : \A u \in Elems(snap[t]) : u.ver <= submits
    /\ \A data \in tmp \cup file : \A u \in Elems(data) : u.ver <= submits
    /\ \A k \in Kinds : ran[k] <= submits
    /\ \A s \in Submitters : pc[s] \in {"remove", "push"} =>
         \A t \in req[s].task :
             /\ t.ver = submits
             /\ \A u \in Queued \cup hand \cup Elems(snap[Worker]) : u.ver < submits

\* Without an Absorb between Contains and PushIfNew ...
OrderInv ==
    /\ Sorted(tasks) /\ Sorted(deferred) /\ Older(Elems(tasks), Elems(deferred))
    /\ Older(InHand, Queued)
    /\ pc[Worker] = "pushIfNew" => \A t \in hand, u \in Elems(tasks) : ~Is(t, u)
    /\ \A s \in Submitters : pc[s] = "push" /\ req[s].deferred = FALSE =>
         \A t \in req[s].task, u \in Elems(deferred) : ~Is(t, u)
    /\ \A t \in Threads : /\ Sorted(snap[t])
                          /\ pc[t] = "readDeferred" => Older(Elems(snap[t]), Elems(deferred))
    /\ \A data \in tmp \cup file : Sorted(data)

NewestInv ==
    /\ \A u \in Queued \cup InHand : ran[u.kind] <= u.ver /\ u.ver <= newest[u.kind]
    /\ \A k \in Kinds :
         \/ newest[k] = 0
         \/ \E t \in Queued \cup InHand : t.kind = k /\ t.ver = newest[k]
         \/ \E s \in Submitters : pc[s] = "push" /\ \E t \in req[s].task : t.kind = k

QueueInv == "resubmit" \notin windows => OrderInv /\ NewestInv

\* What a save that has begun will put into the file.
Durable(t) == (durable \cup SavedTask(t)) \cap Queued

SaveInv ==
    windows \cap {"snapshot", "save"} = {} =>
        /\ \A t, u \in Threads : {pc[t], pc[u]} \subseteq {"readDeferred", "write", "rename"} => t = u
        /\ \A u \in durable \cap Queued : \E data \in file : u \in Elems(data)
        /\ \A t \in Threads :
             /\ pc[t] = "readDeferred" =>
                  (durable \cup SavedTask(t)) \cap Elems(tasks) \subseteq Elems(snap[t])
             /\ pc[t] = "write" => Durable(t) \subseteq Elems(snap[t])
             /\ pc[t] = "rename" => \A u \in Durable(t) : \E data \in tmp : u \in Elems(data)

QInv == TypeInv /\ MutexInv /\ VersionInv /\ QueueInv /\ SaveInv

\* A goroutine moves, the others stay where they are.
LEMMA Moved ==
    ASSUME TypeInv, NEW t \in Threads,
           NEW step \in WorkerSteps \cup SubmitSteps \cup SaveSteps, Goto(t, step)
    PROVE  /\ pc' \in [Threads -> WorkerSteps \cup SubmitSteps \cup SaveSteps]
           /\ \A x \in Threads : pc'[x] = IF x = t THEN step ELSE pc[x]
BY DEF TypeInv, TypeOK, Goto

\* The greatest submission of a kind, when there is one and all are bounded.
LEMMA LatestProperties ==
    ASSUME NEW S \in SUBSET Task, NEW k \in Kinds, NEW n \in Nat, \A u \in S : u.ver <= n
    PROVE  /\ Latest(S, k) \in Nat
           /\ \A u \in S : u.kind = k => u.ver <= Latest(S, k)
           /\ Latest(S, k) = 0 \/ \E u \in S : u.kind = k /\ u.ver = Latest(S, k)
<1> DEFINE vers == {t.ver : t \in {u \in S : u.kind = k}}
           Max  == CHOOSE v \in vers : \A w \in vers : w <= v
<1>1. vers \in SUBSET Nat /\ \A v \in vers : v <= n
  BY DEF Task
<1>2. Latest(S, k) = IF vers = {} THEN 0 ELSE Max
  BY DEF Latest
<1>3. \A u \in S : u.kind = k => u.ver \in vers
  OBVIOUS
<1>4. \A v \in vers : \E u \in S : u.kind = k /\ u.ver = v
  OBVIOUS
<1> HIDE DEF vers
<1>5. vers # {} => \E v \in vers : \A w \in vers : w <= v
  BY <1>1, Greatest
<1>6. vers # {} => Max \in vers /\ \A w \in vers : w <= Max
  BY <1>5
<1> HIDE DEF Max
<1> QED
  <2>1. CASE vers = {}
    BY <1>2, <1>3, <2>1
  <2>2. CASE vers # {}
    <3>1. Latest(S, k) = Max /\ Max \in vers /\ \A w \in vers : w <= Max
      BY <1>2, <1>6, <2>2
    <3> QED
      BY <1>1, <1>3, <1>4, <3>1
  <2> QED
    BY <2>1, <2>2

\* Every goroutine's call.
LEMMA SubmitTypes ==
    ASSUME TypeInv, NEW s \in Submitters, SubmitLock(s) \/ SubmitRemove(s) \/ SubmitPush(s)
    PROVE  TypeInv'
<1>1. s \in Threads
  BY DEF Threads
<1>2. CASE SubmitLock(s)
  <2>1. Goto(s, "remove") /\ mu' = {s} /\ submits < MaxSubmits /\ submits' = submits + 1
    BY <1>2 DEF SubmitLock
  <2>2. pc' \in [Threads -> WorkerSteps \cup SubmitSteps \cup SaveSteps]
    BY <1>1, <2>1, Moved DEF SubmitSteps
  <2>3. submits' \in 0 .. MaxSubmits
    BY <2>1, BoundsAssumption DEF TypeInv, TypeOK
  <2>4. PICK k \in Kinds, d \in BOOLEAN :
           req' = [req EXCEPT ![s] = [task |-> {[kind |-> k, ver |-> submits + 1]}, deferred |-> d]]
    BY <1>2 DEF SubmitLock
  <2>5. [kind |-> k, ver |-> submits + 1] \in Task
    BY BoundsAssumption DEF TypeInv, TypeOK, Task
  <2>6. [task |-> {[kind |-> k, ver |-> submits + 1]}, deferred |-> d] \in [task : SUBSET Task, deferred : BOOLEAN]
    BY <2>5
  <2>7. req \in [Submitters -> [task : SUBSET Task, deferred : BOOLEAN]]
    BY DEF TypeInv
  <2>8. req' \in [Submitters -> [task : SUBSET Task, deferred : BOOLEAN]]
    BY <2>4, <2>6, <2>7
  <2>9. \A x \in Submitters : req'[x].task \in SUBSET Task /\ req'[x].deferred \in BOOLEAN
    BY <2>8
  <2>10. UNCHANGED <<tasks, deferred, tokens, hand, waitOpen, snap, tmp, file, stopping, valid, restarts,
                    newest, ran, durable, windows>>
    BY <1>2 DEF SubmitLock, queues, disk, history
  <2> QED
    BY <1>1, <2>1, <2>2, <2>3, <2>8, <2>9, <2>10 DEF TypeInv, TypeOK
<1>3. CASE SubmitRemove(s)
  <2>1. Goto(s, "push") /\ UNCHANGED <<tokens, mu, hand, waitOpen, req, snap, tmp, file, stopping, valid,
                                      submits, restarts, newest, ran, durable, windows>>
    BY <1>3 DEF SubmitRemove, disk, bounds, history
  <2>2. pc' \in [Threads -> WorkerSteps \cup SubmitSteps \cup SaveSteps]
    BY <1>1, <2>1, Moved DEF SubmitSteps
  <2>3. PICK t : \/ tasks' = Remove(tasks, t) /\ deferred' = deferred
                 \/ deferred' = Remove(deferred, t) /\ tasks' = tasks
    BY <1>3 DEF SubmitRemove
  <2>4. Remove(tasks, t) \in Seq(Task) /\ Remove(deferred, t) \in Seq(Task)
    BY RemoveProperties DEF TypeInv, TypeOK
  <2>5. tasks' \in Seq(Task) /\ deferred' \in Seq(Task)
    BY <2>3, <2>4 DEF TypeInv, TypeOK
  <2> QED
    BY <2>1, <2>2, <2>5 DEF TypeInv, TypeOK
<1>4. CASE SubmitPush(s)
  <2>1. Goto(s, "readTasks") /\ UNCHANGED <<mu, hand, waitOpen, req, snap, tmp, file, stopping, valid,
                                      submits, restarts, ran, windows>>
    BY <1>4 DEF SubmitPush, disk, bounds
  <2>2. pc' \in [Threads -> WorkerSteps \cup SubmitSteps \cup SaveSteps]
    BY <1>1, <2>1, Moved DEF SaveSteps
  <2>3. PICK t \in req[s].task :
           /\ \/ tasks' = Push(tasks, t) /\ deferred' = deferred /\ tokens' = Notify(tokens)
              \/ deferred' = Push(deferred, t) /\ UNCHANGED <<tasks, tokens>>
           /\ newest' = [newest EXCEPT ![t.kind] = t.ver]
           /\ durable' = {u \in durable : ~Is(t, u)}
    BY <1>4 DEF SubmitPush
  <2>4. t \in Task
    BY <2>3 DEF TypeInv, TypeOK
  <2>5. Push(tasks, t) \in Seq(Task) /\ Push(deferred, t) \in Seq(Task)
    BY <2>4, PushProperties DEF TypeInv, TypeOK
  <2>6. tasks' \in Seq(Task) /\ deferred' \in Seq(Task)
    BY <2>3, <2>5 DEF TypeInv, TypeOK
  <2>7. tokens' \in 0 .. WaitCap
    BY <2>3, NotifyLeavesToken DEF TypeInv, TypeOK
  <2>8. newest' \in [Kinds -> Nat] /\ durable' \in SUBSET Task
    BY <2>3, <2>4 DEF TypeInv, TypeOK, Task
  <2> QED
    BY <2>1, <2>2, <2>6, <2>7, <2>8 DEF TypeInv, TypeOK
<1> QED
  BY <1>2, <1>3, <1>4

LEMMA SaveTypes ==
    ASSUME TypeInv, MutexInv, NEW t \in Threads, Save(t) \/ SaveFail(t)
    PROVE  TypeInv'
<1>1. UNCHANGED <<tasks, deferred, tokens, waitOpen, stopping, valid, submits, restarts, newest, ran>>
  BY DEF Save, SaveReadTasks, SaveReadDeferred, SaveWrite, SaveRename, SaveFail, queues, bounds, history
<1>2. PICK step \in SaveSteps \cup {"pull", "idle"} : Goto(t, step)
  BY DEF Save, SaveReadTasks, SaveReadDeferred, SaveWrite, SaveRename, SaveFail, EndSave, SaveSteps
<1>3. pc' \in [Threads -> WorkerSteps \cup SubmitSteps \cup SaveSteps]
  BY <1>2, Moved DEF WorkerSteps, SubmitSteps
<1>4. mu' \in SUBSET Threads /\ hand' \in SUBSET Task
  <2>1. UNCHANGED <<mu, hand>> \/ EndSave(t)
    BY DEF Save, SaveReadTasks, SaveReadDeferred, SaveWrite, SaveRename, SaveFail
  <2> QED
    BY <2>1 DEF EndSave, TypeInv, TypeOK
<1>5. req' \in [Submitters -> [task : SUBSET Task, deferred : BOOLEAN]]
  <2>1. req' = req \/ (t \in Submitters /\ req' = [req EXCEPT ![t] = NoCall])
    BY DEF Save, SaveReadTasks, SaveReadDeferred, SaveWrite, SaveRename, SaveFail, EndSave, Threads
  <2>2. NoCall \in [task : SUBSET Task, deferred : BOOLEAN]
    BY DEF NoCall
  <2>3. req \in [Submitters -> [task : SUBSET Task, deferred : BOOLEAN]]
    BY DEF TypeInv
  <2> QED
    BY <2>1, <2>2, <2>3
<1>6. \A x \in Submitters : req'[x].task \in SUBSET Task /\ req'[x].deferred \in BOOLEAN
  BY <1>5
<1>7. snap' \in [Threads -> Seq(Task)] /\ tmp' \in SUBSET Seq(Task) /\ file' \in SUBSET Seq(Task)
  <2>1. \A x \in Threads : snap[x] \in Seq(Task)
    BY DEF TypeInv, TypeOK
  <2>2. snap[t] \o deferred \in Seq(Task)
    BY <2>1, ConcatProperties DEF TypeInv, TypeOK
  <2>3. <<>> \in Seq(Task)
    OBVIOUS
  <2>4. CASE SaveReadTasks(t)
    BY <2>4 DEF SaveReadTasks, TypeInv, TypeOK
  <2>5. CASE SaveReadDeferred(t)
    BY <2>2, <2>5 DEF SaveReadDeferred, TypeInv, TypeOK
  <2>6. CASE SaveWrite(t)
    BY <2>1, <2>3, <2>6 DEF SaveWrite, TypeInv, TypeOK
  <2>7. CASE SaveRename(t)
    BY <2>7 DEF SaveRename, TypeInv, TypeOK
  <2>8. CASE SaveFail(t)
    BY <2>3, <2>8 DEF SaveFail, TypeInv, TypeOK
  <2> QED
    BY <2>4, <2>5, <2>6, <2>7, <2>8 DEF Save
<1>8. durable' \in SUBSET Task
  <2>1. durable' = durable \/ durable' = durable \cup (SavedTask(t) \cap Queued)
    BY DEF Save, SaveReadTasks, SaveReadDeferred, SaveWrite, SaveRename, SaveFail, history
  <2>2. Queued \in SUBSET Task
    BY ElemsType DEF TypeInv, TypeOK, Queued
  <2> QED
    BY <2>1, <2>2 DEF TypeInv, TypeOK
<1>9. windows' \in SUBSET Windows
  BY DEF Save, SaveReadTasks, SaveReadDeferred, SaveWrite, SaveRename, SaveFail, history,
         TypeInv, TypeOK, Windows
<1> QED
  BY <1>1, <1>3, <1>4, <1>5, <1>6, <1>7, <1>8, <1>9 DEF TypeInv, TypeOK

LEMMA WorkerTypes ==
    ASSUME TypeInv, Pull \/ Execute \/ Resubmit
    PROVE  TypeInv'
<1>0. Worker \in Threads
  BY DEF Threads
<1>1. UNCHANGED <<req, snap, tmp, file, stopping, submits, restarts, windows>>
  BY DEF Pull, PullCheck, TryPopFront, PullReadWait, PullWake, PullCancelled, Execute, TaskEnds,
         TaskNeedsRetry, TaskUnreachable, Resubmit, ResubmitContains, ResubmitPush, disk, bounds, history
<1>2. PICK step \in WorkerSteps \cup SaveSteps : Goto(Worker, step)
  BY DEF Pull, PullCheck, TryPopFront, PullReadWait, PullWake, PullCancelled, Execute, TaskEnds,
         TaskNeedsRetry, TaskUnreachable, Resubmit, ResubmitContains, ResubmitPush, WorkerSteps, SaveSteps
<1>3. pc' \in [Threads -> WorkerSteps \cup SubmitSteps \cup SaveSteps]
  BY <1>0, <1>2, Moved
<1>4. waitOpen' \in BOOLEAN /\ valid' \in BOOLEAN
  <2>1. waitOpen' = waitOpen \/ waitOpen' = TRUE \/ waitOpen' = FALSE
    BY DEF Pull, PullCheck, TryPopFront, PullReadWait, PullWake, PullCancelled, Execute, TaskEnds,
           TaskNeedsRetry, TaskUnreachable, Resubmit, ResubmitContains, ResubmitPush
  <2>2. valid' = valid \/ valid' = FALSE
    BY DEF Pull, PullCheck, TryPopFront, PullReadWait, PullWake, PullCancelled, Execute, TaskEnds,
           TaskNeedsRetry, TaskUnreachable, Resubmit, ResubmitContains, ResubmitPush
  <2> QED
    BY <2>1, <2>2 DEF TypeInv, TypeOK
<1>5. tokens' \in 0 .. WaitCap
  <2>1. tokens' = tokens \/ PullWake
    BY DEF Pull, PullCheck, TryPopFront, PullReadWait, PullCancelled, Execute, TaskEnds,
           TaskNeedsRetry, TaskUnreachable, Resubmit, ResubmitContains, ResubmitPush, queues
  <2> QED
    BY <2>1, WaitCapAssumption DEF PullWake, TypeInv, TypeOK
<1>6. mu' \in SUBSET Threads
  BY <1>0 DEF Pull, PullCheck, TryPopFront, PullReadWait, PullWake, PullCancelled, Execute, TaskEnds,
           TaskNeedsRetry, TaskUnreachable, Resubmit, ResubmitContains, ResubmitPush, TypeInv, TypeOK
<1>7. tasks' \in Seq(Task) /\ hand' \in SUBSET Task /\ durable' \in SUBSET Task
  <2>1. CASE TryPopFront /\ tasks # <<>>
    <3>1. hand' = {Head(tasks)} /\ tasks' = Tail(tasks) /\ durable' = durable \ {Head(tasks)}
      BY <2>1 DEF TryPopFront
    <3>2. Head(tasks) \in Task /\ Tail(tasks) \in Seq(Task)
      BY <2>1, PopProperties DEF TypeInv, TypeOK
    <3> QED
      BY <3>1, <3>2 DEF TypeInv, TypeOK
  <2>2. CASE ~(TryPopFront /\ tasks # <<>>)
    <3>1. tasks' = tasks /\ (hand' = hand \/ hand' = {}) /\ durable' \in SUBSET durable
      BY <2>2 DEF Pull, PullCheck, TryPopFront, PullReadWait, PullWake, PullCancelled, Execute, TaskEnds,
            TaskNeedsRetry, TaskUnreachable, Resubmit, ResubmitContains, ResubmitPush, queues, history
    <3> QED
      BY <3>1 DEF TypeInv, TypeOK
  <2> QED
    BY <2>1, <2>2
<1>8. deferred' \in Seq(Task)
  <2>1. deferred' = deferred \/ \E t \in hand : deferred' = Append(deferred, t)
    BY DEF Pull, PullCheck, TryPopFront, PullReadWait, PullWake, PullCancelled, Execute, TaskEnds,
           TaskNeedsRetry, TaskUnreachable, Resubmit, ResubmitContains, ResubmitPush, queues, PushIfNew
  <2> QED
    BY <2>1, AppendProperties DEF TypeInv, TypeOK
<1>9. ran' \in [Kinds -> Nat] /\ newest' \in [Kinds -> Nat]
  <2>1. /\ ran' = ran \/ \E t \in hand : ran' = [ran EXCEPT ![t.kind] = t.ver]
        /\ newest' = newest \/ \E t \in hand : Ended(t)
    BY DEF Pull, PullCheck, TryPopFront, PullReadWait, PullWake, PullCancelled, Execute, TaskEnds,
           TaskNeedsRetry, TaskUnreachable, Resubmit, ResubmitContains, ResubmitPush, history, Ran
  <2>2. \A t \in hand : t.kind \in Kinds /\ t.ver \in Nat
    BY DEF TypeInv, TypeOK, Task
  <2>3. ran' \in [Kinds -> Nat]
    BY <2>1, <2>2 DEF TypeInv, TypeOK
  <2>4. newest' \in [Kinds -> Nat]
    <3>1. CASE newest' = newest
      BY <3>1 DEF TypeInv, TypeOK
    <3>2. ASSUME NEW t \in hand, Ended(t) PROVE newest' \in [Kinds -> Nat]
      <4>1. newest \in [Kinds -> Nat] /\ newest[t.kind] \in Nat
        BY <2>2 DEF TypeInv, TypeOK
      <4>2. PICK n \in Nat : newest' = [newest EXCEPT ![t.kind] = n]
        BY <3>2, <4>1 DEF Ended
      <4> QED
        BY <4>1, <4>2
    <3> QED
      BY <2>1, <3>1, <3>2
  <2> QED
    BY <2>3, <2>4
<1> QED
  BY <1>1, <1>3, <1>4, <1>5, <1>6, <1>7, <1>8, <1>9 DEF TypeInv, TypeOK

LEMMA RestTypes ==
    ASSUME TypeInv, VersionInv, EnqueueDeferredTasks \/ Stop \/ Restart \/ UNCHANGED vars
    PROVE  TypeInv'
<1>1. CASE EnqueueDeferredTasks
  <2>1. /\ tasks' = tasks \o deferred /\ deferred' = <<>> /\ tokens' = 0
        /\ waitOpen' = FALSE /\ windows' = windows \cup Hit
        /\ UNCHANGED <<mu, pc, hand, req, snap, tmp, file, stopping, valid, submits, restarts,
                       newest, ran, durable>>
    BY <1>1 DEF EnqueueDeferredTasks, disk, bounds
  <2>2. tasks' \in Seq(Task) /\ deferred' \in Seq(Task)
    BY <2>1, ConcatProperties, EmptyQueue DEF TypeInv, TypeOK
  <2>3. tokens' \in 0 .. WaitCap
    BY <2>1, WaitCapAssumption
  <2>4. windows' \in SUBSET Windows
    BY <2>1 DEF Hit, Windows, TypeInv, TypeOK
  <2> QED
    BY <2>1, <2>2, <2>3, <2>4 DEF TypeInv, TypeOK
<1>2. CASE Stop \/ UNCHANGED vars
  <2>1. /\ stopping' = stopping \/ stopping' = TRUE
        /\ UNCHANGED <<tasks, deferred, tokens, mu, pc, hand, waitOpen, req, snap, tmp, file, valid,
                       submits, restarts, newest, ran, durable, windows>>
    BY <1>2 DEF Stop, vars, queues, disk, bounds, history
  <2>2. stopping' \in BOOLEAN
    BY <2>1 DEF TypeInv, TypeOK
  <2> QED
    BY <2>1, <2>2 DEF TypeInv, TypeOK
<1>3. CASE Restart
  <2>1. /\ restarts < MaxRestarts /\ restarts' = restarts + 1
        /\ deferred' = <<>> /\ tokens' = 0 /\ mu' = {} /\ hand' = {}
        /\ waitOpen' = FALSE /\ stopping' = FALSE /\ valid' = TRUE
        /\ pc' = [t \in Threads |-> IF t = Worker THEN "pull" ELSE "idle"]
        /\ req' = [s \in Submitters |-> NoCall]
        /\ snap' = [t \in Threads |-> <<>>]
        /\ ran' = [k \in Kinds |-> 0]
        /\ durable' = Elems(tasks')
        /\ UNCHANGED <<tmp, file, submits, windows>>
    BY <1>3 DEF Restart
  <2>2. newest' = [k \in Kinds |-> Latest(Elems(tasks'), k)]
    BY <1>3 DEF Restart
  <2>3. tasks' = <<>> \/ tasks' \in file
    BY <1>3 DEF Restart
  <2>4. tasks' \in Seq(Task)
    BY <2>3, EmptyQueue DEF TypeInv, TypeOK
  <2>5. PICK data \in Seq(Task) : data = tasks'
    BY <2>4
  <2>6. Elems(data) \in SUBSET Task /\ \A u \in Elems(data) : u.ver <= submits
    BY <2>3, <2>5, ElemsType, EmptyQueue DEF VersionInv
  <2>7. submits \in Nat
    BY BoundsAssumption DEF TypeInv, TypeOK
  <2>8. newest' \in [Kinds -> Nat] /\ durable' \in SUBSET Task
    BY <2>1, <2>2, <2>5, <2>6, <2>7, LatestProperties
  <2>9. restarts' \in 0 .. MaxRestarts /\ tokens' \in 0 .. WaitCap
    BY <2>1, BoundsAssumption, WaitCapAssumption DEF TypeInv, TypeOK
  <2>10. pc' \in [Threads -> WorkerSteps \cup SubmitSteps \cup SaveSteps]
    BY <2>1 DEF WorkerSteps, SubmitSteps
  <2>11. NoCall \in [task : SUBSET Task, deferred : BOOLEAN]
    BY DEF NoCall
  <2>12. req' \in [Submitters -> [task : SUBSET Task, deferred : BOOLEAN]]
    BY <2>1, <2>11
  <2>13. \A x \in Submitters : req'[x].task \in SUBSET Task /\ req'[x].deferred \in BOOLEAN
    BY <2>12
  <2>14. /\ deferred' \in Seq(Task) /\ snap' \in [Threads -> Seq(Task)] /\ ran' \in [Kinds -> Nat]
         /\ mu' \in SUBSET Threads /\ hand' \in SUBSET Task
         /\ waitOpen' \in BOOLEAN /\ stopping' \in BOOLEAN /\ valid' \in BOOLEAN
    <3>1. deferred' = <<>> /\ snap' = [t \in Threads |-> <<>>] /\ ran' = [k \in Kinds |-> 0]
          /\ mu' = {} /\ hand' = {}
      BY <2>1
    <3>2. waitOpen' = FALSE /\ stopping' = FALSE /\ valid' = TRUE
      BY <2>1
    <3> QED
      BY <3>1, <3>2, EmptyQueue
  <2>15. UNCHANGED <<tmp, file, submits, windows>>
    BY <2>1
  <2> QED
    BY <2>4, <2>8, <2>9, <2>10, <2>12, <2>13, <2>14, <2>15 DEF TypeInv, TypeOK
<1> QED
  BY <1>1, <1>2, <1>3

-----------------------------------------------------------------------------
\* A submitter that holds tm.mu is alone at it ...
LEMMA SubmitterAlone ==
    ASSUME TypeInv, MutexInv, NEW s \in Submitters, pc[s] # "idle"
    PROVE  /\ mu = {s} /\ s # Worker /\ \E t \in Task : req[s].task = {t}
           /\ \A x \in Submitters : x # s => pc[x] = "idle"
           /\ pc[Worker] # "pushIfNew" /\ (pc[Worker] \in SaveSteps => hand = {})
BY ThreadsAssumption DEF MutexInv

\* ... and so is the worker.
LEMMA WorkerAlone ==
    ASSUME TypeInv, MutexInv, Worker \in mu
    PROVE  mu = {Worker} /\ \A x \in Submitters : pc[x] = "idle"
BY ThreadsAssumption DEF MutexInv

LEMMA SubmitMutex ==
    ASSUME TypeInv, MutexInv, NEW s \in Submitters, SubmitLock(s) \/ SubmitRemove(s) \/ SubmitPush(s)
    PROVE  MutexInv'
<1>1. s \in Threads /\ s # Worker /\ Worker \in Threads /\ \A x \in Submitters : x \in Threads
  BY ThreadsAssumption DEF Threads
<1>2. PICK step \in {"remove", "push", "readTasks"} : Goto(s, step)
  BY DEF SubmitLock, SubmitRemove, SubmitPush
<1>3. \A x \in Threads : pc'[x] = IF x = s THEN step ELSE pc[x]
  BY <1>1, <1>2, Moved DEF SubmitSteps, SaveSteps
<1>4. hand' = hand
  BY DEF SubmitLock, SubmitRemove, SubmitPush
<1>5. mu' = {s} /\ \A x \in Submitters : x # s => pc[x] = "idle"
  <2>1. CASE SubmitLock(s)
    BY <2>1 DEF SubmitLock, MutexInv
  <2>2. CASE SubmitRemove(s) \/ SubmitPush(s)
    <3>1. pc[s] # "idle" /\ mu' = mu
      BY <2>2 DEF SubmitRemove, SubmitPush
    <3> QED
      BY <3>1, SubmitterAlone
  <2> QED
    BY <2>1, <2>2
<1>6. Worker \notin mu
  <2>1. CASE SubmitLock(s)
    BY <2>1 DEF SubmitLock
  <2>2. CASE SubmitRemove(s) \/ SubmitPush(s)
    <3>1. pc[s] # "idle"
      BY <2>2 DEF SubmitRemove, SubmitPush
    <3> QED
      BY <1>1, <3>1, SubmitterAlone
  <2> QED
    BY <2>1, <2>2
<1>7. \E t \in Task : req'[s].task = {t}
  <2>1. CASE SubmitLock(s)
    <3>1. PICK k \in Kinds, d \in BOOLEAN :
             req' = [req EXCEPT ![s] = [task |-> {[kind |-> k, ver |-> submits + 1]}, deferred |-> d]]
      BY <2>1 DEF SubmitLock
    <3>2. [kind |-> k, ver |-> submits + 1] \in Task
      BY BoundsAssumption DEF TypeInv, TypeOK, Task
    <3>3. req'[s].task = {[kind |-> k, ver |-> submits + 1]}
      BY <3>1 DEF TypeInv
    <3> QED
      BY <3>2, <3>3
  <2>2. CASE SubmitRemove(s) \/ SubmitPush(s)
    <3>1. pc[s] # "idle" /\ req' = req
      BY <2>2 DEF SubmitRemove, SubmitPush
    <3> QED
      BY <3>1, SubmitterAlone
  <2> QED
    BY <2>1, <2>2
<1>8. \A x \in Submitters : pc'[x] # "idle" => x = s
  BY <1>1, <1>3, <1>5
<1>9. pc'[Worker] = pc[Worker] /\ pc'[s] = step
  BY <1>1, <1>3
<1>10. \A x \in Submitters : pc'[x] \in SubmitSteps \cup SaveSteps
  BY <1>1, <1>3 DEF MutexInv, SubmitSteps, SaveSteps
<1>11. AtWork' <=> AtWork
  BY <1>9 DEF AtWork
<1> QED
  BY <1>1, <1>4, <1>5, <1>6, <1>7, <1>8, <1>9, <1>10, <1>11 DEF MutexInv

LEMMA SaveMutex ==
    ASSUME TypeInv, MutexInv, NEW t \in Threads, Save(t) \/ SaveFail(t)
    PROVE  MutexInv'
<1>1. Worker \in Threads /\ \A x \in Submitters : x \in Threads /\ x # Worker
  BY ThreadsAssumption DEF Threads
<1>2. pc[t] \in SaveSteps
  BY DEF Save, SaveReadTasks, SaveReadDeferred, SaveWrite, SaveRename, SaveFail, SaveSteps
<1>3. CASE EndSave(t)
  <2>1. /\ mu' = mu \ {t} /\ Goto(t, IF t = Worker THEN "pull" ELSE "idle")
        /\ hand' = IF t = Worker THEN {} ELSE hand
        /\ \A x \in Submitters : x # t => req'[x] = req[x]
    BY <1>3 DEF EndSave, TypeInv
  <2>2. \A x \in Threads : pc'[x] = IF x = t THEN IF t = Worker THEN "pull" ELSE "idle" ELSE pc[x]
    BY <2>1, Moved DEF WorkerSteps, SubmitSteps
  <2>3. CASE t = Worker
    <3>1. mu' = mu \ {Worker} /\ hand' = {} /\ pc'[Worker] = "pull" /\ \A x \in Submitters : pc'[x] = pc[x]
      BY <1>1, <2>1, <2>2, <2>3
    <3>2. ~AtWork'
      BY <3>1 DEF AtWork
    <3>3. pc'[Worker] \in WorkerSteps \cup SaveSteps /\ pc'[Worker] # "pushIfNew"
      BY <3>1 DEF WorkerSteps
    <3>4. \A x \in Submitters : req'[x] = req[x]
      BY <1>1, <2>1, <2>3
    <3> QED
      BY <1>1, <3>1, <3>2, <3>3, <3>4 DEF MutexInv
  <2>4. CASE t # Worker
    <3>1. /\ t \in Submitters /\ mu' = mu \ {t} /\ hand' = hand /\ pc'[Worker] = pc[Worker]
          /\ pc'[t] = "idle" /\ \A x \in Submitters : x # t => pc'[x] = pc[x] /\ req'[x] = req[x]
      BY <1>1, <2>1, <2>2, <2>4 DEF Threads
    <3>2. AtWork' <=> AtWork
      BY <3>1 DEF AtWork
    <3>3. "idle" \in SubmitSteps
      BY DEF SubmitSteps
    <3> QED
      BY <1>1, <2>4, <3>1, <3>2, <3>3 DEF MutexInv
  <2> QED
    BY <2>3, <2>4
<1>4. CASE ~EndSave(t)
  <2>1. PICK step \in SaveSteps : Goto(t, step) /\ UNCHANGED <<mu, hand, req>>
    BY <1>4 DEF Save, SaveReadTasks, SaveReadDeferred, SaveWrite, SaveRename, SaveFail, SaveSteps
  <2>2. \A x \in Threads : pc'[x] = IF x = t THEN step ELSE pc[x]
    BY <2>1, Moved
  <2>3. \A x \in Threads : pc'[x] = pc[x] \/ (pc[x] \in SaveSteps /\ pc'[x] \in SaveSteps)
    BY <1>2, <2>2
  <2>4. \A x \in SaveSteps : x \notin {"idle", "pushIfNew", "exec", "resubmit"}
    BY DEF SaveSteps
  <2>5. (AtWork' <=> AtWork) /\ (pc'[Worker] \in SaveSteps <=> pc[Worker] \in SaveSteps)
    BY <1>1, <2>3, <2>4 DEF AtWork
  <2>6. \A x \in Submitters : /\ pc'[x] # "idle" <=> pc[x] # "idle"
                              /\ pc'[x] \in SubmitSteps \cup SaveSteps
    BY <1>1, <2>3, <2>4 DEF MutexInv
  <2>7. /\ pc'[Worker] \in WorkerSteps \cup SaveSteps
        /\ pc'[Worker] = "pushIfNew" <=> pc[Worker] = "pushIfNew"
    BY <1>1, <2>3, <2>4 DEF MutexInv
  <2> QED
    BY <2>1, <2>5, <2>6, <2>7 DEF MutexInv
<1> QED
  BY <1>3, <1>4

\* A step of the worker that is none of save.
LEMMA WorkerMutex ==
    ASSUME TypeInv, MutexInv, Pull \/ Execute \/ Resubmit
    PROVE  MutexInv'
<1>1. Worker \in Threads /\ \A x \in Submitters : x \in Threads /\ x # Worker
  BY ThreadsAssumption DEF Threads
<1>2. PICK step \in WorkerSteps \cup SaveSteps : Goto(Worker, step)
  BY DEF Pull, PullCheck, TryPopFront, PullReadWait, PullWake, PullCancelled, Execute, TaskEnds,
         TaskNeedsRetry, TaskUnreachable, Resubmit, ResubmitContains, ResubmitPush, WorkerSteps, SaveSteps
<1>3. pc'[Worker] = step /\ \A x \in Submitters : pc'[x] = pc[x]
  BY <1>1, <1>2, Moved
<1>4. req' = req
  BY DEF Pull, PullCheck, TryPopFront, PullReadWait, PullWake, PullCancelled, Execute, TaskEnds,
         TaskNeedsRetry, TaskUnreachable, Resubmit, ResubmitContains, ResubmitPush
<1>5. CASE ResubmitContains
  <2>1. pc[Worker] = "resubmit" /\ mu = {} /\ \E t \in Task : hand = {t}
    BY <1>5 DEF ResubmitContains, MutexInv, AtWork
  <2>2. \/ hand' = {} /\ pc'[Worker] = "pull" /\ mu' = mu
        \/ hand' = hand /\ pc'[Worker] = "pushIfNew" /\ mu' = {Worker}
    BY <1>1, <1>5 DEF ResubmitContains, Goto, TypeInv, TypeOK
  <2>3. pc'[Worker] \in WorkerSteps
    BY <2>2 DEF WorkerSteps
  <2>4. CASE hand' = {} /\ pc'[Worker] = "pull" /\ mu' = mu
    <3>1. ~AtWork'
      BY <2>4 DEF AtWork
    <3> QED
      BY <1>1, <1>3, <1>4, <2>1, <2>3, <2>4, <3>1 DEF MutexInv
  <2>5. CASE hand' = hand /\ pc'[Worker] = "pushIfNew" /\ mu' = {Worker}
    <3>1. AtWork'
      BY <2>5 DEF AtWork
    <3> QED
      BY <1>1, <1>3, <1>4, <2>1, <2>3, <2>5, <3>1 DEF MutexInv
  <2> QED
    BY <2>2, <2>4, <2>5
<1>6. CASE ResubmitPush
  <2>1. pc[Worker] = "pushIfNew" /\ mu' = mu /\ hand' = hand /\ pc'[Worker] = "readTasks"
    BY <1>1, <1>6 DEF ResubmitPush, Goto, TypeInv, TypeOK
  <2>2. (\E t \in Task : hand = {t}) /\ Worker \in mu
    BY <2>1 DEF MutexInv, AtWork
  <2>3. "readTasks" \in SaveSteps
    BY DEF SaveSteps
  <2>4. ~AtWork'
    BY <2>1 DEF AtWork
  <2> QED
    BY <1>3, <1>4, <2>1, <2>2, <2>3, <2>4 DEF MutexInv
<1>7. CASE Pull \/ Execute
  <2>1. mu' = mu /\ pc[Worker] \in {"pull", "pop", "getwait", "select", "exec"}
    BY <1>7 DEF Pull, PullCheck, TryPopFront, PullReadWait, PullWake, PullCancelled, Execute, TaskEnds,
                TaskNeedsRetry, TaskUnreachable
  <2>2. Worker \notin mu
    BY <2>1 DEF MutexInv, SaveSteps
  <2>3. /\ pc'[Worker] \in {"pull", "pop", "getwait", "select", "exec", "resubmit", "readTasks", "stopped"}
        /\ \/ pc'[Worker] \in {"exec", "resubmit"} /\ \E t \in Task : hand' = {t}
           \/ pc'[Worker] \notin {"exec", "resubmit"} /\ hand' = {}
    <3>1. CASE PullCheck \/ PullReadWait \/ PullWake \/ PullCancelled
      <4>1. hand = {}
        <5>1. pc[Worker] \in {"pull", "getwait", "select"}
          BY <3>1 DEF PullCheck, PullReadWait, PullWake, PullCancelled
        <5> QED
          BY <5>1 DEF MutexInv, AtWork, SaveSteps
      <4>2. hand' = hand /\ pc'[Worker] \in {"pop", "select", "stopped"}
        BY <1>1, <3>1 DEF PullCheck, PullReadWait, PullWake, PullCancelled, Goto, TypeInv, TypeOK
      <4> QED
        BY <4>1, <4>2
    <3>2. CASE TryPopFront
      <4>1. hand = {}
        BY <3>2 DEF TryPopFront, MutexInv, AtWork, SaveSteps
      <4>2. CASE tasks = <<>>
        BY <1>1, <3>2, <4>1, <4>2 DEF TryPopFront, Goto, TypeInv, TypeOK
      <4>3. CASE tasks # <<>>
        <5>1. hand' = {Head(tasks)} /\ pc'[Worker] = "exec"
          BY <1>1, <3>2, <4>3 DEF TryPopFront, Goto, TypeInv, TypeOK
        <5>2. Head(tasks) \in Task
          BY <4>3, PopProperties DEF TypeInv, TypeOK
        <5> QED
          BY <5>1, <5>2
      <4> QED
        BY <4>2, <4>3
    <3>3. CASE TaskEnds \/ TaskUnreachable
      BY <1>1, <3>3 DEF TaskEnds, TaskUnreachable, Goto, TypeInv, TypeOK
    <3>4. CASE TaskNeedsRetry
      <4>1. hand' = hand /\ pc'[Worker] = "resubmit" /\ pc[Worker] = "exec"
        BY <1>1, <3>4 DEF TaskNeedsRetry, Goto, TypeInv, TypeOK
      <4> QED
        BY <4>1 DEF MutexInv, AtWork
    <3> QED
      BY <1>7, <3>1, <3>2, <3>3, <3>4 DEF Pull, Execute
  <2>4. pc'[Worker] \in WorkerSteps \cup SaveSteps /\ pc'[Worker] # "pushIfNew"
    BY <2>3 DEF WorkerSteps, SaveSteps
  <2>5. /\ AtWork' => \E t \in Task : hand' = {t}
        /\ hand' # {} => AtWork' /\ pc'[Worker] \notin SaveSteps
    BY <2>3 DEF AtWork, SaveSteps
  <2> QED
    BY <1>3, <1>4, <2>1, <2>2, <2>4, <2>5 DEF MutexInv
<1> QED
  BY <1>5, <1>6, <1>7 DEF Resubmit

LEMMA RestMutex ==
    ASSUME TypeInv, MutexInv, EnqueueDeferredTasks \/ Stop \/ Restart \/ UNCHANGED vars
    PROVE  MutexInv'
<1>1. CASE EnqueueDeferredTasks \/ Stop \/ UNCHANGED vars
  <2>1. UNCHANGED <<mu, pc, hand, req>>
    BY <1>1 DEF EnqueueDeferredTasks, Stop, vars
  <2> QED
    BY <2>1 DEF MutexInv, AtWork
<1>2. CASE Restart
  <2>1. mu' = {} /\ hand' = {} /\ pc' = [t \in Threads |-> IF t = Worker THEN "pull" ELSE "idle"]
    BY <1>2 DEF Restart
  <2>2. pc'[Worker] = "pull" /\ \A x \in Submitters : pc'[x] = "idle"
    BY <2>1, ThreadsAssumption DEF Threads
  <2> QED
    BY <2>1, <2>2 DEF MutexInv, AtWork, WorkerSteps, SubmitSteps, SaveSteps
<1> QED
  BY <1>1, <1>2

-----------------------------------------------------------------------------
\* The numbers that the invariants compare.
LEMMA Numbers ==
    ASSUME TypeInv
    PROVE  /\ submits \in Nat
           /\ \A u \in Task : u.ver \in Nat \ {0} /\ u.kind \in Kinds
           /\ \A k \in Kinds : newest[k] \in Nat /\ ran[k] \in Nat
           /\ Elems(tasks) \subseteq Task /\ Elems(deferred) \subseteq Task /\ hand \subseteq Task
           /\ Queued \subseteq Task /\ InHand \subseteq hand /\ InHand \subseteq Task
           /\ \A t \in Threads : Elems(snap[t]) \subseteq Task
           /\ \A data \in tmp \cup file : Elems(data) \subseteq Task
<1>1. submits \in Nat
  BY BoundsAssumption DEF TypeInv, TypeOK
<1>2. \A u \in Task : u.ver \in Nat \ {0} /\ u.kind \in Kinds
  BY DEF Task
<1>3. /\ \A k \in Kinds : newest[k] \in Nat /\ ran[k] \in Nat
      /\ hand \subseteq Task
  BY DEF TypeInv, TypeOK
<1>4. Elems(tasks) \subseteq Task /\ Elems(deferred) \subseteq Task
  BY ElemsType DEF TypeInv, TypeOK
<1>5. /\ \A t \in Threads : Elems(snap[t]) \subseteq Task
      /\ \A data \in tmp \cup file : Elems(data) \subseteq Task
  BY ElemsType DEF TypeInv, TypeOK
<1> QED
  BY <1>1, <1>2, <1>3, <1>4, <1>5 DEF Queued, InHand

\* Submit takes tm.mu: a new task is on its way.
LEMMA SubmitLockQ ==
    ASSUME TypeInv, MutexInv, VersionInv, QueueInv, SaveInv, NEW s \in Submitters, SubmitLock(s)
    PROVE  VersionInv' /\ QueueInv' /\ SaveInv'
<1>1. s \in Threads /\ s # Worker /\ Worker \in Threads /\ \A x \in Submitters : x \in Threads
  BY ThreadsAssumption DEF Threads
<1>2. /\ pc[s] = "idle" /\ mu = {} /\ submits' = submits + 1 /\ Goto(s, "remove")
      /\ UNCHANGED <<tasks, deferred, hand, snap, tmp, file, newest, ran, durable, windows>>
  BY DEF SubmitLock, queues, disk, history
<1>3. \A x \in Threads : pc'[x] = IF x = s THEN "remove" ELSE pc[x]
  BY <1>1, <1>2, Moved DEF SubmitSteps
<1>4. \A x \in Submitters : pc[x] = "idle"
  BY <1>2 DEF MutexInv
<1>5. /\ \A x \in Submitters : x # s => req'[x] = req[x]
      /\ \A t \in req'[s].task : t.ver = submits + 1
  <2>1. PICK k \in Kinds, d \in BOOLEAN :
           req' = [req EXCEPT ![s] = [task |-> {[kind |-> k, ver |-> submits + 1]}, deferred |-> d]]
    BY DEF SubmitLock
  <2> QED
    BY <2>1 DEF TypeInv
<1>6. \A x \in Submitters : pc'[x] = IF x = s THEN "remove" ELSE "idle"
  BY <1>1, <1>3, <1>4
<1>7. Queued' = Queued /\ InHand' = InHand /\ pc'[Worker] = pc[Worker]
  BY <1>1, <1>2, <1>3 DEF Queued, InHand, AtWork
<1>8. VersionInv'
  <2>1. \A u \in Queued \cup hand : u.ver <= submits /\ u.ver <= submits + 1 /\ u.ver < submits + 1
    BY Numbers DEF VersionInv
  <2>2. \A t \in Threads : \A u \in Elems(snap[t]) : u.ver <= submits + 1 /\ u.ver < submits + 1
    BY Numbers DEF VersionInv
  <2>3. \A data \in tmp \cup file : \A u \in Elems(data) : u.ver <= submits + 1
    BY Numbers DEF VersionInv
  <2>4. \A k \in Kinds : ran[k] <= submits + 1
    BY Numbers DEF VersionInv
  <2> QED
    BY <1>1, <1>2, <1>5, <1>6, <1>7, <2>1, <2>2, <2>3, <2>4 DEF VersionInv
<1>9. QueueInv'
  <2>1. ASSUME OrderInv PROVE OrderInv'
    BY <1>1, <1>2, <1>3, <1>6, <1>7, <2>1 DEF OrderInv
  <2>2. ASSUME NewestInv PROVE NewestInv'
    BY <1>2, <1>4, <1>7, <2>2 DEF NewestInv
  <2> QED
    BY <1>2, <2>1, <2>2 DEF QueueInv
<1>10. SaveInv'
  <2>1. \A x \in Threads : x # s => SavedTask(x)' = SavedTask(x) /\ Durable(x)' = Durable(x)
    BY <1>1, <1>2, <1>5, <1>7 DEF SavedTask, Durable, Threads
  <2>2. pc'[s] \notin {"readDeferred", "write", "rename"} /\ \A x \in Threads : x # s => pc'[x] = pc[x]
    BY <1>1, <1>3
  <2>3. windows' = windows /\ tasks' = tasks /\ deferred' = deferred /\ snap' = snap /\ file' = file
        /\ tmp' = tmp /\ durable' = durable
    BY <1>2
  <2> QED
    BY <1>1, <1>7, <2>1, <2>2, <2>3 DEF SaveInv
<1> QED
  BY <1>8, <1>9, <1>10

\* otherQueue.Remove: what it takes away is about to be replaced.
LEMMA SubmitRemoveQ ==
    ASSUME TypeInv, MutexInv, VersionInv, QueueInv, SaveInv, NEW s \in Submitters, SubmitRemove(s)
    PROVE  VersionInv' /\ QueueInv' /\ SaveInv'
<1>1. s \in Threads /\ s # Worker /\ Worker \in Threads /\ \A x \in Submitters : x \in Threads
  BY ThreadsAssumption DEF Threads
<1>2. /\ pc[s] = "remove" /\ Goto(s, "push")
      /\ UNCHANGED <<mu, hand, req, snap, tmp, file, submits, newest, ran, durable, windows>>
  BY DEF SubmitRemove, disk, bounds, history
<1>3. \A x \in Threads : pc'[x] = IF x = s THEN "push" ELSE pc[x]
  BY <1>1, <1>2, Moved DEF SubmitSteps
<1>4. \A x \in Submitters : pc'[x] = IF x = s THEN "push" ELSE "idle"
  BY <1>1, <1>2, <1>3, SubmitterAlone
<1>5. PICK t \in Task : req[s].task = {t}
  BY <1>2, SubmitterAlone
<1>6. /\ pc'[Worker] = pc[Worker] /\ pc[Worker] # "pushIfNew" /\ InHand' = InHand
      /\ pc[Worker] \in SaveSteps => hand = {}
  BY <1>1, <1>2, <1>3, SubmitterAlone DEF InHand, AtWork
<1>7. tasks \in Seq(Task) /\ deferred \in Seq(Task)
  BY DEF TypeInv, TypeOK
<1>8. /\ Elems(tasks') \subseteq Elems(tasks) /\ Elems(deferred') \subseteq Elems(deferred)
      /\ \A u \in Queued \ Queued' : Is(t, u)
      /\ Sorted(tasks) => Sorted(tasks')
      /\ Sorted(deferred) => Sorted(deferred')
      /\ req[s].deferred = FALSE => \A u \in Elems(deferred') : ~Is(t, u)
  <2>1. /\ Elems(Remove(tasks, t)) = {u \in Elems(tasks) : ~Is(t, u)}
        /\ Sorted(tasks) => Sorted(Remove(tasks, t))
        /\ Elems(Remove(deferred, t)) = {u \in Elems(deferred) : ~Is(t, u)}
        /\ Sorted(deferred) => Sorted(Remove(deferred, t))
    BY <1>7, RemoveProperties
  <2>2. \/ req[s].deferred # FALSE /\ tasks' = Remove(tasks, t) /\ deferred' = deferred
        \/ deferred' = Remove(deferred, t) /\ tasks' = tasks
    BY <1>5 DEF SubmitRemove
  <2> HIDE DEF Remove
  <2> QED
    BY <2>1, <2>2 DEF Queued
<1>9. Queued' \subseteq Queued
  BY <1>8 DEF Queued
<1>10. VersionInv'
  BY <1>1, <1>2, <1>4, <1>9 DEF VersionInv
<1>11. QueueInv'
  <2>1. ASSUME OrderInv PROVE OrderInv'
    <3>1. Sorted(tasks') /\ Sorted(deferred') /\ Older(Elems(tasks'), Elems(deferred'))
      BY <1>8, <2>1 DEF OrderInv, Older
    <3>2. Older(InHand', Queued')
      BY <1>6, <1>9, <2>1 DEF OrderInv, Older
    <3>3. \A x \in Submitters : pc'[x] = "push" /\ req'[x].deferred = FALSE =>
             \A v \in req'[x].task, u \in Elems(deferred') : ~Is(v, u)
      BY <1>2, <1>4, <1>5, <1>8
    <3>4. \A x \in Threads : /\ Sorted(snap'[x])
                             /\ pc'[x] = "readDeferred" => Older(Elems(snap'[x]), Elems(deferred'))
      <4>1. \A x \in Threads : Sorted(snap[x])
        BY <2>1 DEF OrderInv
      <4>2. \A x \in Threads : pc'[x] = "readDeferred" => Older(Elems(snap[x]), Elems(deferred))
        BY <1>3, <2>1 DEF OrderInv
      <4> QED
        BY <1>2, <1>8, <4>1, <4>2 DEF Older
    <3>5. \A data \in tmp' \cup file' : Sorted(data)
      BY <1>2, <2>1 DEF OrderInv
    <3> QED
      BY <1>6, <3>1, <3>2, <3>3, <3>4, <3>5 DEF OrderInv
  <2>2. ASSUME NewestInv PROVE NewestInv'
    <3>1. \A u \in Queued' \cup InHand' : ran'[u.kind] <= u.ver /\ u.ver <= newest'[u.kind]
      BY <1>2, <1>6, <1>9, <2>2 DEF NewestInv
    <3>2. ASSUME NEW k \in Kinds, newest[k] # 0,
                 NEW u \in Queued \cup InHand, u.kind = k, u.ver = newest[k]
          PROVE  u \in Queued' \cup InHand' \/ t.kind = k
      BY <1>6, <1>8, <3>2 DEF Is
    <3>3. \A k \in Kinds : ~\E x \in Submitters : pc[x] = "push" /\ \E v \in req[x].task : v.kind = k
      BY <1>1, <1>2, SubmitterAlone
    <3> QED
      BY <1>2, <1>4, <1>5, <2>2, <3>1, <3>2, <3>3 DEF NewestInv
  <2> QED
    BY <1>2, <2>1, <2>2 DEF QueueInv
<1>12. SaveInv'
  <2>1. /\ windows' = windows /\ snap' = snap /\ file' = file /\ tmp' = tmp /\ durable' = durable
        /\ \A x \in Threads : SavedTask(x)' = SavedTask(x) /\ Durable(x)' \subseteq Durable(x)
    BY <1>2, <1>9 DEF SavedTask, Durable
  <2>2. pc'[s] \notin {"readDeferred", "write", "rename"} /\ \A x \in Threads : x # s => pc'[x] = pc[x]
    BY <1>1, <1>3
  <2> QED
    BY <1>1, <1>8, <1>9, <2>1, <2>2 DEF SaveInv
<1> QED
  BY <1>10, <1>11, <1>12

\* thisQueue.Push: the new task is the newest of its kind, and no save has seen it.
LEMMA SubmitPushQ ==
    ASSUME TypeInv, MutexInv, VersionInv, QueueInv, SaveInv, NEW s \in Submitters, SubmitPush(s)
    PROVE  VersionInv' /\ QueueInv' /\ SaveInv'
<1>1. s \in Threads /\ s # Worker /\ Worker \in Threads /\ \A x \in Submitters : x \in Threads
  BY ThreadsAssumption DEF Threads
<1>2. /\ pc[s] = "push" /\ Goto(s, "readTasks")
      /\ UNCHANGED <<mu, hand, req, snap, tmp, file, submits, ran, windows>>
  BY DEF SubmitPush, disk, bounds
<1>3. \A x \in Threads : pc'[x] = IF x = s THEN "readTasks" ELSE pc[x]
  BY <1>1, <1>2, Moved DEF SaveSteps
<1>4. \A x \in Submitters : pc'[x] = IF x = s THEN "readTasks" ELSE "idle"
  BY <1>1, <1>2, <1>3, SubmitterAlone
<1>5. PICK t \in Task : req[s].task = {t}
  BY <1>2, SubmitterAlone
<1>6. /\ pc'[Worker] = pc[Worker] /\ pc[Worker] # "pushIfNew" /\ InHand' = InHand
      /\ pc[Worker] \in SaveSteps => hand = {}
  BY <1>1, <1>2, <1>3, SubmitterAlone DEF InHand, AtWork
<1>7. tasks \in Seq(Task) /\ deferred \in Seq(Task)
  BY DEF TypeInv, TypeOK
<1>8. /\ durable' = {u \in durable : ~Is(t, u)}
      /\ newest'[t.kind] = t.ver /\ \A k \in Kinds : k # t.kind => newest'[k] = newest[k]
  <2>1. newest' = [newest EXCEPT ![t.kind] = t.ver] /\ durable' = {u \in durable : ~Is(t, u)}
    BY <1>5 DEF SubmitPush
  <2>2. newest \in [Kinds -> Nat] /\ t.kind \in Kinds
    BY Numbers DEF TypeInv, TypeOK
  <2> QED
    BY <2>1, <2>2
<1>9. t.ver = submits /\ \A u \in Queued \cup hand \cup Elems(snap[Worker]) : u.ver < submits
  BY <1>2, <1>5 DEF VersionInv
<1>10. \/ /\ req[s].deferred # FALSE /\ tasks' = tasks
          /\ Elems(deferred') = {u \in Elems(deferred) : ~Is(t, u)} \cup {t}
          /\ Sorted(deferred) => Sorted(deferred')
       \/ /\ req[s].deferred = FALSE /\ deferred' = deferred
          /\ Elems(tasks') = {u \in Elems(tasks) : ~Is(t, u)} \cup {t}
          /\ Sorted(tasks) => Sorted(tasks')
  <2>1. /\ Elems(Push(tasks, t)) = {u \in Elems(tasks) : ~Is(t, u)} \cup {t}
        /\ Sorted(tasks) => Sorted(Push(tasks, t))
        /\ Elems(Push(deferred, t)) = {u \in Elems(deferred) : ~Is(t, u)} \cup {t}
        /\ Sorted(deferred) => Sorted(Push(deferred, t))
    BY <1>7, PushProperties
  <2>2. req[s].deferred \in BOOLEAN
    BY DEF TypeInv
  <2>3. \/ req[s].deferred = TRUE /\ deferred' = Push(deferred, t) /\ tasks' = tasks
        \/ req[s].deferred = FALSE /\ tasks' = Push(tasks, t) /\ deferred' = deferred
    <3>1. IF req[s].deferred
          THEN deferred' = Push(deferred, t) /\ UNCHANGED <<tasks, tokens>>
          ELSE /\ tasks' = Push(tasks, t)
               /\ tokens' = Notify(tokens)
               /\ UNCHANGED deferred
      BY <1>5 DEF SubmitPush
    <3> QED
      BY <2>2, <3>1
  <2> HIDE DEF Push
  <2> QED
    BY <2>1, <2>3
<1>11. /\ Queued' \subseteq Queued \cup {t} /\ t \in Queued'
       /\ \A u \in Queued : ~Is(t, u) => u \in Queued'
       /\ Elems(deferred') \subseteq Elems(deferred) \cup {t}
       /\ Elems(tasks') \subseteq Elems(tasks) \cup {t}
  BY <1>10 DEF Queued
<1>12. Is(t, t) /\ t \notin durable'
  BY <1>8 DEF Is
<1>13. VersionInv'
  <2>1. \A u \in Queued' : u.ver <= submits
    <3>1. \A u \in Queued : u.ver <= submits
      BY DEF VersionInv
    <3>2. t.ver <= submits
      BY <1>9, Numbers
    <3> QED
      BY <1>11, <3>1, <3>2
  <2> QED
    BY <1>2, <1>4, <2>1 DEF VersionInv
<1>14. QueueInv'
  <2>1. ASSUME OrderInv PROVE OrderInv'
    <3>1. Sorted(tasks') /\ Sorted(deferred')
      BY <1>10, <2>1 DEF OrderInv
    <3>2. Older(Elems(tasks'), Elems(deferred'))
      <4>1. \A u \in Elems(tasks), v \in Elems(deferred) : Is(u, v) => u.ver < v.ver
        BY <2>1 DEF OrderInv, Older
      <4>2. \A u \in Elems(tasks) : u.ver < t.ver
        BY <1>9 DEF Queued
      <4>3. req[s].deferred = FALSE => \A v \in Elems(deferred) : ~Is(t, v)
        BY <1>2, <1>5, <2>1 DEF OrderInv
      <4>4. CASE req[s].deferred # FALSE
        <5>1. tasks' = tasks /\ \A v \in Elems(deferred') : v \in Elems(deferred) \/ v = t
          BY <1>10, <4>4
        <5> QED
          BY <4>1, <4>2, <5>1 DEF Older
      <4>5. CASE req[s].deferred = FALSE
        <5>1. deferred' = deferred /\ \A u \in Elems(tasks') : u \in Elems(tasks) \/ u = t
          BY <1>10, <4>5
        <5> QED
          BY <4>1, <4>3, <4>5, <5>1 DEF Older
      <4> QED
        BY <4>4, <4>5
    <3>3. Older(InHand', Queued')
      <4>1. \A u \in InHand : u.ver < t.ver
        BY <1>9, Numbers
      <4> QED
        BY <1>6, <1>11, <2>1, <4>1 DEF OrderInv, Older
    <3>4. \A x \in Submitters : pc'[x] # "push"
      BY <1>4
    <3>5. \A x \in Threads : /\ Sorted(snap'[x])
                             /\ pc'[x] = "readDeferred" => Older(Elems(snap'[x]), Elems(deferred'))
      <4>1. \A x \in Threads : Sorted(snap[x])
        BY <2>1 DEF OrderInv
      <4>2. \A x \in Threads : pc'[x] = "readDeferred" =>
               x = Worker /\ Older(Elems(snap[x]), Elems(deferred))
        BY <1>3, <1>4, <2>1 DEF OrderInv, Threads
      <4>3. \A u \in Elems(snap[Worker]) : u.ver < t.ver
        BY <1>9
      <4> QED
        BY <1>2, <1>11, <4>1, <4>2, <4>3 DEF Older
    <3>6. \A data \in tmp' \cup file' : Sorted(data)
      BY <1>2, <2>1 DEF OrderInv
    <3> QED
      BY <1>6, <3>1, <3>2, <3>3, <3>4, <3>5, <3>6 DEF OrderInv
  <2>2. ASSUME NewestInv PROVE NewestInv'
    <3>1. ASSUME NEW u \in Queued' \cup InHand'
          PROVE  ran'[u.kind] <= u.ver /\ u.ver <= newest'[u.kind]
      <4>1. CASE u = t
        <5>1. t.kind \in Kinds /\ t.ver \in Nat
          BY Numbers
        <5>2. ran[t.kind] <= submits
          BY <5>1 DEF VersionInv
        <5> QED
          BY <1>2, <1>8, <1>9, <4>1, <5>1, <5>2
      <4>2. CASE u # t
        <5>1. u \in Queued \cup InHand
          BY <1>6, <1>11, <3>1, <4>2
        <5>2. u \in Task /\ u.kind \in Kinds /\ u.ver \in Nat /\ t.ver \in Nat
          BY <5>1, Numbers
        <5>3. ran[u.kind] <= u.ver /\ u.ver <= newest[u.kind]
          BY <2>2, <5>1 DEF NewestInv
        <5>4. u.ver < t.ver
          BY <1>9, <5>1, Numbers
        <5> QED
          BY <1>2, <1>8, <5>2, <5>3, <5>4
      <4> QED
        BY <4>1, <4>2
    <3>2. ASSUME NEW k \in Kinds, newest'[k] # 0
          PROVE  \E u \in Queued' \cup InHand' : u.kind = k /\ u.ver = newest'[k]
      <4>1. CASE k = t.kind
        BY <1>8, <1>11, <4>1
      <4>2. CASE k # t.kind
        <5>1. newest'[k] = newest[k]
          BY <1>8, <4>2
        <5>2. ~\E x \in Submitters : pc[x] = "push" /\ \E v \in req[x].task : v.kind = k
          BY <1>2, <1>5, <4>2, SubmitterAlone
        <5>3. PICK u \in Queued \cup InHand : u.kind = k /\ u.ver = newest[k]
          BY <2>2, <3>2, <5>1, <5>2 DEF NewestInv
        <5>4. ~Is(t, u)
          BY <4>2, <5>3 DEF Is
        <5> QED
          BY <1>6, <1>11, <5>1, <5>3, <5>4
      <4> QED
        BY <4>1, <4>2
    <3> QED
      BY <3>1, <3>2 DEF NewestInv
  <2> QED
    BY <1>2, <2>1, <2>2 DEF QueueInv
<1>15. SaveInv'
  <2>1. windows' = windows /\ snap' = snap /\ file' = file /\ tmp' = tmp /\ durable' \subseteq durable
    BY <1>2, <1>8
  <2>2. \A x \in Threads : pc'[x] \in {"readDeferred", "write", "rename"} =>
           /\ pc'[x] = pc[x] /\ SavedTask(x)' = {}
           /\ Durable(x)' \subseteq Durable(x)
    <3>1. \A x \in Threads : pc'[x] \in {"readDeferred", "write", "rename"} =>
             x = Worker /\ pc'[x] = pc[x]
      BY <1>3, <1>4 DEF Threads
    <3>2. \A x \in {"readDeferred", "write", "rename"} : x \in SaveSteps
      BY DEF SaveSteps
    <3>3. durable' \cap Queued' \subseteq durable \cap Queued
      BY <1>8, <1>11, <1>12
    <3> QED
      BY <1>2, <1>6, <3>1, <3>2, <3>3 DEF SavedTask, Durable
  <2>3. durable' \cap Elems(tasks') \subseteq durable \cap Elems(tasks)
    BY <1>8, <1>11, <1>12
  <2>4. durable' \cap Queued' \subseteq durable \cap Queued
    BY <1>8, <1>11, <1>12
  <2> QED
    BY <2>1, <2>2, <2>3, <2>4 DEF SaveInv
<1> QED
  BY <1>13, <1>14, <1>15

\* save puts into the file what its goroutine found in the queues, in their order.
LEMMA SaveQ ==
    ASSUME TypeInv, MutexInv, VersionInv, QueueInv, SaveInv, NEW t \in Threads, Save(t) \/ SaveFail(t)
    PROVE  VersionInv' /\ QueueInv' /\ SaveInv'
<1>1. Worker \in Threads /\ \A x \in Submitters : x \in Threads /\ x # Worker
  BY ThreadsAssumption DEF Threads
<1>2. UNCHANGED <<tasks, deferred, submits, newest, ran>> /\ windows \subseteq windows'
  BY DEF Save, SaveReadTasks, SaveReadDeferred, SaveWrite, SaveRename, SaveFail, queues, bounds, history
<1>3. PICK step \in {"readDeferred", "write", "rename", "pull", "idle"} :
         /\ \A x \in Threads : pc'[x] = IF x = t THEN step ELSE pc[x]
         /\ step = "readDeferred" => snap'[t] = tasks
  <2>1. PICK step \in {"readDeferred", "write", "rename", "pull", "idle"} :
           Goto(t, step) /\ (step = "readDeferred" => SaveReadTasks(t))
    BY DEF Save, SaveReadTasks, SaveReadDeferred, SaveWrite, SaveRename, SaveFail, EndSave
  <2>2. \A x \in Threads : pc'[x] = IF x = t THEN step ELSE pc[x]
    BY <2>1, Moved DEF SaveSteps, WorkerSteps, SubmitSteps
  <2>3. step = "readDeferred" => snap'[t] = tasks
    BY <2>1 DEF SaveReadTasks, TypeInv, TypeOK
  <2> QED
    BY <2>2, <2>3
<1>4. pc[t] \in SaveSteps
  BY DEF Save, SaveReadTasks, SaveReadDeferred, SaveWrite, SaveRename, SaveFail, SaveSteps
<1>5. hand' \subseteq hand /\ InHand' = InHand
  <2>1. t # Worker => hand' = hand /\ pc'[Worker] = pc[Worker]
    BY <1>1, <1>3 DEF Save, SaveReadTasks, SaveReadDeferred, SaveWrite, SaveRename, SaveFail, EndSave
  <2>2. hand' = hand \/ hand' = {}
    BY DEF Save, SaveReadTasks, SaveReadDeferred, SaveWrite, SaveRename, SaveFail, EndSave
  <2>3. t = Worker => ~AtWork /\ ~AtWork'
    BY <1>1, <1>3, <1>4 DEF AtWork, SaveSteps
  <2>4. t # Worker => (AtWork' <=> AtWork)
    BY <2>1 DEF AtWork
  <2> QED
    BY <2>1, <2>2, <2>3, <2>4 DEF InHand
<1>6. \A x \in Submitters : x # t => req'[x] = req[x]
  BY DEF Save, SaveReadTasks, SaveReadDeferred, SaveWrite, SaveRename, SaveFail, EndSave, TypeInv
<1>7. /\ \A x \in Threads : x # t => snap'[x] = snap[x]
      /\ snap'[t] \in {snap[t], tasks, snap[t] \o deferred, <<>>}
      /\ snap'[t] = snap[t] \o deferred => pc[t] = "readDeferred" \/ snap'[t] = snap[t] \/ snap'[t] = tasks
                                           \/ snap'[t] = <<>>
  BY DEF Save, SaveReadTasks, SaveReadDeferred, SaveWrite, SaveRename, SaveFail, TypeInv, TypeOK
<1>8. \A data \in tmp' \cup file' : data \in tmp \cup file \/ data = snap[t]
  BY DEF Save, SaveReadTasks, SaveReadDeferred, SaveWrite, SaveRename, SaveFail
<1>9. Queued' = Queued /\ Elems(tasks) \subseteq Queued
  BY <1>2 DEF Queued
<1>10. snap[t] \in Seq(Task) /\ deferred \in Seq(Task)
  BY DEF TypeInv, TypeOK
<1>11. Elems(snap'[t]) \subseteq Elems(snap[t]) \cup Queued
  <2>1. Elems(snap[t] \o deferred) = Elems(snap[t]) \cup Elems(deferred) /\ Elems(<<>>) = {}
    BY <1>10, ConcatProperties, EmptyQueue
  <2> QED
    BY <1>7, <2>1 DEF Queued
<1>12. VersionInv'
  <2>1. \A u \in Queued' \cup hand' : u.ver <= submits
    BY <1>5, <1>9 DEF VersionInv
  <2>2. \A x \in Threads : \A u \in Elems(snap'[x]) : u.ver <= submits
    <3>1. \A u \in Elems(snap'[t]) : u.ver <= submits
      BY <1>11 DEF VersionInv
    <3> QED
      BY <1>7, <3>1 DEF VersionInv
  <2>3. \A data \in tmp' \cup file' : \A u \in Elems(data) : u.ver <= submits
    BY <1>8 DEF VersionInv
  <2>4. ASSUME NEW s \in Submitters, pc'[s] \in {"remove", "push"}, NEW v \in req'[s].task
        PROVE  /\ v.ver = submits
               /\ \A u \in Queued' \cup hand' \cup Elems(snap'[Worker]) : u.ver < submits
    <3>1. s # t /\ pc[s] \in {"remove", "push"} /\ v \in req[s].task
      BY <1>1, <1>3, <1>6, <2>4
    <3>2. v.ver = submits /\ \A u \in Queued \cup hand \cup Elems(snap[Worker]) : u.ver < submits
      BY <3>1 DEF VersionInv
    <3>3. Elems(snap'[Worker]) \subseteq Elems(snap[Worker]) \cup Queued
      BY <1>1, <1>7, <1>11
    <3> QED
      BY <1>5, <1>9, <3>2, <3>3
  <2> QED
    BY <1>2, <2>1, <2>2, <2>3, <2>4 DEF VersionInv
<1>13. QueueInv'
  <2>1. ASSUME OrderInv PROVE OrderInv'
    <3>1. Sorted(tasks) /\ Sorted(deferred) /\ Older(Elems(tasks), Elems(deferred)) /\ Sorted(snap[t])
      BY <2>1 DEF OrderInv
    <3>2. Sorted(snap'[t])
      <4>1. CASE snap'[t] = snap[t] \/ snap'[t] = tasks \/ snap'[t] = <<>>
        BY <3>1, <4>1, EmptyQueue
      <4>2. CASE snap'[t] = snap[t] \o deferred /\ pc[t] = "readDeferred"
        <5>1. Older(Elems(snap[t]), Elems(deferred))
          BY <2>1, <4>2 DEF OrderInv
        <5> QED
          BY <1>10, <3>1, <4>2, <5>1, ConcatProperties
      <4> QED
        BY <1>7, <4>1, <4>2
    <3>3. \A x \in Threads : Sorted(snap'[x])
      BY <1>7, <2>1, <3>2 DEF OrderInv
    <3>4. ASSUME NEW x \in Threads, pc'[x] = "readDeferred"
          PROVE  Older(Elems(snap'[x]), Elems(deferred))
      <4>1. CASE x = t
        BY <1>3, <3>1, <3>4, <4>1
      <4>2. CASE x # t
        BY <1>3, <1>7, <2>1, <3>4, <4>2 DEF OrderInv
      <4> QED
        BY <4>1, <4>2
    <3>5. \A data \in tmp' \cup file' : Sorted(data)
      BY <1>8, <2>1, <3>1 DEF OrderInv
    <3>6. pc'[Worker] = "pushIfNew" => \A v \in hand', u \in Elems(tasks) : ~Is(v, u)
      BY <1>1, <1>3, <1>5, <2>1 DEF OrderInv
    <3>7. ASSUME NEW s \in Submitters, pc'[s] = "push", req'[s].deferred = FALSE
          PROVE  \A v \in req'[s].task, u \in Elems(deferred) : ~Is(v, u)
      <4>1. s # t /\ pc[s] = "push" /\ req'[s] = req[s]
        BY <1>1, <1>3, <1>6, <3>7
      <4> QED
        BY <2>1, <3>7, <4>1 DEF OrderInv
    <3>8. Older(InHand, Queued)
      BY <2>1 DEF OrderInv
    <3> QED
      BY <1>2, <1>5, <1>9, <3>1, <3>3, <3>4, <3>5, <3>6, <3>7, <3>8 DEF OrderInv
  <2>2. ASSUME NewestInv PROVE NewestInv'
    <3>1. \A s \in Submitters : pc[s] = "push" => pc'[s] = "push" /\ req'[s] = req[s]
      BY <1>1, <1>3, <1>4, <1>6 DEF SaveSteps
    <3>2. \A k \in Kinds : (\E s \in Submitters : pc[s] = "push" /\ \E v \in req[s].task : v.kind = k)
                => (\E s \in Submitters : pc'[s] = "push" /\ \E v \in req'[s].task : v.kind = k)
      BY <3>1
    <3> QED
      BY <1>2, <1>5, <1>9, <2>2, <3>2 DEF NewestInv
  <2> QED
    BY <1>2, <2>1, <2>2 DEF QueueInv
<1>14. SaveInv'
  <2> DEFINE Late == {"readDeferred", "write", "rename"}
  <2> SUFFICES ASSUME windows' \cap {"snapshot", "save"} = {} PROVE SaveInv'
    BY DEF SaveInv
  <2>1. /\ \A x, y \in Threads : {pc[x], pc[y]} \subseteq Late => x = y
        /\ \A u \in durable \cap Queued : \E data \in file : u \in Elems(data)
        /\ \A x \in Threads :
             /\ pc[x] = "readDeferred" =>
                  (durable \cup SavedTask(x)) \cap Elems(tasks) \subseteq Elems(snap[x])
             /\ pc[x] = "write" => Durable(x) \subseteq Elems(snap[x])
             /\ pc[x] = "rename" => \A u \in Durable(x) : \E data \in tmp : u \in Elems(data)
    BY <1>2 DEF SaveInv
  <2>2. ASSUME NEW x \in Threads, x # t PROVE pc'[x] \notin Late \/ pc'[t] \in {"pull", "idle"}
    <3>1. CASE pc[t] \in Late
      BY <1>3, <2>1, <2>2, <3>1
    <3>2. CASE pc[t] \notin Late
      <4>1. SaveReadTasks(t)
        BY <3>2 DEF Save, SaveReadDeferred, SaveWrite, SaveRename, SaveFail
      <4>2. pc[x] \notin SaveSteps \ {"readTasks"}
        BY <2>2, <4>1 DEF SaveReadTasks
      <4> QED
        BY <1>3, <2>2, <4>2 DEF SaveSteps
    <3> QED
      BY <3>1, <3>2
  <2>3. pc[t] \in Late => \A x \in Threads : x # t => pc'[x] \notin Late
    BY <1>3, <2>1
  <2>4. \A x \in Threads : x # t => pc'[x] \notin Late
    <3>1. pc[t] \notin Late => pc'[t] = "readDeferred"
      BY <1>3 DEF Save, SaveReadTasks, SaveReadDeferred, SaveWrite, SaveRename, SaveFail, Goto, TypeInv, TypeOK
    <3> QED
      BY <2>2, <2>3, <3>1
  <2>5. CASE SaveReadTasks(t)
    <3>1. durable' = durable /\ file' = file /\ pc'[t] = "readDeferred" /\ snap'[t] = tasks
      BY <1>3, <2>5 DEF SaveReadTasks, Goto, TypeInv, TypeOK
    <3> QED
      BY <1>2, <1>9, <2>1, <2>4, <3>1 DEF SaveInv
  <2>6. CASE SaveReadDeferred(t)
    <3>1. /\ durable' = durable /\ file' = file /\ pc'[t] = "write" /\ snap'[t] = snap[t] \o deferred
          /\ UNCHANGED <<hand, req>> /\ pc[t] = "readDeferred"
      BY <1>3, <2>6 DEF SaveReadDeferred, Goto, TypeInv, TypeOK, history
    <3>2. Durable(t)' = Durable(t)
      BY <1>9, <3>1 DEF Durable, SavedTask
    <3>3. Elems(snap'[t]) = Elems(snap[t]) \cup Elems(deferred)
      BY <1>10, <3>1, ConcatProperties
    <3>4. Durable(t)' \subseteq Elems(snap'[t])
      BY <2>1, <3>1, <3>2, <3>3 DEF Durable, Queued
    <3> QED
      BY <1>9, <2>1, <2>4, <3>1, <3>4 DEF SaveInv
  <2>7. CASE SaveWrite(t)
    <3>1. /\ durable' = durable /\ file' = file /\ pc'[t] = "rename" /\ tmp' = {snap[t]}
          /\ UNCHANGED <<hand, req>> /\ pc[t] = "write"
      BY <1>3, <2>7 DEF SaveWrite, Goto, TypeInv, TypeOK, history
    <3>2. Durable(t)' = Durable(t)
      BY <1>9, <3>1 DEF Durable, SavedTask
    <3>3. \A u \in Durable(t)' : \E data \in tmp' : u \in Elems(data)
      BY <2>1, <3>1, <3>2
    <3> QED
      BY <1>9, <2>1, <2>4, <3>1, <3>3 DEF SaveInv
  <2>8. CASE SaveRename(t)
    <3>1. durable' = durable \cup (SavedTask(t) \cap Queued) /\ file' = tmp /\ pc[t] = "rename"
      BY <2>8 DEF SaveRename
    <3>2. pc'[t] \notin Late
      BY <2>8 DEF SaveRename, EndSave, Goto, TypeInv, TypeOK
    <3>3. durable' \cap Queued' = Durable(t)
      BY <1>9, <3>1 DEF Durable
    <3>4. \A u \in durable' \cap Queued' : \E data \in file' : u \in Elems(data)
      BY <2>1, <3>1, <3>3
    <3> QED
      BY <2>4, <3>2, <3>4 DEF SaveInv
  <2>9. CASE SaveFail(t)
    <3>1. durable' = durable /\ file' = file
      BY <2>9 DEF SaveFail, history
    <3>2. pc'[t] \notin Late
      BY <2>9 DEF SaveFail, EndSave, Goto, TypeInv, TypeOK
    <3>3. \A u \in durable' \cap Queued' : \E data \in file' : u \in Elems(data)
      BY <1>9, <2>1, <3>1
    <3> QED
      BY <2>4, <3>2, <3>3 DEF SaveInv
  <2> QED
    BY <2>5, <2>6, <2>7, <2>8, <2>9 DEF Save
<1> QED
  BY <1>12, <1>13, <1>14

-----------------------------------------------------------------------------
\* What every step of the worker outside save leaves alone, and where it goes.
LEMMA WorkerFrame ==
    ASSUME TypeInv, MutexInv, Pull \/ Execute \/ Resubmit
    PROVE  /\ UNCHANGED <<req, snap, tmp, file, submits, windows>>
           /\ \A x \in Submitters : pc'[x] = pc[x]
           /\ pc'[Worker] \notin {"readDeferred", "write", "rename"}
           /\ ~ResubmitPush => deferred' = deferred
<1>1. Worker \in Threads /\ \A x \in Submitters : x \in Threads /\ x # Worker
  BY ThreadsAssumption DEF Threads
<1>2. UNCHANGED <<req, snap, tmp, file, submits, windows>> /\ (~ResubmitPush => deferred' = deferred)
  BY DEF Pull, PullCheck, TryPopFront, PullReadWait, PullWake, PullCancelled, Execute, TaskEnds,
         TaskNeedsRetry, TaskUnreachable, Resubmit, ResubmitContains, queues, disk, bounds, history,
         ResubmitPush
<1>3. PICK step \in WorkerSteps \cup {"readTasks"} : Goto(Worker, step)
  BY DEF Pull, PullCheck, TryPopFront, PullReadWait, PullWake, PullCancelled, Execute, TaskEnds,
         TaskNeedsRetry, TaskUnreachable, Resubmit, ResubmitContains, ResubmitPush, WorkerSteps
<1>4. \A x \in Threads : pc'[x] = IF x = Worker THEN step ELSE pc[x]
  BY <1>1, <1>3, Moved DEF SaveSteps
<1> QED
  BY <1>1, <1>2, <1>4 DEF WorkerSteps

\* The worker takes tasks out of the queues, or puts its own back, and adds to no
\* number.
LEMMA WorkerVersion ==
    ASSUME VersionInv, UNCHANGED <<req, snap, tmp, file, submits>>,
           \A x \in Submitters : pc'[x] = pc[x],
           Queued' \cup hand' \subseteq Queued \cup hand,
           \A k \in Kinds : ran'[k] = ran[k] \/ \E u \in hand : ran'[k] = u.ver
    PROVE  VersionInv'
<1>1. \A k \in Kinds : ran'[k] <= submits
  BY DEF VersionInv
<1> QED
  BY <1>1 DEF VersionInv

\* It does not take part in a save meanwhile, so it need only not add to what the
\* save of a submitter must contain.
LEMMA WorkerSave ==
    ASSUME SaveInv, UNCHANGED <<req, snap, tmp, file, windows>>,
           \A x \in Submitters : pc'[x] = pc[x],
           pc'[Worker] \notin {"readDeferred", "write", "rename"},
           durable' \subseteq durable, Elems(tasks') \subseteq Elems(tasks),
           durable' \cap Queued' \subseteq Queued,
           Queued' \subseteq Queued \/ \A x \in Submitters : pc[x] = "idle"
    PROVE  SaveInv'
<1> DEFINE Late == {"readDeferred", "write", "rename"}
<1>1. \A x \in Threads : pc'[x] \in Late => x \in Submitters /\ pc'[x] = pc[x] /\ Queued' \subseteq Queued
  BY DEF Threads
<1>2. \A x \in Submitters : x # Worker
  BY ThreadsAssumption
<1>3. \A x \in Threads : pc'[x] \in Late =>
         SavedTask(x)' = SavedTask(x) /\ Durable(x)' \subseteq Durable(x)
  BY <1>1, <1>2 DEF SavedTask, Durable
<1>4. durable' \cap Queued' \subseteq durable \cap Queued
  OBVIOUS
<1> QED
  BY <1>1, <1>3, <1>4 DEF SaveInv

\* The order of what it leaves alone stays.
LEMMA WorkerOrder ==
    ASSUME OrderInv, UNCHANGED <<req, snap, tmp, file, deferred>>,
           \A x \in Submitters : pc'[x] = pc[x],
           pc'[Worker] \notin {"readDeferred", "write", "rename"},
           Sorted(tasks'), Elems(tasks') \subseteq Elems(tasks), Older(InHand', Queued'),
           pc'[Worker] = "pushIfNew" => \A t \in hand', u \in Elems(tasks') : ~Is(t, u)
    PROVE  OrderInv'
<1>1. \A x \in Threads : pc'[x] = "readDeferred" => pc[x] = "readDeferred"
  BY DEF Threads
<1>2. Older(Elems(tasks'), Elems(deferred'))
  BY DEF OrderInv, Older
<1> QED
  BY <1>1, <1>2 DEF OrderInv

\* Pull without a task, and the pop.
LEMMA PullQ ==
    ASSUME TypeInv, MutexInv, VersionInv, QueueInv, SaveInv, Pull
    PROVE  VersionInv' /\ QueueInv' /\ SaveInv'
<1>1. /\ UNCHANGED <<req, snap, tmp, file, submits, windows, deferred>>
      /\ \A x \in Submitters : pc'[x] = pc[x]
      /\ pc'[Worker] \notin {"readDeferred", "write", "rename"}
  <2>1. ~ResubmitPush
    BY DEF Pull, PullCheck, TryPopFront, PullReadWait, PullWake, PullCancelled, ResubmitPush
  <2> QED
    BY <2>1, WorkerFrame
<1>2. newest' = newest /\ ran' = ran
  BY DEF Pull, PullCheck, TryPopFront, PullReadWait, PullWake, PullCancelled, history
<1>3. pc[Worker] \in {"pull", "pop", "getwait", "select"} /\ Worker \in Threads
  BY DEF Pull, PullCheck, TryPopFront, PullReadWait, PullWake, PullCancelled, Threads
<1>4. hand = {} /\ InHand = {}
  BY <1>3 DEF MutexInv, AtWork, InHand, SaveSteps
<1>5. CASE TryPopFront /\ tasks # <<>>
  <2>1. /\ hand' = {Head(tasks)} /\ tasks' = Tail(tasks) /\ durable' = durable \ {Head(tasks)}
        /\ pc'[Worker] = "exec"
    BY <1>3, <1>5 DEF TryPopFront, Goto, TypeInv, TypeOK
  <2>2. PICK h : h = Head(tasks)
    OBVIOUS
  <2>3. /\ Elems(tasks) = {h} \cup Elems(tasks')
        /\ Sorted(tasks) => Sorted(tasks') /\ Older({h}, Elems(tasks'))
    BY <1>5, <2>1, <2>2, PopProperties DEF TypeInv, TypeOK
  <2>4. InHand' = {h} /\ Queued = {h} \cup Queued' /\ hand' = {h}
    BY <1>1, <2>1, <2>2, <2>3 DEF InHand, AtWork, Queued
  <2>5. VersionInv'
    BY <1>1, <1>2, <2>4, WorkerVersion
  <2>6. SaveInv'
    BY <1>1, <2>1, <2>3, <2>4, WorkerSave
  <2>7. ASSUME OrderInv PROVE OrderInv'
    <3>1. Sorted(tasks') /\ Older({h}, Elems(tasks'))
      BY <2>3, <2>7 DEF OrderInv
    <3>2. Older(InHand', Queued')
      BY <1>1, <2>3, <2>4, <2>7, <3>1 DEF OrderInv, Older, Queued
    <3> QED
      BY <1>1, <2>1, <2>3, <2>7, <3>1, <3>2, WorkerOrder
  <2>8. Queued' \cup InHand' = Queued \cup InHand
    BY <1>4, <2>4
  <2>9. ASSUME NewestInv PROVE NewestInv'
    BY <1>1, <1>2, <2>8, <2>9 DEF NewestInv
  <2> QED
    BY <1>1, <2>5, <2>6, <2>7, <2>9 DEF QueueInv
<1>6. CASE ~(TryPopFront /\ tasks # <<>>)
  <2>1. UNCHANGED <<tasks, hand, durable>>
    BY <1>6 DEF Pull, PullCheck, TryPopFront, PullReadWait, PullWake, PullCancelled, queues, history
  <2>2. Queued' = Queued /\ InHand' = {}
    BY <1>1, <1>4, <2>1 DEF Queued, InHand
  <2>3. VersionInv'
    BY <1>1, <1>2, <2>1, <2>2, WorkerVersion
  <2>4. SaveInv'
    BY <1>1, <2>1, <2>2, WorkerSave
  <2>5. ASSUME OrderInv PROVE OrderInv'
    <3>1. Older(InHand', Queued') /\ Sorted(tasks')
      BY <2>1, <2>2, <2>5 DEF Older, OrderInv
    <3>2. hand' = {}
      BY <1>4, <2>1
    <3> QED
      BY <1>1, <2>1, <2>5, <3>1, <3>2, WorkerOrder
  <2>6. ASSUME NewestInv PROVE NewestInv'
    BY <1>1, <1>2, <1>4, <2>2, <2>6 DEF NewestInv
  <2> QED
    BY <1>1, <2>3, <2>4, <2>5, <2>6 DEF QueueInv
<1> QED
  BY <1>5, <1>6

\* The execution: whatever is still queued is newer than what was executed.
LEMMA ExecuteQ ==
    ASSUME TypeInv, MutexInv, VersionInv, QueueInv, SaveInv, Execute
    PROVE  VersionInv' /\ QueueInv' /\ SaveInv'
<1>1. /\ UNCHANGED <<req, snap, tmp, file, submits, windows, deferred>>
      /\ \A x \in Submitters : pc'[x] = pc[x]
      /\ pc'[Worker] \notin {"readDeferred", "write", "rename"}
  <2>1. ~ResubmitPush
    BY DEF Execute, TaskEnds, TaskNeedsRetry, TaskUnreachable, ResubmitPush
  <2> QED
    BY <2>1, WorkerFrame
<1>2. pc[Worker] = "exec" /\ Worker \in Threads /\ UNCHANGED <<tasks, durable>>
  BY DEF Execute, TaskEnds, TaskNeedsRetry, TaskUnreachable, Threads, queues
<1>3. PICK t \in Task : hand = {t} /\ InHand = {t}
  BY <1>2 DEF MutexInv, AtWork, InHand
<1>4. Queued' = Queued /\ t.kind \in Kinds /\ t.ver \in Nat \ {0}
  BY <1>1, <1>2, Numbers DEF Queued
<1>5. \A k \in Kinds : ran'[k] = ran[k] \/ (k = t.kind /\ ran'[k] = t.ver)
  <2>1. ran' = ran \/ ran' = [ran EXCEPT ![t.kind] = t.ver]
    BY <1>3 DEF Execute, TaskEnds, TaskNeedsRetry, TaskUnreachable, Ran
  <2> QED
    BY <2>1 DEF TypeInv, TypeOK
<1>6. \/ newest' = newest /\ hand' = {t} /\ InHand' = {t}
      \/ /\ hand' = {} /\ InHand' = {}
         /\ \A k \in Kinds : newest'[k] = IF k = t.kind /\ newest[k] = t.ver THEN 0 ELSE newest[k]
  <2>1. CASE TaskNeedsRetry
    <3>1. newest' = newest /\ hand' = hand /\ pc'[Worker] = "resubmit"
      BY <1>2, <2>1 DEF TaskNeedsRetry, Goto, TypeInv, TypeOK
    <3> QED
      BY <1>3, <3>1 DEF InHand, AtWork
  <2>2. CASE TaskEnds \/ TaskUnreachable
    <3>1. hand' = {} /\ newest' = [newest EXCEPT ![t.kind] = IF @ = t.ver THEN 0 ELSE @]
      BY <1>3, <2>2 DEF TaskEnds, TaskUnreachable, Ended
    <3>2. \A k \in Kinds : newest'[k] = IF k = t.kind /\ newest[k] = t.ver THEN 0 ELSE newest[k]
      BY <1>4, <3>1 DEF TypeInv, TypeOK
    <3> QED
      BY <3>1, <3>2 DEF InHand
  <2> QED
    BY <2>1, <2>2 DEF Execute
<1>7. VersionInv'
  <2>1. Queued' \cup hand' \subseteq Queued \cup hand
    BY <1>3, <1>4, <1>6
  <2>2. \A k \in Kinds : ran'[k] = ran[k] \/ \E u \in hand : ran'[k] = u.ver
    BY <1>3, <1>5
  <2> QED
    BY <1>1, <2>1, <2>2, WorkerVersion
<1>8. SaveInv'
  BY <1>1, <1>2, <1>4, WorkerSave
<1>9. ASSUME OrderInv PROVE OrderInv'
  <2>1. Older(InHand', Queued')
    BY <1>3, <1>4, <1>6, <1>9 DEF OrderInv, Older
  <2>2. pc'[Worker] # "pushIfNew" /\ Sorted(tasks')
    <3>1. pc'[Worker] # "pushIfNew"
      BY <1>2 DEF Execute, TaskEnds, TaskNeedsRetry, TaskUnreachable, Goto, TypeInv, TypeOK
    <3> QED
      BY <1>2, <1>9, <3>1 DEF OrderInv
  <2> QED
    BY <1>1, <1>2, <1>9, <2>1, <2>2, WorkerOrder
<1>10. ASSUME OrderInv, NewestInv PROVE NewestInv'
  <2>1. \A u \in Queued : u.kind = t.kind => t.ver < u.ver
    BY <1>3, <1>10 DEF OrderInv, Older, Is
  <2>2. \A u \in Queued \cup InHand : u \in Task /\ u.kind \in Kinds /\ u.ver \in Nat \ {0}
    BY Numbers
  <2>3. \A k \in Kinds : newest[k] \in Nat /\ ran[k] \in Nat
    BY Numbers
  <2>4. \A u \in Queued \cup InHand : ran[u.kind] <= u.ver /\ u.ver <= newest[u.kind]
    BY <1>10 DEF NewestInv
  <2>5. \A u \in Queued' \cup InHand' : u \in Queued \cup InHand
    BY <1>3, <1>4, <1>6
  <2>6. ASSUME NEW u \in Queued' \cup InHand' PROVE ran'[u.kind] <= u.ver
    <3>1. CASE u \in Queued
      BY <1>4, <1>5, <2>1, <2>2, <2>3, <2>4, <3>1
    <3>2. CASE u = t
      BY <1>3, <1>4, <1>5, <2>4, <3>2
    <3> QED
      BY <1>3, <2>5, <3>1, <3>2
  <2>7. ASSUME NEW u \in Queued' \cup InHand' PROVE u.ver <= newest'[u.kind]
    <3>1. u.kind \in Kinds /\ u.ver \in Nat \ {0} /\ u.ver <= newest[u.kind] /\ newest[u.kind] \in Nat
      BY <2>2, <2>3, <2>4, <2>5
    <3>2. CASE newest'[u.kind] = newest[u.kind]
      BY <3>1, <3>2
    <3>3. CASE newest'[u.kind] # newest[u.kind]
      <4>1. InHand' = {} /\ u.kind = t.kind /\ newest[u.kind] = t.ver
        BY <1>6, <3>1, <3>3
      <4>2. t.ver < u.ver
        BY <1>4, <2>1, <4>1
      <4> QED
        BY <1>4, <3>1, <4>1, <4>2
    <3> QED
      BY <3>2, <3>3
  <2>8. ASSUME NEW k \in Kinds, newest'[k] # 0,
               NEW u \in Queued \cup InHand, u.kind = k, u.ver = newest[k]
        PROVE  newest'[k] = newest[k] /\ u \in Queued' \cup InHand'
    BY <1>3, <1>4, <1>6, <2>8
  <2>9. \A k \in Kinds : newest'[k] = 0 \/ newest'[k] = newest[k]
    BY <1>6
  <2> QED
    BY <1>1, <1>10, <2>6, <2>7, <2>8, <2>9 DEF NewestInv
<1> QED
  BY <1>1, <1>7, <1>8, <1>9, <1>10 DEF QueueInv

\* resubmit gives way to a queued equivalent, which is newer.
LEMMA ResubmitContainsQ ==
    ASSUME TypeInv, MutexInv, VersionInv, QueueInv, SaveInv, ResubmitContains
    PROVE  VersionInv' /\ QueueInv' /\ SaveInv'
<1>1. /\ UNCHANGED <<req, snap, tmp, file, submits, windows, deferred>>
      /\ \A x \in Submitters : pc'[x] = pc[x]
      /\ pc'[Worker] \notin {"readDeferred", "write", "rename"}
  <2>1. ~ResubmitPush
    BY DEF ResubmitContains, ResubmitPush
  <2> QED
    BY <2>1, WorkerFrame DEF Resubmit
<1>2. /\ pc[Worker] = "resubmit" /\ Worker \in Threads
      /\ UNCHANGED <<tasks, durable, newest, ran>>
  BY DEF ResubmitContains, Threads, queues, history
<1>3. PICK t \in Task : hand = {t} /\ InHand = {t}
  BY <1>2 DEF MutexInv, AtWork, InHand
<1>4. Queued' = Queued
  BY <1>1, <1>2 DEF Queued
<1>5. \/ /\ hand' = {} /\ InHand' = {} /\ pc'[Worker] = "pull"
         /\ \E u \in Elems(tasks) : Is(u, t)
      \/ /\ hand' = {t} /\ InHand' = {t} /\ pc'[Worker] = "pushIfNew"
         /\ \A u \in Elems(tasks) : ~Is(u, t)
  <2>1. CASE Contains(tasks, t)
    <3>1. hand' = {} /\ pc'[Worker] = "pull"
      BY <1>2, <1>3, <2>1 DEF ResubmitContains, Goto, TypeInv, TypeOK
    <3> QED
      BY <2>1, <3>1, ContainsProperties DEF InHand
  <2>2. CASE ~Contains(tasks, t)
    <3>1. hand' = hand /\ pc'[Worker] = "pushIfNew"
      BY <1>2, <1>3, <2>2 DEF ResubmitContains, Goto, TypeInv, TypeOK
    <3> QED
      BY <1>3, <2>2, <3>1, ContainsProperties DEF InHand, AtWork
  <2> QED
    BY <2>1, <2>2
<1>6. VersionInv'
  BY <1>1, <1>2, <1>3, <1>4, <1>5, WorkerVersion
<1>7. SaveInv'
  BY <1>1, <1>2, <1>4, WorkerSave
<1>8. ASSUME OrderInv PROVE OrderInv'
  <2>1. Older(InHand', Queued') /\ Sorted(tasks')
    BY <1>2, <1>3, <1>4, <1>5, <1>8 DEF OrderInv, Older
  <2>2. pc'[Worker] = "pushIfNew" => \A v \in hand', u \in Elems(tasks') : ~Is(v, u)
    BY <1>2, <1>5 DEF Is
  <2> QED
    BY <1>1, <1>2, <1>8, <2>1, <2>2, WorkerOrder
<1>9. ASSUME OrderInv, NewestInv PROVE NewestInv'
  <2>1. \A u \in Queued' \cup InHand' : ran'[u.kind] <= u.ver /\ u.ver <= newest'[u.kind]
    BY <1>2, <1>3, <1>4, <1>5, <1>9 DEF NewestInv
  <2>2. CASE InHand' = InHand
    BY <1>1, <1>2, <1>4, <1>9, <2>2 DEF NewestInv
  <2>3. CASE InHand' # InHand
    <3>1. PICK v \in Elems(tasks) : Is(v, t)
      BY <1>3, <1>5, <2>3
    <3>2. v \in Queued /\ v.kind = t.kind /\ t.ver < v.ver /\ v.ver <= newest[t.kind]
      BY <1>3, <1>9, <3>1 DEF Queued, OrderInv, NewestInv, Older, Is
    <3>3. v.ver \in Nat /\ t.ver \in Nat /\ t.kind \in Kinds /\ newest[t.kind] \in Nat
      BY <3>2, Numbers
    <3>4. t.ver # newest[t.kind]
      BY <3>2, <3>3
    <3>5. \A k \in Kinds, u \in Queued \cup InHand : u.kind = k /\ u.ver = newest[k] => u \in Queued'
      BY <1>3, <1>4, <3>4
    <3> QED
      BY <1>1, <1>2, <1>9, <2>1, <3>5 DEF NewestInv
  <2> QED
    BY <2>2, <2>3
<1> QED
  BY <1>1, <1>6, <1>7, <1>8, <1>9 DEF QueueInv

\* PushIfNew puts the retried task at the end of the deferred tasks, or drops it for a
\* newer one; nobody else is saving or submitting.
LEMMA ResubmitPushQ ==
    ASSUME TypeInv, MutexInv, VersionInv, QueueInv, SaveInv, ResubmitPush
    PROVE  VersionInv' /\ QueueInv' /\ SaveInv'
<1>1. /\ UNCHANGED <<req, snap, tmp, file, submits, windows>>
      /\ \A x \in Submitters : pc'[x] = pc[x]
      /\ pc'[Worker] \notin {"readDeferred", "write", "rename"}
  BY WorkerFrame DEF Resubmit
<1>2. /\ pc[Worker] = "pushIfNew" /\ Worker \in Threads /\ pc'[Worker] = "readTasks"
      /\ UNCHANGED <<tasks, hand, newest, ran>> /\ durable' = durable \ hand
  BY DEF ResubmitPush, Threads, Goto, TypeInv, TypeOK
<1>3. PICK t \in Task : hand = {t} /\ InHand = {t}
  BY <1>2 DEF MutexInv, AtWork, InHand
<1>4. \A x \in Submitters : pc[x] = "idle"
  BY <1>2, WorkerAlone DEF MutexInv
<1>5. InHand' = {}
  BY <1>2 DEF InHand, AtWork
<1>6. \/ deferred' = deferred /\ \E u \in Elems(deferred) : Is(u, t)
      \/ /\ Elems(deferred') = Elems(deferred) \cup {t}
         /\ \A u \in Elems(deferred) : ~Is(u, t)
         /\ Sorted(deferred) => Sorted(deferred')
  <2>1. deferred' = PushIfNew(deferred, t)
    BY <1>3 DEF ResubmitPush
  <2>2. CASE Contains(deferred, t)
    BY <2>1, <2>2, ContainsProperties DEF PushIfNew
  <2>3. CASE ~Contains(deferred, t)
    <3>1. \A u \in Elems(deferred) : ~Is(u, t)
      BY <2>3, ContainsProperties
    <3>2. Older(Elems(deferred), {t})
      BY <3>1 DEF Older
    <3>3. deferred' = Append(deferred, t)
      BY <2>1, <2>3 DEF PushIfNew
    <3>4. Elems(deferred') = Elems(deferred) \cup {t} /\ (Sorted(deferred) => Sorted(deferred'))
      BY <3>2, <3>3, AppendProperties DEF TypeInv, TypeOK
    <3> QED
      BY <3>1, <3>4
  <2> QED
    BY <2>2, <2>3
<1>7. Queued \subseteq Queued' /\ Queued' \subseteq Queued \cup {t}
  BY <1>2, <1>6 DEF Queued
<1>8. VersionInv'
  <2>1. Queued' \cup hand' \subseteq Queued \cup hand
    BY <1>2, <1>3, <1>7
  <2> QED
    BY <1>1, <1>2, <2>1, WorkerVersion
<1>9. SaveInv'
  <2>1. durable' \subseteq durable /\ Elems(tasks') \subseteq Elems(tasks) /\ durable' \cap Queued' \subseteq Queued
    BY <1>2, <1>3, <1>7
  <2> QED
    BY <1>1, <1>4, <2>1, WorkerSave
<1>10. ASSUME OrderInv PROVE OrderInv'
  <2>1. Sorted(tasks') /\ Sorted(deferred')
    BY <1>2, <1>6, <1>10 DEF OrderInv
  <2>2. \A u \in Elems(tasks) : ~Is(u, t)
    BY <1>2, <1>3, <1>10 DEF OrderInv, Is
  <2>3. Older(Elems(tasks'), Elems(deferred'))
    <3>1. \A u \in Elems(deferred') : u \in Elems(deferred) \/ u = t
      BY <1>6
    <3> QED
      BY <1>2, <1>10, <2>2, <3>1 DEF OrderInv, Older
  <2>4. Older(InHand', Queued') /\ pc'[Worker] # "pushIfNew"
    BY <1>2, <1>5 DEF Older
  <2>5. \A x \in Threads : pc'[x] # "readDeferred"
    BY <1>1, <1>2, <1>4 DEF Threads
  <2>6. \A x \in Submitters : pc'[x] # "push"
    BY <1>1, <1>4
  <2>7. (\A x \in Threads : Sorted(snap'[x])) /\ \A data \in tmp' \cup file' : Sorted(data)
    BY <1>1, <1>10 DEF OrderInv
  <2> QED
    BY <2>1, <2>3, <2>4, <2>5, <2>6, <2>7 DEF OrderInv
<1>11. ASSUME OrderInv, NewestInv PROVE NewestInv'
  <2>1. \A u \in Queued \cup InHand : ran[u.kind] <= u.ver /\ u.ver <= newest[u.kind]
    BY <1>11 DEF NewestInv
  <2>2. \A u \in Queued' \cup InHand' : u \in Queued \cup InHand
    BY <1>3, <1>5, <1>7
  <2>3. \A k \in Kinds, u \in Queued \cup InHand : u.kind = k /\ u.ver = newest[k] => u \in Queued'
    <3>1. CASE t \in Queued'
      BY <1>3, <1>7, <3>1
    <3>2. CASE t \notin Queued'
      <4>1. PICK v \in Elems(deferred) : Is(v, t)
        BY <1>6, <3>2 DEF Queued
      <4>2. v \in Queued /\ v.kind = t.kind /\ t.ver < v.ver /\ v.ver <= newest[t.kind]
        BY <1>3, <1>11, <4>1 DEF Queued, OrderInv, NewestInv, Older, Is
      <4>3. v.ver \in Nat /\ t.ver \in Nat /\ t.kind \in Kinds /\ newest[t.kind] \in Nat
        BY <4>2, Numbers
      <4>4. t.ver # newest[t.kind]
        BY <4>2, <4>3
      <4> QED
        BY <1>3, <1>7, <4>4
    <3> QED
      BY <3>1, <3>2
  <2> QED
    BY <1>1, <1>2, <1>11, <2>1, <2>2, <2>3 DEF NewestInv
<1> QED
  BY <1>1, <1>8, <1>9, <1>10, <1>11 DEF QueueInv

\* An Absorb keeps the order, except past PushIfNew, and what a save will write, except
\* past its read of the deferred tasks.
LEMMA EnqueueQ ==
    ASSUME TypeInv, MutexInv, VersionInv, QueueInv, SaveInv, EnqueueDeferredTasks
    PROVE  VersionInv' /\ QueueInv' /\ SaveInv'
<1>1. /\ tasks' = tasks \o deferred /\ deferred' = <<>> /\ windows' = windows \cup Hit
      /\ UNCHANGED <<pc, hand, req, snap, tmp, file, submits, newest, ran, durable>>
  BY DEF EnqueueDeferredTasks, disk, bounds
<1>2. /\ Elems(tasks') = Elems(tasks) \cup Elems(deferred) /\ Elems(deferred') = {} /\ Sorted(deferred')
      /\ Sorted(tasks) /\ Sorted(deferred) /\ Older(Elems(tasks), Elems(deferred)) => Sorted(tasks')
  BY <1>1, ConcatProperties, EmptyQueue DEF TypeInv, TypeOK
<1>3. Queued' = Queued /\ InHand' = InHand
  BY <1>1, <1>2 DEF Queued, InHand, AtWork
<1>4. VersionInv'
  BY <1>1, <1>3 DEF VersionInv
<1>5. ASSUME "resubmit" \notin windows', OrderInv PROVE OrderInv'
  <2>1. pc[Worker] = "pushIfNew" => \A t \in hand, u \in Elems(tasks') : ~Is(t, u)
    <3>1. pc[Worker] = "pushIfNew" => \A t \in hand : ~Contains(deferred, t)
      BY <1>1, <1>5 DEF Hit
    <3>2. pc[Worker] = "pushIfNew" => \A t \in hand, u \in Elems(deferred) : ~Is(t, u)
      BY <3>1, ContainsProperties DEF Is
    <3> QED
      BY <1>2, <1>5, <3>2 DEF OrderInv
  <2>2. Sorted(tasks')
    BY <1>2, <1>5 DEF OrderInv
  <2>3. Older(Elems(tasks'), Elems(deferred')) /\ \A x \in Threads : Older(Elems(snap[x]), Elems(deferred'))
    BY <1>2 DEF Older
  <2>4. Older(InHand', Queued')
    BY <1>3, <1>5 DEF OrderInv
  <2> QED
    BY <1>1, <1>2, <1>5, <2>1, <2>2, <2>3, <2>4 DEF OrderInv
<1>6. ASSUME NewestInv PROVE NewestInv'
  BY <1>1, <1>3, <1>6 DEF NewestInv
<1>7. SaveInv'
  <2> SUFFICES ASSUME windows' \cap {"snapshot", "save"} = {} PROVE SaveInv'
    BY DEF SaveInv
  <2>1. \A x \in Threads : SavedTask(x)' = SavedTask(x) /\ Durable(x)' = Durable(x)
    BY <1>1, <1>3 DEF SavedTask, Durable
  <2>2. \A x \in Threads : pc[x] = "readDeferred" => deferred = <<>>
    BY <1>1 DEF Hit
  <2>3. \A x \in Threads : pc[x] = "readDeferred" => Elems(tasks') = Elems(tasks)
    BY <1>2, <2>2, EmptyQueue
  <2>4. windows \cap {"snapshot", "save"} = {}
    BY <1>1
  <2> QED
    BY <1>1, <1>3, <2>1, <2>3, <2>4 DEF SaveInv
<1> QED
  BY <1>1, <1>4, <1>5, <1>6, <1>7 DEF QueueInv

\* After a restart the file is all there is, in the order it was queued.
LEMMA RestQ ==
    ASSUME TypeInv, MutexInv, VersionInv, QueueInv, SaveInv, Stop \/ Restart \/ UNCHANGED vars
    PROVE  VersionInv' /\ QueueInv' /\ SaveInv'
<1>1. CASE Stop \/ UNCHANGED vars
  <2>1. UNCHANGED <<tasks, deferred, pc, hand, req, snap, tmp, file, submits, newest, ran, durable, windows>>
    BY <1>1 DEF Stop, vars, queues, disk, bounds, history
  <2>2. Queued' = Queued /\ InHand' = InHand
    BY <2>1 DEF Queued, InHand, AtWork
  <2>3. \A x \in Threads : SavedTask(x)' = SavedTask(x) /\ Durable(x)' = Durable(x)
    BY <2>1, <2>2 DEF SavedTask, Durable
  <2>4. VersionInv'
    BY <2>1, <2>2 DEF VersionInv
  <2>5. QueueInv'
    BY <2>1, <2>2 DEF QueueInv, OrderInv, NewestInv
  <2>6. SaveInv'
    BY <2>1, <2>2, <2>3 DEF SaveInv
  <2> QED
    BY <2>4, <2>5, <2>6
<1>2. CASE Restart
  <2>1. /\ deferred' = <<>> /\ hand' = {}
        /\ pc' = [t \in Threads |-> IF t = Worker THEN "pull" ELSE "idle"]
        /\ snap' = [t \in Threads |-> <<>>]
        /\ ran' = [k \in Kinds |-> 0]
        /\ durable' = Elems(tasks')
        /\ newest' = [k \in Kinds |-> Latest(Elems(tasks'), k)]
        /\ UNCHANGED <<tmp, file, submits, windows>>
    BY <1>2 DEF Restart
  <2>2. tasks' = <<>> \/ tasks' \in file
    BY <1>2 DEF Restart
  <2>3. PICK data \in Seq(Task) : data = tasks'
    BY <2>2, EmptyQueue DEF TypeInv, TypeOK
  <2>4. Elems(data) \in SUBSET Task /\ \A u \in Elems(data) : u.ver <= submits
    BY <2>2, <2>3, ElemsType, EmptyQueue DEF VersionInv
  <2>5. submits \in Nat /\ \A u \in Task : u.ver \in Nat \ {0} /\ u.kind \in Kinds
    BY Numbers
  <2>6. Elems(tasks') = Elems(data) /\ Queued' = Elems(data) /\ InHand' = {} /\ Elems(deferred') = {}
        /\ Sorted(deferred')
    BY <2>1, <2>3, EmptyQueue DEF Queued, InHand
  <2>7. pc'[Worker] = "pull" /\ \A x \in Threads : pc'[x] \in {"pull", "idle"}
    BY <2>1 DEF Threads
  <2>8. \A x \in Threads : Elems(snap'[x]) = {} /\ Sorted(snap'[x])
    BY <2>1, EmptyQueue
  <2>9. Worker \in Threads /\ \A x \in Submitters : x \in Threads
    BY DEF Threads
  <2>10. \A k \in Kinds : ran'[k] = 0 /\ newest'[k] = Latest(Elems(data), k)
    BY <2>1, <2>3
  <2>11. VersionInv'
    <3>1. \A k \in Kinds : ran'[k] <= submits
      BY <2>5, <2>10
    <3>2. \A x \in Submitters : pc'[x] \notin {"remove", "push"}
      BY <2>7, <2>9
    <3>3. \A d \in tmp' \cup file' : \A u \in Elems(d) : u.ver <= submits
      BY <2>1 DEF VersionInv
    <3>4. submits' = submits /\ hand' = {}
      BY <2>1
    <3> QED
      BY <2>4, <2>6, <2>8, <3>1, <3>2, <3>3, <3>4 DEF VersionInv
  <2>12. ASSUME OrderInv PROVE OrderInv'
    <3>1. Sorted(tasks')
      BY <2>2, <2>12, EmptyQueue DEF OrderInv
    <3>2. Older(Elems(tasks'), Elems(deferred')) /\ Older(InHand', Queued')
      BY <2>6 DEF Older
    <3>3. \A d \in tmp' \cup file' : Sorted(d)
      BY <2>1, <2>12 DEF OrderInv
    <3>4. /\ \A x \in Submitters : pc'[x] # "push"
          /\ \A x \in Threads : pc'[x] # "readDeferred"
          /\ pc'[Worker] # "pushIfNew"
      BY <2>7, <2>9
    <3> QED
      BY <2>6, <2>8, <3>1, <3>2, <3>3, <3>4 DEF OrderInv
  <2>13. NewestInv'
    <3>1. \A k \in Kinds :
            /\ \A u \in Elems(data) : u.kind = k => u.ver <= newest'[k]
            /\ newest'[k] = 0 \/ \E u \in Elems(data) : u.kind = k /\ u.ver = newest'[k]
      <4> SUFFICES ASSUME NEW k \in Kinds
                   PROVE  /\ \A u \in Elems(data) : u.kind = k => u.ver <= newest'[k]
                          /\ newest'[k] = 0 \/ \E u \in Elems(data) : u.kind = k /\ u.ver = newest'[k]
        OBVIOUS
      <4>1. PICK S \in SUBSET Task : S = Elems(data)
        BY <2>4
      <4>2. PICK n \in Nat : n = submits
        BY <2>5
      <4>3. \A u \in S : u.ver <= n
        BY <2>4, <4>1, <4>2
      <4>4. /\ \A u \in S : u.kind = k => u.ver <= Latest(S, k)
            /\ Latest(S, k) = 0 \/ \E u \in S : u.kind = k /\ u.ver = Latest(S, k)
        BY <4>3, LatestProperties
      <4>5. newest'[k] = Latest(S, k)
        BY <2>10, <4>1
      <4> QED
        BY <4>1, <4>4, <4>5
    <3>2. \A u \in Elems(data) : u.kind \in Kinds /\ ran'[u.kind] <= u.ver
      BY <2>4, <2>5, <2>10
    <3> QED
      BY <2>6, <3>1, <3>2 DEF NewestInv
  <2>14. SaveInv'
    <3>1. \A x \in Threads : pc'[x] \notin {"readDeferred", "write", "rename"}
      BY <2>7
    <3>2. \A u \in durable' \cap Queued' : \E d \in file' : u \in Elems(d)
      BY <2>1, <2>2, <2>6, EmptyQueue
    <3> QED
      BY <3>1, <3>2 DEF SaveInv
  <2> QED
    BY <2>1, <2>11, <2>12, <2>13, <2>14 DEF QueueInv
<1> QED
  BY <1>1, <1>2

-----------------------------------------------------------------------------
\* newTaskManager and Worker.start establish it.
LEMMA InitQInv == Init => QInv
<1> SUFFICES ASSUME Init PROVE QInv
  OBVIOUS
<1>1. /\ tasks = <<>> /\ deferred = <<>> /\ tokens = 0 /\ mu = {} /\ hand = {} /\ tmp = {} /\ file = {}
      /\ pc = [t \in Threads |-> IF t = Worker THEN "pull" ELSE "idle"]
      /\ req = [s \in Submitters |-> NoCall]
      /\ snap = [t \in Threads |-> <<>>]
      /\ submits = 0 /\ restarts = 0
      /\ newest = [k \in Kinds |-> 0] /\ ran = [k \in Kinds |-> 0]
      /\ durable = {} /\ windows = {}
  BY DEF Init
<1>2. waitOpen = FALSE /\ stopping = FALSE /\ valid = TRUE
  BY DEF Init
<1>3. Elems(tasks) = {} /\ Elems(deferred) = {} /\ Queued = {} /\ InHand = {}
      /\ Sorted(tasks) /\ Sorted(deferred)
  BY <1>1, EmptyQueue DEF Queued, InHand
<1>4. /\ pc[Worker] = "pull" /\ \A x \in Submitters : pc[x] = "idle"
      /\ \A x \in Threads : pc[x] \in {"pull", "idle"}
  BY <1>1, ThreadsAssumption DEF Threads
<1>5. \A x \in Threads : Elems(snap[x]) = {} /\ Sorted(snap[x])
  BY <1>1, EmptyQueue
<1>6. TypeInv
  <2>1. NoCall \in [task : SUBSET Task, deferred : BOOLEAN]
    BY DEF NoCall
  <2>2. req \in [Submitters -> [task : SUBSET Task, deferred : BOOLEAN]]
    BY <1>1, <2>1
  <2>3. \A x \in Submitters : req[x].task \in SUBSET Task /\ req[x].deferred \in BOOLEAN
    BY <2>2
  <2>4. tokens \in 0 .. WaitCap /\ submits \in 0 .. MaxSubmits /\ restarts \in 0 .. MaxRestarts
    BY <1>1, WaitCapAssumption, BoundsAssumption
  <2>5. pc \in [Threads -> WorkerSteps \cup SubmitSteps \cup SaveSteps]
    BY <1>1 DEF WorkerSteps, SubmitSteps
  <2>6. /\ tasks \in Seq(Task) /\ deferred \in Seq(Task) /\ snap \in [Threads -> Seq(Task)]
        /\ newest \in [Kinds -> Nat] /\ ran \in [Kinds -> Nat]
    BY <1>1, EmptyQueue
  <2>7. waitOpen \in BOOLEAN /\ stopping \in BOOLEAN /\ valid \in BOOLEAN
    BY <1>2
  <2>8. mu = {} /\ hand = {} /\ tmp = {} /\ file = {} /\ durable = {} /\ windows = {}
    BY <1>1
  <2> QED
    BY <2>2, <2>3, <2>4, <2>5, <2>6, <2>7, <2>8 DEF TypeInv, TypeOK
<1>7. MutexInv
  BY <1>1, <1>4 DEF MutexInv, AtWork, WorkerSteps, SubmitSteps, SaveSteps
<1>8. VersionInv
  BY <1>1, <1>3, <1>4, <1>5 DEF VersionInv
<1>9. QueueInv
  <2>1. OrderInv
    BY <1>1, <1>3, <1>4, <1>5 DEF OrderInv, Older
  <2>2. NewestInv
    BY <1>1, <1>3 DEF NewestInv
  <2> QED
    BY <2>1, <2>2 DEF QueueInv
<1>10. SaveInv
  BY <1>1, <1>4 DEF SaveInv
<1> QED
  BY <1>6, <1>7, <1>8, <1>9, <1>10 DEF QInv

\* Every step keeps it.
LEMMA NextQInv == QInv /\ [Next]_vars => QInv'
<1> SUFFICES ASSUME QInv, [Next]_vars PROVE QInv'
  OBVIOUS
<1>1. TypeInv /\ MutexInv /\ VersionInv /\ QueueInv /\ SaveInv
  BY DEF QInv
<1>2. ASSUME NEW s \in Submitters, SubmitLock(s) \/ SubmitRemove(s) \/ SubmitPush(s) PROVE QInv'
  <2>1. VersionInv' /\ QueueInv' /\ SaveInv'
    BY <1>1, <1>2, SubmitLockQ, SubmitRemoveQ, SubmitPushQ
  <2> QED
    BY <1>1, <1>2, <2>1, SubmitTypes, SubmitMutex DEF QInv
<1>3. ASSUME NEW t \in Threads,
             \/ SaveReadTasks(t) \/ SaveReadDeferred(t) \/ SaveWrite(t) \/ SaveRename(t) \/ SaveFail(t)
      PROVE  QInv'
  <2>1. Save(t) \/ SaveFail(t)
    BY <1>3 DEF Save
  <2> QED
    BY <1>1, <2>1, SaveQ, SaveTypes, SaveMutex DEF QInv
<1>4. CASE Pull \/ Execute \/ Resubmit
  <2>1. VersionInv' /\ QueueInv' /\ SaveInv'
    BY <1>1, <1>4, PullQ, ExecuteQ, ResubmitContainsQ, ResubmitPushQ DEF Resubmit
  <2> QED
    BY <1>1, <1>4, <2>1, WorkerTypes, WorkerMutex DEF QInv
<1>5. CASE EnqueueDeferredTasks \/ Stop \/ Restart \/ UNCHANGED vars
  <2>1. VersionInv' /\ QueueInv' /\ SaveInv'
    BY <1>1, <1>5, EnqueueQ, RestQ
  <2> QED
    BY <1>1, <1>5, <2>1, RestTypes, RestMutex DEF QInv
<1> QED
  BY <1>2, <1>3, <1>4, <1>5 DEF Next, Pull, Execute, Resubmit

LEMMA QueueInvariance == Spec => []QInv
BY InitQInv, NextQInv, PTL DEF Spec

\* The task manager's queues, files and goroutines stay within their types.
THEOREM TypesAreKept == Spec => []TypeOK
<1>1. QInv => TypeOK
  BY DEF QInv, TypeInv
<1> QED
  BY QueueInvariance, <1>1, PTL

\* Whatever is submitted, retried, deferred and promoted, the newest task of a kind is
\* queued, with the worker, disposed of or about to be replaced, unless an Absorb fell
\* between resubmit's Contains and its PushIfNew.
THEOREM NewestTasksAreKept == Spec => []NewestTaskNotLost
<1>1. QInv => NewestTaskNotLost
  BY DEF QInv, QueueInv, NewestInv, NewestTaskNotLost, InHand
<1> QED
  BY QueueInvariance, <1>1, PTL

\* What a submission or a retry reported as saved is in the file while it is queued,
\* unless two saves overlapped or an Absorb moved it past a save.
THEOREM SavedTasksSurvive == Spec => []SavedTasksAreOnDisk
<1>1. QInv => SavedTasksAreOnDisk
  BY DEF QInv, SaveInv, SavedTasksAreOnDisk
<1> QED
  BY QueueInvariance, <1>1, PTL

\* The distro is sent the tasks of a kind in the order of their submission, within one
\* life of the agent.
THEOREM ExecutionsFollowSubmissions == Spec => NoStaleExecution
<1>1. ASSUME QInv, [Next]_vars
      PROVE  [\A k \in Kinds : ran'[k] < ran[k] => restarts' # restarts \/ "resubmit" \in windows]_vars
  <2>1. TypeInv /\ MutexInv
    BY <1>1 DEF QInv
  <2>2. CASE TaskEnds \/ TaskNeedsRetry
    <3>1. pc[Worker] = "exec"
      BY <2>2 DEF TaskEnds, TaskNeedsRetry
    <3>2. PICK t \in Task : hand = {t} /\ InHand = {t}
      BY <2>1, <3>1 DEF MutexInv, AtWork, InHand
    <3>3. t.kind \in Kinds /\ t.ver \in Nat /\ \A k \in Kinds : ran[k] \in Nat
      BY <2>1, Numbers
    <3>4. "resubmit" \notin windows => ran[t.kind] <= t.ver
      BY <1>1, <3>2 DEF QInv, QueueInv, NewestInv
    <3>5. \A k \in Kinds : ran'[k] = ran[k] \/ (k = t.kind /\ ran'[k] = t.ver)
      <4>1. ran' = ran \/ ran' = [ran EXCEPT ![t.kind] = t.ver]
        BY <2>2, <3>2 DEF TaskEnds, TaskNeedsRetry, Ran
      <4> QED
        BY <2>1, <4>1 DEF TypeInv, TypeOK
    <3> QED
      BY <3>3, <3>4, <3>5
  <2>3. CASE Restart
    <3>1. restarts' = restarts + 1 /\ restarts \in Nat
      BY <2>1, <2>3, BoundsAssumption DEF Restart, TypeInv, TypeOK
    <3> QED
      BY <3>1
  <2>4. CASE ran' = ran
    <3>1. \A k \in Kinds : ran[k] \in Nat
      BY <2>1, Numbers
    <3> QED
      BY <2>4, <3>1
  <2>5. CASE UNCHANGED vars
    BY <2>5
  <2>6. ran' = ran \/ TaskEnds \/ TaskNeedsRetry \/ Restart \/ UNCHANGED vars
    BY <1>1 DEF Next, SubmitLock, SubmitRemove, SubmitPush, SaveReadTasks, SaveReadDeferred, SaveWrite,
                SaveRename, SaveFail, PullCheck, TryPopFront, PullReadWait, PullWake, PullCancelled,
                TaskUnreachable, ResubmitContains, ResubmitPush, EnqueueDeferredTasks, Stop, history
  <2> QED
    BY <2>2, <2>3, <2>4, <2>5, <2>6
<1> QED
  BY QueueInvariance, <1>1, PTL DEF Spec, NoStaleExecution
==============================================================================
