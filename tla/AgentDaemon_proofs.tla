-------------------------- MODULE AgentDaemon_proofs --------------------------
(***************************************************************************)
(* Proofs about the agent's daemon, for every set of callers of Quit and   *)
(* every number of subscriptions to network changes.                       *)
(*                                                                         *)
(* The argument for Quit counts: while the server has not stopped for      *)
(* good, every token in d.stopped, every request for a restart in d.quit   *)
(* and a restart under way each have a watcher of their own that awaits    *)
(* its end.  So a caller of Quit that met no such watcher can only have    *)
(* taken the token of the last stop, or found the channel closed.          *)
(***************************************************************************)
EXTENDS AgentDaemon, FiniteSetTheorems, TLAPS

\* Serve will not set up a server again.
Final == {"cleanup", "join", "returned"}

Restarting == pc \in {"stopping", "remove", "signal"} /\ request = "restart"

Awaiting == {w \in Watchers : watcher[w] = "await"}

Bit(b) == IF b THEN 1 ELSE 0

\* Who is still to be told of a stop that will not be the last one.
AwaitInv ==
    pc \notin Final =>
        tokens + Bit(quit = "restart") + Bit(Restarting) <= Cardinality(Awaiting)

\* Whose subscription is the last one, and what may have become of the others.
SubsInv ==
    /\ \A w \in Watchers : w > subs => watcher[w] = "none"
    /\ \A w \in Watchers : w < subs => watcher[w] \in {"await", "report"}
    /\ \A w \in Watchers : watcher[w] = "done" => pc = "returned"
    /\ quit = "restart" \/ Restarting => subs > 0
    /\ pc = "new" => subs = 0
    /\ Restarting \/ pc = "setup" => quit # "restart"
    /\ quit = "restart" \/ Restarting \/ (pc = "setup" /\ subs > 0) =>
          watcher[subs] \in {"await", "report", "done"}

FileInv == pc \in {"new", "setup", "signal"} \cup Final => portFile # "ours"

\* A caller that is not marked has met no watcher with a request.
RaceInv ==
    \A q \in Quitters : caller[q] \in {"send", "await", "returned"} /\ q \notin raced =>
        \A w \in Watchers : watcher[w] \notin {"send", "await"}

ReturnInv ==
    \A q \in Quitters : caller[q] = "returned" /\ q \notin raced => pc \in Final

IInv ==
    /\ TypeOK
    /\ closed => pc = "returned"
    /\ SubsInv /\ FileInv /\ RaceInv /\ AwaitInv /\ ReturnInv

USE SubsAssumption DEF Watchers

-----------------------------------------------------------------------------
\* There are finitely many watchers to count.
LEMMA AwaitingFinite == IsFiniteSet(Awaiting) /\ Cardinality(Awaiting) \in Nat
<1>1. IsFiniteSet(Watchers)
  BY FS_Interval
<1>2. Awaiting \in SUBSET Watchers
  BY DEF Awaiting
<1> QED
  BY <1>1, <1>2, FS_Subset, FS_CardinalityType

\* A watcher's step changes the count by itself.
LEMMA AwaitingStep ==
    ASSUME NEW w \in Watchers, \A v \in Watchers \ {w} : watcher'[v] = watcher[v]
    PROVE  Cardinality(Awaiting)' =
              Cardinality(Awaiting) + Bit(watcher'[w] = "await") - Bit(watcher[w] = "await")
<1>0. w \in Awaiting <=> watcher[w] = "await"
  BY DEF Awaiting
<1>1. CASE watcher'[w] = "await"
  <2>1. Awaiting' = Awaiting \cup {w}
    BY <1>1 DEF Awaiting
  <2>2. Cardinality(Awaiting') = IF w \in Awaiting THEN Cardinality(Awaiting)
                                ELSE Cardinality(Awaiting) + 1
    BY <2>1, AwaitingFinite, FS_AddElement
  <2> QED
    BY <1>0, <1>1, <2>2, AwaitingFinite DEF Bit
<1>2. CASE watcher'[w] # "await"
  <2>1. Awaiting' = Awaiting \ {w}
    BY <1>2 DEF Awaiting
  <2>2. Cardinality(Awaiting') = IF w \in Awaiting THEN Cardinality(Awaiting) - 1
                                ELSE Cardinality(Awaiting)
    BY <2>1, AwaitingFinite, FS_RemoveElement
  <2> QED
    BY <1>0, <1>2, <2>2, AwaitingFinite DEF Bit
<1> QED
  BY <1>1, <1>2

\* Nobody changes: nobody is counted differently.
LEMMA AwaitingSame ==
    ASSUME watcher' = watcher
    PROVE  Awaiting' = Awaiting /\ Cardinality(Awaiting)' = Cardinality(Awaiting)
BY DEF Awaiting

-----------------------------------------------------------------------------
\* The goroutine in Serve, while it sets up a server.
LEMMA SetupIInv ==
    ASSUME IInv, SetupOK \/ SetupFails
    PROVE  IInv'
<1> USE DEF IInv
<1>1. /\ pc = "setup" /\ pc' = "up" /\ request' = "none"
      /\ UNCHANGED <<channels, rpcs, ctxDone, callers, stopped>>
      /\ serveErr' \in BOOLEAN /\ portFile' \in {portFile, "ours"}
  BY DEF SetupOK, SetupFails, watchers, Subscribe
<1>2. CASE UNCHANGED watchers
  <2>1. TypeOK'
    BY <1>1, <1>2 DEF TypeOK, channels, callers, watchers
  <2>2. SubsInv' /\ FileInv' /\ RaceInv' /\ ReturnInv' /\ (closed' => pc' = "returned")
    BY <1>1, <1>2 DEF TypeOK, SubsInv, FileInv, RaceInv, ReturnInv, Restarting, Final, channels,
                      callers, watchers
  <2>3. AwaitInv'
    BY <1>1, <1>2, AwaitingSame, AwaitingFinite
       DEF TypeOK, AwaitInv, Restarting, Final, Bit, channels, callers, watchers
  <2> QED
    BY <2>1, <2>2, <2>3
<1>3. CASE Subscribe
  <2>0. subs + 1 \in Watchers /\ watcher[subs + 1] = "none"
    BY <1>3 DEF Subscribe, TypeOK, SubsInv
  <2>1. TypeOK'
    BY <1>1, <1>3, <2>0 DEF TypeOK, channels, callers, Subscribe
  <2>2. SubsInv'
    <3>1. quit' # "restart"
      BY <1>1 DEF SubsInv, channels
    <3>2. \A w \in Watchers : w < subs' => watcher'[w] \in {"await", "report"}
      BY <1>1, <1>3, <2>0 DEF SubsInv, TypeOK, Subscribe
    <3> QED
      BY <1>1, <1>3, <2>0, <3>1, <3>2 DEF SubsInv, TypeOK, Subscribe, Restarting, channels
  <2>3. FileInv' /\ RaceInv' /\ ReturnInv' /\ (closed' => pc' = "returned")
    BY <1>1, <1>3, <2>0 DEF TypeOK, FileInv, RaceInv, ReturnInv, Final, channels, callers, Subscribe
  <2>4. AwaitInv'
    <3>1. Cardinality(Awaiting)' = Cardinality(Awaiting)
      <4>1. PICK w \in Watchers : w = subs + 1
        BY <2>0
      <4>2. /\ \A v \in Watchers \ {w} : watcher'[v] = watcher[v]
            /\ watcher'[w] = "wait" /\ watcher[w] = "none"
        BY <1>3, <2>0, <4>1 DEF Subscribe, TypeOK
      <4> QED
        BY <4>2, AwaitingStep, AwaitingFinite DEF Bit
    <3> QED
      BY <1>1, <3>1, AwaitingFinite DEF TypeOK, AwaitInv, Restarting, Final, Bit, channels
  <2> QED
    BY <2>1, <2>2, <2>3, <2>4
<1> QED
  BY <1>2, <1>3 DEF SetupOK, SetupFails

\* The other steps of that goroutine, and those of its surroundings, which leave the
\* watchers alone.
LEMMA ServeIInv ==
    ASSUME IInv,
           \/ Serve \/ ServerError \/ TakeCtx \/ TakeErr \/ TakeQuit \/ ServerStops \/ RemoveFile
           \/ Signal \/ CleanupCancel \/ BeginRPC \/ EndRPC \/ CancelContext \/ UNCHANGED vars
    PROVE  IInv'
<1> USE DEF IInv
<1>1. UNCHANGED <<subs, watcher, caller, raced, force, closed>>
  BY DEF Serve, ServerError, TakeCtx, TakeErr, TakeQuit, ServerStops, RemoveFile, Signal,
         CleanupCancel, BeginRPC, EndRPC, CancelContext, vars, channels, watchers, callers
<1>2. TypeOK'
  <2>1. CASE CleanupCancel
    BY <2>1 DEF CleanupCancel, channels, callers, TypeOK
  <2>2. CASE RemoveFile
    BY <2>2 DEF RemoveFile, channels, watchers, callers, TypeOK
  <2>3. CASE Serve \/ ServerError \/ TakeCtx \/ TakeErr \/ TakeQuit
    BY <2>3 DEF Serve, ServerError, TakeCtx, TakeErr, TakeQuit, channels, watchers, callers, TypeOK
  <2>4. CASE ServerStops \/ Signal
    <3>1. /\ rpcs' \in BOOLEAN /\ serveErr' \in BOOLEAN
          /\ tokens' \in {tokens, 1} /\ pc' \in {"remove", "setup", "cleanup"}
          /\ UNCHANGED <<serving, quit, closed, request, portFile, ctxDone, watchers, callers>>
      BY <2>4 DEF ServerStops, Signal, channels, TypeOK
    <3> QED
      BY <3>1 DEF watchers, callers, TypeOK
  <2>5. CASE BeginRPC \/ EndRPC \/ CancelContext \/ UNCHANGED vars
    <3>1. /\ rpcs' \in BOOLEAN /\ ctxDone' \in BOOLEAN
          /\ UNCHANGED <<channels, server, watchers, callers>>
      BY <2>5 DEF BeginRPC, EndRPC, CancelContext, vars, TypeOK
    <3> QED
      BY <3>1 DEF channels, server, watchers, callers, TypeOK
  <2> QED
    BY <2>1, <2>2, <2>3, <2>4, <2>5
<1>3. /\ pc \in Final => pc' \in Final
      /\ pc = "returned" => pc' = "returned"
  BY DEF Serve, ServerError, TakeCtx, TakeErr, TakeQuit, ServerStops, RemoveFile, Signal,
         CleanupCancel, BeginRPC, EndRPC, CancelContext, vars, server, Final
<1>4. FileInv'
  BY DEF Serve, ServerError, TakeCtx, TakeErr, TakeQuit, ServerStops, RemoveFile, Signal,
         CleanupCancel, BeginRPC, EndRPC, CancelContext, vars, server, Final, FileInv
<1>5. SubsInv'
  <2>1. CASE Serve
    BY <1>1, <2>1 DEF Serve, SubsInv, Restarting, TypeOK
  <2>2. CASE TakeQuit
    BY <1>1, <2>2 DEF TakeQuit, SubsInv, Restarting, TypeOK
  <2>3. CASE Signal
    BY <1>1, <2>3 DEF Signal, SubsInv, Restarting, TypeOK
  <2>4. CASE ServerError \/ TakeCtx \/ TakeErr \/ ServerStops \/ RemoveFile \/ CleanupCancel
             \/ BeginRPC \/ EndRPC \/ CancelContext \/ UNCHANGED vars
    <3>1. /\ quit' = quit
          /\ Restarting' => Restarting
          /\ pc' \in {"new", "setup"} => pc' = pc
      BY <2>4 DEF ServerError, TakeCtx, TakeErr, ServerStops, RemoveFile, CleanupCancel, BeginRPC,
                  EndRPC, CancelContext, vars, channels, server, Restarting
    <3> QED
      BY <1>1, <1>3, <3>1 DEF SubsInv
  <2> QED
    BY <2>1, <2>2, <2>3, <2>4
<1>6. AwaitInv'
  <2>1. Cardinality(Awaiting)' = Cardinality(Awaiting) /\ Cardinality(Awaiting) \in Nat
    BY <1>1, AwaitingSame, AwaitingFinite
  <2>2. CASE TakeQuit
    BY <2>1, <2>2 DEF TakeQuit, AwaitInv, Restarting, Bit, Final, TypeOK
  <2>3. CASE Signal
    BY <2>1, <2>3 DEF Signal, AwaitInv, Restarting, Bit, Final, TypeOK
  <2>4. CASE Serve \/ ServerError \/ TakeCtx \/ TakeErr \/ ServerStops \/ RemoveFile
             \/ CleanupCancel \/ BeginRPC \/ EndRPC \/ CancelContext \/ UNCHANGED vars
    <3>1. UNCHANGED <<quit, tokens>> /\ (Restarting' => Restarting)
      BY <2>4 DEF Serve, ServerError, TakeCtx, TakeErr, ServerStops, RemoveFile, CleanupCancel,
                  BeginRPC, EndRPC, CancelContext, vars, channels, server, Restarting
    <3> QED
      BY <1>3, <2>1, <3>1 DEF AwaitInv, Bit, TypeOK
  <2> QED
    BY <2>2, <2>3, <2>4
<1>7. RaceInv' /\ ReturnInv' /\ (closed' => pc' = "returned")
  BY <1>1, <1>3 DEF RaceInv, ReturnInv
<1> QED
  BY <1>2, <1>4, <1>5, <1>6, <1>7

\* Serve returns.
LEMMA CloseIInv ==
    ASSUME IInv, CleanupClose
    PROVE  IInv'
<1> USE DEF IInv
<1>1. /\ pc' = "returned" /\ pc \in {"cleanup", "join"} /\ UNCHANGED <<portFile, caller, raced, subs, quit>>
      /\ \A w \in Watchers : watcher'[w] # watcher[w] => w = subs /\ watcher'[w] = "done"
  BY DEF CleanupClose, callers, TypeOK
<1>2. TypeOK'
  BY DEF CleanupClose, callers, TypeOK
<1>3. SubsInv'
  <2>1. quit = "restart" => subs \in Watchers /\ watcher[subs] \in {"await", "report", "done"}
    BY DEF SubsInv, TypeOK
  <2> QED
    BY <1>1, <1>2, <2>1 DEF SubsInv, Restarting, TypeOK
<1>4. FileInv' /\ RaceInv' /\ ReturnInv' /\ AwaitInv'
  BY <1>1 DEF FileInv, RaceInv, ReturnInv, AwaitInv, Final
<1> QED
  BY <1>1, <1>2, <1>3, <1>4

\* A watcher.  Only the last one can still ask for a restart, and only once.
LEMMA WatcherIInv ==
    ASSUME IInv, NEW w \in Watchers,
           \/ WatchCancelled(w) \/ WatchFails(w) \/ WatchFound(w)
           \/ RestartCancelled(w) \/ RestartSend(w) \/ RestartDone(w)
    PROVE  IInv'
<1> USE DEF IInv
<1>1. PICK step \in {"send", "await", "report"} :
         /\ watcher' = [watcher EXCEPT ![w] = step]
         /\ \/ watcher[w] = "wait" /\ step \in {"send", "report"}
            \/ watcher[w] = "send" /\ step \in {"await", "report"}
            \/ watcher[w] = "await" /\ step = "report"
  BY DEF WatchCancelled, WatchFails, WatchEnds, WatchFound, RestartCancelled, RestartSend, RestartDone
<1>2. UNCHANGED <<pc, request, serveErr, portFile, rpcs, ctxDone, subs, stopped, caller, force,
                  serving, closed>>
  BY DEF WatchCancelled, WatchFails, WatchEnds, WatchFound, RestartCancelled, RestartSend, RestartDone,
         SendQuit, ReceiveStopped, server, callers, channels
<1>3. /\ quit' = IF step = "await" THEN "restart" ELSE quit
      /\ step = "await" => quit = "empty"
      /\ tokens' = IF watcher[w] = "await" /\ tokens > 0 THEN tokens - 1 ELSE tokens
      /\ watcher[w] = "await" => tokens > 0 \/ closed
      /\ raced' = IF step = "send"
                  THEN raced \cup {q \in Quitters : caller[q] \in {"send", "await", "returned"}}
                  ELSE raced
  BY <1>1 DEF WatchCancelled, WatchFails, WatchEnds, WatchFound, RestartCancelled, RestartSend,
              RestartDone, SendQuit, ReceiveStopped, callers, channels, TypeOK
<1>4. \A v \in Watchers : watcher'[v] = IF v = w THEN step ELSE watcher[v]
  BY <1>1 DEF TypeOK
<1>5. TypeOK'
  BY <1>1, <1>2, <1>3 DEF TypeOK
<1>6. watcher[w] \in {"wait", "send"} => w = subs
  BY DEF SubsInv, TypeOK
<1>7. SubsInv'
  <2>1. step = "await" => ~Restarting /\ pc # "setup"
    BY <1>1, <1>6 DEF SubsInv, TypeOK
  <2>2. quit' = "restart" \/ Restarting' => subs' > 0
    BY <1>1, <1>2, <1>3, <1>6 DEF SubsInv, TypeOK, Restarting
  <2>3. \A v \in Watchers : v < subs' => watcher'[v] \in {"await", "report"}
    BY <1>1, <1>2, <1>4, <1>6 DEF SubsInv, TypeOK
  <2>4. quit' = "restart" \/ Restarting' \/ (pc' = "setup" /\ subs' > 0) =>
           watcher'[subs'] \in {"await", "report", "done"}
    <3>1. SUFFICES ASSUME quit' = "restart" \/ Restarting' \/ (pc' = "setup" /\ subs' > 0)
                   PROVE  watcher'[subs] \in {"await", "report", "done"}
      BY <1>2
    <3>2. subs \in Watchers
      BY <1>2, <2>2, <3>1 DEF TypeOK
    <3>3. CASE w = subs
      BY <1>1, <1>2, <1>3, <1>4, <3>1, <3>2, <3>3 DEF SubsInv, Restarting
    <3>4. CASE w # subs
      BY <1>1, <1>2, <1>3, <1>4, <1>6, <3>1, <3>2, <3>4 DEF SubsInv, Restarting
    <3> QED
      BY <3>3, <3>4
  <2> QED
    BY <1>1, <1>2, <1>3, <1>4, <2>1, <2>2, <2>3, <2>4 DEF SubsInv, TypeOK, Restarting
<1>8. RaceInv'
  BY <1>1, <1>2, <1>3, <1>4 DEF RaceInv, TypeOK
<1>9. ReturnInv' /\ FileInv' /\ (closed' => pc' = "returned")
  BY <1>2, <1>3 DEF ReturnInv, FileInv, TypeOK
<1>10. AwaitInv'
  <2>1. /\ Cardinality(Awaiting)' =
             Cardinality(Awaiting) + Bit(step = "await") - Bit(watcher[w] = "await")
        /\ Cardinality(Awaiting) \in Nat
    BY <1>4, AwaitingStep, AwaitingFinite
  <2>2. Restarting' = Restarting
    BY <1>2 DEF Restarting
  <2>3. pc \notin Final => ~closed
    BY DEF Final
  <2> QED
    BY <1>1, <1>2, <1>3, <2>1, <2>2, <2>3 DEF AwaitInv, Bit, TypeOK
<1> QED
  BY <1>5, <1>7, <1>8, <1>9, <1>10

\* A call of Quit.  One that returns unmarked has the token of the last stop.
LEMMA QuitIInv ==
    ASSUME IInv, NEW q \in Quitters,
           \/ QuitBeforeServe(q) \/ QuitCalled(q) \/ QuitCancelled(q) \/ QuitSend(q) \/ QuitDone(q)
    PROVE  IInv'
<1> USE DEF IInv
<1>1. UNCHANGED <<server, rpcs, ctxDone, watchers, serving, closed>>
  BY DEF QuitBeforeServe, QuitCalled, QuitCancelled, QuitSend, QuitDone, SendQuit, ReceiveStopped,
         channels
<1>2. PICK step \in {"send", "await", "returned", "refused"} :
         /\ caller' = [caller EXCEPT ![q] = step]
         /\ step \in {"await", "returned"} => caller[q] \in {"send", "await"}
  BY DEF QuitBeforeServe, QuitCalled, QuitCancelled, QuitSend, QuitDone
<1>3. /\ quit' \in {"graceful", "force", quit} /\ (quit' = "restart" => quit = "restart")
      /\ tokens' \in {tokens, 0} /\ force' \in SUBSET Quitters
      /\ raced \subseteq raced' /\ raced' \in SUBSET Quitters
      /\ step = "send" => q \in raced' \/ \A w \in Watchers : watcher[w] \notin {"send", "await"}
      /\ step = "returned" => raced' = raced /\ (tokens > 0 \/ closed)
  BY <1>2 DEF QuitBeforeServe, QuitCalled, QuitCancelled, QuitSend, QuitDone, SendQuit,
              ReceiveStopped, channels, TypeOK
<1>4. TypeOK'
  BY <1>1, <1>2, <1>3 DEF TypeOK, server, watchers
<1>5. SubsInv' /\ FileInv' /\ (closed' => pc' = "returned")
  BY <1>1, <1>3 DEF SubsInv, FileInv, Restarting, server, watchers
<1>6. RaceInv'
  BY <1>1, <1>2, <1>3 DEF RaceInv, TypeOK, watchers
<1>7. AwaitInv'
  <2>1. Cardinality(Awaiting)' = Cardinality(Awaiting) /\ Cardinality(Awaiting) \in Nat
    BY <1>1, AwaitingSame, AwaitingFinite DEF watchers
  <2>2. pc' = pc /\ Restarting' = Restarting
    BY <1>1 DEF server, Restarting
  <2> QED
    BY <1>3, <2>1, <2>2 DEF AwaitInv, Bit, TypeOK
<1>8. ReturnInv'
  <2>1. SUFFICES ASSUME NEW p \in Quitters, caller'[p] = "returned", p \notin raced'
                 PROVE  pc \in Final
    BY <1>1 DEF ReturnInv, server
  <2>2. CASE p = q /\ step = "returned"
    <3>1. \A w \in Watchers : watcher[w] # "await"
      BY <1>2, <1>3, <2>1, <2>2 DEF RaceInv
    <3>2. Cardinality(Awaiting) = 0
      BY <3>1, FS_EmptySet DEF Awaiting
    <3>3. CASE tokens > 0
      BY <3>2, <3>3 DEF AwaitInv, Bit, TypeOK
    <3>4. CASE closed
      BY <3>4 DEF Final
    <3> QED
      BY <1>3, <2>2, <3>3, <3>4
  <2>3. CASE p # q \/ step # "returned"
    BY <1>2, <1>3, <2>1, <2>3 DEF ReturnInv, TypeOK
  <2> QED
    BY <2>2, <2>3
<1> QED
  BY <1>4, <1>5, <1>6, <1>7, <1>8

-----------------------------------------------------------------------------
\* New establishes the invariant.
LEMMA InitIInv == Init => IInv
<1> SUFFICES ASSUME Init PROVE IInv
  OBVIOUS
<1>1. TypeOK
  <2>1. {serving, closed, serveErr, rpcs, ctxDone} \subseteq BOOLEAN
    BY DEF Init
  <2>2. /\ watcher \in [Watchers -> {"none", "wait", "send", "await", "report", "done"}]
        /\ caller \in [Quitters -> {"idle", "send", "await", "returned", "refused"}]
        /\ subs \in 0 .. MaxSubs /\ tokens \in 0 .. 1
    BY DEF Init
  <2> QED
    BY <2>1, <2>2 DEF Init, TypeOK
<1>2. SubsInv /\ FileInv /\ RaceInv /\ ReturnInv /\ (closed => pc = "returned")
  BY DEF Init, SubsInv, FileInv, RaceInv, ReturnInv, Restarting, Final
<1>3. AwaitInv
  <2>1. tokens = 0 /\ quit = "empty" /\ ~Restarting
    BY DEF Init, Restarting
  <2> QED
    BY <2>1, AwaitingFinite DEF AwaitInv, Bit
<1> QED
  BY <1>1, <1>2, <1>3 DEF IInv

\* Every step keeps it.
LEMMA NextIInv == IInv /\ [Next]_vars => IInv'
<1> SUFFICES ASSUME IInv, [Next]_vars PROVE IInv'
  OBVIOUS
<1>1. CASE SetupOK \/ SetupFails
  BY <1>1, SetupIInv
<1>2. CASE \/ Serve \/ ServerError \/ TakeCtx \/ TakeErr \/ TakeQuit \/ ServerStops \/ RemoveFile
           \/ Signal \/ CleanupCancel \/ BeginRPC \/ EndRPC \/ CancelContext \/ UNCHANGED vars
  BY <1>2, ServeIInv
<1>3. CASE CleanupClose
  BY <1>3, CloseIInv
<1>4. CASE \E w \in Watchers : \/ WatchCancelled(w) \/ WatchFails(w) \/ WatchFound(w)
                               \/ RestartCancelled(w) \/ RestartSend(w) \/ RestartDone(w)
  BY <1>4, WatcherIInv
<1>5. CASE \E q \in Quitters :
             \/ QuitBeforeServe(q) \/ QuitCalled(q) \/ QuitCancelled(q) \/ QuitSend(q) \/ QuitDone(q)
  BY <1>5, QuitIInv
<1> QED
  BY <1>1, <1>2, <1>3, <1>4, <1>5 DEF Next

\* What the two theorems rest on.
LEMMA Invariance == Spec => []IInv
BY InitIInv, NextIInv, PTL DEF Spec

\* App.Quit may stop the pro services when Daemon.Quit has returned: the server is down for
\* good and its address file withdrawn, unless a watcher asked for a restart meanwhile.
THEOREM QuitStops == Spec => []QuitMeansStopped
<1>1. IInv => QuitMeansStopped
  BY DEF IInv, ReturnInv, FileInv, Final, QuitMeansStopped
<1> QED
  BY Invariance, <1>1, PTL

\* However often the network changes, a watcher that d.netSubs has forgotten asks for no
\* restart, and a request for one in d.quit is that of the last watcher.
THEOREM ForgottenWatchersAreSilent == Spec => []ReplacedWatcherIsSilent
<1>1. IInv => ReplacedWatcherIsSilent
  BY DEF IInv, SubsInv, ReplacedWatcherIsSilent
<1> QED
  BY Invariance, <1>1, PTL
=============================================================================
