----------------------------- MODULE AgentConfig -----------------------------
(***************************************************************************)
(* The agent's configuration (config), its sources and its observers.      *)
(* The Ubuntu Pro token comes from the registry, the Microsoft Store or    *)
(* the user, the Landscape configuration from the registry or the user.    *)
(* The registry watcher, the handlers of the graphical interface and       *)
(* Landscape's command AssignHost change it; every change is announced to  *)
(* the distros (a task each) and to the cloud-init file.                   *)
(* Every section under Config.mu begins with load and is one step.  What   *)
(* happens between two sections of a call, and the reads of c.Landscape    *)
(* without the mutex, are where the others may act.                        *)
(***************************************************************************)
EXTENDS Integers, Sequences

CONSTANTS
    Tokens,      \* Ubuntu Pro tokens
    Confs,       \* texts of Landscape configurations
    BadConfs,    \* the ones completeLandscapeConfig cannot parse
    Uids,        \* UIDs that Landscape assigns to the agent
    None,        \* the empty string
    Users,       \* calls of the graphical interface that may be in progress at once
    MaxCalls,    \* bound: calls of the interface and of Landscape that change something
    MaxChanges,  \* bound: changes of the registry
    MaxFaults    \* bound: failures of the disk or the registry, and ends of the agent

Watcher == "watcher"
Host    == "host"
Threads == Users \cup {Watcher, Host}

ASSUME ValuesAssumption ==
    /\ BadConfs \subseteq Confs
    /\ None \notin Tokens \cup Confs \cup Uids \cup [conf : Confs, uid : Uids \cup {None}]
    /\ Users \cap {Watcher, Host} = {}
ASSUME BoundsAssumption ==
    {MaxCalls, MaxChanges, MaxFaults} \subseteq Nat

VARIABLES
    mem,     \* Config.configState
    file,    \* the configuration file
    reg,     \* the registry key
    wedged,  \* Landscape's connMu is taken and will not be given back
    watch,   \* the event of RegNotifyChangeKeyValue: off, armed or fired
    sent,    \* the newest ProAttachment and LandscapeConfigure tasks of the distros
    yaml,    \* the cloud-init file agent.yaml
    pc, local,                          \* the threads
    calls, changes, faults,             \* what the bounds count
    missed,  \* history: the last push of the registry failed, or none was made
    lapses   \* history: the windows and failures that the behaviour has met

bounds  == <<calls, changes, faults>>
stores  == <<mem, file>>
outputs == <<sent, yaml>>
threads == <<pc, local>>
vars    == <<mem, file, reg, wedged, watch, sent, yaml, pc, local, calls, changes, faults,
             missed, lapses>>

-----------------------------------------------------------------------------
(* The configuration and its sources.                                      *)

Token  == Tokens \cup {None}
Client == [conf : Confs \ BadConfs, uid : Uids \cup {None}] \cup {None}
State  == [user : Token, store : Token, org : Token, tokenSum : Token,
           userConf : Client, orgConf : Client, confSum : Client, uid : Uids \cup {None}]

\* A configuration without a file, as New makes it.
Empty == [user |-> None, store |-> None, org |-> None, tokenSum |-> None,
          userConf |-> None, orgConf |-> None, confSum |-> None, uid |-> None]

\* What is in the registry is not in the file; load keeps it.
OnDisk(s) == [s EXCEPT !.org = None, !.orgConf = None]
Load      == [file EXCEPT !.org = mem.org, !.orgConf = mem.orgConf]

\* subscription.resolve
SourceOf(s) ==
    IF s.org # None THEN "registry" ELSE IF s.store # None THEN "store"
    ELSE IF s.user # None THEN "user" ELSE "none"
TokenOf(s) ==
    CASE SourceOf(s) = "registry" -> s.org   [] SourceOf(s) = "store" -> s.store
      [] SourceOf(s) = "user"     -> s.user  [] OTHER -> None
Rank == [none |-> 0, user |-> 1, store |-> 2, registry |-> 3]

\* landscapeConf.resolve
ConfOf(s) == IF s.orgConf # None THEN s.orgConf ELSE s.userConf

\* completeLandscapeConfig sets hostagent_uid, and leaves it alone when there is
\* no UID.
Complete(c, u) == IF c = None \/ u = None THEN c ELSE [c EXCEPT !.uid = u]

\* The text of a configuration before it is completed.
Raw(c) == IF c \in BadConfs \cup {None} THEN None ELSE [conf |-> c, uid |-> None]

-----------------------------------------------------------------------------
(* Threads and notifications.                                              *)

Blank == [field |-> "", value |-> None, next |-> "", notes |-> <<>>,
          token |-> None, conf |-> None]

\* A notification: about the token, or about the Landscape configuration with the
\* UID it was made with, or, if that is {}, the one found when it is delivered.
Note(about, value, uid) == [about |-> about, value |-> value, uid |-> uid]

Pending(t) == {local[t].notes[i].about : i \in DOMAIN local[t].notes}

\* The services answer once the watcher's Start has returned.
Started == pc[Watcher] = "arm" \/ local[Watcher].next \in {"sleep", "backoff"}

Goto(t, p) == pc' = [pc EXCEPT ![t] = p]

\* The end of a call: the watcher goes on, the others forget their arguments.
Finish(t, p) ==
    /\ Goto(t, p)
    /\ local' = [local EXCEPT ![t] = IF t = Watcher
                                     THEN [Blank EXCEPT !.next = local[t].next] ELSE Blank]

\* After an error NotifyPurchase still replies; the other handlers return.
Refuse(t) ==
    Finish(t, CASE t = Watcher -> local[t].next
                [] t \in Users /\ local[t].field = "store" /\ pc[t] # "reply" -> "reply"
                [] OTHER -> "idle")

\* After the change, the observers are notified without the mutex.
Announce(t, notes) ==
    IF notes = <<>>
    THEN Finish(t, CASE t = Watcher -> local[t].next [] t = Host -> "idle" [] OTHER -> "reply")
    ELSE /\ Goto(t, "notify")
         /\ local' = [local EXCEPT ![t] = [Blank EXCEPT !.next = local[t].next, !.notes = notes]]

\* The announcement overtakes, or is overtaken by, one that is not finished.
Races(t, notes) ==
    LET abouts == {notes[i].about : i \in DOMAIN notes}
        others == UNION {Pending(u) : u \in Threads \ {t}}
    IN  (IF abouts \cap others # {} THEN {"order"} ELSE {})
        \cup (IF abouts # {} /\ others # {} THEN {"overlap"} ELSE {})

Lapse(l, condition) == IF condition THEN {l} ELSE {}

\* A failure that the environment may still inject.
Fault == faults < MaxFaults /\ faults' = faults + 1

\* WriteFile fails before or after it has truncated the file.
DumpFails ==
    /\ Fault
    /\ file' \in {file, Empty}

-----------------------------------------------------------------------------
(* The sections of Config under its mutex.                                 *)

Critical == {"shop", "check", "set", "setUid", "push", "ciToken", "ciConf", "reply"}

\* load fails: the file cannot be read.
LoadFails(t) ==
    /\ pc[t] \in Critical \ {"ciToken", "ciConf"}
    /\ Fault
    /\ missed' = (missed \/ pc[t] = "push")
    /\ Refuse(t)
    /\ UNCHANGED <<stores, reg, wedged, watch, outputs, calls, changes, lapses>>

\* Set{User,Store}Subscription: the check, in a section of its own.
CheckPriority(u) ==
    /\ pc[u] = "check"
    /\ mem' = Load
    /\ IF Rank[SourceOf(Load)] > Rank[local[u].field]
       THEN Refuse(u)
       ELSE Goto(u, "set") /\ UNCHANGED local
    /\ UNCHANGED <<file, reg, wedged, watch, outputs, bounds, missed, lapses>>

\* What a read of c.Landscape without the mutex may see: while another thread is in
\* load, the state read from the file, in which the registry's values are not yet
\* restored.
Seen(u) ==
    {mem} \cup (IF \E t \in Threads \ {u} : pc[t] \in Critical THEN {file} ELSE {})

\* SetUserLandscapeConfig: the check and the completion, without the mutex.
CheckConf(u) ==
    /\ pc[u] = "checkConf"
    /\ \E s \in Seen(u) :
          IF s.orgConf # None
          THEN Refuse(u)
          ELSE /\ Goto(u, "set")
               /\ local' = [local EXCEPT ![u].value = Complete(local[u].value, s.uid)]
    /\ UNCHANGED <<stores, reg, wedged, watch, outputs, bounds, missed, lapses>>

\* set, and the notification of the new value by its caller.
Set(u) ==
    /\ pc[u] = "set"
    /\ LET f     == local[u].field
           v     == local[u].value
           new   == [Load EXCEPT ![f] = v]
           notes == IF Load[f] = v THEN <<>>
                    ELSE <<Note(IF f = "userConf" THEN "conf" ELSE "token", v, {})>>
       IN  /\ mem' = new
           /\ file' = IF Load[f] = v THEN file ELSE OnDisk(new)
           /\ Announce(u, notes)
           /\ lapses' = lapses \cup Races(u, notes)
                 \cup Lapse("unresolved", notes # <<>> /\
                             v # IF f = "userConf" THEN ConfOf(new) ELSE TokenOf(new))
                 \cup Lapse("blind", notes # <<>> /\ f # "userConf" /\ new.org # new.tokenSum)
                 \cup Lapse("stale", f = "userConf" /\ v # Complete(v, new.uid))
    /\ UNCHANGED <<reg, wedged, watch, outputs, bounds, missed>>

\* set cannot write the file and takes the value back.
SetFails(u) ==
    /\ pc[u] = "set" /\ Load[local[u].field] # local[u].value
    /\ DumpFails
    /\ mem' = Load
    /\ Refuse(u)
    /\ lapses' = lapses \cup Lapse("disk", file' # file)
    /\ UNCHANGED <<reg, wedged, watch, outputs, calls, changes, missed>>

\* setAgentUIDAndUpdateClientConf has something to do.
UidIsNew == Load.uid # local[Host].value /\ ConfOf(Load) # None

\* It changes the configuration in force; one that it shadows keeps the old UID.
\* Without a configuration the UID is dropped.  The handshake, which calls it to take the
\* UID back, holds the connMu that the notification will wait for.
SetAgentUid ==
    /\ pc[Host] = "setUid"
    /\ LET u     == local[Host].value
           conf  == Complete(ConfOf(Load), u)
           new   == IF Load.orgConf # None
                    THEN [Load EXCEPT !.orgConf = conf, !.uid = u]
                    ELSE [Load EXCEPT !.userConf = conf, !.uid = u]
           notes == IF UidIsNew THEN <<Note("conf", conf, {u})>> ELSE <<>>
       IN  /\ mem' = IF UidIsNew THEN new ELSE Load
           /\ file' = IF UidIsNew THEN OnDisk(new) ELSE file
           /\ Announce(Host, notes)
           /\ lapses' = lapses \cup Races(Host, notes)
                 \cup Lapse("shadow", UidIsNew /\ Load.orgConf # None /\ Load.userConf # None)
    /\ wedged' = (wedged \/ (UidIsNew /\ local[Host].value = None))
    /\ UNCHANGED <<reg, watch, outputs, bounds, missed>>

\* It cannot write the file and rolls back.
SetAgentUidFails ==
    /\ pc[Host] = "setUid" /\ UidIsNew
    /\ DumpFails
    /\ mem' = Load
    /\ Refuse(Host)
    /\ lapses' = lapses \cup Lapse("disk", file' # file)
    /\ UNCHANGED <<reg, wedged, watch, outputs, calls, changes, missed>>

\* Wrong: a configuration that was removed is not noticed.
PushedIgnoresRemoval(t) ==
    LET conf == Complete(Raw(local[t].conf), Load.uid)
        pro  == [Load EXCEPT !.org = local[t].token, !.tokenSum = local[t].token]
    IN  IF conf # None /\ Load.confSum # conf
        THEN [pro EXCEPT !.orgConf = conf, !.confSum = conf] ELSE pro

\* Wrong: the configuration of the registry is not completed.
PushedIncomplete(t) ==
    LET conf == Raw(local[t].conf)
        pro  == [Load EXCEPT !.org = local[t].token, !.tokenSum = local[t].token]
    IN  IF Load.confSum # conf THEN [pro EXCEPT !.orgConf = conf, !.confSum = conf] ELSE pro

\* UpdateRegistryData up to its dump.  The token is taken over whether or not it is
\* new, the Landscape configuration only if its checksum is.
Pushed(t) ==
    LET conf == Complete(Raw(local[t].conf), Load.uid)
        pro  == [Load EXCEPT !.org = local[t].token, !.tokenSum = local[t].token]
    IN  IF Load.confSum # conf THEN [pro EXCEPT !.orgConf = conf, !.confSum = conf] ELSE pro

\* Wrong: the token of the registry is announced, not the one in force.
PushNotesUnresolved(t) ==
    LET new == Pushed(t)
    IN  (IF Load.tokenSum # new.tokenSum THEN <<Note("token", new.org, {})>> ELSE <<>>)
        \o (IF Load.confSum # new.confSum THEN <<Note("conf", ConfOf(new), {})>> ELSE <<>>)

\* The values it resolves are announced; the notification of the token comes first.
PushNotes(t) ==
    LET new == Pushed(t)
    IN  (IF Load.tokenSum # new.tokenSum THEN <<Note("token", TokenOf(new), {})>> ELSE <<>>)
        \o (IF Load.confSum # new.confSum THEN <<Note("conf", ConfOf(new), {})>> ELSE <<>>)

UpdateRegistryData ==
    /\ pc[Watcher] = "push"
    /\ mem' = Pushed(Watcher)
    /\ file' = OnDisk(mem')
    /\ missed' = FALSE
    /\ Announce(Watcher, PushNotes(Watcher))
    /\ lapses' = lapses \cup Races(Watcher, PushNotes(Watcher))
          \cup Lapse("silent", TokenOf(mem') # TokenOf(Load) /\ mem'.tokenSum = Load.tokenSum)
          \cup Lapse("forgotten", mem'.orgConf = None /\ Raw(local[Watcher].conf) # None)
    /\ UNCHANGED <<reg, wedged, watch, outputs, bounds>>

\* dump fails: nothing is taken back and the notifications are sent.
UpdateRegistryDataFails ==
    /\ pc[Watcher] = "push"
    /\ DumpFails
    /\ mem' = Pushed(Watcher)
    /\ missed' = TRUE
    /\ Announce(Watcher, PushNotes(Watcher))
    /\ lapses' = lapses \cup Races(Watcher, PushNotes(Watcher)) \cup {"disk"}
    /\ UNCHANGED <<reg, wedged, watch, outputs, calls, changes>>

\* The section ends with a dump.
Dumps(t) ==
    \/ pc[t] = "push"
    \/ pc[t] = "set" /\ Load[local[t].field] # local[t].value
    \/ pc[t] = "setUid" /\ UidIsNew

-----------------------------------------------------------------------------
(* The notifiers that proservices.New installs.                            *)

\* Wrong: Landscape is enabled in the distros without a UID.
DeliverWithoutUid(t) ==
    /\ pc[t] = "notify"
    /\ LET n == Head(local[t].notes)
       IN  sent' = [sent EXCEPT ![n.about] = n.value]
    /\ Goto(t, "ciToken")
    /\ UNCHANGED <<stores, reg, wedged, watch, yaml, local, bounds, missed, lapses>>

\* Wrong: the cloud-init file is not updated for a Landscape configuration.
DeliverToDistrosOnly(t) ==
    /\ pc[t] = "notify"
    /\ LET n   == Head(local[t].notes)
           uid == IF n.uid = {} THEN mem.uid ELSE CHOOSE u \in n.uid : TRUE
       IN  /\ sent' = IF n.about = "token" THEN [sent EXCEPT !.token = n.value]
                      ELSE [sent EXCEPT !.conf = IF uid = None THEN None ELSE n.value]
           /\ IF n.about = "token" THEN Goto(t, "ciToken") /\ UNCHANGED local
              ELSE Announce(t, Tail(local[t].notes))
    /\ UNCHANGED <<stores, reg, wedged, watch, yaml, bounds, missed, lapses>>

\* ubuntupro.Distribute, or NotifyConfigUpdate with distributeConfig: Landscape is
\* enabled in the distros only if the agent has a UID.
Deliver(t) ==
    /\ pc[t] = "notify"
    /\ LET n   == Head(local[t].notes)
           uid == IF n.uid = {} THEN mem.uid ELSE CHOOSE u \in n.uid : TRUE
       IN  sent' = IF n.about = "token" THEN [sent EXCEPT !.token = n.value]
                   ELSE [sent EXCEPT !.conf = IF uid = None THEN None ELSE n.value]
    /\ Goto(t, "ciToken")
    /\ UNCHANGED <<stores, reg, wedged, watch, yaml, local, bounds, missed, lapses>>

\* reconnectIfNewSettings, which waits for connMu, comes before cloudInit.Update: two reads
\* of the configuration, then the file.
CloudInitToken(t) ==
    /\ pc[t] = "ciToken" /\ ~wedged
    /\ mem' = Load
    /\ local' = [local EXCEPT ![t].token = TokenOf(Load)]
    /\ Goto(t, "ciConf")
    /\ UNCHANGED <<file, reg, wedged, watch, outputs, bounds, missed, lapses>>

CloudInitConf(t) ==
    /\ pc[t] = "ciConf"
    /\ mem' = Load
    /\ local' = [local EXCEPT ![t].conf = ConfOf(Load)]
    /\ Goto(t, "ciWrite")
    /\ UNCHANGED <<file, reg, wedged, watch, outputs, bounds, missed, lapses>>

CloudInitWrite(t) ==
    /\ pc[t] = "ciWrite"
    /\ yaml' = [token |-> local[t].token, conf |-> local[t].conf]
    /\ Announce(t, Tail(local[t].notes))
    /\ UNCHANGED <<stores, reg, wedged, watch, sent, bounds, missed, lapses>>

\* A read or the write fails: Update only logs it.
CloudInitFails(t) ==
    /\ pc[t] \in {"ciToken", "ciConf", "ciWrite"} /\ (pc[t] = "ciToken" => ~wedged)
    /\ Fault
    /\ Announce(t, Tail(local[t].notes))
    /\ lapses' = lapses \cup {"yaml"}
    /\ UNCHANGED <<stores, reg, wedged, watch, outputs, calls, changes, missed>>

-----------------------------------------------------------------------------
(* The agent's start and the registry watcher.                             *)

\* cloudinit.New writes agent.yaml before the registry is read.
Boot ==
    /\ pc[Watcher] = "boot"
    /\ mem' = Load
    /\ yaml' = [token |-> TokenOf(Load), conf |-> ConfOf(Load)]
    /\ Goto(Watcher, "readToken")
    /\ local' = [local EXCEPT ![Watcher].next = "arm"]
    /\ UNCHANGED <<file, reg, wedged, watch, sent, bounds, missed, lapses>>

\* The key, or its parent, is watched before it is read.
Arm ==
    /\ pc[Watcher] = "arm"
    /\ watch' = "armed"
    /\ Goto(Watcher, "readToken")
    /\ local' = [local EXCEPT ![Watcher].next = "sleep"]
    /\ UNCHANGED <<stores, reg, wedged, outputs, bounds, missed, lapses>>

\* The watch, or the wait for its event, fails: the registry is read all the same
\* and the watch is tried again after a delay.
WatchFails ==
    /\ pc[Watcher] \in {"arm", "sleep"}
    /\ Fault
    /\ watch' = "off"
    /\ Goto(Watcher, "readToken")
    /\ local' = [local EXCEPT ![Watcher].next = "backoff"]
    /\ UNCHANGED <<stores, reg, wedged, outputs, calls, changes, missed, lapses>>

\* loadRegistry reads one value after the other.
ReadToken ==
    /\ pc[Watcher] = "readToken"
    /\ local' = [local EXCEPT ![Watcher].token = reg.token]
    /\ Goto(Watcher, "readConf")
    /\ UNCHANGED <<stores, reg, wedged, watch, outputs, bounds, missed, lapses>>

ReadConf ==
    /\ pc[Watcher] = "readConf"
    /\ local' = [local EXCEPT ![Watcher].conf = reg.conf]
    /\ Goto(Watcher, "push")
    /\ UNCHANGED <<stores, reg, wedged, watch, outputs, bounds, missed, lapses>>

ReadFails ==
    /\ pc[Watcher] \in {"readToken", "readConf"}
    /\ Fault
    /\ missed' = TRUE
    /\ Refuse(Watcher)
    /\ UNCHANGED <<stores, reg, wedged, watch, outputs, calls, changes, lapses>>

\* Wrong: a watch that failed is not tried again.
WakeOnEvent ==
    /\ pc[Watcher] = "sleep" /\ watch = "fired"
    /\ watch' = "off"
    /\ Goto(Watcher, "arm")
    /\ UNCHANGED <<stores, reg, wedged, outputs, local, bounds, missed, lapses>>

\* The event was set, or the delay is over.
Wake ==
    /\ \/ pc[Watcher] = "sleep" /\ watch = "fired"
       \/ pc[Watcher] = "backoff"
    /\ watch' = "off"
    /\ Goto(Watcher, "arm")
    /\ UNCHANGED <<stores, reg, wedged, outputs, local, bounds, missed, lapses>>

-----------------------------------------------------------------------------
(* Calls of the graphical interface and of Landscape.                      *)

Call(t, p, field, value) ==
    /\ Started /\ pc[t] = "idle"
    /\ calls < MaxCalls /\ calls' = calls + 1
    /\ Goto(t, p)
    /\ local' = [local EXCEPT ![t].field = field, ![t].value = value]
    /\ UNCHANGED <<file, reg, wedged, watch, outputs, changes, faults, missed, lapses>>

\* An empty token detaches.
ApplyProToken(u) ==
    \E token \in Token : Call(u, "check", "user", token) /\ UNCHANGED mem

\* A text that cannot be parsed is refused with no effect.
ApplyLandscapeConfig(u) ==
    \E c \in (Confs \ BadConfs) \cup {None} :
        Call(u, "checkConf", "userConf", Raw(c)) /\ UNCHANGED mem

NotifyPurchase(u) == Call(u, "shop", "store", None) /\ UNCHANGED mem

\* FetchFromMicrosoftStore: the subscription is still valid, something fails, or
\* there is a token.
FetchFromMicrosoftStore(u) ==
    /\ pc[u] = "shop"
    /\ mem' = Load
    /\ \/ Finish(u, "reply")
       \/ \E token \in Tokens :
             local' = [local EXCEPT ![u].value = token] /\ Goto(u, "check")
    /\ UNCHANGED <<file, reg, wedged, watch, outputs, bounds, missed, lapses>>

\* Landscape's command brings a UID, which is never empty.
AssignHost ==
    \E uid \in Uids : Call(Host, "setUid", "uid", uid) /\ mem' = Load

\* The handshake waits for one and, when it has waited long enough, takes it back.
ExpireHandshake == Call(Host, "setUid", "uid", None) /\ mem' = Load

GetConfigSources(u) ==
    /\ Started /\ pc[u] = "idle"
    /\ Goto(u, "reply")
    /\ UNCHANGED <<stores, reg, wedged, watch, outputs, local, bounds, missed, lapses>>

\* The source in force is read for the answer.
Reply(u) ==
    /\ pc[u] = "reply"
    /\ mem' = Load
    /\ Finish(u, "idle")
    /\ UNCHANGED <<file, reg, wedged, watch, outputs, bounds, missed, lapses>>

-----------------------------------------------------------------------------
(* The environment.                                                        *)

\* Somebody writes a value of the key.
ChangeRegistry ==
    /\ changes < MaxChanges /\ changes' = changes + 1
    /\ \/ \E token \in Token \ {reg.token} : reg' = [reg EXCEPT !.token = token]
       \/ \E c \in (Confs \cup {None}) \ {reg.conf} : reg' = [reg EXCEPT !.conf = c]
    /\ watch' = IF watch = "armed" THEN "fired" ELSE watch
    /\ UNCHANGED <<stores, wedged, outputs, threads, calls, faults, missed, lapses>>

\* The Landscape client's loop takes connMu and waits for the handler of AssignHost, which
\* waits for connMu (LandscapeClient, Wedged).
Wedge ==
    /\ pc[Host] = "ciToken" /\ ~wedged
    /\ wedged' = TRUE
    /\ UNCHANGED <<stores, reg, watch, outputs, threads, bounds, missed, lapses>>

\* The agent ends at any point, in WriteFile too, and starts again.
Restart ==
    /\ Fault
    /\ file' \in IF \E t \in Threads : Dumps(t) THEN {file, Empty} ELSE {file}
    /\ mem' = Empty
    /\ watch' = "off"
    /\ pc' = [t \in Threads |-> IF t = Watcher THEN "boot" ELSE "idle"]
    /\ local' = [t \in Threads |-> Blank]
    /\ missed' = TRUE
    /\ lapses' = lapses \cup Lapse("disk", file' # file)
                        \cup Lapse("crash", \E t \in Threads : Pending(t) # {})
    /\ wedged' = FALSE
    /\ UNCHANGED <<reg, outputs, calls, changes>>

-----------------------------------------------------------------------------
Init ==
    /\ mem = Empty /\ file = Empty
    /\ reg \in [token : Token, conf : Confs \cup {None}]
    /\ wedged = FALSE /\ watch = "off"
    /\ sent = [token |-> None, conf |-> None] /\ yaml = sent
    /\ pc = [t \in Threads |-> IF t = Watcher THEN "boot" ELSE "idle"]
    /\ local = [t \in Threads |-> Blank]
    /\ calls = 0 /\ changes = 0 /\ faults = 0
    /\ missed = TRUE /\ lapses = {}

Observe(t) == Deliver(t) \/ CloudInitToken(t) \/ CloudInitConf(t) \/ CloudInitWrite(t)

Watch == Boot \/ Arm \/ ReadToken \/ ReadConf \/ UpdateRegistryData \/ Wake \/ Observe(Watcher)

Serve(u) ==
    CheckPriority(u) \/ CheckConf(u) \/ Set(u) \/ FetchFromMicrosoftStore(u) \/ Reply(u)
    \/ Observe(u)

Next ==
    \/ \E u \in Users : \/ ApplyProToken(u) \/ ApplyLandscapeConfig(u)
                        \/ NotifyPurchase(u) \/ FetchFromMicrosoftStore(u)
                        \/ GetConfigSources(u) \/ CheckPriority(u) \/ CheckConf(u)
                        \/ Set(u) \/ SetFails(u) \/ Reply(u)
    \/ AssignHost \/ ExpireHandshake \/ SetAgentUid \/ SetAgentUidFails
    \/ Boot \/ Arm \/ WatchFails \/ ReadToken \/ ReadConf \/ ReadFails
    \/ UpdateRegistryData \/ UpdateRegistryDataFails \/ Wake
    \/ \E t \in Threads : \/ LoadFails(t) \/ Deliver(t) \/ CloudInitToken(t)
                          \/ CloudInitConf(t) \/ CloudInitWrite(t) \/ CloudInitFails(t)
    \/ ChangeRegistry \/ Wedge \/ Restart

\* Goroutines that can run do, which those that wait for connMu cannot once it is taken for
\* good; nobody has to call, write to the registry or fail.
Fairness ==
    /\ WF_vars(Watch)
    /\ WF_vars(SetAgentUid \/ Observe(Host))
    /\ \A u \in Users : WF_vars(Serve(u))

Spec == Init /\ [][Next]_vars /\ Fairness
-----------------------------------------------------------------------------
Local == [field : {"", "user", "store", "userConf", "uid"},
          value : Token \cup Client \cup Uids,
          next : {"", "arm", "sleep", "backoff"},
          notes : Seq([about : {"token", "conf"}, value : Token \cup Client,
                       uid : SUBSET (Uids \cup {None})]),
          token : Token, conf : Client \cup Confs]

TypeOK ==
    /\ mem \in State /\ file \in State /\ file = OnDisk(file)
    /\ reg \in [token : Token, conf : Confs \cup {None}]
    /\ wedged \in BOOLEAN /\ watch \in {"off", "armed", "fired"}
    /\ sent \in [token : Token, conf : Client] /\ yaml \in [token : Token, conf : Client]
    /\ pc \in [Threads -> {"idle", "shop", "check", "checkConf", "set", "setUid", "reply",
                           "notify", "ciToken", "ciConf", "ciWrite", "boot", "arm",
                           "readToken", "readConf", "push", "sleep", "backoff"}]
    /\ DOMAIN local = Threads
    /\ \A t \in Threads : local[t] \in Local
    /\ calls \in 0..MaxCalls /\ changes \in 0..MaxChanges
    /\ faults \in 0..MaxFaults
    /\ missed \in BOOLEAN
    /\ lapses \subseteq {"order", "overlap", "unresolved", "blind", "stale", "shadow", "silent",
                         "forgotten", "disk", "yaml", "crash"}

\* The watcher sleeps and no change of the registry will wake it up.
Asleep == pc[Watcher] = "sleep" /\ watch = "armed"

\* Nobody is in the middle of anything.
Quiet == Asleep /\ \A t \in Threads \ {Watcher} : pc[t] = "idle"

\* While the watcher sleeps, the agent has the registry's Landscape configuration, if
\* the registry has one, although it is taken over only when its checksum is new:
\* true until the agent is restarted or the file is lost.
NoSilentConfChange ==
    Asleep /\ ~missed /\ lapses \cap {"forgotten", "disk"} = {} =>
        IF Raw(reg.conf) = None THEN mem.orgConf = None
        ELSE mem.orgConf # None /\ mem.orgConf.conf = reg.conf

\* The distros end up with the token in force, although it is announced outside
\* the mutex, and although a restarted agent takes over a token of the registry whose
\* checksum it knows without announcing it: only two announcements at once, a check of the
\* priority that is out of date when the value is set, a token that is set while the
\* registry's has not been read again, an end of the agent before the announcement or a
\* file that could not be written can leave them with another one.
TokenInForceIsDistributed ==
    Quiet /\ ~missed /\ lapses \cap {"order", "unresolved", "blind", "crash", "disk"} = {} =>
        sent.token = TokenOf(mem)

\* The same for the Landscape configuration, which the distros have only while the
\* agent has a UID.
ConfInForceIsDistributed ==
    Quiet /\ ~missed
    /\ lapses \cap {"order", "unresolved", "crash", "disk", "forgotten"} = {} =>
        sent.conf = IF mem.uid = None THEN None ELSE ConfOf(mem)

\* The configuration in force names the agent's UID, as setAgentUIDAndUpdateClientConf
\* is there to ensure, unless the UID changed while another configuration shadowed it
\* or between its completion and its storage.
ConfCarriesUid ==
    lapses \cap {"shadow", "stale"} = {} =>
        (ConfOf(mem) # None /\ mem.uid # None => ConfOf(mem).uid = mem.uid)

\* Observers "are notified after any configuration changes": the cloud-init file is
\* what the configuration in force makes it, unless updates overlapped or failed, or
\* a restarted agent took over a token of the registry whose checksum it knew, which
\* it does without telling anybody after Boot has written the file.
CloudInitIsCurrent ==
    Quiet /\ ~missed /\ lapses = {} => yaml = [token |-> TokenOf(mem), conf |-> ConfOf(mem)]

\* A token that stays in the registry reaches the configuration: the watcher comes
\* back after every failure, unless it fell asleep after a read or a push that failed, or
\* waits inside a notification for the connMu of a Landscape client that is wedged.
RegistryReachesConfig ==
    \A v \in Token : reg.token = v ~> (\/ mem.org = v \/ reg.token # v \/ (Asleep /\ missed)
                                       \/ (wedged /\ pc[Watcher] = "ciToken"))
=============================================================================
