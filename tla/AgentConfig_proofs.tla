-------------------------- MODULE AgentConfig_proofs --------------------------
(***************************************************************************)
(* The safety invariants of AgentConfig.                                   *)
(*                                                                         *)
(* Every section under the mutex begins with load, so what matters is not  *)
(* the configuration in memory but the one that the next section will find *)
(* (Load); but for a file that could not be written the two are the same   *)
(* once the agent has booted (SyncInv).  The announcements are followed    *)
(* from the section that makes them until they are delivered: as long as   *)
(* one is due it has the value in force, and when none is, the distros     *)
(* have it (TokenInv, ConfInv), and likewise for the cloud-init file       *)
(* (YamlInv).                                                              *)
(***************************************************************************)
EXTENDS AgentConfig, TLAPS

\* A thread that has something to announce is at one of these steps.
Observing == {"notify", "ciToken", "ciConf", "ciWrite"}

NoteRecord == [about : {"token", "conf"}, value : Token \cup Client, uid : SUBSET (Uids \cup {None})]

-----------------------------------------------------------------------------
(* Types, and what a call has in its hands.                                *)

StoreType == mem \in State /\ file \in State /\ file.org = None /\ file.orgConf = None

RegType == reg \in [token : Token, conf : Confs \cup {None}]

ThreadType == DOMAIN pc = Threads /\ local \in [Threads -> Local]

CallInv ==
    /\ \A u \in Users :
         /\ pc[u] = "shop" => local[u].field = "store"
         /\ pc[u] = "check" => local[u].field \in {"user", "store"} /\ local[u].value \in Token
         /\ pc[u] = "checkConf" => local[u].field = "userConf" /\ local[u].value \in Client
         /\ pc[u] = "set" => \/ local[u].field \in {"user", "store"} /\ local[u].value \in Token
                             \/ local[u].field = "userConf" /\ local[u].value \in Client
    /\ pc[Host] = "setUid" => local[Host].value \in Uids \cup {None}
    /\ pc[Watcher] = "push" => local[Watcher].conf \in Confs \cup {None}

\* The watcher, and that nobody is at work before the agent has booted.
WatcherInv ==
    /\ pc[Watcher] \in {"boot", "arm", "readToken", "readConf", "push", "sleep", "backoff"} \cup Observing
    /\ pc[Watcher] # "boot" => local[Watcher].next \in {"arm", "sleep", "backoff"}
    /\ pc[Watcher] = "boot" => /\ local[Watcher].next = ""
                               /\ \A t \in Threads \ {Watcher} : pc[t] = "idle"

\* A call announces one change of the token, one of the Landscape configuration, or both in
\* this order.
NotesInv ==
    \A t \in Threads :
        /\ local[t].notes = <<>> <=> pc[t] \notin Observing
        /\ Len(local[t].notes) <= 2
        /\ Len(local[t].notes) = 2 => local[t].notes[1].about = "token" /\ local[t].notes[2].about = "conf"

Types == StoreType /\ RegType /\ ThreadType /\ CallInv /\ WatcherInv /\ NotesInv

-----------------------------------------------------------------------------
(* Memory, file and registry.                                              *)

\* What is in memory is what the next load will find.
SyncInv == "disk" \notin lapses => pc[Watcher] = "boot" \/ mem = Load

\* Both configurations name the agent's UID.
Carries(s) ==
    s.uid # None => /\ s.userConf # None => s.userConf.uid = s.uid
                    /\ s.orgConf # None => s.orgConf.uid = s.uid

CarryInv == lapses \cap {"shadow", "stale"} = {} => Carries(mem) /\ Carries(Load)

\* The registry's token has been read since the agent started, and its checksum is known.
OrgInv == "disk" \notin lapses /\ ~missed => Load.org = Load.tokenSum

\* The same for the configuration, if there is one in memory ...
SumInv ==
    "disk" \notin lapses =>
        (Load.orgConf # None => Load.confSum # None /\ Load.orgConf.conf = Load.confSum.conf)

\* ... as there is if there is a checksum, once the registry has been read.
Restored == Load.orgConf # None \/ Load.confSum = None

RestoredInv == lapses \cap {"disk", "forgotten"} = {} /\ ~missed => Restored

\* The agent has the registry's configuration.
Matches(c) == IF Raw(c) = None THEN Load.orgConf = None
              ELSE Load.orgConf # None /\ Load.orgConf.conf = c

\* What the watcher has read since it armed the watch is what the registry has.
RegInv ==
    watch = "armed" =>
        /\ pc[Watcher] = "push" => local[Watcher].conf = reg.conf
        /\ /\ pc[Watcher] \in Observing \cup {"sleep"} /\ ~missed
           /\ lapses \cap {"disk", "forgotten"} = {}
           => Matches(reg.conf)

StoreInv == SyncInv /\ CarryInv /\ OrgInv /\ SumInv /\ RestoredInv /\ RegInv

-----------------------------------------------------------------------------
(* Announcements.                                                          *)

\* The notifications about a setting that a thread has not delivered yet.
Due(t, about) ==
    {local[t].notes[i] : i \in {j \in DOMAIN local[t].notes :
                                  local[t].notes[j].about = about /\ (pc[t] = "notify" \/ j > 1)}}

\* Two threads never announce the same setting.
OrderInv ==
    "order" \notin lapses => \A t, u \in Threads : t # u => Pending(t) \cap Pending(u) = {}

\* The token that is, or will be when the registry has been read, in force.
TokenDue(s) == TokenOf([s EXCEPT !.org = s.tokenSum])

TokenInv ==
    lapses \cap {"order", "unresolved", "blind", "crash", "disk"} = {} =>
        /\ \A t \in Threads : \A n \in Due(t, "token") : n.value = TokenDue(Load)
        /\ (\A t \in Threads : Due(t, "token") = {}) => sent.token = TokenDue(Load)

\* What the distros should have.
ConfDue(s) == IF s.uid = None THEN None ELSE ConfOf(s)

ConfInv ==
    lapses \cap {"order", "unresolved", "crash", "disk", "forgotten"} = {} /\ Restored =>
        /\ \A t \in Threads : \A n \in Due(t, "conf") :
             n.value = ConfOf(Load) /\ n.uid \in {{}, {Load.uid}}
        /\ (\A t \in Threads : Due(t, "conf") = {}) => sent.conf = ConfDue(Load)

\* Only one thread announces anything, and while it reads the configuration for the
\* cloud-init file, nobody changes it.
YamlInv ==
    lapses = {} =>
        /\ \A t, u \in Threads : t # u => Pending(t) = {} \/ Pending(u) = {}
        /\ \A t \in Threads :
             /\ pc[t] \in {"ciConf", "ciWrite"} => local[t].token = TokenOf(Load)
             /\ pc[t] = "ciWrite" => local[t].conf = ConfOf(Load)
        /\ pc[Watcher] # "boot" /\ (\A t \in Threads : Pending(t) = {})
             => yaml = [token |-> TokenOf(Load), conf |-> ConfOf(Load)]

NoteInv == OrderInv /\ TokenInv /\ ConfInv /\ YamlInv

IInv == Types /\ StoreInv /\ NoteInv

-----------------------------------------------------------------------------
(* Records.                                                                *)

LEMMA ThreadFacts ==
    /\ Watcher # Host /\ Watcher \in Threads /\ Host \in Threads /\ Watcher \notin Users /\ Host \notin Users
    /\ \A t \in Threads : t # Watcher /\ t # Host => t \in Users
    /\ \A u \in Users : u \in Threads /\ u # Watcher /\ u # Host
BY ValuesAssumption DEF Threads, Watcher, Host

LEMMA EmptyFacts ==
    /\ Empty \in State /\ Empty.org = None /\ Empty.orgConf = None /\ Empty.uid = None
    /\ Empty.userConf = None /\ None \in Client /\ None \in Token
BY DEF Empty, State, Token, Client

LEMMA BlankFacts ==
    /\ Blank \in Local /\ Blank.notes = <<>>
    /\ \A n \in {"", "arm", "sleep", "backoff"} :
         LET b == [Blank EXCEPT !.next = n] IN b \in Local /\ b.notes = <<>> /\ b.next = n
<1>1. None \in Token /\ None \in Client
  BY EmptyFacts
<1>2. <<>> \in Seq([about : {"token", "conf"}, value : Token \cup Client, uid : SUBSET (Uids \cup {None})])
  OBVIOUS
<1> QED BY <1>1, <1>2 DEF Blank, Local

\* What load finds.
LEMMA LoadFacts ==
    ASSUME StoreType
    PROVE  /\ Load \in State /\ Load.org = mem.org /\ Load.orgConf = mem.orgConf
           /\ Load.user = file.user /\ Load.store = file.store /\ Load.tokenSum = file.tokenSum
           /\ Load.userConf = file.userConf /\ Load.confSum = file.confSum /\ Load.uid = file.uid
BY DEF StoreType, Load, State

\* A section that only loads leaves to the next one what it found.
LEMMA LoadSame ==
    ASSUME StoreType, file' = file, mem' = mem \/ mem' = Load
    PROVE  Load' = Load /\ StoreType'
<1>1. mem' \in State /\ mem'.org = mem.org /\ mem'.orgConf = mem.orgConf
  BY LoadFacts DEF StoreType
<1>2. Load' = Load
  BY <1>1 DEF Load
<1> QED BY <1>1, <1>2 DEF StoreType

\* A section that writes the file leaves to the next one what it wrote.
LEMMA LoadNew ==
    ASSUME NEW new \in State, mem' = new, file' = OnDisk(new)
    PROVE  Load' = new /\ StoreType'
<1>1. OnDisk(new) \in State /\ OnDisk(new).org = None /\ OnDisk(new).orgConf = None
  BY EmptyFacts DEF OnDisk, State
<1>2. [OnDisk(new) EXCEPT !.org = new.org, !.orgConf = new.orgConf] = new
  BY DEF OnDisk, State
<1>3. Load' = new
  BY <1>2 DEF Load
<1> QED BY <1>1, <1>3 DEF StoreType

\* A completed configuration has the UID, and the same text.
LEMMA CompleteFacts ==
    ASSUME NEW c \in Client, NEW u \in Uids \cup {None}
    PROVE  /\ Complete(c, u) \in Client /\ (Complete(c, u) = None <=> c = None)
           /\ c # None => Complete(c, u).conf = c.conf
           /\ c # None /\ u # None => Complete(c, u).uid = u
<1>1. CASE c = None \/ u = None
  BY <1>1 DEF Complete, Client
<1>2. CASE c # None /\ u # None
  <2>1. c \in [conf : Confs \ BadConfs, uid : Uids \cup {None}]
    BY <1>2 DEF Client
  <2>2. Complete(c, u) = [c EXCEPT !.uid = u]
    BY <1>2 DEF Complete
  <2>3. /\ Complete(c, u) \in [conf : Confs \ BadConfs, uid : Uids \cup {None}]
        /\ Complete(c, u).conf = c.conf /\ Complete(c, u).uid = u
    BY <2>1, <2>2
  <2>4. None \notin [conf : Confs \ BadConfs, uid : Uids \cup {None}]
    BY ValuesAssumption
  <2> QED BY <1>2, <2>3, <2>4 DEF Client
<1> QED BY <1>1, <1>2

LEMMA RawFacts ==
    ASSUME NEW c \in Confs \cup {None}
    PROVE  /\ Raw(c) \in Client /\ (Raw(c) # None => Raw(c).conf = c)
BY DEF Raw, Client

LEMMA LocalUpdate ==
    ASSUME ThreadType, NEW t \in Threads, NEW r \in Local, local' = [local EXCEPT ![t] = r],
           NEW p, pc' = [pc EXCEPT ![t] = p]
    PROVE  /\ ThreadType' /\ local'[t] = r /\ pc'[t] = p
           /\ \A u \in Threads : u # t => local'[u] = local[u] /\ pc'[u] = pc[u]
BY DEF ThreadType

-----------------------------------------------------------------------------
(* Sections that change nothing but their thread.                          *)

LEMMA StoreKept ==
    ASSUME IInv, file' = file, mem' = mem \/ mem' = Load,
           pc[Watcher] = "boot" => pc'[Watcher] = "boot" \/ mem' = Load,
           lapses \subseteq lapses', ~missed' => ~missed
    PROVE  /\ StoreType' /\ Load' = Load
           /\ SyncInv' /\ CarryInv' /\ OrgInv' /\ SumInv' /\ RestoredInv'
<1>1. StoreType' /\ Load' = Load
  BY LoadSame DEF IInv, Types
<1>2. SyncInv'
  BY <1>1 DEF SyncInv, IInv, StoreInv
<1>3. CarryInv'
  BY <1>1 DEF CarryInv, Carries, IInv, StoreInv
<1>4. OrgInv' /\ SumInv' /\ RestoredInv'
  BY <1>1 DEF OrgInv, SumInv, RestoredInv, Restored, IInv, StoreInv
<1> QED BY <1>1, <1>2, <1>3, <1>4

LEMMA NotesKept ==
    ASSUME IInv, Load' = Load, lapses \subseteq lapses', sent' = sent,
           \A t \in Threads : /\ Pending(t)' = Pending(t)
                              /\ Due(t, "token")' = Due(t, "token") /\ Due(t, "conf")' = Due(t, "conf")
    PROVE  OrderInv' /\ TokenInv' /\ ConfInv'
<1>1. OrderInv'
  BY DEF OrderInv, IInv, NoteInv
<1>2. TokenInv'
  BY DEF TokenInv, IInv, NoteInv
<1>3. ConfInv'
  BY DEF ConfInv, Restored, IInv, NoteInv
<1> QED BY <1>1, <1>2, <1>3

LEMMA YamlKept ==
    ASSUME IInv, Load' = Load, lapses \subseteq lapses', yaml' = yaml,
           pc[Watcher] = "boot" => pc'[Watcher] = "boot",
           \A t \in Threads :
               /\ Pending(t)' = Pending(t)
               /\ pc'[t] \in {"ciConf", "ciWrite"} =>
                    pc'[t] = pc[t] /\ local'[t].token = local[t].token /\ local'[t].conf = local[t].conf
    PROVE  YamlInv'
BY DEF YamlInv, IInv, NoteInv

\* A thread that does nothing.
LEMMA SameThread ==
    ASSUME NEW t \in Threads, pc'[t] = pc[t], local'[t] = local[t]
    PROVE  /\ Pending(t)' = Pending(t)
           /\ Due(t, "token")' = Due(t, "token") /\ Due(t, "conf")' = Due(t, "conf")
BY DEF Pending, Due

LEMMA NothingDue ==
    ASSUME NEW t \in Threads
    PROVE  /\ local[t].notes = <<>> => Pending(t) = {} /\ Due(t, "token") = {} /\ Due(t, "conf") = {}
           /\ local'[t].notes = <<>> =>
                Pending(t)' = {} /\ Due(t, "token")' = {} /\ Due(t, "conf")' = {}
BY DEF Pending, Due

\* A thread that has nothing to announce, before and after its step.
LEMMA CalmNotes ==
    ASSUME IInv, NEW t \in Threads, pc[t] \notin Observing, pc'[t] \notin Observing,
           local'[t].notes = <<>>,
           \A u \in Threads : u # t => pc'[u] = pc[u] /\ local'[u] = local[u]
    PROVE  /\ NotesInv'
           /\ \A u \in Threads : /\ Pending(u)' = Pending(u)
                                 /\ Due(u, "token")' = Due(u, "token") /\ Due(u, "conf")' = Due(u, "conf")
<1>1. local[t].notes = <<>>
  BY DEF NotesInv, IInv, Types
<1>2. NotesInv'
  BY DEF NotesInv, IInv, Types
<1>3. /\ Pending(t)' = Pending(t)
      /\ Due(t, "token")' = Due(t, "token") /\ Due(t, "conf")' = Due(t, "conf")
  BY <1>1, NothingDue
<1> QED BY <1>2, <1>3, SameThread

\* The watcher is not disturbed.
LEMMA WatcherKept ==
    ASSUME IInv, pc'[Watcher] = pc[Watcher], local'[Watcher] = local[Watcher],
           pc[Watcher] # "boot", reg' = reg, watch' = watch, lapses \subseteq lapses', ~missed' => ~missed,
           Load'.orgConf = None <=> Load.orgConf = None,
           Load.orgConf # None => Load'.orgConf.conf = Load.orgConf.conf
    PROVE  WatcherInv' /\ RegInv' /\ RegType'
<1>1. WatcherInv' /\ RegType'
  BY DEF WatcherInv, RegType, IInv, Types
<1>2. \A c : Matches(c) => Matches(c)'
  BY DEF Matches
<1>3. RegInv'
  BY <1>2 DEF RegInv, IInv, StoreInv
<1> QED BY <1>1, <1>3

\* A step of a call that announces nothing.
LEMMA CalmCall ==
    ASSUME IInv, NEW t \in Threads, t # Watcher, pc[Watcher] # "boot",
           pc[t] \notin Observing, pc'[t] \notin Observing, ThreadType', CallInv', local'[t].notes = <<>>,
           \A u \in Threads : u # t => pc'[u] = pc[u] /\ local'[u] = local[u],
           file' = file, mem' = mem \/ mem' = Load, UNCHANGED <<reg, watch, outputs>>,
           lapses \subseteq lapses', ~missed' => ~missed
    PROVE  IInv'
<1>0. pc'[Watcher] = pc[Watcher] /\ local'[Watcher] = local[Watcher] /\ sent' = sent /\ yaml' = yaml
      /\ reg' = reg /\ watch' = watch
  BY ThreadFacts DEF outputs
<1>1. /\ StoreType' /\ Load' = Load
      /\ SyncInv' /\ CarryInv' /\ OrgInv' /\ SumInv' /\ RestoredInv'
  BY StoreKept
<1>2. WatcherInv' /\ RegInv' /\ RegType'
  BY <1>0, <1>1, WatcherKept
<1>3. /\ NotesInv'
      /\ \A u \in Threads : /\ Pending(u)' = Pending(u)
                            /\ Due(u, "token")' = Due(u, "token") /\ Due(u, "conf")' = Due(u, "conf")
  BY CalmNotes
<1>4. OrderInv' /\ TokenInv' /\ ConfInv'
  BY <1>0, <1>1, <1>3, NotesKept
<1>5. YamlInv'
  <2>1. \A u \in Threads :
          pc'[u] \in {"ciConf", "ciWrite"} =>
            pc'[u] = pc[u] /\ local'[u].token = local[u].token /\ local'[u].conf = local[u].conf
    BY DEF Observing
  <2> QED BY <2>1, <1>0, <1>1, <1>3, YamlKept
<1> QED BY <1>1, <1>2, <1>3, <1>4, <1>5 DEF IInv, Types, StoreInv, NoteInv

-----------------------------------------------------------------------------
(* The ends of calls.                                                      *)

LEMMA FinishFacts ==
    ASSUME ThreadType, NEW t \in Threads, NEW p, Finish(t, p)
    PROVE  /\ ThreadType' /\ pc'[t] = p /\ local'[t].notes = <<>>
           /\ t = Watcher => local'[t].next = local[t].next
           /\ \A u \in Threads : u # t => pc'[u] = pc[u] /\ local'[u] = local[u]
<1>1. PICK r : r = IF t = Watcher THEN [Blank EXCEPT !.next = local[t].next] ELSE Blank
  OBVIOUS
<1>2. local[t].next \in {"", "arm", "sleep", "backoff"}
  BY DEF ThreadType, Local
<1>3. r \in Local /\ r.notes = <<>> /\ (t = Watcher => r.next = local[t].next)
  BY <1>1, <1>2, BlankFacts
<1>4. local' = [local EXCEPT ![t] = r] /\ pc' = [pc EXCEPT ![t] = p]
  BY <1>1 DEF Finish, Goto
<1> QED BY <1>3, <1>4, LocalUpdate

LEMMA RefuseFacts ==
    ASSUME ThreadType, NEW t \in Threads, Refuse(t)
    PROVE  /\ ThreadType' /\ local'[t].notes = <<>>
           /\ \A u \in Threads : u # t => pc'[u] = pc[u] /\ local'[u] = local[u]
           /\ t # Watcher => pc'[t] \in {"idle", "reply"}
           /\ t = Watcher => pc'[t] = local[t].next /\ local'[t].next = local[t].next
<1>1. PICK p : p = CASE t = Watcher -> local[t].next
                     [] t \in Users /\ local[t].field = "store" /\ pc[t] # "reply" -> "reply"
                     [] OTHER -> "idle"
  OBVIOUS
<1>2. Finish(t, p)
  BY <1>1 DEF Refuse
<1>3. (t # Watcher => p \in {"idle", "reply"}) /\ (t = Watcher => p = local[t].next)
  <2>1. CASE t = Watcher
    BY <1>1, <2>1, ThreadFacts
  <2>2. CASE t # Watcher /\ t \in Users /\ local[t].field = "store" /\ pc[t] # "reply"
    BY <1>1, <2>2
  <2>3. CASE t # Watcher /\ ~(t \in Users /\ local[t].field = "store" /\ pc[t] # "reply")
    BY <1>1, <2>3
  <2> QED BY <2>1, <2>2, <2>3
<1> QED BY <1>2, <1>3, FinishFacts

\* There is nothing to announce.
LEMMA SilentFacts ==
    ASSUME ThreadType, NEW t \in Threads, NEW notes, notes = <<>>, Announce(t, notes)
    PROVE  /\ ThreadType' /\ local'[t].notes = <<>>
           /\ \A u \in Threads : u # t => pc'[u] = pc[u] /\ local'[u] = local[u]
           /\ t # Watcher => pc'[t] \in {"idle", "reply"}
           /\ t = Watcher => pc'[t] = local[t].next /\ local'[t].next = local[t].next
<1>1. PICK p : p = CASE t = Watcher -> local[t].next [] t = Host -> "idle" [] OTHER -> "reply"
  OBVIOUS
<1>2. Finish(t, p)
  BY <1>1 DEF Announce
<1>3. (t # Watcher => p \in {"idle", "reply"}) /\ (t = Watcher => p = local[t].next)
  <2>1. CASE t = Watcher
    BY <1>1, <2>1, ThreadFacts
  <2>2. CASE t # Watcher /\ t = Host
    BY <1>1, <2>2
  <2>3. CASE t # Watcher /\ t # Host
    BY <1>1, <2>3
  <2> QED BY <2>1, <2>2, <2>3
<1> QED BY <1>2, <1>3, FinishFacts

\* Nobody is called before the agent has booted.
LEMMA Booted ==
    ASSUME IInv
    PROVE  /\ Started => pc[Watcher] # "boot"
           /\ \A t \in Threads : t # Watcher /\ pc[t] # "idle" => pc[Watcher] # "boot"
BY DEF Started, WatcherInv, IInv, Types

LEMMA CallsKept ==
    ASSUME IInv, NEW t \in Threads, t # Watcher,
           \A u \in Threads : u # t => pc'[u] = pc[u] /\ local'[u] = local[u],
           \/ pc'[t] \in {"idle", "reply"} \cup Observing
           \/ /\ t \in Users
              /\ \/ pc'[t] = "shop" /\ local'[t].field = "store"
                 \/ pc'[t] = "check" /\ local'[t].field \in {"user", "store"} /\ local'[t].value \in Token
                 \/ pc'[t] = "checkConf" /\ local'[t].field = "userConf" /\ local'[t].value \in Client
                 \/ /\ pc'[t] = "set"
                    /\ \/ local'[t].field \in {"user", "store"} /\ local'[t].value \in Token
                       \/ local'[t].field = "userConf" /\ local'[t].value \in Client
           \/ t = Host /\ pc'[t] = "setUid" /\ local'[t].value \in Uids \cup {None}
    PROVE  CallInv'
<1>1. CallInv
  BY DEF IInv, Types
<1>2. \A u \in Users : u # t => pc'[u] = pc[u] /\ local'[u] = local[u]
  BY ThreadFacts
<1>3. t # Host => pc'[Host] = pc[Host] /\ local'[Host] = local[Host]
  BY ThreadFacts
<1>4. pc'[Watcher] = pc[Watcher] /\ local'[Watcher] = local[Watcher]
  BY ThreadFacts
<1>5. t \in Users => t # Host
  BY ThreadFacts
<1> QED BY <1>1, <1>2, <1>3, <1>4, <1>5 DEF CallInv, Observing

\* A call ends without an announcement.
LEMMA CalmEnd ==
    ASSUME IInv, NEW t \in Threads, t # Watcher, pc[Watcher] # "boot", pc[t] \notin Observing,
           ThreadType', local'[t].notes = <<>>, pc'[t] \in {"idle", "reply"},
           \A u \in Threads : u # t => pc'[u] = pc[u] /\ local'[u] = local[u],
           file' = file, mem' = mem \/ mem' = Load, UNCHANGED <<reg, watch, outputs>>,
           lapses \subseteq lapses', ~missed' => ~missed
    PROVE  IInv'
<1>1. CallInv'
  BY CallsKept
<1>2. pc'[t] \notin Observing
  BY DEF Observing
<1> QED BY <1>1, <1>2, CalmCall

-----------------------------------------------------------------------------
(* Calls, up to their sections that change something.                      *)

\* A call begins.
LEMMA CallBegins ==
    ASSUME IInv, NEW t \in Threads, t # Watcher, NEW p, NEW f, NEW v, Call(t, p, f, v),
           f \in {"user", "store", "userConf", "uid"}, v \in Token \cup Client \cup Uids,
           mem' = mem \/ mem' = Load,
           \/ /\ t \in Users
              /\ \/ p = "shop" /\ f = "store"
                 \/ p = "check" /\ f \in {"user", "store"} /\ v \in Token
                 \/ p = "checkConf" /\ f = "userConf" /\ v \in Client
           \/ t = Host /\ p = "setUid" /\ v \in Uids \cup {None}
    PROVE  IInv'
<1>0. ThreadType /\ local[t] \in Local
  BY DEF IInv, Types, ThreadType
<1>1. /\ Started /\ pc[t] = "idle" /\ pc' = [pc EXCEPT ![t] = p]
      /\ local' = [local EXCEPT ![t].field = f, ![t].value = v]
      /\ file' = file /\ UNCHANGED <<reg, watch, outputs>> /\ lapses' = lapses /\ missed' = missed
  BY DEF Call, Goto
<1>2. PICK r : r = [local[t] EXCEPT !.field = f, !.value = v]
  OBVIOUS
<1>3. r \in Local /\ r.field = f /\ r.value = v /\ r.notes = local[t].notes
  BY <1>0, <1>2 DEF Local
<1>4. local' = [local EXCEPT ![t] = r]
  BY <1>0, <1>1, <1>2 DEF ThreadType
<1>5. /\ ThreadType' /\ local'[t] = r /\ pc'[t] = p
      /\ \A u \in Threads : u # t => local'[u] = local[u] /\ pc'[u] = pc[u]
  BY <1>0, <1>1, <1>3, <1>4, LocalUpdate
<1>6. pc[t] \notin Observing /\ pc'[t] \notin Observing
  BY <1>1, <1>5 DEF Observing
<1>7. local'[t].notes = <<>>
  BY <1>3, <1>5, <1>6 DEF NotesInv, IInv, Types
<1>8. CallInv'
  BY <1>3, <1>5, CallsKept
<1>9. pc[Watcher] # "boot"
  BY <1>1, Booted
<1> QED BY <1>1, <1>5, <1>6, <1>7, <1>8, <1>9, CalmCall

LEMMA CallsBegin ==
    ASSUME IInv,
           \/ AssignHost \/ ExpireHandshake
           \/ \E u \in Users : ApplyProToken(u) \/ ApplyLandscapeConfig(u) \/ NotifyPurchase(u)
    PROVE  IInv'
<1>1. CASE AssignHost \/ ExpireHandshake
  <2>1. PICK v \in Uids \cup {None} : Call(Host, "setUid", "uid", v) /\ mem' = Load
    BY <1>1 DEF AssignHost, ExpireHandshake
  <2>2. PICK t \in Threads : t = Host
    BY ThreadFacts
  <2>3. Call(t, "setUid", "uid", v) /\ t # Watcher /\ t = Host
    BY <2>1, <2>2, ThreadFacts
  <2>4. v \in Token \cup Client \cup Uids
    BY EmptyFacts DEF Token
  <2> QED BY <2>1, <2>3, <2>4, CallBegins
<1>2. ASSUME NEW u \in Users, ApplyProToken(u)
      PROVE  IInv'
  <2>1. PICK v \in Token : Call(u, "check", "user", v) /\ mem' = mem
    BY <1>2 DEF ApplyProToken
  <2> QED BY <2>1, ThreadFacts, CallBegins
<1>3. ASSUME NEW u \in Users, ApplyLandscapeConfig(u)
      PROVE  IInv'
  <2>1. PICK c \in (Confs \ BadConfs) \cup {None} : Call(u, "checkConf", "userConf", Raw(c)) /\ mem' = mem
    BY <1>3 DEF ApplyLandscapeConfig
  <2>2. PICK v : v = Raw(c)
    OBVIOUS
  <2>3. v \in Client
    BY <2>2, RawFacts
  <2> QED BY <2>1, <2>2, <2>3, ThreadFacts, CallBegins
<1>4. ASSUME NEW u \in Users, NotifyPurchase(u)
      PROVE  IInv'
  <2>1. Call(u, "shop", "store", None) /\ mem' = mem
    BY <1>4 DEF NotifyPurchase
  <2> QED BY <2>1, ThreadFacts, EmptyFacts, CallBegins
<1> QED BY <1>1, <1>2, <1>3, <1>4

LEMMA UserSteps ==
    ASSUME IInv, NEW u \in Users,
           FetchFromMicrosoftStore(u) \/ GetConfigSources(u) \/ CheckPriority(u) \/ CheckConf(u) \/ Reply(u)
    PROVE  IInv'
<1>0. ThreadType /\ local[u] \in Local /\ u \in Threads /\ u # Watcher /\ StoreType /\ CallInv
  BY ThreadFacts DEF IInv, Types, ThreadType
<1>1. /\ pc[u] \in {"shop", "idle", "check", "checkConf", "reply"} /\ file' = file
      /\ (mem' = mem \/ mem' = Load)
      /\ UNCHANGED <<reg, watch, outputs>> /\ lapses' = lapses /\ missed' = missed
  BY DEF FetchFromMicrosoftStore, GetConfigSources, CheckPriority, CheckConf, Reply, stores
<1>2. pc[u] \notin Observing
  BY <1>1 DEF Observing
<1>3. pc[Watcher] # "boot"
  BY <1>0, Booted DEF FetchFromMicrosoftStore, GetConfigSources, CheckPriority, CheckConf, Reply
<1>4. local[u].notes = <<>>
  BY <1>0, <1>2 DEF NotesInv, IInv, Types
<1>5. CASE Refuse(u)
  BY <1>5, <1>0, <1>1, <1>2, <1>3, RefuseFacts, CalmEnd
<1>6. CASE \E p \in {"reply", "idle"} : Finish(u, p)
  BY <1>6, <1>0, <1>1, <1>2, <1>3, FinishFacts, CalmEnd
<1>7. ASSUME NEW r \in Local, r.notes = local[u].notes, NEW p \in {"reply", "check", "set"},
             local' = [local EXCEPT ![u] = r], pc' = [pc EXCEPT ![u] = p],
             \/ p = "reply"
             \/ r.field \in {"user", "store"} /\ r.value \in Token
             \/ p = "set" /\ r.field = "userConf" /\ r.value \in Client
      PROVE  IInv'
  <2>1. /\ ThreadType' /\ local'[u] = r /\ pc'[u] = p
        /\ \A t \in Threads : t # u => local'[t] = local[t] /\ pc'[t] = pc[t]
    BY <1>0, <1>7, LocalUpdate
  <2>2. CallInv'
    BY <1>0, <1>7, <2>1, CallsKept
  <2>3. pc'[u] \notin Observing /\ local'[u].notes = <<>>
    BY <1>4, <1>7, <2>1 DEF Observing
  <2> QED BY <1>0, <1>1, <1>2, <1>3, <2>1, <2>2, <2>3, CalmCall
<1>8. CASE FetchFromMicrosoftStore(u)
  <2>1. pc[u] = "shop"
    BY <1>8 DEF FetchFromMicrosoftStore
  <2>2. ASSUME NEW v \in Tokens, local' = [local EXCEPT ![u].value = v], Goto(u, "check")
        PROVE  IInv'
    <3>1. PICK r : r = [local[u] EXCEPT !.value = v]
      OBVIOUS
    <3>2. r \in Local /\ r.notes = local[u].notes /\ r.field = local[u].field /\ r.value = v /\ v \in Token
      BY <1>0, <3>1 DEF Local, Token
    <3>3. r.field = "store" /\ local' = [local EXCEPT ![u] = r] /\ pc' = [pc EXCEPT ![u] = "check"]
      BY <1>0, <2>1, <2>2, <3>1, <3>2 DEF CallInv, Goto
    <3> QED BY <3>2, <3>3, <1>7
  <2> QED BY <1>6, <1>8, <2>2 DEF FetchFromMicrosoftStore
<1>9. CASE GetConfigSources(u)
  <2>1. local' = local /\ pc' = [pc EXCEPT ![u] = "reply"]
    BY <1>9 DEF GetConfigSources, Goto
  <2>2. PICK r : r = local[u]
    OBVIOUS
  <2>3. local' = [local EXCEPT ![u] = r]
    BY <2>1, <2>2, <1>0 DEF ThreadType
  <2> QED BY <1>0, <2>1, <2>2, <2>3, <1>7
<1>10. CASE CheckPriority(u)
  <2>1. Refuse(u) \/ (pc' = [pc EXCEPT ![u] = "set"] /\ local' = local)
    BY <1>10 DEF CheckPriority, Goto
  <2>2. CASE pc' = [pc EXCEPT ![u] = "set"] /\ local' = local
    <3>1. PICK r : r = local[u]
      OBVIOUS
    <3>2. local' = [local EXCEPT ![u] = r]
      BY <2>2, <3>1, <1>0 DEF ThreadType
    <3>3. r.field \in {"user", "store"} /\ r.value \in Token
      BY <1>0, <1>10, <3>1 DEF CheckPriority, CallInv
    <3> QED BY <1>0, <2>2, <3>1, <3>2, <3>3, <1>7
  <2> QED BY <1>5, <2>1, <2>2
<1>11. CASE CheckConf(u)
  <2>1. PICK s \in Seen(u) : \/ Refuse(u)
                             \/ /\ pc' = [pc EXCEPT ![u] = "set"]
                                /\ local' = [local EXCEPT ![u].value = Complete(local[u].value, s.uid)]
    BY <1>11 DEF CheckConf, Goto
  <2>2. s \in State
    BY <1>0 DEF Seen, StoreType
  <2>3. local[u].field = "userConf" /\ local[u].value \in Client
    BY <1>0, <1>11 DEF CheckConf, CallInv
  <2>4. Complete(local[u].value, s.uid) \in Client
    <3>1. PICK c \in Client : c = local[u].value
      BY <2>3
    <3>2. s.uid \in Uids \cup {None}
      BY <2>2 DEF State
    <3> QED BY <3>1, <3>2, CompleteFacts
  <2>5. CASE /\ pc' = [pc EXCEPT ![u] = "set"]
             /\ local' = [local EXCEPT ![u].value = Complete(local[u].value, s.uid)]
    <3>1. PICK v : v = Complete(local[u].value, s.uid)
      OBVIOUS
    <3>2. PICK r : r = [local[u] EXCEPT !.value = v]
      OBVIOUS
    <3>3. r \in Local /\ r.notes = local[u].notes /\ r.field = local[u].field /\ r.value = v
      BY <1>0, <2>4, <3>1, <3>2 DEF Local
    <3>4. local' = [local EXCEPT ![u] = r]
      BY <2>5, <3>1, <3>2
    <3> QED BY <2>3, <2>4, <2>5, <3>1, <3>3, <3>4, <1>7
  <2> QED BY <1>5, <2>1, <2>5
<1>12. CASE Reply(u)
  BY <1>6, <1>12 DEF Reply
<1> QED BY <1>8, <1>9, <1>10, <1>11, <1>12

-----------------------------------------------------------------------------
(* Failures.                                                               *)

\* When the file could not be written, little is claimed any more.
LEMMA DiskExcuses ==
    ASSUME "disk" \in lapses'
    PROVE  SyncInv' /\ OrgInv' /\ SumInv' /\ RestoredInv' /\ TokenInv' /\ ConfInv' /\ YamlInv'
<1>1. SyncInv' /\ OrgInv' /\ SumInv' /\ RestoredInv'
  BY DEF SyncInv, OrgInv, SumInv, RestoredInv
<1>2. TokenInv' /\ ConfInv' /\ YamlInv'
  BY DEF TokenInv, ConfInv, YamlInv
<1> QED BY <1>1, <1>2

\* The file is truncated: a configuration without a UID has nothing to name.
LEMMA LostFile ==
    ASSUME IInv, file' = Empty, mem' \in State, lapses \subseteq lapses',
           lapses' \cap {"shadow", "stale"} = {} => Carries(mem)'
    PROVE  StoreType' /\ CarryInv'
<1>1. StoreType'
  BY EmptyFacts DEF StoreType
<1>2. Load'.uid = None
  BY EmptyFacts DEF Load, State
<1>3. CarryInv'
  BY <1>2 DEF CarryInv, Carries
<1> QED BY <1>1, <1>3

\* A call fails because the file could not be written.
LEMMA DiskCall ==
    ASSUME IInv, NEW t \in Threads, t # Watcher, pc[t] \notin Observing, pc[t] # "idle", Refuse(t),
           file' \in {file, Empty}, mem' = Load, UNCHANGED <<reg, watch, outputs>>,
           lapses' = lapses \cup Lapse("disk", file' # file), missed' = missed
    PROVE  IInv'
<1>0. /\ ThreadType' /\ local'[t].notes = <<>> /\ pc'[t] \in {"idle", "reply"}
      /\ \A u \in Threads : u # t => pc'[u] = pc[u] /\ local'[u] = local[u]
  BY RefuseFacts DEF IInv, Types
<1>1. pc[Watcher] # "boot" /\ lapses \subseteq lapses'
  BY Booted
<1>2. CASE file' = file
  BY <1>0, <1>1, <1>2, CalmEnd
<1>3. CASE file' # file
  <2>1. file' = Empty /\ "disk" \in lapses'
    BY <1>3 DEF Lapse
  <2>2. pc'[Watcher] = pc[Watcher] /\ local'[Watcher] = local[Watcher]
    BY <1>0, ThreadFacts
  <2>3. StoreType' /\ CarryInv'
    <3>1. Load \in State
      BY LoadFacts DEF IInv, Types
    <3>2. lapses' \cap {"shadow", "stale"} = {} => Carries(mem)'
      BY <1>1 DEF CarryInv, Carries, IInv, StoreInv
    <3> QED BY <2>1, <3>1, <3>2, <1>1, LostFile
  <2>4. WatcherInv' /\ RegType' /\ RegInv'
    <3>1. WatcherInv'
      BY <1>1, <2>2 DEF WatcherInv, IInv, Types
    <3>2. RegType'
      BY DEF RegType, IInv, Types
    <3>3. RegInv'
      BY <2>1, <2>2 DEF RegInv, IInv, StoreInv
    <3> QED BY <3>1, <3>2, <3>3
  <2>5. pc'[t] \notin Observing
    BY <1>0 DEF Observing
  <2>6. NotesInv' /\ \A u \in Threads : Pending(u)' = Pending(u)
    BY <1>0, <2>5, CalmNotes
  <2>7. OrderInv'
    BY <1>1, <2>6 DEF OrderInv, IInv, NoteInv
  <2>8. CallInv'
    BY <1>0, CallsKept
  <2> QED BY <1>0, <2>1, <2>3, <2>4, <2>6, <2>7, <2>8, DiskExcuses DEF IInv, Types, StoreInv, NoteInv
<1> QED BY <1>2, <1>3

LEMMA CallFails ==
    ASSUME IInv, SetAgentUidFails \/ \E u \in Users : SetFails(u)
    PROVE  IInv'
<1>1. CASE SetAgentUidFails
  <2>1. PICK t \in Threads : t = Host
    BY ThreadFacts
  <2>2. /\ pc[t] = "setUid" /\ Refuse(t) /\ file' \in {file, Empty} /\ mem' = Load
        /\ UNCHANGED <<reg, watch, outputs>>
        /\ lapses' = lapses \cup Lapse("disk", file' # file) /\ missed' = missed
    BY <1>1, <2>1 DEF SetAgentUidFails, DumpFails
  <2> QED BY <2>1, <2>2, ThreadFacts, DiskCall DEF Observing
<1>2. ASSUME NEW u \in Users, SetFails(u)
      PROVE  IInv'
  <2>1. /\ pc[u] = "set" /\ Refuse(u) /\ file' \in {file, Empty} /\ mem' = Load
        /\ UNCHANGED <<reg, watch, outputs>>
        /\ lapses' = lapses \cup Lapse("disk", file' # file) /\ missed' = missed
    BY <1>2 DEF SetFails, DumpFails
  <2> QED BY <2>1, ThreadFacts, DiskCall DEF Observing
<1> QED BY <1>1, <1>2

-----------------------------------------------------------------------------
(* The watcher, when it pushes nothing.                                    *)

LEMMA CalmWatcher ==
    ASSUME IInv, pc[Watcher] \notin Observing, pc'[Watcher] \notin Observing,
           ThreadType', WatcherInv', RegInv', local'[Watcher].notes = <<>>,
           pc'[Watcher] = "push" => local'[Watcher].conf \in Confs \cup {None},
           \A u \in Threads : u # Watcher => pc'[u] = pc[u] /\ local'[u] = local[u],
           file' = file, mem' = mem \/ mem' = Load,
           pc[Watcher] = "boot" => mem' = Load /\ yaml' = [token |-> TokenOf(Load), conf |-> ConfOf(Load)],
           pc[Watcher] # "boot" => yaml' = yaml,
           reg' = reg, sent' = sent, lapses' = lapses, ~missed' => ~missed
    PROVE  IInv'
<1>0. Watcher \in Threads
  BY ThreadFacts
<1>1. /\ StoreType' /\ Load' = Load
      /\ SyncInv' /\ CarryInv' /\ OrgInv' /\ SumInv' /\ RestoredInv'
  BY StoreKept
<1>2. CallInv'
  <2>1. \A u \in Users : pc'[u] = pc[u] /\ local'[u] = local[u]
    BY ThreadFacts
  <2>2. pc'[Host] = pc[Host] /\ local'[Host] = local[Host]
    BY ThreadFacts
  <2> QED BY <2>1, <2>2 DEF CallInv, IInv, Types
<1>3. /\ NotesInv'
      /\ \A u \in Threads : /\ Pending(u)' = Pending(u)
                            /\ Due(u, "token")' = Due(u, "token") /\ Due(u, "conf")' = Due(u, "conf")
  BY <1>0, CalmNotes
<1>4. OrderInv' /\ TokenInv' /\ ConfInv'
  BY <1>1, <1>3, NotesKept
<1>5. \A u \in Threads :
        pc'[u] \in {"ciConf", "ciWrite"} =>
          pc'[u] = pc[u] /\ local'[u].token = local[u].token /\ local'[u].conf = local[u].conf
  BY DEF Observing
<1>6. YamlInv'
  <2>1. CASE pc[Watcher] # "boot"
    BY <1>1, <1>3, <1>5, <2>1, YamlKept
  <2>2. CASE pc[Watcher] = "boot"
    <3>1. yaml' = [token |-> TokenOf(Load), conf |-> ConfOf(Load)]
      BY <2>2
    <3> QED BY <1>1, <1>3, <1>5, <3>1 DEF YamlInv, IInv, NoteInv
  <2> QED BY <2>1, <2>2
<1>7. RegType'
  BY DEF RegType, IInv, Types
<1> QED BY <1>1, <1>2, <1>3, <1>4, <1>6, <1>7 DEF IInv, Types, StoreInv, NoteInv

\* The watcher goes to a step, and reads or decides what to do next.
LEMMA WatcherGoes ==
    ASSUME IInv, NEW r \in Local, local' = [local EXCEPT ![Watcher] = r],
           r.notes = local[Watcher].notes, r.next \in {"arm", "sleep", "backoff"},
           NEW p \in {"arm", "readToken", "readConf", "push"}, pc' = [pc EXCEPT ![Watcher] = p],
           pc[Watcher] \notin Observing,
           p = "push" => r.conf = reg.conf,
           file' = file, mem' = mem \/ mem' = Load,
           pc[Watcher] = "boot" => mem' = Load /\ yaml' = [token |-> TokenOf(Load), conf |-> ConfOf(Load)],
           pc[Watcher] # "boot" => yaml' = yaml,
           reg' = reg, sent' = sent, lapses' = lapses, ~missed' => ~missed
    PROVE  IInv'
<1>0. Watcher \in Threads /\ ThreadType /\ RegType
  BY ThreadFacts DEF IInv, Types
<1>1. /\ ThreadType' /\ local'[Watcher] = r /\ pc'[Watcher] = p
      /\ \A u \in Threads : u # Watcher => local'[u] = local[u] /\ pc'[u] = pc[u]
  BY <1>0, LocalUpdate
<1>2. WatcherInv' /\ pc'[Watcher] \notin Observing
  BY <1>1 DEF WatcherInv, Observing
<1>3. RegInv'
  BY <1>1 DEF RegInv, Observing
<1>4. local'[Watcher].notes = <<>>
  BY <1>0, <1>1 DEF NotesInv, IInv, Types
<1>5. pc'[Watcher] = "push" => local'[Watcher].conf \in Confs \cup {None}
  BY <1>0, <1>1 DEF RegType
<1> QED BY <1>1, <1>2, <1>3, <1>4, <1>5, CalmWatcher

\* The watcher gives up what it was about to do; it knows that it missed something.
LEMMA WatcherRefuses ==
    ASSUME IInv, pc[Watcher] \in {"readToken", "readConf", "push"}, Refuse(Watcher), missed' = TRUE,
           mem' = mem, file' = file, UNCHANGED <<reg, watch, sent, yaml>>, lapses' = lapses
    PROVE  IInv'
<1>0. ThreadType
  BY DEF IInv, Types
<1>1. PICK t \in Threads : t = Watcher
  BY ThreadFacts
<1>2. /\ ThreadType' /\ local'[Watcher].notes = <<>>
      /\ \A u \in Threads : u # Watcher => pc'[u] = pc[u] /\ local'[u] = local[u]
      /\ pc'[Watcher] = local[Watcher].next /\ local'[Watcher].next = local[Watcher].next
  BY <1>0, <1>1, RefuseFacts
<1>3. pc[Watcher] \notin Observing /\ pc[Watcher] # "boot"
  BY DEF Observing
<1>4. local[Watcher].next \in {"arm", "sleep", "backoff"}
  BY <1>3 DEF WatcherInv, IInv, Types
<1>5. WatcherInv' /\ pc'[Watcher] \notin Observing
  BY <1>2, <1>4 DEF WatcherInv, Observing
<1>6. RegInv'
  BY <1>2, <1>4 DEF RegInv
<1> QED BY <1>2, <1>3, <1>4, <1>5, <1>6, CalmWatcher

LEMMA WatcherSteps ==
    ASSUME IInv, Boot \/ Arm \/ WatchFails \/ ReadToken \/ ReadConf \/ ReadFails \/ Wake
    PROVE  IInv'
<1>0. ThreadType /\ local[Watcher] \in Local /\ RegType /\ Watcher \in Threads
  BY ThreadFacts DEF IInv, Types, ThreadType
<1>1. CASE Boot
  <2>1. /\ pc[Watcher] = "boot" /\ mem' = Load /\ yaml' = [token |-> TokenOf(Load), conf |-> ConfOf(Load)]
        /\ pc' = [pc EXCEPT ![Watcher] = "readToken"] /\ local' = [local EXCEPT ![Watcher].next = "arm"]
        /\ file' = file /\ reg' = reg /\ sent' = sent /\ lapses' = lapses /\ missed' = missed
    BY <1>1 DEF Boot, Goto
  <2>2. PICK r : r = [local[Watcher] EXCEPT !.next = "arm"]
    OBVIOUS
  <2>3. r \in Local /\ r.notes = local[Watcher].notes /\ r.next = "arm"
    BY <1>0, <2>2 DEF Local
  <2>4. local' = [local EXCEPT ![Watcher] = r]
    BY <2>1, <2>2
  <2> QED BY <2>1, <2>3, <2>4, WatcherGoes DEF Observing
<1>2. CASE Arm \/ WatchFails
  <2>1. PICK n \in {"sleep", "backoff"} :
          /\ pc[Watcher] \in {"arm", "sleep"} /\ mem' = mem /\ yaml' = yaml
          /\ pc' = [pc EXCEPT ![Watcher] = "readToken"] /\ local' = [local EXCEPT ![Watcher].next = n]
          /\ file' = file /\ reg' = reg /\ sent' = sent /\ lapses' = lapses /\ missed' = missed
    BY <1>2 DEF Arm, WatchFails, Goto, stores, outputs
  <2>2. PICK r : r = [local[Watcher] EXCEPT !.next = n]
    OBVIOUS
  <2>3. r \in Local /\ r.notes = local[Watcher].notes /\ r.next = n
    BY <1>0, <2>2 DEF Local
  <2>4. local' = [local EXCEPT ![Watcher] = r]
    BY <2>1, <2>2
  <2> QED BY <2>1, <2>3, <2>4, WatcherGoes DEF Observing
<1>3. CASE ReadToken \/ ReadConf
  <2>1. /\ pc[Watcher] \in {"readToken", "readConf"} /\ mem' = mem /\ yaml' = yaml
        /\ file' = file /\ reg' = reg /\ sent' = sent /\ lapses' = lapses /\ missed' = missed
    BY <1>3 DEF ReadToken, ReadConf, stores, outputs
  <2>2. local[Watcher].next \in {"arm", "sleep", "backoff"}
    BY <2>1 DEF WatcherInv, IInv, Types
  <2>3. CASE ReadToken
    <3>1. pc' = [pc EXCEPT ![Watcher] = "readConf"] /\ local' = [local EXCEPT ![Watcher].token = reg.token]
      BY <2>3 DEF ReadToken, Goto
    <3>2. PICK r : r = [local[Watcher] EXCEPT !.token = reg.token]
      OBVIOUS
    <3>3. r \in Local /\ r.notes = local[Watcher].notes /\ r.next = local[Watcher].next
      BY <1>0, <3>2 DEF Local, RegType
    <3>4. local' = [local EXCEPT ![Watcher] = r]
      BY <3>1, <3>2
    <3> QED BY <2>1, <2>2, <3>1, <3>3, <3>4, WatcherGoes DEF Observing
  <2>4. CASE ReadConf
    <3>1. pc' = [pc EXCEPT ![Watcher] = "push"] /\ local' = [local EXCEPT ![Watcher].conf = reg.conf]
      BY <2>4 DEF ReadConf, Goto
    <3>2. PICK r : r = [local[Watcher] EXCEPT !.conf = reg.conf]
      OBVIOUS
    <3>3. r \in Local /\ r.notes = local[Watcher].notes /\ r.next = local[Watcher].next /\ r.conf = reg.conf
      BY <1>0, <3>2, EmptyFacts DEF Local, RegType
    <3>4. local' = [local EXCEPT ![Watcher] = r]
      BY <3>1, <3>2
    <3> QED BY <2>1, <2>2, <3>1, <3>3, <3>4, WatcherGoes DEF Observing
  <2> QED BY <1>3, <2>3, <2>4
<1>4. CASE ReadFails
  BY <1>4, WatcherRefuses DEF ReadFails, stores, outputs
<1>5. CASE Wake
  <2>1. /\ pc[Watcher] \in {"sleep", "backoff"} /\ mem' = mem /\ yaml' = yaml /\ local' = local
        /\ pc' = [pc EXCEPT ![Watcher] = "arm"]
        /\ file' = file /\ reg' = reg /\ sent' = sent /\ lapses' = lapses /\ missed' = missed
    BY <1>5 DEF Wake, Goto, stores, outputs
  <2>2. local[Watcher].next \in {"arm", "sleep", "backoff"}
    BY <2>1 DEF WatcherInv, IInv, Types
  <2>3. PICK r : r = local[Watcher]
    OBVIOUS
  <2>4. local' = [local EXCEPT ![Watcher] = r]
    BY <2>1, <2>3, <1>0 DEF ThreadType
  <2> QED BY <1>0, <2>1, <2>2, <2>3, <2>4, WatcherGoes DEF Observing
<1> QED BY <1>1, <1>2, <1>3, <1>4, <1>5

LEMMA LoadFailsKeeps ==
    ASSUME IInv, NEW t \in Threads, LoadFails(t)
    PROVE  IInv'
<1>1. /\ pc[t] \in {"shop", "check", "set", "setUid", "push", "reply"} /\ Refuse(t)
      /\ missed' = (missed \/ pc[t] = "push") /\ mem' = mem /\ file' = file
      /\ UNCHANGED <<reg, watch, outputs>> /\ lapses' = lapses
  BY DEF LoadFails, Critical, stores
<1>2. CASE t = Watcher
  <2>1. pc[Watcher] = "push"
    BY <1>1, <1>2 DEF WatcherInv, Observing, IInv, Types
  <2> QED BY <1>1, <1>2, <2>1, WatcherRefuses DEF outputs
<1>3. CASE t # Watcher
  <2>1. pc[t] \notin Observing /\ pc[t] # "idle"
    BY <1>1 DEF Observing
  <2>2. pc[Watcher] # "boot"
    BY <1>3, <2>1, Booted
  <2>3. ~missed' => ~missed
    BY <1>1
  <2>4. /\ ThreadType' /\ local'[t].notes = <<>> /\ pc'[t] \in {"idle", "reply"}
        /\ \A u \in Threads : u # t => pc'[u] = pc[u] /\ local'[u] = local[u]
    BY <1>1, <1>3, RefuseFacts DEF IInv, Types
  <2> QED BY <1>1, <1>3, <2>1, <2>2, <2>3, <2>4, CalmEnd
<1> QED BY <1>2, <1>3

-----------------------------------------------------------------------------
(* Sections that announce what they changed.                               *)

\* A section that ends with these announcements, perhaps with none.
Sends(t, notes) ==
    /\ notes \in Seq(NoteRecord) /\ Len(notes) <= 2
    /\ Len(notes) = 2 => notes[1].about = "token" /\ notes[2].about = "conf"
    /\ pc[t] \notin Observing /\ local'[t].notes = notes
    /\ notes = <<>> => pc'[t] \notin Observing
    /\ notes # <<>> => pc'[t] = "notify"
    /\ \A u \in Threads : u # t => pc'[u] = pc[u] /\ local'[u] = local[u]
    /\ lapses \cup Races(t, notes) \subseteq lapses'

LEMMA AnnounceFacts ==
    ASSUME ThreadType, NEW t \in Threads, NEW notes \in Seq(NoteRecord), notes # <<>>, Announce(t, notes)
    PROVE  /\ ThreadType' /\ pc'[t] = "notify" /\ local'[t].notes = notes /\ local'[t].next = local[t].next
           /\ \A u \in Threads : u # t => pc'[u] = pc[u] /\ local'[u] = local[u]
<1>1. PICK r : r = [Blank EXCEPT !.next = local[t].next, !.notes = notes]
  OBVIOUS
<1>2. local[t].next \in {"", "arm", "sleep", "backoff"}
  BY DEF ThreadType, Local
<1>3. r \in Local /\ r.notes = notes /\ r.next = local[t].next
  BY <1>1, <1>2, EmptyFacts DEF Blank, Local, NoteRecord
<1>4. local' = [local EXCEPT ![t] = r] /\ pc' = [pc EXCEPT ![t] = "notify"]
  BY <1>1 DEF Announce, Goto
<1> QED BY <1>3, <1>4, LocalUpdate

LEMMA DuePending ==
    ASSUME NEW t \in Threads, NEW a
    PROVE  (Due(t, a) # {} => a \in Pending(t)) /\ ((Due(t, a) # {})' => (a \in Pending(t))')
BY DEF Due, Pending

\* Its announcements are due, and nobody else's unless that is a lapse.
LEMMA SendsFacts ==
    ASSUME IInv, NEW t \in Threads, NEW notes, Sends(t, notes)
    PROVE  /\ NotesInv' /\ OrderInv' /\ lapses \subseteq lapses'
           /\ Pending(t) = {} /\ Due(t, "token") = {} /\ Due(t, "conf") = {}
           /\ Pending(t)' = {notes[i].about : i \in DOMAIN notes}
           /\ \A a \in {"token", "conf"} :
                Due(t, a)' = {notes[i] : i \in {j \in DOMAIN notes : notes[j].about = a}}
           /\ \A u \in Threads : u # t => /\ Pending(u)' = Pending(u)
                                          /\ \A a \in {"token", "conf"} : Due(u, a)' = Due(u, a)
           /\ "order" \notin lapses' =>
                \A u \in Threads : u # t => Pending(u) \cap Pending(t)' = {}
           /\ notes # <<>> /\ "overlap" \notin lapses' => \A u \in Threads : u # t => Pending(u) = {}
<1>0. local[t].notes = <<>>
  BY DEF Sends, NotesInv, IInv, Types
<1>1. /\ Pending(t) = {} /\ Due(t, "token") = {} /\ Due(t, "conf") = {}
  BY <1>0, NothingDue
<1>2. Pending(t)' = {notes[i].about : i \in DOMAIN notes}
  BY DEF Pending, Sends
<1>3. \A a \in {"token", "conf"} :
        Due(t, a)' = {notes[i] : i \in {j \in DOMAIN notes : notes[j].about = a}}
  <2>1. CASE notes = <<>>
    BY <2>1 DEF Due, Sends
  <2>2. CASE notes # <<>>
    BY <2>2 DEF Due, Sends
  <2> QED BY <2>1, <2>2
<1>4. \A u \in Threads : u # t => /\ Pending(u)' = Pending(u)
                                  /\ \A a \in {"token", "conf"} : Due(u, a)' = Due(u, a)
  BY SameThread DEF Sends
<1>5. lapses \subseteq lapses'
  BY DEF Sends
<1>6. \A u \in Threads : u # t => Pending(u) \subseteq UNION {Pending(v) : v \in Threads \ {t}}
  OBVIOUS
<1>7. "order" \notin lapses' => \A u \in Threads : u # t => Pending(u) \cap Pending(t)' = {}
  <2>1. "order" \notin lapses' =>
          {notes[i].about : i \in DOMAIN notes} \cap UNION {Pending(v) : v \in Threads \ {t}} = {}
    BY DEF Sends, Races
  <2> QED BY <2>1, <1>2, <1>6
<1>8. notes # <<>> /\ "overlap" \notin lapses' => \A u \in Threads : u # t => Pending(u) = {}
  <2>1. "overlap" \notin lapses' =>
          {notes[i].about : i \in DOMAIN notes} = {} \/ UNION {Pending(v) : v \in Threads \ {t}} = {}
    BY DEF Sends, Races
  <2>2. notes # <<>> => {notes[i].about : i \in DOMAIN notes} # {}
    <3>1. notes # <<>> => 1 \in DOMAIN notes
      BY DEF Sends
    <3> QED BY <3>1
  <2> QED BY <2>1, <2>2, <1>6
<1>9. OrderInv'
  <2> SUFFICES ASSUME "order" \notin lapses', NEW v \in Threads, NEW u \in Threads, v # u
               PROVE  Pending(v)' \cap Pending(u)' = {}
    BY DEF OrderInv
  <2>1. CASE v # t /\ u # t
    BY <2>1, <1>4, <1>5 DEF OrderInv, IInv, NoteInv
  <2>2. CASE v = t \/ u = t
    BY <2>2, <1>4, <1>7
  <2> QED BY <2>1, <2>2
<1>10. NotesInv'
  <2> SUFFICES ASSUME NEW u \in Threads
               PROVE  /\ local'[u].notes = <<>> <=> pc'[u] \notin Observing
                      /\ Len(local'[u].notes) <= 2
                      /\ Len(local'[u].notes) = 2 => /\ local'[u].notes[1].about = "token"
                                                     /\ local'[u].notes[2].about = "conf"
    BY DEF NotesInv
  <2>1. CASE u = t
    BY <2>1 DEF Sends, Observing
  <2>2. CASE u # t
    BY <2>2 DEF Sends, NotesInv, IInv, Types
  <2> QED BY <2>1, <2>2
<1> QED BY <1>1, <1>2, <1>3, <1>4, <1>5, <1>7, <1>8, <1>9, <1>10

LEMMA TokenSent ==
    ASSUME IInv, NEW t \in Threads, NEW notes, Sends(t, notes), sent' = sent, NEW new, Load' = new,
           lapses' \cap {"order", "unresolved", "blind", "crash", "disk"} = {} =>
               /\ \A i \in DOMAIN notes : notes[i].about = "token" => notes[i].value = TokenDue(new)
               /\ (\A i \in DOMAIN notes : notes[i].about # "token") => TokenDue(new) = TokenDue(Load)
    PROVE  TokenInv'
<1> SUFFICES ASSUME lapses' \cap {"order", "unresolved", "blind", "crash", "disk"} = {}
             PROVE  /\ \A u \in Threads : \A n \in Due(u, "token")' : n.value = TokenDue(new)
                    /\ (\A u \in Threads : Due(u, "token")' = {}) => sent'.token = TokenDue(new)
  BY DEF TokenInv
<1>0. lapses \cap {"order", "unresolved", "blind", "crash", "disk"} = {}
  BY SendsFacts
<1>1. Due(t, "token")' = {notes[i] : i \in {j \in DOMAIN notes : notes[j].about = "token"}}
      /\ Due(t, "token") = {}
  BY SendsFacts
<1>2. \A u \in Threads : u # t => Due(u, "token")' = Due(u, "token")
  BY SendsFacts
<1>3. CASE \E i \in DOMAIN notes : notes[i].about = "token"
  <2>1. "token" \in Pending(t)'
    BY <1>3, SendsFacts
  <2>2. \A u \in Threads : u # t => "token" \notin Pending(u)
    BY <2>1, SendsFacts
  <2>3. \A u \in Threads : u # t => Due(u, "token") = {}
    BY <2>2, DuePending
  <2> QED BY <1>1, <1>2, <1>3, <2>3
<1>4. CASE \A i \in DOMAIN notes : notes[i].about # "token"
  <2>1. Due(t, "token")' = Due(t, "token") /\ TokenDue(new) = TokenDue(Load)
    BY <1>1, <1>4
  <2>2. \A u \in Threads : Due(u, "token")' = Due(u, "token")
    BY <2>1, <1>2
  <2> QED BY <1>0, <2>1, <2>2 DEF TokenInv, IInv, NoteInv
<1> QED BY <1>3, <1>4

LEMMA ConfSent ==
    ASSUME IInv, NEW t \in Threads, NEW notes, Sends(t, notes), sent' = sent, NEW new, Load' = new,
           lapses' \cap {"order", "unresolved", "crash", "disk", "forgotten"} = {} /\ Restored' =>
               /\ \A i \in DOMAIN notes :
                    notes[i].about = "conf" => notes[i].value = ConfOf(new) /\ notes[i].uid \in {{}, {new.uid}}
               /\ (\A i \in DOMAIN notes : notes[i].about # "conf") =>
                    Restored /\ ConfOf(new) = ConfOf(Load) /\ new.uid = Load.uid
    PROVE  ConfInv'
<1> SUFFICES ASSUME lapses' \cap {"order", "unresolved", "crash", "disk", "forgotten"} = {}, Restored'
             PROVE  /\ \A u \in Threads : \A n \in Due(u, "conf")' :
                         n.value = ConfOf(new) /\ n.uid \in {{}, {new.uid}}
                    /\ (\A u \in Threads : Due(u, "conf")' = {}) => sent'.conf = ConfDue(new)
  BY DEF ConfInv
<1>0. lapses \cap {"order", "unresolved", "crash", "disk", "forgotten"} = {}
  BY SendsFacts
<1>1. Due(t, "conf")' = {notes[i] : i \in {j \in DOMAIN notes : notes[j].about = "conf"}}
      /\ Due(t, "conf") = {}
  BY SendsFacts
<1>2. \A u \in Threads : u # t => Due(u, "conf")' = Due(u, "conf")
  BY SendsFacts
<1>3. CASE \E i \in DOMAIN notes : notes[i].about = "conf"
  <2>1. "conf" \in Pending(t)'
    BY <1>3, SendsFacts
  <2>2. \A u \in Threads : u # t => "conf" \notin Pending(u)
    BY <2>1, SendsFacts
  <2>3. \A u \in Threads : u # t => Due(u, "conf") = {}
    BY <2>2, DuePending
  <2> QED BY <1>1, <1>2, <1>3, <2>3
<1>4. CASE \A i \in DOMAIN notes : notes[i].about # "conf"
  <2>1. Due(t, "conf")' = Due(t, "conf") /\ Restored /\ ConfOf(new) = ConfOf(Load) /\ new.uid = Load.uid
    BY <1>1, <1>4
  <2>2. \A u \in Threads : Due(u, "conf")' = Due(u, "conf")
    BY <2>1, <1>2
  <2>3. ConfDue(new) = ConfDue(Load)
    BY <2>1 DEF ConfDue
  <2> QED BY <1>0, <2>1, <2>2, <2>3 DEF ConfInv, IInv, NoteInv
<1> QED BY <1>3, <1>4

LEMMA YamlSent ==
    ASSUME IInv, NEW t \in Threads, NEW notes, Sends(t, notes), yaml' = yaml, NEW new, Load' = new,
           pc[Watcher] # "boot",
           lapses' = {} /\ notes = <<>> => TokenOf(new) = TokenOf(Load) /\ ConfOf(new) = ConfOf(Load)
    PROVE  YamlInv'
<1> SUFFICES ASSUME lapses' = {}
             PROVE  /\ \A v, u \in Threads : v # u => Pending(v)' = {} \/ Pending(u)' = {}
                    /\ \A u \in Threads :
                         /\ pc'[u] \in {"ciConf", "ciWrite"} => local'[u].token = TokenOf(new)
                         /\ pc'[u] = "ciWrite" => local'[u].conf = ConfOf(new)
                    /\ (\A u \in Threads : Pending(u)' = {})
                         => yaml' = [token |-> TokenOf(new), conf |-> ConfOf(new)]
  BY DEF YamlInv
<1>0. lapses = {}
  BY SendsFacts
<1>1. \A u \in Threads : u # t => /\ Pending(u)' = Pending(u) /\ pc'[u] = pc[u] /\ local'[u] = local[u]
  BY SendsFacts DEF Sends
<1>2. CASE notes = <<>>
  <2>1. Pending(t)' = {} /\ pc'[t] \notin Observing /\ Pending(t) = {}
    <3>1. local'[t].notes = <<>> /\ pc'[t] \notin Observing
      BY <1>2 DEF Sends
    <3>2. Pending(t) = {}
      BY SendsFacts
    <3> QED BY <3>1, <3>2, NothingDue
  <2>2. \A u \in Threads : Pending(u)' = Pending(u)
    BY <1>1, <2>1
  <2>3. \A v, u \in Threads : v # u => Pending(v)' = {} \/ Pending(u)' = {}
    BY <1>0, <2>2 DEF YamlInv, IInv, NoteInv
  <2>4. \A u \in Threads :
          /\ pc'[u] \in {"ciConf", "ciWrite"} => local'[u].token = TokenOf(new)
          /\ pc'[u] = "ciWrite" => local'[u].conf = ConfOf(new)
    BY <1>0, <1>1, <1>2, <2>1 DEF YamlInv, IInv, NoteInv, Observing
  <2>5. (\A u \in Threads : Pending(u)' = {}) => yaml' = [token |-> TokenOf(new), conf |-> ConfOf(new)]
    BY <1>0, <1>2, <2>2 DEF YamlInv, IInv, NoteInv
  <2> QED BY <2>3, <2>4, <2>5
<1>3. CASE notes # <<>>
  <2>1. \A u \in Threads : u # t => Pending(u)' = {} /\ pc'[u] \notin Observing
    <3>1. \A u \in Threads : u # t => Pending(u) = {}
      BY <1>3, SendsFacts
    <3>2. \A u \in Threads : u # t => local[u].notes = <<>>
      <4> SUFFICES ASSUME NEW u \in Threads, u # t, local[u].notes # <<>> PROVE FALSE
        OBVIOUS
      <4>1. local[u].notes \in Seq(NoteRecord)
        BY DEF IInv, Types, ThreadType, Local, NoteRecord
      <4>2. 1 \in DOMAIN local[u].notes
        BY <4>1
      <4>3. Pending(u) # {}
        BY <4>2 DEF Pending
      <4> QED BY <3>1, <4>3
    <3> QED BY <1>1, <3>1, <3>2 DEF NotesInv, IInv, Types
  <2>2. pc'[t] = "notify"
    BY <1>3 DEF Sends
  <2>3. Pending(t)' # {}
    <3>1. 1 \in DOMAIN notes
      BY <1>3 DEF Sends
    <3>2. Pending(t)' = {notes[i].about : i \in DOMAIN notes}
      BY SendsFacts
    <3> QED BY <3>1, <3>2
  <2>4. \A u \in Threads : pc'[u] \notin {"ciConf", "ciWrite"}
    BY <2>1, <2>2 DEF Observing
  <2> QED BY <2>1, <2>3, <2>4
<1> QED BY <1>2, <1>3

\* A section changes what is not in the registry, or the UID of what is.
LEMMA StoreSet ==
    ASSUME IInv, NEW new \in State, mem' = new, Load' = new, lapses \subseteq lapses', missed' = missed,
           new.org = Load.org, new.tokenSum = Load.tokenSum, new.confSum = Load.confSum,
           new.orgConf = None <=> Load.orgConf = None,
           Load.orgConf # None => new.orgConf.conf = Load.orgConf.conf,
           lapses' \cap {"shadow", "stale"} = {} => Carries(new)
    PROVE  SyncInv' /\ CarryInv' /\ OrgInv' /\ SumInv' /\ RestoredInv' /\ (Restored' <=> Restored)
<1>1. SyncInv' /\ CarryInv'
  BY DEF SyncInv, CarryInv
<1>2. OrgInv'
  BY DEF OrgInv, IInv, StoreInv
<1>3. SumInv'
  BY DEF SumInv, IInv, StoreInv
<1>4. Restored' <=> Restored
  BY DEF Restored
<1>5. RestoredInv'
  BY <1>4 DEF RestoredInv, IInv, StoreInv
<1> QED BY <1>1, <1>2, <1>3, <1>4, <1>5

\* A call changes the configuration and announces it.
LEMMA CallChanges ==
    ASSUME IInv, NEW t \in Threads, t # Watcher, pc[t] # "idle", NEW notes, Sends(t, notes), notes # <<>>,
           ThreadType', NEW new \in State, mem' = new, file' = OnDisk(new),
           UNCHANGED <<reg, watch, outputs>>, missed' = missed,
           new.org = Load.org, new.tokenSum = Load.tokenSum, new.confSum = Load.confSum,
           new.orgConf = None <=> Load.orgConf = None,
           Load.orgConf # None => new.orgConf.conf = Load.orgConf.conf,
           lapses' \cap {"shadow", "stale"} = {} => Carries(new),
           lapses' \cap {"order", "unresolved", "blind", "crash", "disk"} = {} =>
               /\ \A i \in DOMAIN notes : notes[i].about = "token" => notes[i].value = TokenDue(new)
               /\ (\A i \in DOMAIN notes : notes[i].about # "token") => TokenDue(new) = TokenDue(Load),
           lapses' \cap {"order", "unresolved", "crash", "disk", "forgotten"} = {} =>
               /\ \A i \in DOMAIN notes :
                    notes[i].about = "conf" => notes[i].value = ConfOf(new) /\ notes[i].uid \in {{}, {new.uid}}
               /\ (\A i \in DOMAIN notes : notes[i].about # "conf") =>
                    ConfOf(new) = ConfOf(Load) /\ new.uid = Load.uid
    PROVE  IInv'
<1>0. lapses \subseteq lapses' /\ NotesInv' /\ OrderInv'
  BY SendsFacts
<1>1. /\ pc'[Watcher] = pc[Watcher] /\ local'[Watcher] = local[Watcher] /\ pc[Watcher] # "boot"
      /\ reg' = reg /\ watch' = watch /\ sent' = sent /\ yaml' = yaml /\ pc'[t] \in Observing
      /\ \A u \in Threads : u # t => pc'[u] = pc[u] /\ local'[u] = local[u]
  BY Booted, ThreadFacts DEF Sends, outputs, Observing
<1>2. Load' = new /\ StoreType'
  BY LoadNew
<1>3. SyncInv' /\ CarryInv' /\ OrgInv' /\ SumInv' /\ RestoredInv' /\ (Restored' <=> Restored)
  BY <1>0, <1>2, StoreSet
<1>4. WatcherInv' /\ RegInv' /\ RegType'
  BY <1>0, <1>1, <1>2, WatcherKept
<1>5. CallInv'
  BY <1>1, CallsKept
<1>6. TokenInv'
  BY <1>1, <1>2, TokenSent
<1>7. ConfInv'
  BY <1>1, <1>2, <1>3, ConfSent
<1>8. YamlInv'
  BY <1>1, <1>2, YamlSent
<1> QED BY <1>0, <1>2, <1>3, <1>4, <1>5, <1>6, <1>7, <1>8 DEF IInv, Types, StoreInv, NoteInv

\* The token and the configuration in force depend on their sources only.
LEMMA SourcesDecide ==
    /\ \A r, s : r.org = s.org /\ r.store = s.store /\ r.user = s.user => TokenOf(r) = TokenOf(s)
    /\ \A r \in State, s \in State :
         r.tokenSum = s.tokenSum /\ r.store = s.store /\ r.user = s.user => TokenDue(r) = TokenDue(s)
    /\ \A r \in State : r.org = r.tokenSum => TokenDue(r) = TokenOf(r)
    /\ \A r, s : r.orgConf = s.orgConf /\ r.userConf = s.userConf => ConfOf(r) = ConfOf(s)
<1>1. ASSUME NEW r, NEW s, r.org = s.org, r.store = s.store, r.user = s.user
      PROVE  TokenOf(r) = TokenOf(s)
  BY <1>1 DEF TokenOf, SourceOf
<1>2. ASSUME NEW r \in State
      PROVE  LET e == [r EXCEPT !.org = r.tokenSum]
             IN  e.org = r.tokenSum /\ e.store = r.store /\ e.user = r.user /\ TokenDue(r) = TokenOf(e)
  BY DEF State, TokenDue
<1>3. ASSUME NEW r \in State, NEW s \in State, r.tokenSum = s.tokenSum, r.store = s.store, r.user = s.user
      PROVE  TokenDue(r) = TokenDue(s)
  BY <1>1, <1>2, <1>3
<1>4. ASSUME NEW r \in State, r.org = r.tokenSum
      PROVE  TokenDue(r) = TokenOf(r)
  BY <1>1, <1>2, <1>4
<1>5. ASSUME NEW r, NEW s, r.orgConf = s.orgConf, r.userConf = s.userConf
      PROVE  ConfOf(r) = ConfOf(s)
  BY <1>5 DEF ConfOf
<1> QED BY <1>1, <1>3, <1>4, <1>5

\* One announcement.
LEMMA OneNote ==
    ASSUME NEW a \in {"token", "conf"}, NEW v \in Token \cup Client, NEW w \in SUBSET (Uids \cup {None}),
           NEW notes, notes = <<Note(a, v, w)>>
    PROVE  /\ notes \in Seq(NoteRecord) /\ Len(notes) = 1 /\ notes # <<>> /\ DOMAIN notes = {1}
           /\ notes[1].about = a /\ notes[1].value = v /\ notes[1].uid = w
<1>1. PICK n : n = Note(a, v, w)
  OBVIOUS
<1>2. n \in NoteRecord /\ n.about = a /\ n.value = v /\ n.uid = w
  BY <1>1 DEF Note, NoteRecord
<1>3. notes = <<n>>
  BY <1>1
<1> QED BY <1>2, <1>3

LEMMA SetSteps ==
    ASSUME IInv, NEW u \in Users, Set(u)
    PROVE  IInv'
<1>0. /\ ThreadType /\ StoreType /\ CallInv /\ u \in Threads /\ u # Watcher /\ local[u] \in Local /\ pc[u] = "set"
      /\ UNCHANGED <<reg, watch, outputs>> /\ missed' = missed /\ pc[u] \notin Observing
      /\ pc[u] # "idle"
  BY ThreadFacts DEF IInv, Types, ThreadType, Set, Observing
<1>1. PICK f, v : f = local[u].field /\ v = local[u].value
  OBVIOUS
<1>2. \/ f \in {"user", "store"} /\ v \in Token
      \/ f = "userConf" /\ v \in Client
  BY <1>0, <1>1 DEF CallInv
<1>3. PICK old : old = Load
  OBVIOUS
<1>4. old \in State
  BY <1>0, <1>3, LoadFacts
<1>5. PICK new : new = [old EXCEPT ![f] = v]
  OBVIOUS
<1>6. PICK notes : notes = IF old[f] = v THEN <<>>
                           ELSE <<Note(IF f = "userConf" THEN "conf" ELSE "token", v, {})>>
  OBVIOUS
<1>7. /\ mem' = new /\ file' = (IF old[f] = v THEN file ELSE OnDisk(new)) /\ Announce(u, notes)
      /\ lapses' = lapses \cup Races(u, notes)
            \cup Lapse("unresolved", notes # <<>> /\ v # IF f = "userConf" THEN ConfOf(new) ELSE TokenOf(new))
            \cup Lapse("blind", notes # <<>> /\ f # "userConf" /\ new.org # new.tokenSum)
            \cup Lapse("stale", f = "userConf" /\ v # Complete(v, new.uid))
  BY <1>1, <1>3, <1>5, <1>6 DEF Set
<1>8. lapses \cup Races(u, notes) \subseteq lapses'
  BY <1>7
<1>9. CASE old[f] = v
  <2>1. new = old /\ notes = <<>>
    BY <1>2, <1>4, <1>5, <1>6, <1>9 DEF State
  <2>2. mem' = Load /\ file' = file
    BY <1>3, <1>7, <1>9, <2>1
  <2>3. /\ ThreadType' /\ local'[u].notes = <<>> /\ pc'[u] \in {"idle", "reply"}
        /\ \A t \in Threads : t # u => pc'[t] = pc[t] /\ local'[t] = local[t]
    BY <1>0, <1>7, <2>1, SilentFacts
  <2>4. pc[Watcher] # "boot"
    BY <1>0, Booted
  <2> QED BY <1>0, <1>8, <2>2, <2>3, <2>4, CalmEnd
<1>10. CASE old[f] # v
  <2>1. PICK a : a = IF f = "userConf" THEN "conf" ELSE "token"
    OBVIOUS
  <2>2. notes = <<Note(a, v, {})>> /\ a \in {"token", "conf"} /\ v \in Token \cup Client
    BY <1>2, <1>6, <1>10, <2>1
  <2>3. /\ notes \in Seq(NoteRecord) /\ Len(notes) = 1 /\ notes # <<>> /\ DOMAIN notes = {1}
        /\ notes[1].about = a /\ notes[1].value = v /\ notes[1].uid = {}
    BY <2>2, OneNote
  <2>4. /\ ThreadType' /\ pc'[u] = "notify" /\ local'[u].notes = notes
        /\ \A t \in Threads : t # u => pc'[t] = pc[t] /\ local'[t] = local[t]
    BY <1>0, <1>7, <2>3, AnnounceFacts
  <2>5. Sends(u, notes)
    BY <1>0, <1>8, <2>3, <2>4 DEF Sends
  <2>6. /\ new \in State /\ file' = OnDisk(new) /\ new.org = old.org /\ new.tokenSum = old.tokenSum
        /\ new.confSum = old.confSum /\ new.orgConf = old.orgConf /\ new.uid = old.uid
        /\ f = "userConf" => new.userConf = v /\ new.user = old.user /\ new.store = old.store
        /\ f # "userConf" => new.userConf = old.userConf
    BY <1>2, <1>4, <1>5, <1>7, <1>10 DEF State
  <2>7. lapses' \cap {"shadow", "stale"} = {} => Carries(new)
    <3> SUFFICES ASSUME lapses' \cap {"shadow", "stale"} = {}
                 PROVE  Carries(new)
      OBVIOUS
    <3>1. Carries(old)
      BY <1>3, <1>8 DEF CarryInv, IInv, StoreInv
    <3>2. CASE f # "userConf"
      BY <2>6, <3>1, <3>2 DEF Carries
    <3>3. CASE f = "userConf"
      <4>1. v = Complete(v, new.uid)
        BY <1>7, <3>3 DEF Lapse
      <4>2. v \in Client /\ new.uid \in Uids \cup {None}
        BY <1>2, <2>6, <3>3 DEF State
      <4>3. new.uid # None /\ v # None => v.uid = new.uid
        <5>1. PICK w \in Uids \cup {None} : w = new.uid
          BY <4>2
        <5> QED BY <4>1, <4>2, <5>1, CompleteFacts
      <4> QED BY <2>6, <3>1, <3>3, <4>3 DEF Carries
    <3> QED BY <3>2, <3>3
  <2>8. lapses' \cap {"unresolved", "blind"} = {} =>
          IF f = "userConf" THEN TokenDue(new) = TokenDue(old) ELSE v = TokenDue(new)
    <3>1. CASE f = "userConf"
      BY <1>4, <2>6, <3>1, SourcesDecide
    <3>2. CASE f # "userConf"
      <4> SUFFICES ASSUME lapses' \cap {"unresolved", "blind"} = {}
                   PROVE  v = TokenDue(new)
        BY <3>2
      <4>1. v = TokenOf(new) /\ new.org = new.tokenSum
        BY <1>7, <2>3, <3>2 DEF Lapse
      <4> QED BY <2>6, <4>1, SourcesDecide
    <3> QED BY <3>1, <3>2
  <2>9. "unresolved" \notin lapses' =>
          IF f = "userConf" THEN v = ConfOf(new) ELSE ConfOf(new) = ConfOf(old)
    <3>1. CASE f = "userConf"
      BY <1>7, <2>3, <3>1 DEF Lapse
    <3>2. CASE f # "userConf"
      BY <2>6, <3>2, SourcesDecide
    <3> QED BY <3>1, <3>2
  <2>10. /\ lapses' \cap {"order", "unresolved", "blind", "crash", "disk"} = {} =>
              /\ \A i \in DOMAIN notes : notes[i].about = "token" => notes[i].value = TokenDue(new)
              /\ (\A i \in DOMAIN notes : notes[i].about # "token") => TokenDue(new) = TokenDue(Load)
         /\ lapses' \cap {"order", "unresolved", "crash", "disk", "forgotten"} = {} =>
              /\ \A i \in DOMAIN notes :
                   notes[i].about = "conf" => notes[i].value = ConfOf(new) /\ notes[i].uid \in {{}, {new.uid}}
              /\ (\A i \in DOMAIN notes : notes[i].about # "conf") =>
                   ConfOf(new) = ConfOf(Load) /\ new.uid = Load.uid
    BY <1>3, <2>1, <2>3, <2>6, <2>8, <2>9
  <2> QED BY <1>0, <1>3, <1>7, <2>3, <2>4, <2>5, <2>6, <2>7, <2>10, CallChanges
<1> QED BY <1>9, <1>10

LEMMA SetAgentUidKeeps ==
    ASSUME IInv, SetAgentUid
    PROVE  IInv'
<1>0. PICK t \in Threads : t = Host /\ t # Watcher
  BY ThreadFacts
<1>1. /\ ThreadType /\ StoreType /\ pc[t] = "setUid" /\ pc[t] \notin Observing /\ pc[t] # "idle"
      /\ UNCHANGED <<reg, watch, outputs>> /\ missed' = missed /\ local[t].value \in Uids \cup {None}
  BY <1>0 DEF IInv, Types, SetAgentUid, Observing, CallInv
<1>2. PICK u \in Uids \cup {None} : u = local[t].value
  BY <1>1
<1>3. PICK old \in State : old = Load
  BY <1>1, LoadFacts
<1>4. PICK conf : conf = Complete(ConfOf(old), u)
  OBVIOUS
<1>5. PICK new : new = IF old.orgConf # None THEN [old EXCEPT !.orgConf = conf, !.uid = u]
                       ELSE [old EXCEPT !.userConf = conf, !.uid = u]
  OBVIOUS
<1>6. PICK notes : notes = IF UidIsNew THEN <<Note("conf", conf, {u})>> ELSE <<>>
  OBVIOUS
<1>7. /\ mem' = (IF UidIsNew THEN new ELSE old) /\ file' = (IF UidIsNew THEN OnDisk(new) ELSE file)
      /\ Announce(t, notes)
      /\ lapses' = lapses \cup Races(t, notes)
            \cup Lapse("shadow", UidIsNew /\ old.orgConf # None /\ old.userConf # None)
  BY <1>0, <1>2, <1>3, <1>4, <1>5, <1>6 DEF SetAgentUid
<1>8. lapses \cup Races(t, notes) \subseteq lapses'
  BY <1>7
<1>9. CASE ~UidIsNew
  <2>1. mem' = Load /\ file' = file /\ notes = <<>>
    BY <1>3, <1>6, <1>7, <1>9
  <2>2. /\ ThreadType' /\ local'[t].notes = <<>> /\ pc'[t] \in {"idle", "reply"}
        /\ \A v \in Threads : v # t => pc'[v] = pc[v] /\ local'[v] = local[v]
    BY <1>0, <1>1, <1>7, <2>1, SilentFacts
  <2>3. pc[Watcher] # "boot"
    BY <1>0, <1>1, Booted
  <2> QED BY <1>0, <1>1, <1>8, <2>1, <2>2, <2>3, CalmEnd
<1>10. CASE UidIsNew
  <2>0. mem' = new /\ file' = OnDisk(new) /\ notes = <<Note("conf", conf, {u})>>
    BY <1>6, <1>7, <1>10
  <2>1. PICK c \in Client : c = ConfOf(old) /\ c # None
    BY <1>3, <1>10 DEF UidIsNew, ConfOf, State
  <2>2. /\ conf \in Client /\ conf # None /\ conf.conf = c.conf /\ (u # None => conf.uid = u)
    BY <1>4, <2>1, CompleteFacts
  <2>3. /\ notes \in Seq(NoteRecord) /\ Len(notes) = 1 /\ notes # <<>> /\ DOMAIN notes = {1}
        /\ notes[1].about = "conf" /\ notes[1].value = conf /\ notes[1].uid = {u}
    <3>1. PICK w : w = {u}
      OBVIOUS
    <3>2. w \in SUBSET (Uids \cup {None}) /\ conf \in Token \cup Client /\ notes = <<Note("conf", conf, w)>>
      BY <2>0, <2>2, <3>1
    <3>3. /\ notes \in Seq(NoteRecord) /\ Len(notes) = 1 /\ notes # <<>> /\ DOMAIN notes = {1}
          /\ notes[1].about = "conf" /\ notes[1].value = conf /\ notes[1].uid = w
      BY <3>2, OneNote
    <3> QED BY <3>1, <3>3
  <2>4. /\ ThreadType' /\ pc'[t] = "notify" /\ local'[t].notes = notes
        /\ \A v \in Threads : v # t => pc'[v] = pc[v] /\ local'[v] = local[v]
    BY <1>1, <1>7, <2>3, AnnounceFacts
  <2>5. Sends(t, notes)
    BY <1>1, <1>8, <2>3, <2>4 DEF Sends
  <2>6. /\ new \in State /\ new.org = old.org /\ new.tokenSum = old.tokenSum
        /\ new.confSum = old.confSum /\ new.uid = u /\ new.user = old.user /\ new.store = old.store
        /\ new.orgConf = (IF old.orgConf # None THEN conf ELSE None)
        /\ new.userConf = (IF old.orgConf # None THEN old.userConf ELSE conf)
    <3>1. CASE old.orgConf # None
      BY <1>5, <2>2, <3>1 DEF State
    <3>2. CASE old.orgConf = None
      BY <1>5, <2>2, <3>2 DEF State
    <3> QED BY <3>1, <3>2
  <2>7. /\ new.orgConf = None <=> old.orgConf = None
        /\ old.orgConf # None => new.orgConf.conf = old.orgConf.conf
        /\ ConfOf(new) = conf
    BY <2>1, <2>2, <2>6 DEF ConfOf
  <2>8. lapses' \cap {"shadow", "stale"} = {} => Carries(new)
    <3>1. lapses' \cap {"shadow", "stale"} = {} => old.orgConf = None \/ old.userConf = None
      BY <1>7, <1>10 DEF Lapse
    <3> QED BY <2>2, <2>6, <3>1 DEF Carries
  <2>9. TokenDue(new) = TokenDue(old)
    BY <2>6, SourcesDecide
  <2>10. /\ \A i \in DOMAIN notes : notes[i].about # "token"
         /\ \A i \in DOMAIN notes :
              notes[i].about = "conf" => notes[i].value = ConfOf(new) /\ notes[i].uid \in {{}, {new.uid}}
         /\ ~\A i \in DOMAIN notes : notes[i].about # "conf"
    BY <2>3, <2>6, <2>7
  <2>11. lapses' \cap {"order", "unresolved", "blind", "crash", "disk"} = {} =>
           /\ \A i \in DOMAIN notes : notes[i].about = "token" => notes[i].value = TokenDue(new)
           /\ (\A i \in DOMAIN notes : notes[i].about # "token") => TokenDue(new) = TokenDue(Load)
    BY <1>3, <2>9, <2>10
  <2>12. lapses' \cap {"order", "unresolved", "crash", "disk", "forgotten"} = {} =>
           /\ \A i \in DOMAIN notes :
                notes[i].about = "conf" => notes[i].value = ConfOf(new) /\ notes[i].uid \in {{}, {new.uid}}
           /\ (\A i \in DOMAIN notes : notes[i].about # "conf") =>
                ConfOf(new) = ConfOf(Load) /\ new.uid = Load.uid
    BY <2>10
  <2>13. /\ new \in State /\ new.org = Load.org /\ new.tokenSum = Load.tokenSum /\ new.confSum = Load.confSum
         /\ (new.orgConf = None <=> Load.orgConf = None)
         /\ (Load.orgConf # None => new.orgConf.conf = Load.orgConf.conf)
    BY <1>3, <2>6, <2>7
  <2>14. notes # <<>>
    BY <2>3
  <2> QED BY <1>0, <1>1, <2>0, <2>4, <2>5, <2>8, <2>11, <2>12, <2>13, <2>14, CallChanges
<1> QED BY <1>9, <1>10

-----------------------------------------------------------------------------
(* The watcher pushes what it has read.                                    *)

LEMMA PushedFacts ==
    ASSUME IInv, pc[Watcher] = "push", NEW old, old = Load, NEW new, new = Pushed(Watcher),
           NEW conf, conf = Complete(Raw(local[Watcher].conf), Load.uid)
    PROVE  /\ old \in State /\ new \in State /\ conf \in Client
           /\ (conf = None <=> Raw(local[Watcher].conf) = None)
           /\ conf # None => conf.conf = local[Watcher].conf
           /\ conf # None /\ old.uid # None => conf.uid = old.uid
           /\ new.org = new.tokenSum /\ new.user = old.user /\ new.store = old.store
           /\ new.userConf = old.userConf /\ new.uid = old.uid
           /\ old.confSum # conf => new.orgConf = conf /\ new.confSum = conf
           /\ old.confSum = conf => new.orgConf = old.orgConf /\ new.confSum = old.confSum
<1>0. /\ old \in State /\ local[Watcher].token \in Token /\ local[Watcher].conf \in Confs \cup {None}
  BY ThreadFacts, LoadFacts DEF IInv, Types, ThreadType, Local, CallInv
<1>1. PICK c \in Confs \cup {None} : c = local[Watcher].conf
  BY <1>0
<1>2. PICK r \in Client : r = Raw(c) /\ (r # None => r.conf = c)
  BY <1>1, RawFacts
<1>3. PICK u \in Uids \cup {None} : u = old.uid
  BY <1>0 DEF State
<1>4. conf = Complete(r, u)
  BY <1>1, <1>2, <1>3
<1>5. /\ conf \in Client /\ (conf = None <=> r = None)
      /\ conf # None => conf.conf = c
      /\ conf # None /\ u # None => conf.uid = u
  BY <1>2, <1>4, CompleteFacts
<1>6. PICK tok \in Token : tok = local[Watcher].token
  BY <1>0
<1>7. PICK pro : pro = [old EXCEPT !.org = tok, !.tokenSum = tok]
  OBVIOUS
<1>8. new = IF old.confSum # conf THEN [pro EXCEPT !.orgConf = conf, !.confSum = conf] ELSE pro
  BY <1>6, <1>7 DEF Pushed
<1>9. /\ pro \in State /\ pro.org = pro.tokenSum /\ pro.user = old.user /\ pro.store = old.store
      /\ pro.userConf = old.userConf /\ pro.uid = old.uid
      /\ pro.orgConf = old.orgConf /\ pro.confSum = old.confSum
  BY <1>0, <1>6, <1>7 DEF State
<1>10. CASE old.confSum # conf
  <2>1. new = [pro EXCEPT !.orgConf = conf, !.confSum = conf]
    BY <1>8, <1>10
  <2>2. /\ new \in State /\ new.org = pro.org /\ new.tokenSum = pro.tokenSum /\ new.user = pro.user
        /\ new.store = pro.store /\ new.userConf = pro.userConf /\ new.uid = pro.uid
        /\ new.orgConf = conf /\ new.confSum = conf
    BY <1>5, <1>9, <2>1 DEF State
  <2> QED BY <1>0, <1>1, <1>2, <1>3, <1>5, <1>9, <1>10, <2>2
<1>11. CASE old.confSum = conf
  <2>1. new = pro
    BY <1>8, <1>11
  <2> QED BY <1>0, <1>1, <1>2, <1>3, <1>5, <1>9, <1>11, <2>1
<1> QED BY <1>10, <1>11

LEMMA TokenOfType ==
    ASSUME NEW s \in State
    PROVE  TokenOf(s) \in Token /\ ConfOf(s) \in Client
<1>1. s.org \in Token /\ s.store \in Token /\ s.user \in Token /\ None \in Token
  BY EmptyFacts DEF State
<1>2. TokenOf(s) \in {s.org, s.store, s.user, None}
  BY DEF TokenOf, SourceOf
<1>3. ConfOf(s) \in Client
  BY DEF ConfOf, State
<1> QED BY <1>1, <1>2, <1>3

LEMMA PushNotesFacts ==
    ASSUME IInv, pc[Watcher] = "push", NEW new, new = Pushed(Watcher), NEW notes, notes = PushNotes(Watcher)
    PROVE  /\ notes \in Seq(NoteRecord) /\ Len(notes) <= 2
           /\ Len(notes) = 2 => notes[1].about = "token" /\ notes[2].about = "conf"
           /\ \A i \in DOMAIN notes :
                /\ notes[i].about = "token" => notes[i].value = TokenOf(new)
                /\ notes[i].about = "conf" => notes[i].value = ConfOf(new) /\ notes[i].uid = {}
           /\ (\A i \in DOMAIN notes : notes[i].about # "token") => new.tokenSum = Load.tokenSum
           /\ (\A i \in DOMAIN notes : notes[i].about # "conf") => new.confSum = Load.confSum
<1>1. PICK old, conf : old = Load /\ conf = Complete(Raw(local[Watcher].conf), Load.uid)
  OBVIOUS
<1>2. new \in State
  BY <1>1, PushedFacts
<1>3. PICK n, m : n = Note("token", TokenOf(new), {}) /\ m = Note("conf", ConfOf(new), {})
  OBVIOUS
<1>4. /\ n \in NoteRecord /\ n.about = "token" /\ n.value = TokenOf(new)
      /\ m \in NoteRecord /\ m.about = "conf" /\ m.value = ConfOf(new) /\ m.uid = {}
  BY <1>2, <1>3, TokenOfType DEF Note, NoteRecord
<1>5. notes = (IF old.tokenSum # new.tokenSum THEN <<n>> ELSE <<>>)
              \o (IF old.confSum # new.confSum THEN <<m>> ELSE <<>>)
  BY <1>1, <1>3 DEF PushNotes
<1>6. CASE old.tokenSum # new.tokenSum /\ old.confSum # new.confSum
  <2>1. notes = <<n>> \o <<m>>
    BY <1>5, <1>6
  <2>2. <<n>> \in Seq(NoteRecord) /\ <<m>> \in Seq(NoteRecord)
    BY <1>4
  <2>3. notes \in Seq(NoteRecord) /\ Len(notes) = 2 /\ notes[1] = n /\ notes[2] = m
    BY <2>1, <2>2
  <2>4. DOMAIN notes = {1, 2}
    BY <2>3
  <2> QED BY <1>1, <1>4, <1>6, <2>3, <2>4
<1>7. CASE old.tokenSum # new.tokenSum /\ old.confSum = new.confSum
  <2>1. notes = <<n>>
    BY <1>5, <1>7
  <2> QED BY <1>1, <1>4, <1>7, <2>1
<1>8. CASE old.tokenSum = new.tokenSum /\ old.confSum # new.confSum
  <2>1. notes = <<m>>
    BY <1>5, <1>8
  <2> QED BY <1>1, <1>4, <1>8, <2>1
<1>9. CASE old.tokenSum = new.tokenSum /\ old.confSum = new.confSum
  <2>1. notes = <<>>
    BY <1>5, <1>9
  <2> QED BY <1>1, <1>9, <2>1
<1> QED BY <1>6, <1>7, <1>8, <1>9

LEMMA PushSends ==
    ASSUME IInv, pc[Watcher] = "push", NEW notes, notes = PushNotes(Watcher), Announce(Watcher, notes),
           lapses \cup Races(Watcher, notes) \subseteq lapses'
    PROVE  /\ ThreadType' /\ Sends(Watcher, notes) /\ WatcherInv' /\ CallInv'
           /\ pc'[Watcher] \in {"arm", "sleep", "backoff", "notify"}
<1>0. PICK t \in Threads : t = Watcher
  BY ThreadFacts
<1>1. /\ ThreadType /\ local[t].next \in {"arm", "sleep", "backoff"} /\ pc[t] \notin Observing
  BY <1>0 DEF IInv, Types, WatcherInv, Observing
<1>2. PICK new : new = Pushed(Watcher)
  OBVIOUS
<1>3. /\ notes \in Seq(NoteRecord) /\ Len(notes) <= 2
      /\ Len(notes) = 2 => notes[1].about = "token" /\ notes[2].about = "conf"
  BY <1>2, PushNotesFacts
<1>4. /\ ThreadType' /\ local'[t].next = local[t].next /\ local'[t].notes = notes
      /\ notes # <<>> => pc'[t] = "notify"
      /\ notes = <<>> => pc'[t] \in {"arm", "sleep", "backoff"}
      /\ \A u \in Threads : u # t => pc'[u] = pc[u] /\ local'[u] = local[u]
  <2>1. Announce(t, notes)
    BY <1>0
  <2>2. CASE notes = <<>>
    BY <1>0, <1>1, <2>1, <2>2, SilentFacts
  <2>3. CASE notes # <<>>
    BY <1>1, <1>3, <2>1, <2>3, AnnounceFacts
  <2> QED BY <2>2, <2>3
<1>5. pc'[Watcher] \in {"arm", "sleep", "backoff", "notify"}
  BY <1>0, <1>4
<1>6. Sends(Watcher, notes)
  BY <1>0, <1>1, <1>3, <1>4 DEF Sends, Observing
<1>7. WatcherInv'
  BY <1>0, <1>1, <1>4, <1>5 DEF WatcherInv, Observing
<1>8. CallInv'
  <2>1. \A u \in Users : pc'[u] = pc[u] /\ local'[u] = local[u]
    BY <1>0, <1>4, ThreadFacts
  <2>2. pc'[Host] = pc[Host] /\ local'[Host] = local[Host]
    BY <1>0, <1>4, ThreadFacts
  <2>3. pc'[Watcher] # "push"
    BY <1>5
  <2> QED BY <2>1, <2>2, <2>3 DEF CallInv, IInv, Types
<1> QED BY <1>4, <1>5, <1>6, <1>7, <1>8

LEMMA UpdateRegistryDataKeeps ==
    ASSUME IInv, UpdateRegistryData
    PROVE  IInv'
<1>0. Watcher \in Threads /\ pc[Watcher] = "push" /\ StoreType /\ RegType
  BY ThreadFacts DEF UpdateRegistryData, IInv, Types
<1>1. PICK old, new, conf, notes :
        /\ old = Load /\ new = Pushed(Watcher) /\ notes = PushNotes(Watcher)
        /\ conf = Complete(Raw(local[Watcher].conf), Load.uid)
  OBVIOUS
<1>2. /\ mem' = new /\ file' = OnDisk(new) /\ Announce(Watcher, notes)
      /\ reg' = reg /\ watch' = watch /\ sent' = sent /\ yaml' = yaml
      /\ lapses' = lapses \cup Races(Watcher, notes)
            \cup Lapse("silent", TokenOf(new) # TokenOf(old) /\ new.tokenSum = old.tokenSum)
            \cup Lapse("forgotten", new.orgConf = None /\ Raw(local[Watcher].conf) # None)
  BY <1>1 DEF UpdateRegistryData, outputs
<1>3. /\ old \in State /\ new \in State /\ conf \in Client
      /\ (conf = None <=> Raw(local[Watcher].conf) = None)
      /\ conf # None => conf.conf = local[Watcher].conf
      /\ conf # None /\ old.uid # None => conf.uid = old.uid
      /\ new.org = new.tokenSum /\ new.user = old.user /\ new.store = old.store
      /\ new.userConf = old.userConf /\ new.uid = old.uid
      /\ old.confSum # conf => new.orgConf = conf /\ new.confSum = conf
      /\ old.confSum = conf => new.orgConf = old.orgConf /\ new.confSum = old.confSum
  BY <1>0, <1>1, PushedFacts
<1>4. lapses \cup Races(Watcher, notes) \subseteq lapses'
  BY <1>2
<1>5. /\ ThreadType' /\ Sends(Watcher, notes) /\ WatcherInv' /\ CallInv'
      /\ pc'[Watcher] \in {"arm", "sleep", "backoff", "notify"}
  BY <1>0, <1>1, <1>2, <1>4, PushSends
<1>6. Load' = new /\ StoreType'
  BY <1>2, <1>3, LoadNew
<1>7. NotesInv' /\ OrderInv'
  BY <1>0, <1>5, SendsFacts
<1>8. "disk" \notin lapses' => (old.orgConf # None => old.confSum # None /\ old.orgConf.conf = old.confSum.conf)
  BY <1>1, <1>4 DEF SumInv, IInv, StoreInv
<1>9. SyncInv' /\ OrgInv'
  BY <1>2, <1>3, <1>6 DEF SyncInv, OrgInv
<1>10. CarryInv'
  <2> SUFFICES ASSUME lapses' \cap {"shadow", "stale"} = {}
               PROVE  Carries(new)
    BY <1>2, <1>6 DEF CarryInv
  <2>1. Carries(old)
    BY <1>1, <1>4 DEF CarryInv, IInv, StoreInv
  <2>2. CASE old.confSum = conf
    BY <1>3, <2>1, <2>2 DEF Carries
  <2>3. CASE old.confSum # conf
    BY <1>3, <2>1, <2>3 DEF Carries
  <2> QED BY <2>2, <2>3
<1>11. SumInv'
  <2> SUFFICES ASSUME "disk" \notin lapses', new.orgConf # None
               PROVE  new.confSum # None /\ new.orgConf.conf = new.confSum.conf
    BY <1>6 DEF SumInv
  <2> QED BY <1>3, <1>8
<1>12. RestoredInv'
  <2> SUFFICES ASSUME lapses' \cap {"disk", "forgotten"} = {}
               PROVE  new.orgConf # None \/ new.confSum = None
    BY <1>6 DEF RestoredInv, Restored
  <2>1. new.orgConf # None \/ Raw(local[Watcher].conf) = None
    BY <1>2 DEF Lapse
  <2> QED BY <1>3, <2>1
<1>13. RegInv'
  <2> SUFFICES ASSUME watch' = "armed", lapses' \cap {"disk", "forgotten"} = {}
               PROVE  Matches(reg.conf)'
    BY <1>5 DEF RegInv
  <2>1. local[Watcher].conf = reg.conf
    BY <1>0, <1>2 DEF RegInv, IInv, StoreInv
  <2>2. new.orgConf # None \/ Raw(reg.conf) = None
    BY <1>2, <2>1 DEF Lapse
  <2>3. IF Raw(reg.conf) = None THEN new.orgConf = None ELSE new.orgConf # None /\ new.orgConf.conf = reg.conf
    <3>1. CASE old.confSum # conf
      BY <1>3, <2>1, <3>1
    <3>2. CASE old.confSum = conf
      BY <1>3, <1>8, <2>1, <2>2, <3>2
    <3> QED BY <3>1, <3>2
  <2>4. reg'.conf = reg.conf /\ Raw(reg.conf)' = Raw(reg.conf)
    BY <1>2
  <2> QED BY <1>6, <2>3, <2>4 DEF Matches
<1>14. /\ \A i \in DOMAIN notes :
            /\ notes[i].about = "token" => notes[i].value = TokenOf(new)
            /\ notes[i].about = "conf" => notes[i].value = ConfOf(new) /\ notes[i].uid = {}
       /\ (\A i \in DOMAIN notes : notes[i].about # "token") => new.tokenSum = old.tokenSum
       /\ (\A i \in DOMAIN notes : notes[i].about # "conf") => new.confSum = old.confSum
  BY <1>0, <1>1, PushNotesFacts
<1>15. /\ TokenDue(new) = TokenOf(new)
       /\ new.tokenSum = old.tokenSum => TokenDue(new) = TokenDue(old)
       /\ new.confSum = old.confSum => new.orgConf = old.orgConf /\ ConfOf(new) = ConfOf(old)
  BY <1>3, SourcesDecide
<1>16. TokenInv'
  <2>1. /\ \A i \in DOMAIN notes : notes[i].about = "token" => notes[i].value = TokenDue(new)
        /\ (\A i \in DOMAIN notes : notes[i].about # "token") => TokenDue(new) = TokenDue(Load)
    BY <1>1, <1>14, <1>15
  <2> QED BY <1>0, <1>2, <1>5, <1>6, <2>1, TokenSent
<1>17. ConfInv'
  <2>1. /\ \A i \in DOMAIN notes :
             notes[i].about = "conf" => notes[i].value = ConfOf(new) /\ notes[i].uid \in {{}, {new.uid}}
        /\ Restored' /\ (\A i \in DOMAIN notes : notes[i].about # "conf") =>
             Restored /\ ConfOf(new) = ConfOf(Load) /\ new.uid = Load.uid
    BY <1>1, <1>3, <1>6, <1>14, <1>15 DEF Restored
  <2> QED BY <1>0, <1>2, <1>5, <1>6, <2>1, ConfSent
<1>18. YamlInv'
  <2>1. lapses' = {} /\ notes = <<>> => TokenOf(new) = TokenOf(Load) /\ ConfOf(new) = ConfOf(Load)
    <3> SUFFICES ASSUME lapses' = {}, notes = <<>>
                 PROVE  TokenOf(new) = TokenOf(old) /\ ConfOf(new) = ConfOf(old)
      BY <1>1
    <3>1. DOMAIN notes = {}
      OBVIOUS
    <3>2. new.tokenSum = old.tokenSum /\ new.confSum = old.confSum
      BY <1>14, <3>1
    <3>3. "silent" \notin lapses'
      OBVIOUS
    <3> QED BY <1>2, <1>15, <3>2, <3>3 DEF Lapse
  <2>2. pc[Watcher] # "boot"
    BY <1>0
  <2> QED BY <1>0, <1>2, <1>5, <1>6, <2>1, <2>2, YamlSent
<1>19. RegType'
  BY <1>0, <1>2 DEF RegType
<1> QED BY <1>5, <1>6, <1>7, <1>9, <1>10, <1>11, <1>12, <1>13, <1>16, <1>17, <1>18, <1>19
        DEF IInv, Types, StoreInv, NoteInv

LEMMA UpdateRegistryDataFailsKeeps ==
    ASSUME IInv, UpdateRegistryDataFails
    PROVE  IInv'
<1>0. Watcher \in Threads /\ pc[Watcher] = "push" /\ StoreType /\ RegType
  BY ThreadFacts DEF UpdateRegistryDataFails, IInv, Types
<1>1. PICK old, new, conf, notes :
        /\ old = Load /\ new = Pushed(Watcher) /\ notes = PushNotes(Watcher)
        /\ conf = Complete(Raw(local[Watcher].conf), Load.uid)
  OBVIOUS
<1>2. /\ mem' = new /\ file' \in {file, Empty} /\ Announce(Watcher, notes)
      /\ reg' = reg /\ watch' = watch
      /\ lapses' = lapses \cup Races(Watcher, notes) \cup {"disk"}
  BY <1>1 DEF UpdateRegistryDataFails, DumpFails
<1>3. /\ old \in State /\ new \in State
      /\ conf # None /\ old.uid # None => conf.uid = old.uid
      /\ new.userConf = old.userConf /\ new.uid = old.uid
      /\ old.confSum # conf => new.orgConf = conf
      /\ old.confSum = conf => new.orgConf = old.orgConf
  BY <1>0, <1>1, PushedFacts
<1>4. lapses \cup Races(Watcher, notes) \subseteq lapses' /\ "disk" \in lapses'
  BY <1>2
<1>5. /\ ThreadType' /\ Sends(Watcher, notes) /\ WatcherInv' /\ CallInv'
      /\ pc'[Watcher] \in {"arm", "sleep", "backoff", "notify"}
  BY <1>0, <1>1, <1>2, <1>4, PushSends
<1>6. lapses' \cap {"shadow", "stale"} = {} => Carries(new)
  <2> SUFFICES ASSUME lapses' \cap {"shadow", "stale"} = {}
               PROVE  Carries(new)
    OBVIOUS
  <2>1. Carries(old)
    BY <1>1, <1>4 DEF CarryInv, IInv, StoreInv
  <2>2. CASE old.confSum = conf
    BY <1>3, <2>1, <2>2 DEF Carries
  <2>3. CASE old.confSum # conf
    BY <1>3, <2>1, <2>3 DEF Carries
  <2> QED BY <2>2, <2>3
<1>7. StoreType' /\ CarryInv'
  <2>1. CASE file' = Empty
    <3>1. lapses' \cap {"shadow", "stale"} = {} => Carries(mem)'
      BY <1>2, <1>6
    <3> QED BY <1>2, <1>3, <1>4, <2>1, <3>1, LostFile
  <2>2. CASE file' = file
    <3>1. StoreType'
      BY <1>0, <1>2, <1>3, <2>2 DEF StoreType
    <3>2. Load'.uid = new.uid /\ Load'.userConf = new.userConf /\ Load'.orgConf = new.orgConf
      <4>1. Load'.uid = file'.uid /\ Load'.userConf = file'.userConf /\ Load'.orgConf = mem'.orgConf
        BY <3>1 DEF Load, StoreType, State
      <4> QED BY <1>0, <1>1, <1>2, <1>3, <2>2, <4>1, LoadFacts
    <3>3. CarryInv'
      BY <1>2, <1>6, <3>2 DEF CarryInv, Carries
    <3> QED BY <3>1, <3>3
  <2> QED BY <1>2, <2>1, <2>2
<1>8. NotesInv' /\ OrderInv'
  BY <1>0, <1>5, SendsFacts
<1>9. RegInv' /\ RegType'
  BY <1>0, <1>2, <1>4, <1>5 DEF RegInv, RegType
<1> QED BY <1>4, <1>5, <1>7, <1>8, <1>9, DiskExcuses DEF IInv, Types, StoreInv, NoteInv

-----------------------------------------------------------------------------
(* The observers.                                                          *)

\* A thread that announces something goes on with it.
LEMMA ObserverMoves ==
    ASSUME IInv, NEW t \in Threads, pc[t] \in Observing, ThreadType',
           t # Watcher => pc'[t] \in {"idle", "reply"} \cup Observing,
           t = Watcher => /\ pc'[t] \in {"arm", "sleep", "backoff"} \cup Observing
                          /\ local'[t].next = local[t].next,
           local'[t].notes = <<>> <=> pc'[t] \notin Observing,
           Len(local'[t].notes) <= 2,
           Len(local'[t].notes) = 2 => local'[t].notes = local[t].notes,
           (Pending(t))' \subseteq Pending(t),
           \A u \in Threads : u # t => pc'[u] = pc[u] /\ local'[u] = local[u],
           file' = file, mem' = mem \/ mem' = Load, reg' = reg, watch' = watch,
           lapses \subseteq lapses', missed' = missed
    PROVE  /\ Types' /\ StoreInv' /\ OrderInv' /\ Load' = Load
           /\ pc[Watcher] # "boot" /\ pc'[Watcher] # "boot"
           /\ \A u \in Threads : u # t => (Pending(u))' = Pending(u)
<1>1. pc[Watcher] # "boot" /\ pc[t] # "idle"
  <2>1. pc[t] # "boot" /\ pc[t] # "idle"
    BY DEF Observing
  <2> QED BY <2>1, Booted
<1>2. /\ StoreType' /\ Load' = Load
      /\ SyncInv' /\ CarryInv' /\ OrgInv' /\ SumInv' /\ RestoredInv'
  <2>1. ~missed' => ~missed
    OBVIOUS
  <2> QED BY <1>1, <2>1, StoreKept
<1>3. WatcherInv' /\ pc'[Watcher] # "boot" /\ RegInv'
  <2>1. CASE t = Watcher
    <3>1. local[t].next \in {"arm", "sleep", "backoff"}
      BY <1>1, <2>1 DEF WatcherInv, IInv, Types
    <3>2. WatcherInv' /\ pc'[Watcher] # "boot"
      BY <2>1, <3>1 DEF WatcherInv, Observing
    <3>3. Matches(reg.conf) => Matches(reg.conf)'
      BY <1>2 DEF Matches
    <3>4. pc'[Watcher] # "push"
      BY <2>1 DEF Observing
    <3>5. RegInv'
      BY <2>1, <3>3, <3>4 DEF RegInv, IInv, StoreInv
    <3> QED BY <3>2, <3>5
  <2>2. CASE t # Watcher
    <3>1. pc'[Watcher] = pc[Watcher] /\ local'[Watcher] = local[Watcher]
      BY <2>2, ThreadFacts
    <3> QED BY <1>1, <1>2, <3>1, WatcherKept
  <2> QED BY <2>1, <2>2
<1>4. CallInv'
  <2>1. CASE t = Watcher
    <3>1. \A u \in Users : pc'[u] = pc[u] /\ local'[u] = local[u]
      BY <2>1, ThreadFacts
    <3>2. pc'[Host] = pc[Host] /\ local'[Host] = local[Host] /\ pc'[Watcher] # "push"
      BY <2>1, ThreadFacts DEF Observing
    <3> QED BY <3>1, <3>2 DEF CallInv, IInv, Types
  <2>2. CASE t # Watcher
    BY <2>2, CallsKept
  <2> QED BY <2>1, <2>2
<1>5. NotesInv'
  <2> SUFFICES ASSUME NEW u \in Threads
               PROVE  /\ local'[u].notes = <<>> <=> pc'[u] \notin Observing
                      /\ Len(local'[u].notes) <= 2
                      /\ Len(local'[u].notes) = 2 => /\ local'[u].notes[1].about = "token"
                                                     /\ local'[u].notes[2].about = "conf"
    BY DEF NotesInv
  <2>1. CASE u = t
    BY <2>1 DEF NotesInv, IInv, Types
  <2>2. CASE u # t
    BY <2>2 DEF NotesInv, IInv, Types
  <2> QED BY <2>1, <2>2
<1>6. \A u \in Threads : u # t => (Pending(u))' = Pending(u)
  BY SameThread
<1>7. OrderInv'
  <2> SUFFICES ASSUME "order" \notin lapses', NEW v \in Threads, NEW u \in Threads, v # u
               PROVE  Pending(v)' \cap Pending(u)' = {}
    BY DEF OrderInv
  <2>1. Pending(v) \cap Pending(u) = {}
    BY DEF OrderInv, IInv, NoteInv
  <2>2. Pending(v)' \subseteq Pending(v) /\ Pending(u)' \subseteq Pending(u)
    BY <1>6
  <2> QED BY <2>1, <2>2
<1>8. RegType'
  BY DEF RegType, IInv, Types
<1> QED BY <1>1, <1>2, <1>3, <1>4, <1>5, <1>6, <1>7, <1>8 DEF Types, StoreInv

\* What a thread that announces something has to announce.
LEMMA FirstNote ==
    ASSUME IInv, NEW t \in Threads, pc[t] \in Observing
    PROVE  /\ local[t] \in Local /\ local[t].notes \in Seq(NoteRecord) /\ local[t].notes # <<>>
           /\ Len(local[t].notes) \in {1, 2} /\ DOMAIN local[t].notes = 1..Len(local[t].notes)
           /\ Head(local[t].notes) = local[t].notes[1] /\ local[t].notes[1] \in NoteRecord
           /\ Len(local[t].notes) = 2 =>
                local[t].notes[1].about = "token" /\ local[t].notes[2].about = "conf"
<1>1. local[t] \in Local /\ local[t].notes \in Seq(NoteRecord)
  BY DEF IInv, Types, ThreadType, Local, NoteRecord
<1>2. /\ local[t].notes # <<>> /\ Len(local[t].notes) <= 2
      /\ Len(local[t].notes) = 2 =>
           local[t].notes[1].about = "token" /\ local[t].notes[2].about = "conf"
  BY DEF IInv, Types, NotesInv
<1>3. PICK s \in Seq(NoteRecord) : s = local[t].notes
  BY <1>1
<1>4. /\ Len(s) \in {1, 2} /\ DOMAIN s = 1..Len(s) /\ Head(s) = s[1] /\ s[1] \in NoteRecord
  <2>1. Len(s) \in Nat /\ Len(s) # 0 /\ Len(s) <= 2 /\ DOMAIN s = 1..Len(s) /\ Head(s) = s[1]
    BY <1>2, <1>3
  <2>2. 1 \in DOMAIN s
    BY <2>1
  <2> QED BY <2>1, <2>2
<1> QED BY <1>1, <1>2, <1>3, <1>4

SentType == DOMAIN sent = {"token", "conf"}

LEMMA DeliverKeeps ==
    ASSUME IInv, SentType, NEW t \in Threads, Deliver(t)
    PROVE  IInv'
<1>0. /\ pc[t] = "notify" /\ pc[t] \in Observing /\ pc' = [pc EXCEPT ![t] = "ciToken"] /\ local' = local
      /\ mem' = mem /\ file' = file /\ reg' = reg /\ watch' = watch /\ yaml' = yaml
      /\ lapses' = lapses /\ missed' = missed
  BY DEF Deliver, Goto, stores, Observing
<1>1. /\ ThreadType' /\ local'[t] = local[t] /\ pc'[t] = "ciToken" /\ pc'[t] \in Observing
      /\ \A u \in Threads : u # t => pc'[u] = pc[u] /\ local'[u] = local[u]
  BY <1>0 DEF IInv, Types, ThreadType, Observing
<1>2. \A u \in Threads : (Pending(u))' = Pending(u)
  BY <1>0 DEF Pending
<1>3. PICK n : n = local[t].notes[1]
  OBVIOUS
<1>4. /\ Len(local[t].notes) \in {1, 2} /\ DOMAIN local[t].notes = 1..Len(local[t].notes)
      /\ Head(local[t].notes) = n /\ n \in NoteRecord /\ local[t].notes # <<>>
      /\ Len(local[t].notes) = 2 => n.about = "token" /\ local[t].notes[2].about = "conf"
  BY <1>0, <1>3, FirstNote
<1>5. /\ Types' /\ StoreInv' /\ OrderInv' /\ Load' = Load
      /\ pc[Watcher] # "boot" /\ pc'[Watcher] # "boot"
  <2>1. /\ (t # Watcher => pc'[t] \in {"idle", "reply"} \cup Observing)
        /\ (t = Watcher => pc'[t] \in {"arm", "sleep", "backoff"} \cup Observing /\ local'[t].next = local[t].next)
        /\ (local'[t].notes = <<>> <=> pc'[t] \notin Observing)
        /\ Len(local'[t].notes) <= 2 /\ local'[t].notes = local[t].notes
    <3>1. local'[t].notes = local[t].notes /\ local'[t].next = local[t].next
      BY <1>1
    <3>2. PICK s : s = local[t].notes /\ Len(s) <= 2
      BY DEF NotesInv, IInv, Types
    <3>3. Len(local'[t].notes) <= 2
      BY <3>1, <3>2
    <3> QED BY <1>1, <1>4, <3>1, <3>3
  <2>2. (Pending(t))' \subseteq Pending(t)
    BY <1>2
  <2> QED BY <1>0, <1>1, <2>1, <2>2, ObserverMoves
<1>6. YamlInv'
  <2>1. \A u \in Threads : pc'[u] \in {"ciConf", "ciWrite"} =>
          pc'[u] = pc[u] /\ local'[u].token = local[u].token /\ local'[u].conf = local[u].conf
    BY <1>0, <1>1
  <2> QED BY <1>0, <1>2, <1>5, <2>1, YamlKept
<1>7. \A u \in Threads : u # t => Due(u, "token")' = Due(u, "token") /\ Due(u, "conf")' = Due(u, "conf")
  BY <1>1, SameThread
<1>8. n \in Due(t, n.about) /\ Due(t, n.about)' = {} /\ n.about \in {"token", "conf"}
  <2>1. n.about \in {"token", "conf"} /\ 1 \in DOMAIN local[t].notes
    BY <1>4 DEF NoteRecord
  <2>2. n \in Due(t, n.about)
    BY <1>0, <1>3, <2>1 DEF Due
  <2>3. \A j \in DOMAIN local[t].notes : j > 1 => local[t].notes[j].about # n.about
    BY <1>4
  <2>4. PICK a : a = n.about
    OBVIOUS
  <2>5. Due(t, a)' = {}
    BY <1>0, <1>1, <2>3, <2>4 DEF Due
  <2> QED BY <2>1, <2>2, <2>4, <2>5
<1>9. \A a \in {"token", "conf"} : a # n.about => Due(t, a)' = Due(t, a)
  BY <1>0, <1>1, <1>3, <1>4 DEF Due
<1>10. PICK w : w = IF n.uid = {} THEN mem.uid ELSE CHOOSE u \in n.uid : TRUE
  OBVIOUS
<1>11. sent' = IF n.about = "token" THEN [sent EXCEPT !.token = n.value]
               ELSE [sent EXCEPT !.conf = IF w = None THEN None ELSE n.value]
  BY <1>4, <1>10 DEF Deliver
<1>12. /\ n.about = "token" => sent'.token = n.value /\ sent'.conf = sent.conf
       /\ n.about = "conf" => sent'.conf = (IF w = None THEN None ELSE n.value) /\ sent'.token = sent.token
  BY <1>8, <1>11 DEF SentType
<1>13. TokenInv'
  <2> SUFFICES ASSUME lapses \cap {"order", "unresolved", "blind", "crash", "disk"} = {}
               PROVE  /\ \A u \in Threads : \A m \in Due(u, "token")' : m.value = TokenDue(Load)
                      /\ (\A u \in Threads : Due(u, "token")' = {}) => sent'.token = TokenDue(Load)
    BY <1>0, <1>5 DEF TokenInv
  <2>1. /\ \A u \in Threads : \A m \in Due(u, "token") : m.value = TokenDue(Load)
        /\ (\A u \in Threads : Due(u, "token") = {}) => sent.token = TokenDue(Load)
    BY DEF TokenInv, IInv, NoteInv
  <2>2. CASE n.about = "token"
    BY <1>7, <1>8, <1>12, <2>1, <2>2
  <2>3. CASE n.about # "token"
    <3>1. \A u \in Threads : Due(u, "token")' = Due(u, "token")
      BY <1>7, <1>9, <2>3
    <3> QED BY <1>8, <1>12, <2>1, <2>3, <3>1
  <2> QED BY <2>2, <2>3
<1>14. ConfInv'
  <2> SUFFICES ASSUME lapses \cap {"order", "unresolved", "crash", "disk", "forgotten"} = {}, Restored
               PROVE  /\ \A u \in Threads : \A m \in Due(u, "conf")' :
                           m.value = ConfOf(Load) /\ m.uid \in {{}, {Load.uid}}
                      /\ (\A u \in Threads : Due(u, "conf")' = {}) => sent'.conf = ConfDue(Load)
    BY <1>0, <1>5 DEF ConfInv, Restored
  <2>1. /\ \A u \in Threads : \A m \in Due(u, "conf") : m.value = ConfOf(Load) /\ m.uid \in {{}, {Load.uid}}
        /\ (\A u \in Threads : Due(u, "conf") = {}) => sent.conf = ConfDue(Load)
    BY DEF ConfInv, IInv, NoteInv
  <2>2. CASE n.about = "conf"
    <3>1. n.value = ConfOf(Load) /\ n.uid \in {{}, {Load.uid}}
      BY <1>8, <2>1, <2>2
    <3>2. mem = Load
      BY <1>5 DEF SyncInv, IInv, StoreInv
    <3>3. w = Load.uid
      <4>1. CASE n.uid = {}
        BY <1>10, <3>2, <4>1
      <4>2. CASE n.uid = {Load.uid}
        BY <1>10, <4>2
      <4> QED BY <3>1, <4>1, <4>2
    <3>4. sent'.conf = ConfDue(Load)
      BY <1>12, <2>2, <3>1, <3>3 DEF ConfDue
    <3> QED BY <1>7, <1>8, <2>1, <2>2, <3>4
  <2>3. CASE n.about # "conf"
    <3>1. \A u \in Threads : Due(u, "conf")' = Due(u, "conf")
      BY <1>7, <1>9, <2>3
    <3> QED BY <1>8, <1>12, <2>1, <2>3, <3>1
  <2> QED BY <2>2, <2>3
<1> QED BY <1>5, <1>6, <1>13, <1>14 DEF IInv, NoteInv

\* cloudInit.Update reads the configuration.
LEMMA CloudInitReads ==
    ASSUME IInv, NEW t \in Threads, CloudInitToken(t) \/ CloudInitConf(t)
    PROVE  IInv'
<1>0. /\ pc[t] \in {"ciToken", "ciConf"} /\ pc[t] \in Observing
      /\ mem' = Load /\ file' = file /\ reg' = reg /\ watch' = watch /\ yaml' = yaml /\ sent' = sent
      /\ lapses' = lapses /\ missed' = missed
  BY DEF CloudInitToken, CloudInitConf, outputs, Observing
<1>1. PICK s \in Seq(NoteRecord) : s = local[t].notes /\ s # <<>> /\ local[t] \in Local /\ Len(s) <= 2
  <2>1. local[t].notes \in Seq(NoteRecord) /\ local[t].notes # <<>> /\ local[t] \in Local
    BY <1>0, FirstNote
  <2>2. Len(local[t].notes) <= 2
    BY DEF NotesInv, IInv, Types
  <2> QED BY <2>1, <2>2
<1>2. PICK tok, con : tok = TokenOf(Load) /\ con = ConfOf(Load)
  OBVIOUS
<1>3. tok \in Token /\ con \in Client
  <2>1. PICK old \in State : old = Load
    BY LoadFacts DEF IInv, Types
  <2> QED BY <1>2, <2>1, TokenOfType
<1>4. PICK r, p : /\ local' = [local EXCEPT ![t] = r] /\ pc' = [pc EXCEPT ![t] = p]
                  /\ \/ pc[t] = "ciToken" /\ p = "ciConf" /\ r = [local[t] EXCEPT !.token = tok]
                     \/ pc[t] = "ciConf" /\ p = "ciWrite" /\ r = [local[t] EXCEPT !.conf = con]
  <2>1. CASE CloudInitToken(t)
    BY <2>1, <1>2 DEF CloudInitToken, Goto
  <2>2. CASE CloudInitConf(t)
    BY <2>2, <1>2 DEF CloudInitConf, Goto
  <2> QED BY <2>1, <2>2
<1>5. /\ r \in Local /\ r.notes = s /\ r.next = local[t].next
      /\ pc[t] = "ciToken" => r.token = tok
      /\ pc[t] = "ciConf" => r.token = local[t].token /\ r.conf = con
  BY <1>1, <1>3, <1>4 DEF Local
<1>6. /\ ThreadType' /\ local'[t] = r /\ pc'[t] = p
      /\ \A u \in Threads : u # t => pc'[u] = pc[u] /\ local'[u] = local[u]
  BY <1>4, <1>5, LocalUpdate DEF IInv, Types
<1>7. local'[t].notes = s /\ pc'[t] \in Observing /\ pc'[t] # "notify" /\ pc[t] # "notify"
  BY <1>0, <1>4, <1>5, <1>6 DEF Observing
<1>8. /\ (Pending(t))' = Pending(t)
      /\ Due(t, "token")' = Due(t, "token") /\ Due(t, "conf")' = Due(t, "conf")
  BY <1>1, <1>7 DEF Pending, Due
<1>9. /\ Types' /\ StoreInv' /\ OrderInv' /\ Load' = Load
      /\ pc[Watcher] # "boot" /\ pc'[Watcher] # "boot"
      /\ \A u \in Threads : u # t => (Pending(u))' = Pending(u)
  <2>1. /\ (t # Watcher => pc'[t] \in {"idle", "reply"} \cup Observing)
        /\ (t = Watcher => pc'[t] \in {"arm", "sleep", "backoff"} \cup Observing /\ local'[t].next = local[t].next)
        /\ (local'[t].notes = <<>> <=> pc'[t] \notin Observing)
        /\ Len(local'[t].notes) <= 2 /\ local'[t].notes = local[t].notes
    BY <1>1, <1>5, <1>6, <1>7
  <2>2. (Pending(t))' \subseteq Pending(t)
    BY <1>8
  <2> QED BY <1>0, <1>6, <2>1, <2>2, ObserverMoves
<1>10. \A u \in Threads : /\ Pending(u)' = Pending(u)
                          /\ Due(u, "token")' = Due(u, "token") /\ Due(u, "conf")' = Due(u, "conf")
  BY <1>6, <1>8, SameThread
<1>11. TokenInv' /\ ConfInv'
  BY <1>0, <1>9, <1>10, NotesKept
<1>12. YamlInv'
  <2> SUFFICES ASSUME lapses = {}
               PROVE  /\ \A v, u \in Threads : v # u => Pending(v)' = {} \/ Pending(u)' = {}
                      /\ \A u \in Threads :
                           /\ pc'[u] \in {"ciConf", "ciWrite"} => local'[u].token = tok
                           /\ pc'[u] = "ciWrite" => local'[u].conf = con
                      /\ (\A u \in Threads : Pending(u)' = {}) => yaml' = [token |-> tok, conf |-> con]
    BY <1>0, <1>2, <1>9 DEF YamlInv
  <2>1. /\ \A v, u \in Threads : v # u => Pending(v) = {} \/ Pending(u) = {}
        /\ \A u \in Threads :
             /\ pc[u] \in {"ciConf", "ciWrite"} => local[u].token = tok
             /\ pc[u] = "ciWrite" => local[u].conf = con
        /\ (\A u \in Threads : Pending(u) = {}) => yaml = [token |-> tok, conf |-> con]
    BY <1>2, <1>9 DEF YamlInv, IInv, NoteInv
  <2>2. \A u \in Threads :
          /\ pc'[u] \in {"ciConf", "ciWrite"} => local'[u].token = tok
          /\ pc'[u] = "ciWrite" => local'[u].conf = con
    BY <1>0, <1>4, <1>5, <1>6, <2>1
  <2> QED BY <1>0, <1>10, <2>1, <2>2
<1> QED BY <1>9, <1>11, <1>12 DEF IInv, NoteInv

\* cloudInit.Update is over: the next announcement.
LEMMA UpdateEnds ==
    ASSUME IInv, NEW t \in Threads, pc[t] \in {"ciToken", "ciConf", "ciWrite"}, Announce(t, Tail(local[t].notes)),
           mem' = mem, file' = file, reg' = reg, watch' = watch, sent' = sent,
           lapses \subseteq lapses', missed' = missed,
           lapses' = {} => pc[t] = "ciWrite" /\ yaml' = [token |-> local[t].token, conf |-> local[t].conf]
    PROVE  IInv'
<1>0. pc[t] \in Observing /\ ThreadType
  BY DEF Observing, IInv, Types
<1>1. PICK s \in Seq(NoteRecord) : /\ s = local[t].notes /\ s # <<>> /\ Len(s) \in {1, 2}
                                   /\ Len(s) = 2 => s[1].about = "token" /\ s[2].about = "conf"
  BY <1>0, FirstNote
<1>2. PICK rest : rest = Tail(s)
  OBVIOUS
<1>3. /\ rest \in Seq(NoteRecord) /\ (rest = <<>> <=> Len(s) = 1) /\ Len(rest) <= 1
      /\ (Len(s) = 2 => DOMAIN rest = {1} /\ rest[1] = s[2])
  <2>1. rest \in Seq(NoteRecord) /\ Len(rest) = Len(s) - 1
    BY <1>1, <1>2
  <2>2. Len(s) = 2 => rest[1] = s[2]
    BY <1>1, <1>2
  <2>3. rest = <<>> <=> Len(rest) = 0
    <3>1. rest \in Seq(NoteRecord)
      BY <2>1
    <3>2. rest # <<>> => Len(rest) # 0
      BY <3>1
    <3>3. rest = <<>> => Len(rest) = 0
      OBVIOUS
    <3> QED BY <3>2, <3>3
  <2>4. DOMAIN rest = 1..Len(rest)
    BY <2>1
  <2> QED BY <1>1, <2>1, <2>2, <2>3, <2>4
<1>4. Announce(t, rest)
  BY <1>1, <1>2
<1>5. /\ ThreadType' /\ local'[t].notes = rest
      /\ (t # Watcher => pc'[t] \in {"idle", "reply", "notify"})
      /\ (t = Watcher => pc'[t] \in {"arm", "sleep", "backoff", "notify"} /\ local'[t].next = local[t].next)
      /\ (rest = <<>> => pc'[t] \notin Observing) /\ (rest # <<>> => pc'[t] = "notify")
      /\ \A u \in Threads : u # t => pc'[u] = pc[u] /\ local'[u] = local[u]
  <2>1. CASE rest = <<>>
    <3>1. t = Watcher => local[t].next \in {"arm", "sleep", "backoff"}
      BY <1>0 DEF WatcherInv, IInv, Types, Observing
    <3> QED BY <1>0, <1>4, <2>1, <3>1, SilentFacts DEF Observing
  <2>2. CASE rest # <<>>
    BY <1>0, <1>3, <1>4, <2>2, AnnounceFacts
  <2> QED BY <2>1, <2>2
<1>6. /\ (Pending(t))' \subseteq Pending(t)
      /\ Due(t, "token")' = Due(t, "token") /\ Due(t, "conf")' = Due(t, "conf")
  <2>1. CASE Len(s) = 1
    <3>1. rest = <<>> /\ DOMAIN s = {1}
      BY <1>1, <1>3, <2>1
    <3>2. (Pending(t))' = {} /\ Due(t, "token")' = {} /\ Due(t, "conf")' = {}
      BY <1>5, <3>1, NothingDue
    <3>3. pc[t] # "notify" /\ DOMAIN local[t].notes = {1}
      BY <1>1, <3>1
    <3>4. Due(t, "token") = {} /\ Due(t, "conf") = {}
      BY <3>3 DEF Due
    <3> QED BY <3>2, <3>4
  <2>2. CASE Len(s) = 2
    <3>1. rest # <<>> /\ DOMAIN rest = {1} /\ rest[1] = s[2] /\ DOMAIN s = {1, 2}
          /\ s[1].about = "token" /\ s[2].about = "conf"
      BY <1>1, <1>3, <2>2
    <3>2. pc[t] # "notify" /\ pc'[t] = "notify" /\ local'[t].notes = rest /\ local[t].notes = s
      BY <1>1, <1>5, <3>1
    <3>3. (Pending(t))' = {"conf"} /\ "conf" \in Pending(t)
      BY <3>1, <3>2 DEF Pending
    <3>4. Due(t, "token")' = {} /\ Due(t, "conf")' = {s[2]}
      BY <3>1, <3>2 DEF Due
    <3>5. Due(t, "token") = {} /\ Due(t, "conf") = {s[2]}
      BY <3>1, <3>2 DEF Due
    <3> QED BY <3>3, <3>4, <3>5
  <2> QED BY <1>1, <2>1, <2>2
<1>7. /\ Types' /\ StoreInv' /\ OrderInv' /\ Load' = Load
      /\ pc[Watcher] # "boot" /\ pc'[Watcher] # "boot"
      /\ \A u \in Threads : u # t => (Pending(u))' = Pending(u)
  <2>1. /\ (t # Watcher => pc'[t] \in {"idle", "reply"} \cup Observing)
        /\ (t = Watcher => pc'[t] \in {"arm", "sleep", "backoff"} \cup Observing /\ local'[t].next = local[t].next)
        /\ (local'[t].notes = <<>> <=> pc'[t] \notin Observing)
    BY <1>5 DEF Observing
  <2>2. Len(local'[t].notes) <= 2 /\ Len(local'[t].notes) # 2
    BY <1>3, <1>5
  <2> QED BY <1>0, <1>5, <1>6, <2>1, <2>2, ObserverMoves
<1>8. \A u \in Threads : Due(u, "token")' = Due(u, "token") /\ Due(u, "conf")' = Due(u, "conf")
  BY <1>5, <1>6, SameThread
<1>9. TokenInv'
  BY <1>7, <1>8 DEF TokenInv, IInv, NoteInv
<1>10. ConfInv'
  BY <1>7, <1>8 DEF ConfInv, Restored, IInv, NoteInv
<1>11. YamlInv'
  <2> SUFFICES ASSUME lapses' = {}
               PROVE  /\ \A v, u \in Threads : v # u => Pending(v)' = {} \/ Pending(u)' = {}
                      /\ \A u \in Threads :
                           /\ pc'[u] \in {"ciConf", "ciWrite"} => local'[u].token = TokenOf(Load)
                           /\ pc'[u] = "ciWrite" => local'[u].conf = ConfOf(Load)
                      /\ yaml' = [token |-> TokenOf(Load), conf |-> ConfOf(Load)]
    BY <1>7 DEF YamlInv
  <2>1. lapses = {}
    OBVIOUS
  <2>2. /\ \A v, u \in Threads : v # u => Pending(v) = {} \/ Pending(u) = {}
        /\ \A u \in Threads :
             /\ pc[u] \in {"ciConf", "ciWrite"} => local[u].token = TokenOf(Load)
             /\ pc[u] = "ciWrite" => local[u].conf = ConfOf(Load)
    BY <2>1 DEF YamlInv, IInv, NoteInv
  <2>3. \A u \in Threads : (Pending(u))' \subseteq Pending(u)
    BY <1>6, <1>7
  <2>4. \A v, u \in Threads : v # u => Pending(v)' = {} \/ Pending(u)' = {}
    BY <2>2, <2>3
  <2>5. pc'[t] \notin {"ciConf", "ciWrite"}
    BY <1>5
  <2> QED BY <1>5, <2>2, <2>4, <2>5
<1> QED BY <1>7, <1>9, <1>10, <1>11 DEF IInv, NoteInv

LEMMA CloudInitEnds ==
    ASSUME IInv, NEW t \in Threads, CloudInitWrite(t) \/ CloudInitFails(t)
    PROVE  IInv'
<1>1. CASE CloudInitWrite(t)
  BY <1>1, UpdateEnds DEF CloudInitWrite, stores
<1>2. CASE CloudInitFails(t)
  BY <1>2, UpdateEnds DEF CloudInitFails, stores, outputs
<1> QED BY <1>1, <1>2

-----------------------------------------------------------------------------
(* The environment.                                                        *)

LEMMA ChangeRegistryKeeps ==
    ASSUME IInv, ChangeRegistry
    PROVE  IInv'
<1>0. /\ mem' = mem /\ file' = file /\ sent' = sent /\ yaml' = yaml /\ pc' = pc /\ local' = local
      /\ missed' = missed /\ lapses' = lapses /\ watch' # "armed"
  BY DEF ChangeRegistry, stores, outputs, threads
<1>1. RegType'
  <2>1. reg \in [token : Token, conf : Confs \cup {None}]
    BY DEF RegType, IInv, Types
  <2>2. CASE \E token \in Token \ {reg.token} : reg' = [reg EXCEPT !.token = token]
    BY <2>1, <2>2 DEF RegType
  <2>3. CASE \E c \in (Confs \cup {None}) \ {reg.conf} : reg' = [reg EXCEPT !.conf = c]
    BY <2>1, <2>3 DEF RegType
  <2> QED BY <2>2, <2>3 DEF ChangeRegistry
<1>2. /\ StoreType' /\ Load' = Load
      /\ SyncInv' /\ CarryInv' /\ OrgInv' /\ SumInv' /\ RestoredInv'
  <2>1. ~missed' => ~missed
    BY <1>0
  <2> QED BY <1>0, <2>1, StoreKept
<1>3. RegInv'
  BY <1>0 DEF RegInv
<1>4. ThreadType' /\ CallInv' /\ WatcherInv' /\ NotesInv'
  BY <1>0 DEF ThreadType, CallInv, WatcherInv, NotesInv, IInv, Types
<1>5. \A u \in Threads : /\ Pending(u)' = Pending(u)
                         /\ Due(u, "token")' = Due(u, "token") /\ Due(u, "conf")' = Due(u, "conf")
  BY <1>0, SameThread
<1>6. OrderInv' /\ TokenInv' /\ ConfInv'
  BY <1>0, <1>2, <1>5, NotesKept
<1>7. YamlInv'
  BY <1>0, <1>2, <1>5, YamlKept
<1> QED BY <1>1, <1>2, <1>3, <1>4, <1>6, <1>7 DEF IInv, Types, StoreInv, NoteInv

\* The agent has just started: nobody has anything to do or to announce.
LEMMA Fresh ==
    ASSUME local = [t \in Threads |-> Blank], pc = [t \in Threads |-> IF t = Watcher THEN "boot" ELSE "idle"]
    PROVE  /\ ThreadType /\ CallInv /\ WatcherInv /\ NotesInv /\ pc[Watcher] = "boot"
           /\ \A t \in Threads : /\ Pending(t) = {} /\ Due(t, "token") = {} /\ Due(t, "conf") = {}
                                 /\ pc[t] \in {"boot", "idle"}
<1>0. \A t \in Threads : pc[t] = (IF t = Watcher THEN "boot" ELSE "idle") /\ local[t] = Blank
  OBVIOUS
<1>1. Blank.notes = <<>> /\ Blank.next = "" /\ Blank \in Local
  BY BlankFacts DEF Blank
<1>2. ThreadType
  BY <1>1 DEF ThreadType
<1>3. pc[Watcher] = "boot" /\ local[Watcher] = Blank /\ pc[Host] = "idle" /\ \A u \in Users : pc[u] = "idle"
  BY <1>0, ThreadFacts
<1>4. CallInv /\ WatcherInv
  BY <1>0, <1>1, <1>3 DEF CallInv, WatcherInv
<1>5. \A t \in Threads : local[t].notes = <<>> /\ pc[t] \notin Observing /\ pc[t] \in {"boot", "idle"}
  BY <1>0, <1>1 DEF Observing
<1>6. NotesInv
  BY <1>5 DEF NotesInv
<1>7. \A t \in Threads : Pending(t) = {} /\ Due(t, "token") = {} /\ Due(t, "conf") = {}
  BY <1>5, NothingDue
<1> QED BY <1>2, <1>3, <1>4, <1>5, <1>6, <1>7

LEMMA FreshPrime ==
    ASSUME local' = [t \in Threads |-> Blank],
           pc' = [t \in Threads |-> IF t = Watcher THEN "boot" ELSE "idle"]
    PROVE  /\ ThreadType' /\ CallInv' /\ WatcherInv' /\ NotesInv' /\ pc'[Watcher] = "boot"
           /\ \A t \in Threads : /\ Pending(t)' = {} /\ Due(t, "token")' = {} /\ Due(t, "conf")' = {}
                                 /\ pc'[t] \in {"boot", "idle"}
<1>0. \A t \in Threads : pc'[t] = (IF t = Watcher THEN "boot" ELSE "idle") /\ local'[t] = Blank
  OBVIOUS
<1>1. Blank.notes = <<>> /\ Blank.next = "" /\ Blank \in Local
  BY BlankFacts DEF Blank
<1>2. ThreadType'
  BY <1>1 DEF ThreadType
<1>3. pc'[Watcher] = "boot" /\ local'[Watcher] = Blank /\ pc'[Host] = "idle" /\ \A u \in Users : pc'[u] = "idle"
  BY <1>0, ThreadFacts
<1>4. CallInv' /\ WatcherInv'
  BY <1>0, <1>1, <1>3 DEF CallInv, WatcherInv
<1>5. \A t \in Threads : local'[t].notes = <<>> /\ pc'[t] \notin Observing /\ pc'[t] \in {"boot", "idle"}
  BY <1>0, <1>1 DEF Observing
<1>6. NotesInv'
  BY <1>5 DEF NotesInv
<1>7. \A t \in Threads : Pending(t)' = {} /\ Due(t, "token")' = {} /\ Due(t, "conf")' = {}
  BY <1>5, NothingDue
<1> QED BY <1>2, <1>3, <1>4, <1>5, <1>6, <1>7

LEMMA RestartKeeps ==
    ASSUME IInv, Restart
    PROVE  IInv'
<1>0. /\ file' \in {file, Empty} /\ mem' = Empty /\ watch' = "off" /\ missed' = TRUE /\ reg' = reg /\ sent' = sent
      /\ lapses' = lapses \cup Lapse("disk", file' # file)
                          \cup Lapse("crash", \E t \in Threads : Pending(t) # {})
  BY DEF Restart, outputs
<1>1. /\ ThreadType' /\ CallInv' /\ WatcherInv' /\ NotesInv' /\ pc'[Watcher] = "boot"
      /\ \A t \in Threads : /\ Pending(t)' = {} /\ Due(t, "token")' = {} /\ Due(t, "conf")' = {}
                            /\ pc'[t] \in {"boot", "idle"}
  BY FreshPrime DEF Restart
<1>2. /\ lapses \subseteq lapses' /\ StoreType
      /\ "disk" \notin lapses' => file' = file
      /\ "crash" \notin lapses' => \A t \in Threads : Pending(t) = {}
  BY <1>0 DEF Lapse, IInv, Types
<1>3. StoreType'
  BY <1>0, <1>2, EmptyFacts DEF StoreType
<1>4. /\ Load' \in State /\ Load'.org = None /\ Load'.orgConf = None
      /\ Load'.user = file'.user /\ Load'.store = file'.store /\ Load'.tokenSum = file'.tokenSum
      /\ Load'.userConf = file'.userConf /\ Load'.confSum = file'.confSum /\ Load'.uid = file'.uid
  BY <1>0, <1>3, EmptyFacts DEF StoreType, Load, State
<1>5. PICK old \in State : old = Load
  BY <1>2, LoadFacts
<1>6. /\ old.user = file.user /\ old.store = file.store /\ old.tokenSum = file.tokenSum
      /\ old.userConf = file.userConf /\ old.confSum = file.confSum /\ old.uid = file.uid
  BY <1>2, <1>5, LoadFacts
<1>7. PICK new \in State : new = Load'
  BY <1>4
<1>8. SyncInv' /\ OrgInv' /\ SumInv' /\ RestoredInv' /\ RegInv'
  BY <1>0, <1>1, <1>4 DEF SyncInv, OrgInv, SumInv, RestoredInv, RegInv
<1>9. CarryInv'
  <2> SUFFICES ASSUME lapses' \cap {"shadow", "stale"} = {}
               PROVE  Carries(Empty) /\ Carries(new)
    BY <1>0, <1>7 DEF CarryInv
  <2>1. Carries(Empty)
    BY EmptyFacts DEF Carries
  <2>2. Carries(old)
    BY <1>2, <1>5 DEF CarryInv, IInv, StoreInv
  <2>3. CASE file' = Empty
    BY <1>4, <1>7, <2>1, <2>3, EmptyFacts DEF Carries
  <2>4. CASE file' = file
    <3>1. new.uid = old.uid /\ new.userConf = old.userConf /\ new.orgConf = None
      BY <1>4, <1>6, <1>7, <2>4
    <3> QED BY <2>1, <2>2, <3>1 DEF Carries
  <2> QED BY <1>0, <2>1, <2>3, <2>4
<1>10. OrderInv'
  BY <1>1 DEF OrderInv
<1>11. "crash" \notin lapses' => \A t \in Threads : Due(t, "token") = {} /\ Due(t, "conf") = {}
  BY <1>2, DuePending
<1>12. TokenInv'
  <2> SUFFICES ASSUME lapses' \cap {"order", "unresolved", "blind", "crash", "disk"} = {}
               PROVE  sent'.token = TokenDue(new)
    BY <1>1, <1>7 DEF TokenInv
  <2>1. sent.token = TokenDue(old)
    BY <1>2, <1>5, <1>11 DEF TokenInv, IInv, NoteInv
  <2>2. new.tokenSum = old.tokenSum /\ new.store = old.store /\ new.user = old.user
    BY <1>2, <1>4, <1>6, <1>7
  <2> QED BY <1>0, <2>1, <2>2, SourcesDecide
<1>13. ConfInv'
  <2> SUFFICES ASSUME lapses' \cap {"order", "unresolved", "crash", "disk", "forgotten"} = {}, new.confSum = None
               PROVE  sent'.conf = ConfDue(new)
    BY <1>1, <1>4, <1>7 DEF ConfInv, Restored
  <2>1. new.confSum = old.confSum /\ new.userConf = old.userConf /\ new.uid = old.uid /\ new.orgConf = None
    BY <1>2, <1>4, <1>6, <1>7
  <2>2. Restored /\ old.orgConf = None
    BY <1>2, <1>5, <2>1 DEF Restored, SumInv, IInv, StoreInv
  <2>3. sent.conf = ConfDue(old)
    BY <1>2, <1>5, <1>11, <2>2 DEF ConfInv, IInv, NoteInv
  <2>4. ConfDue(new) = ConfDue(old)
    BY <2>1, <2>2 DEF ConfDue, ConfOf
  <2> QED BY <1>0, <2>3, <2>4
<1>14. YamlInv'
  BY <1>1 DEF YamlInv
<1>15. RegType'
  BY <1>0 DEF RegType, IInv, Types
<1> QED BY <1>1, <1>3, <1>8, <1>9, <1>10, <1>12, <1>13, <1>14, <1>15 DEF IInv, Types, StoreInv, NoteInv

-----------------------------------------------------------------------------
(* The invariant.                                                          *)

LEMMA InitIInv == Init => IInv /\ SentType
<1> SUFFICES ASSUME Init PROVE IInv /\ SentType
  OBVIOUS
<1>0. /\ mem = Empty /\ file = Empty /\ watch = "off" /\ sent = [token |-> None, conf |-> None]
      /\ missed = TRUE /\ lapses = {}
  BY DEF Init
<1>1. /\ ThreadType /\ CallInv /\ WatcherInv /\ NotesInv /\ pc[Watcher] = "boot"
      /\ \A t \in Threads : /\ Pending(t) = {} /\ Due(t, "token") = {} /\ Due(t, "conf") = {}
                            /\ pc[t] \in {"boot", "idle"}
  BY Fresh DEF Init
<1>2. StoreType /\ RegType
  BY <1>0, EmptyFacts DEF StoreType, RegType, Init
<1>3. Load = Empty
  BY <1>0, EmptyFacts DEF Load, Empty
<1>4. StoreInv
  BY <1>0, <1>1, <1>3, EmptyFacts
     DEF StoreInv, SyncInv, CarryInv, Carries, OrgInv, SumInv, RestoredInv, RegInv
<1>5. TokenDue(Empty) = None /\ ConfDue(Empty) = None
  <2>1. Empty.org = None /\ Empty.store = None /\ Empty.user = None /\ Empty.tokenSum = None /\ Empty \in State
    BY EmptyFacts DEF Empty
  <2>2. TokenOf(Empty) = None
    BY <2>1 DEF TokenOf, SourceOf
  <2> QED BY <2>1, <2>2, SourcesDecide, EmptyFacts DEF ConfDue
<1>6. TokenInv /\ ConfInv
  BY <1>0, <1>1, <1>3, <1>5 DEF TokenInv, ConfInv
<1>7. OrderInv /\ YamlInv
  BY <1>1 DEF OrderInv, YamlInv
<1>8. SentType
  BY <1>0 DEF SentType
<1> QED BY <1>1, <1>2, <1>4, <1>6, <1>7, <1>8 DEF IInv, Types, NoteInv

LEMMA StutterKeeps ==
    ASSUME IInv, Wedge \/ UNCHANGED vars
    PROVE  IInv'
<1>0. /\ mem' = mem /\ file' = file /\ sent' = sent /\ yaml' = yaml /\ pc' = pc /\ local' = local
      /\ missed' = missed /\ lapses' = lapses /\ watch' = watch /\ reg' = reg
  BY DEF vars, Wedge, stores, outputs, threads
<1>1. StoreType' /\ RegType' /\ ThreadType' /\ CallInv' /\ WatcherInv' /\ NotesInv'
  BY <1>0 DEF StoreType, RegType, ThreadType, CallInv, WatcherInv, NotesInv, IInv, Types
<1>2. Load' = Load /\ SyncInv' /\ CarryInv' /\ OrgInv' /\ SumInv' /\ RestoredInv'
  <2>1. ~missed' => ~missed
    BY <1>0
  <2> QED BY <1>0, <2>1, StoreKept
<1>3. RegInv'
  BY <1>0, <1>2 DEF RegInv, Matches, IInv, StoreInv
<1>4. \A u \in Threads : /\ Pending(u)' = Pending(u)
                         /\ Due(u, "token")' = Due(u, "token") /\ Due(u, "conf")' = Due(u, "conf")
  BY <1>0, SameThread
<1>5. OrderInv' /\ TokenInv' /\ ConfInv'
  BY <1>0, <1>2, <1>4, NotesKept
<1>6. YamlInv'
  BY <1>0, <1>2, <1>4, YamlKept
<1> QED BY <1>1, <1>2, <1>3, <1>5, <1>6 DEF IInv, Types, StoreInv, NoteInv

\* The distros are told by Deliver only.
LEMMA SentKept ==
    ASSUME SentType, [Next]_vars
    PROVE  SentType'
<1>1. ASSUME NEW t \in Threads, Deliver(t)
      PROVE  SentType'
  <2>1. \/ \E v : sent' = [sent EXCEPT !.token = v]
        \/ \E v : sent' = [sent EXCEPT !.conf = v]
    BY <1>1 DEF Deliver
  <2> QED BY <2>1 DEF SentType
<1>2. CASE sent' = sent
  BY <1>2 DEF SentType
<1>3. \A u \in Users :
        \/ ApplyProToken(u) \/ ApplyLandscapeConfig(u) \/ NotifyPurchase(u) \/ FetchFromMicrosoftStore(u)
        \/ GetConfigSources(u) \/ CheckPriority(u) \/ CheckConf(u) \/ Set(u) \/ SetFails(u) \/ Reply(u)
        => sent' = sent
  BY DEF ApplyProToken, ApplyLandscapeConfig, NotifyPurchase, FetchFromMicrosoftStore, GetConfigSources,
         CheckPriority, CheckConf, Set, SetFails, Reply, Call, outputs
<1>4. \/ AssignHost \/ ExpireHandshake \/ Wedge \/ SetAgentUid \/ SetAgentUidFails \/ Boot \/ Arm \/ WatchFails \/ ReadToken \/ ReadConf
      \/ ReadFails \/ UpdateRegistryData \/ UpdateRegistryDataFails \/ Wake \/ ChangeRegistry \/ Restart
      => sent' = sent
  BY DEF AssignHost, ExpireHandshake, Wedge, SetAgentUid, SetAgentUidFails, Boot, Arm, WatchFails, ReadToken, ReadConf, ReadFails,
         UpdateRegistryData, UpdateRegistryDataFails, Wake, ChangeRegistry, Restart, Call, outputs
<1>5. \A t \in Threads : LoadFails(t) \/ CloudInitToken(t) \/ CloudInitConf(t) \/ CloudInitWrite(t) \/ CloudInitFails(t)
        => sent' = sent
  BY DEF LoadFails, CloudInitToken, CloudInitConf, CloudInitWrite, CloudInitFails, outputs
<1>6. UNCHANGED vars => sent' = sent
  BY DEF vars
<1> QED BY <1>1, <1>2, <1>3, <1>4, <1>5, <1>6 DEF Next

LEMMA NextIInv == (IInv /\ SentType) /\ [Next]_vars => (IInv /\ SentType)'
<1> SUFFICES ASSUME IInv, SentType, [Next]_vars
             PROVE  IInv'
  BY SentKept
<1>1. ASSUME NEW u \in Users,
             \/ ApplyProToken(u) \/ ApplyLandscapeConfig(u) \/ NotifyPurchase(u) \/ FetchFromMicrosoftStore(u)
             \/ GetConfigSources(u) \/ CheckPriority(u) \/ CheckConf(u) \/ Set(u) \/ SetFails(u) \/ Reply(u)
      PROVE  IInv'
  BY <1>1, CallsBegin, UserSteps, SetSteps, CallFails
<1>2. CASE AssignHost \/ ExpireHandshake \/ SetAgentUid \/ SetAgentUidFails
  BY <1>2, CallsBegin, SetAgentUidKeeps, CallFails
<1>3. CASE Boot \/ Arm \/ WatchFails \/ ReadToken \/ ReadConf \/ ReadFails \/ Wake
  BY <1>3, WatcherSteps
<1>4. CASE UpdateRegistryData \/ UpdateRegistryDataFails
  BY <1>4, UpdateRegistryDataKeeps, UpdateRegistryDataFailsKeeps
<1>5. ASSUME NEW t \in Threads, \/ LoadFails(t) \/ Deliver(t) \/ CloudInitToken(t)
                                \/ CloudInitConf(t) \/ CloudInitWrite(t) \/ CloudInitFails(t)
      PROVE  IInv'
  BY <1>5, LoadFailsKeeps, DeliverKeeps, CloudInitReads, CloudInitEnds
<1>6. CASE ChangeRegistry \/ Restart
  BY <1>6, ChangeRegistryKeeps, RestartKeeps
<1>7. CASE Wedge \/ UNCHANGED vars
  BY <1>7, StutterKeeps
<1> QED BY <1>1, <1>2, <1>3, <1>4, <1>5, <1>6, <1>7 DEF Next

LEMMA Invariance == Spec => [](IInv /\ SentType)
BY InitIInv, NextIInv, PTL DEF Spec

-----------------------------------------------------------------------------
\* The configuration in force names the agent's UID, which AssignHost brings and every
\* completion of a configuration uses.
THEOREM ConfigurationNamesUid == Spec => []ConfCarriesUid
<1>1. IInv => ConfCarriesUid
  <2> SUFFICES ASSUME IInv, lapses \cap {"shadow", "stale"} = {}, ConfOf(mem) # None, mem.uid # None
               PROVE  ConfOf(mem).uid = mem.uid
    BY DEF ConfCarriesUid
  <2>1. Carries(mem)
    BY DEF CarryInv, IInv, StoreInv
  <2> QED BY <2>1 DEF Carries, ConfOf
<1> QED BY Invariance, <1>1, PTL

\* The agent has the registry's Landscape configuration while the watcher sleeps, although
\* UpdateRegistryData takes it over only when its checksum is new.
THEOREM RegistryConfTakenOver == Spec => []NoSilentConfChange
<1>1. IInv => NoSilentConfChange
  <2> SUFFICES ASSUME IInv, Asleep, ~missed, lapses \cap {"forgotten", "disk"} = {}
               PROVE  IF Raw(reg.conf) = None THEN mem.orgConf = None
                      ELSE mem.orgConf # None /\ mem.orgConf.conf = reg.conf
    BY DEF NoSilentConfChange
  <2>1. lapses \cap {"disk", "forgotten"} = {}
    OBVIOUS
  <2>2. Matches(reg.conf)
    BY <2>1 DEF RegInv, Asleep, IInv, StoreInv
  <2>3. Load.orgConf = mem.orgConf
    BY LoadFacts DEF IInv, Types
  <2> QED BY <2>2, <2>3 DEF Matches
<1> QED BY Invariance, <1>1, PTL

\* Nobody has anything to announce, and a load would find what is in memory.
LEMMA QuietFacts ==
    ASSUME IInv, Quiet
    PROVE  /\ \A t \in Threads : Pending(t) = {} /\ Due(t, "token") = {} /\ Due(t, "conf") = {}
           /\ pc[Watcher] # "boot" /\ ("disk" \notin lapses => mem = Load)
<1>1. pc[Watcher] = "sleep" /\ \A t \in Threads : t # Watcher => pc[t] = "idle"
  BY DEF Quiet, Asleep
<1>2. \A t \in Threads : pc[t] \notin Observing
  BY <1>1 DEF Observing
<1>3. \A t \in Threads : local[t].notes = <<>>
  BY <1>2 DEF NotesInv, IInv, Types
<1>4. \A t \in Threads : Pending(t) = {} /\ Due(t, "token") = {} /\ Due(t, "conf") = {}
  BY <1>3, NothingDue
<1> QED BY <1>1, <1>4 DEF SyncInv, IInv, StoreInv

\* When nothing is going on, the newest ProAttachment of the distros has the token in force,
\* although observers are notified outside the mutex and a restarted agent takes over a token
\* that it knows without telling them.
THEOREM TokenReachesDistros == Spec => []TokenInForceIsDistributed
<1>1. IInv => TokenInForceIsDistributed
  <2> SUFFICES ASSUME IInv, Quiet, ~missed,
                      lapses \cap {"order", "unresolved", "blind", "crash", "disk"} = {}
               PROVE  sent.token = TokenOf(mem)
    BY DEF TokenInForceIsDistributed
  <2>1. PICK s \in State : s = Load
    BY LoadFacts DEF IInv, Types
  <2>2. mem = s
    BY <2>1, QuietFacts
  <2>3. sent.token = TokenDue(s)
    BY <2>1, QuietFacts DEF TokenInv, IInv, NoteInv
  <2>4. s.org = s.tokenSum
    BY <2>1 DEF OrgInv, IInv, StoreInv
  <2> QED BY <2>2, <2>3, <2>4, SourcesDecide
<1> QED BY Invariance, <1>1, PTL

\* The same for the Landscape configuration that NotifyConfigUpdate distributes, if the agent
\* has a UID.
THEOREM ConfReachesDistros == Spec => []ConfInForceIsDistributed
<1>1. IInv => ConfInForceIsDistributed
  <2> SUFFICES ASSUME IInv, Quiet, ~missed,
                      lapses \cap {"order", "unresolved", "crash", "disk", "forgotten"} = {}
               PROVE  sent.conf = IF mem.uid = None THEN None ELSE ConfOf(mem)
    BY DEF ConfInForceIsDistributed
  <2>1. mem = Load
    BY QuietFacts
  <2>2. lapses \cap {"disk", "forgotten"} = {}
    OBVIOUS
  <2>3. Restored
    BY <2>2 DEF RestoredInv, IInv, StoreInv
  <2>4. sent.conf = ConfDue(Load)
    BY <2>3, QuietFacts DEF ConfInv, IInv, NoteInv
  <2> QED BY <2>1, <2>4 DEF ConfDue
<1> QED BY Invariance, <1>1, PTL

\* The cloud-init file is what the configuration in force makes it, although Update reads the
\* token and the configuration in two sections and writes them without the mutex.
THEOREM CloudInitFollows == Spec => []CloudInitIsCurrent
<1>1. IInv => CloudInitIsCurrent
  <2> SUFFICES ASSUME IInv, Quiet, lapses = {}
               PROVE  yaml = [token |-> TokenOf(mem), conf |-> ConfOf(mem)]
    BY DEF CloudInitIsCurrent
  <2>1. mem = Load
    BY QuietFacts
  <2>2. yaml = [token |-> TokenOf(Load), conf |-> ConfOf(Load)]
    BY QuietFacts DEF YamlInv, IInv, NoteInv
  <2> QED BY <2>1, <2>2
<1> QED BY Invariance, <1>1, PTL
==============================================================================
