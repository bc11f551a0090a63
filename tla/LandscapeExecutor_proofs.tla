----------------------- MODULE LandscapeExecutor_proofs -----------------------
(***************************************************************************)
(* Proofs about the database of distros and Landscape's commands next to   *)
(* it, for every set of names, objects and callers and every number of     *)
(* calls, commands and failures.                                           *)
(***************************************************************************)
EXTENDS LandscapeExecutor, TLAPS

-----------------------------------------------------------------------------
(* What the database keeps by itself, whatever WSL's registry says.        *)

\* The map and the objects agree: an entry leads to the object of its name, whose worker runs
\* until cleanupAllDistros stops it, and a running worker is that of an entry.
ObjInv ==
    /\ \A n \in Names : distros[n] # 0 =>
          object[distros[n]].name = n /\ object[distros[n]].guid # 0
    /\ closer # "waiting" => \A n \in Names : distros[n] # 0 => object[distros[n]].worker = "running"
    /\ \A o \in Objs : object[o].worker = "running" =>
          object[o].name \in Names /\ distros[object[o].name] = o

\* Who is in a section under db.mu holds it.
LockInv ==
    /\ \A c \in Callers : caller[c].pc \in {"dump", "rename"} <=> mu = c
    /\ gc \in {"dump", "rename"} <=> mu = "gc"
    /\ closer \in {"flush", "flushed", "waiting"} <=> mu = "close"

CallInv == \A c \in Callers : caller[c].pc # "idle" => caller[c].name \in Names

\* From cleanupAllDistros on, the file has what was in the map ...
KeptInv ==
    closer \in {"waiting", "closed"} /\ behind = {} =>
        \A n \in Names : kept[n] # 0 => file[n].guid = kept[n]

\* ... and once Close has returned, the map stays empty unless a late call fills it.
LateInv ==
    closer = "closed" /\ "late" \notin behind => mu = "none" /\ \A n \in Names : distros[n] = 0

\* Somebody is about to rename the draft.
Renaming ==
    \/ \E c \in Callers : caller[c].pc = "rename"
    \/ gc = "rename" \/ closer \in {"flushed", "rename"}

\* Unless Close's dump has met a change, nobody holds db.mu during it, and what is about to
\* become the file is what the map says.
DraftInv ==
    "race" \notin behind =>
        /\ mu # "none" => closer \notin {"write", "rename"}
        /\ closer = "write" => snap = Image(distros)
        /\ Renaming => draft = {Image(distros)}

DbInv == ObjInv /\ LockInv /\ CallInv /\ FileIsMap /\ KeptInv /\ LateInv /\ DraftInv

-----------------------------------------------------------------------------
(* What Landscape's commands keep.                                         *)

\* The command is about a distro; its call of the database is its own; and the database is
\* closed only when no command is under way.
CmdInv ==
    /\ cmd.pc # "idle" => cmd.name \in Names /\ closer = "idle"
    /\ caller["landscape"].pc # "idle" => cmd.pc = "call" /\ caller["landscape"].name = cmd.name

\* As long as the user stays away from the name, an installation, and a removal that has
\* looked at the GUID, find nothing there but their own distro.
OwnInv == Exposed /\ cmd.raced = FALSE => reg[cmd.name] \in {0, cmd.guid}

\* The database has the distro.
Entered ==
    \/ cmd.pc = "call" /\ caller["landscape"].pc \in {"dump", "rename", "ok"}
    \/ cmd.pc \in {"start", "user"}

KnownInv ==
    Entered /\ cmd.raced = FALSE /\ cmd.lost = FALSE /\ reg[cmd.name] # 0 =>
        /\ distros[cmd.name] # 0
        /\ object[distros[cmd.name]].guid = cmd.guid
        /\ object[distros[cmd.name]].valid = TRUE

\* Data that only the command knows of.
Unfinished ==
    /\ cmd.pc \in {"fetch", "register", "setup", "call", "start", "user", "rollback", "drop"}
    /\ ~Entered

DataInv ==
    closer # "closed" =>
        \A n \in Names : data[n] => n \in orphans \/ distros[n] # 0 \/ (Unfinished /\ cmd.name = n)

IInv == TypeOK /\ DbInv /\ CmdInv /\ OwnInv /\ KnownInv /\ DataInv

-----------------------------------------------------------------------------
(* The operators on the objects.                                           *)

Object == [name : Names \cup {""}, guid : 0 .. MaxGuid, valid : BOOLEAN, props : Props,
           worker : {"none", "running", "stopping"}]

\* The parts of an object that neither its worker's end nor a task that fails can change.
SameObject(o) ==
    /\ object'[o].name = object[o].name /\ object'[o].guid = object[o].guid
    /\ object'[o].props = object[o].props

\* 0 is no object, the empty string no name.
LEMMA Zero == 0 \notin Objs /\ "" \notin Names
BY DatabaseAssumption

LEMMA Bounds == MaxGuid \in Nat \ {0} /\ MaxCalls \in Nat /\ MaxFaults \in Nat
BY DatabaseAssumption

LEMMA NoObjectType == NoObject \in Object /\ NoObject.worker = "none" /\ NoObject.name = ""
BY Bounds DEF NoObject, Object, Props

\* Entries lead to objects.
LEMMA EntryIsObject ==
    ASSUME DatabaseType, NEW n \in Names, distros[n] # 0
    PROVE  distros[n] \in Objs /\ object[distros[n]] \in Object
BY DEF DatabaseType, Object

\* Distro.Cleanup is told to some objects and leaves the others alone.
LEMMA Retired ==
    ASSUME DatabaseType, NEW os, object' = Retire(os)
    PROVE  /\ object' \in [Objs -> Object]
           /\ \A o \in Objs : SameObject(o) /\ object'[o].valid = object[o].valid
           /\ \A o \in Objs : object'[o].worker = IF o \in os THEN "stopping" ELSE object[o].worker
<1>1. \A o \in Objs : object[o] \in Object
  BY DEF DatabaseType, Object
<1>2. \A o \in Objs : object'[o] = IF o \in os THEN [object[o] EXCEPT !.worker = "stopping"] ELSE object[o]
  BY DEF Retire
<1>3. \A o \in Objs : [object[o] EXCEPT !.worker = "stopping"] \in Object
  BY <1>1 DEF Object
<1>4. object' \in [Objs -> Object]
  BY <1>1, <1>3 DEF Retire
<1> QED
  BY <1>1, <1>2, <1>4 DEF SameObject, Object

\* The file would say the same.
LEMMA SameImage ==
    ASSUME DatabaseType, distros' = distros,
           \A n \in Names : distros[n] # 0 => SameObject(distros[n])
    PROVE  Image(distros)' = Image(distros)
BY DEF Image, SameObject

\* A step that leaves alone the map, the file and the identity of the objects in the map.
LEMMA FrameDb ==
    ASSUME DatabaseType, DbInv,
           UNCHANGED <<distros, file, draft, snap, mu, behind, kept>>,
           \A n \in Names : distros[n] # 0 => SameObject(distros[n]),
           ObjInv', LockInv', CallInv',
           Renaming' => Renaming,
           closer' \in {"write", "rename", "waiting", "closed"} => closer' = closer,
           closer = "closed" => closer' = closer
    PROVE  DbInv'
<1>1. Image(distros)' = Image(distros)
  BY SameImage
<1>2. FileIsMap'
  BY <1>1 DEF DbInv, FileIsMap
<1>3. KeptInv' /\ LateInv'
  BY DEF DbInv, KeptInv, LateInv
<1>4. DraftInv'
  BY <1>1 DEF DbInv, DraftInv
<1> QED
  BY <1>2, <1>3, <1>4 DEF DbInv

\* The objects are not touched at all.
LEMMA FrameObjects ==
    ASSUME DatabaseType, DbInv,
           UNCHANGED <<object, distros, file, draft, snap, mu, behind, kept>>,
           LockInv', CallInv',
           Renaming' => Renaming,
           closer' \in {"write", "rename", "waiting", "closed"} => closer' = closer,
           closer \in {"waiting", "closed"} => closer' = closer
    PROVE  DbInv'
<1>1. ObjInv'
  BY DEF DbInv, ObjInv
<1>2. \A n \in Names : SameObject(distros[n])
  BY DEF SameObject
<1> QED
  BY <1>1, <1>2, FrameDb

LEMMA CallersApart == \A c \in Callers : c # "none" /\ c # "gc" /\ c # "close"
BY DatabaseAssumption

\* Who renames a draft holds db.mu, but for Close's second dump.
LEMMA RenamingLocks ==
    ASSUME LockInv, Renaming
    PROVE  mu # "none" \/ closer = "rename"
BY CallersApart DEF LockInv, Renaming

LEMMA RenamingLocksNext ==
    ASSUME LockInv', Renaming'
    PROVE  mu' # "none" \/ closer' = "rename"
BY CallersApart DEF LockInv, Renaming

-----------------------------------------------------------------------------
(* The steps of the database.                                              *)

\* Distros on their own.
LEMMA CleanupEndsDb ==
    ASSUME DatabaseType, DbInv, NEW o \in Objs, CleanupEnds(o)
    PROVE  DatabaseType' /\ DbInv'
<1> DEFINE inMap == \E n \in Names : distros[n] = o
           new == IF inMap THEN [object[o] EXCEPT !.worker = "none"] ELSE NoObject
<1>1. object' = [object EXCEPT ![o] = new] /\ object[o].worker = "stopping"
  BY DEF CleanupEnds
<1>2. object \in [Objs -> Object] /\ NoObject \in Object
  BY NoObjectType DEF DatabaseType, Object
<1>3. new \in Object /\ new.worker = "none"
       /\ (inMap => new.name = object[o].name /\ new.guid = object[o].guid /\ new.props = object[o].props)
  BY <1>2 DEF Object, NoObject
<1>4. object' \in [Objs -> Object] /\ object'[o] = new /\ \A q \in Objs \ {o} : object'[q] = object[q]
  BY <1>1, <1>2, <1>3
<1> HIDE DEF new
<1>5. DatabaseType'
  BY <1>4 DEF DatabaseType, CleanupEnds, registry, history, disk, Object
<1>6. \A n \in Names : distros[n] # 0 => SameObject(distros[n])
  BY <1>3, <1>4 DEF DatabaseType, SameObject
<1>7. ObjInv'
  <2>1. \A n \in Names : distros[n] # 0 => object[distros[n]].name = n /\ object[distros[n]].guid # 0
    BY DEF DbInv, ObjInv
  <2>2. \A n \in Names : distros'[n] # 0 => object'[distros'[n]].name = n /\ object'[distros'[n]].guid # 0
    BY <1>6, <2>1 DEF CleanupEnds, SameObject
  <2>3. closer # "waiting" => \A n \in Names : distros[n] # o
    <3>1. closer # "waiting" => \A n \in Names : distros[n] # 0 => object[distros[n]].worker = "running"
      BY DEF DbInv, ObjInv
    <3> QED
      BY <1>1, <3>1, Zero
  <2>4. closer' # "waiting" => \A n \in Names : distros'[n] # 0 => object'[distros'[n]].worker = "running"
    <3>1. closer' = closer /\ distros' = distros /\ distros \in [Names -> Objs \cup {0}]
      BY DEF DatabaseType, CleanupEnds
    <3> QED
      BY <2>3, <1>4, <3>1 DEF DbInv, ObjInv
  <2>5. \A q \in Objs : object'[q].worker = "running" =>
          object'[q].name \in Names /\ distros'[object'[q].name] = q
    BY <1>3, <1>4 DEF DbInv, ObjInv, CleanupEnds
  <2> QED
    BY <2>2, <2>4, <2>5 DEF ObjInv
<1>8. LockInv' /\ CallInv' /\ (Renaming' => Renaming)
  BY DEF DbInv, LockInv, CallInv, CleanupEnds, Renaming
<1> QED
  BY <1>5, <1>6, <1>7, <1>8, FrameDb DEF CleanupEnds, history, disk

LEMMA InvalidateDb ==
    ASSUME DatabaseType, DbInv, NEW o \in Objs, Invalidate(o)
    PROVE  DatabaseType' /\ DbInv'
<1>1. /\ object' = [object EXCEPT ![o].valid = FALSE]
      /\ object \in [Objs -> Object]
      /\ faults < MaxFaults /\ faults' = faults + 1
      /\ UNCHANGED <<reg, guids, distros, file, draft, snap, data, mu, open, gc, closer, caller, calls, behind, kept, orphans>>
  BY DEF Invalidate, Fault, DatabaseType, Object, registry, history, disk
<1>2. object' \in [Objs -> Object]
  BY <1>1 DEF Object
<1>3. \A q \in Objs : SameObject(q) /\ object'[q].worker = object[q].worker
  BY <1>1 DEF SameObject, Object
<1>4. DatabaseType'
  <2>1. faults' \in 0 .. MaxFaults
    <3>1. faults \in 0 .. MaxFaults
      BY DEF DatabaseType
    <3> QED
      BY <1>1, <3>1, Bounds
  <2> QED
    BY <1>1, <1>2, <2>1 DEF DatabaseType, Object
<1>5. ObjInv'
  <2>1. closer' = closer /\ distros' = distros /\ distros \in [Names -> Objs \cup {0}]
    BY <1>1 DEF DatabaseType
  <2> QED
    BY <1>3, <2>1 DEF DbInv, ObjInv, SameObject
<1>6. LockInv' /\ CallInv' /\ (Renaming' => Renaming)
  BY DEF DbInv, LockInv, CallInv, Invalidate, Renaming
<1>7. \A n \in Names : distros[n] # 0 => SameObject(distros[n])
  BY <1>3 DEF DatabaseType
<1> QED
  BY <1>1, <1>4, <1>5, <1>6, <1>7, FrameDb

\* WSL's registry changes.
LEMMA RegistryDb ==
    ASSUME DatabaseType, DbInv, NEW n \in Names, UserRegisters(n) \/ UserUnregisters(n)
    PROVE  DatabaseType' /\ DbInv'
<1>1. UNCHANGED <<object, distros, file, draft, snap, data, mu, open, gc, closer, caller, calls, faults,
                  behind, kept, orphans>>
  BY DEF UserRegisters, UserUnregisters, history, disk
<1>2. reg' \in [Names -> 0 .. MaxGuid] /\ guids' \in [Names -> 0 .. MaxGuid]
  <2>1. reg \in [Names -> 0 .. MaxGuid] /\ guids \in [Names -> 0 .. MaxGuid] /\ MaxGuid \in Nat
    BY Bounds DEF DatabaseType
  <2>2. CASE UserRegisters(n)
    <3>1. guids[n] + 1 \in 0 .. MaxGuid
      BY <2>1, <2>2 DEF UserRegisters
    <3> QED
      BY <2>1, <2>2, <3>1 DEF UserRegisters
  <2>3. CASE UserUnregisters(n)
    BY <2>1, <2>3 DEF UserUnregisters
  <2> QED
    BY <2>2, <2>3
<1>3. DatabaseType'
  BY <1>1, <1>2 DEF DatabaseType
<1>4. LockInv' /\ CallInv' /\ (Renaming' => Renaming)
  BY <1>1 DEF DbInv, LockInv, CallInv, Renaming
<1> QED
  BY <1>1, <1>3, <1>4, FrameObjects

-----------------------------------------------------------------------------
(* GetDistroAndUpdateProperties.                                           *)

Call == [pc : {"idle", "entered", "dump", "rename", "ok", "error", "panic"}, name : Names \cup {""}, props : Props]

\* A step of the call: the other calls stay as they are.
LEMMA Stepped ==
    ASSUME DatabaseType, NEW c \in Callers,
           NEW pc \in {"idle", "entered", "dump", "rename", "ok", "error", "panic"}, Step(c, pc)
    PROVE  /\ caller' \in [Callers -> Call]
           /\ caller'[c].pc = pc /\ caller'[c].name = caller[c].name /\ caller'[c].props = caller[c].props
           /\ \A d \in Callers \ {c} : caller'[d] = caller[d]
BY DEF DatabaseType, Step, Call

LEMMA EnterDb ==
    ASSUME DatabaseType, DbInv, NEW c \in Callers, NEW n \in Names, NEW p \in Props, Enter(c, n, p)
    PROVE  DatabaseType' /\ DbInv'
<1> DEFINE entry == [pc |-> IF open THEN "entered" ELSE "panic", name |-> n, props |-> p]
<1>1. /\ UNCHANGED <<reg, guids, object, distros, file, draft, snap, data, mu, open, gc, closer, faults, behind, kept, orphans>>
      /\ caller[c].pc = "idle" /\ calls < MaxCalls /\ calls' = calls + 1
      /\ caller' = [caller EXCEPT ![c] = entry]
  BY DEF Enter, registry, history, disk
<1>2. entry \in Call /\ entry.pc \in {"entered", "panic"} /\ entry.name = n
  BY DEF Call
<1> HIDE DEF entry
<1>3. caller' \in [Callers -> Call] /\ caller'[c] = entry /\ \A d \in Callers \ {c} : caller'[d] = caller[d]
  BY <1>1, <1>2 DEF DatabaseType, Call
<1>4. DatabaseType'
  <2>1. calls' \in 0 .. MaxCalls
    <3>1. calls \in 0 .. MaxCalls
      BY DEF DatabaseType
    <3> QED
      BY <1>1, <3>1, Bounds
  <2> QED
    BY <1>1, <1>3, <2>1 DEF DatabaseType, Call
<1>5. LockInv' /\ CallInv' /\ (Renaming' => Renaming)
  BY <1>1, <1>2, <1>3 DEF DbInv, LockInv, CallInv, Renaming
<1> QED
  BY <1>1, <1>4, <1>5, FrameObjects

LEMMA ReturnDb ==
    ASSUME DatabaseType, DbInv, NEW c \in Callers, Return(c)
    PROVE  DatabaseType' /\ DbInv'
<1>1. /\ UNCHANGED <<reg, guids, object, distros, file, draft, snap, data, mu, open, gc, closer, calls, faults, behind, kept, orphans>>
      /\ caller[c].pc \in {"ok", "error"}
      /\ caller' = [caller EXCEPT ![c] = NoCall]
  BY DEF Return, registry, history, disk
<1>2. NoCall \in Call /\ NoCall.pc = "idle"
  BY DEF Call, NoCall, Props
<1>3. caller' \in [Callers -> Call] /\ caller'[c] = NoCall /\ \A d \in Callers \ {c} : caller'[d] = caller[d]
  BY <1>1, <1>2 DEF DatabaseType, Call
<1>4. DatabaseType'
  BY <1>1, <1>3 DEF DatabaseType, Call
<1>5. LockInv' /\ CallInv' /\ (Renaming' => Renaming)
  BY <1>1, <1>2, <1>3 DEF DbInv, LockInv, CallInv, Renaming
<1> QED
  BY <1>1, <1>4, <1>5, FrameObjects

\* What is free is in no entry.
LEMMA FreeIsOut ==
    ASSUME DatabaseType, DbInv, NEW o \in Free
    PROVE  o \in Objs /\ object[o] = NoObject /\ \A n \in Names : distros[n] # o
<1>1. o \in Objs /\ object[o] = NoObject /\ object[o].name = ""
  BY NoObjectType DEF Free
<1>2. \A n \in Names : distros[n] # 0 => object[distros[n]].name = n
  BY DEF DbInv, ObjInv
<1> QED
  BY <1>1, <1>2, Zero

\* A section of GetDistroAndUpdateProperties that makes o the entry of n: the object there
\* before, if it is another one, has been told to stop.
LEMMA ChangeDb ==
    ASSUME DatabaseType, DbInv, NEW c \in Callers, NEW n \in Names, NEW o \in Objs, NEW objects,
           mu = "none", caller[c].pc = "entered", Change(c, n, objects, o),
           objects \in [Objs -> Object],
           objects[o].name = n, objects[o].guid # 0, objects[o].worker = "running",
           \A q \in Objs \ {o} : objects[q].name = object[q].name /\ objects[q].guid = object[q].guid,
           \A q \in Objs \ {o} : objects[q].worker =
               IF q = distros[n] THEN "stopping" ELSE object[q].worker,
           \A m \in Names \ {n} : distros[m] # o
    PROVE  DatabaseType' /\ DbInv'
<1>1. /\ object' = objects /\ distros' = [distros EXCEPT ![n] = o]
      /\ behind' = behind \cup Overlap \cup (IF closer = "closed" THEN {"late"} ELSE {})
      /\ mu' = c /\ Step(c, "dump")
      /\ UNCHANGED <<reg, guids, file, draft, snap, data, open, gc, closer, calls, faults, kept, orphans>>
  BY DEF Change, registry, disk
<1>2. /\ caller' \in [Callers -> Call]
      /\ caller'[c].pc = "dump" /\ caller'[c].name = caller[c].name
      /\ \A d \in Callers \ {c} : caller'[d] = caller[d]
  BY <1>1, Stepped
<1>3. distros \in [Names -> Objs \cup {0}] /\ distros' \in [Names -> Objs \cup {0}]
      /\ distros'[n] = o /\ \A m \in Names \ {n} : distros'[m] = distros[m]
  BY <1>1 DEF DatabaseType
<1>4. DatabaseType'
  <2>1. behind' \in SUBSET {"dump", "replace", "load", "race", "late"}
    BY <1>1 DEF DatabaseType, Overlap
  <2> QED
    BY <1>1, <1>2, <1>3, <2>1 DEF DatabaseType, Object, Call
<1>5. closer # "waiting" /\ closer' = closer
  BY <1>1 DEF DbInv, LockInv
<1>6. /\ \A m \in Names : distros[m] # 0 => object[distros[m]].name = m /\ object[distros[m]].guid # 0
      /\ \A m \in Names : distros[m] # 0 => object[distros[m]].worker = "running"
      /\ \A q \in Objs : object[q].worker = "running" =>
            object[q].name \in Names /\ distros[object[q].name] = q
  BY <1>5 DEF DbInv, ObjInv
<1>7. ObjInv'
  <2>1. \A m \in Names \ {n} : distros[m] # 0 => distros[m] # distros[n] /\ distros[m] \in Objs \ {o}
    BY <1>3, <1>6
  <2>2. ASSUME NEW m \in Names, distros'[m] # 0
        PROVE  object'[distros'[m]].name = m /\ object'[distros'[m]].guid # 0
               /\ object'[distros'[m]].worker = "running"
    BY <1>1, <1>3, <1>6, <2>1, <2>2
  <2>3. ASSUME NEW q \in Objs, object'[q].worker = "running"
        PROVE  object'[q].name \in Names /\ distros'[object'[q].name] = q
    <3>1. CASE q = o
      BY <1>1, <1>3, <3>1
    <3>2. CASE q # o
      <4>1. q # distros[n] /\ object[q].worker = "running" /\ object'[q].name = object[q].name
        BY <1>1, <2>3, <3>2
      <4>2. object[q].name \in Names /\ object[q].name # n /\ distros[object[q].name] = q
        BY <1>6, <4>1
      <4> QED
        BY <1>3, <4>1, <4>2
    <3> QED
      BY <3>1, <3>2
  <2> QED
    BY <2>2, <2>3 DEF ObjInv
<1>8. LockInv' /\ CallInv'
  <2>1. c # "none" /\ c # "gc" /\ c # "close"
    BY DatabaseAssumption
  <2>2. /\ \A d \in Callers : caller[d].pc \in {"dump", "rename"} <=> mu = d
        /\ gc \notin {"dump", "rename"} /\ closer \notin {"flush", "flushed", "waiting"}
    BY DEF DbInv, LockInv
  <2>3. \A d \in Callers : caller'[d].pc \in {"dump", "rename"} <=> mu' = d
    <3>1. \A d \in Callers : d # "none"
      BY DatabaseAssumption
    <3> QED
      BY <1>1, <1>2, <2>2, <3>1
  <2>4. LockInv'
    BY <1>1, <2>1, <2>2, <2>3 DEF LockInv
  <2>5. CallInv'
    BY <1>2 DEF DbInv, CallInv
  <2> QED
    BY <2>4, <2>5
<1>9. FileIsMap' /\ KeptInv' /\ LateInv'
  <2>1. c # "none"
    BY DatabaseAssumption
  <2>2. closer = "closed" => "late" \in behind'
    BY <1>1
  <2> QED
    BY <1>1, <1>5, <2>1, <2>2 DEF FileIsMap, KeptInv, LateInv
<1>10. DraftInv'
  <2> SUFFICES ASSUME "race" \notin behind' PROVE closer \notin {"write", "rename"} /\ ~Renaming'
    BY <1>5 DEF DraftInv
  <2>1. closer \notin {"write", "rename"}
    BY <1>1 DEF Overlap
  <2>2. ~Renaming
    BY <2>1, RenamingLocks DEF DbInv
  <2> QED
    BY <1>1, <1>2, <2>1, <2>2 DEF Renaming
<1> QED
  BY <1>4, <1>7, <1>8, <1>9, <1>10 DEF DbInv

LEMMA NewDistroType ==
    ASSUME DatabaseType, NEW n \in Names, NEW p \in Props, reg[n] # 0
    PROVE  /\ NewDistro(n, p) \in Object
           /\ NewDistro(n, p).name = n /\ NewDistro(n, p).guid = reg[n] /\ NewDistro(n, p).guid # 0
           /\ NewDistro(n, p).worker = "running" /\ NewDistro(n, p).valid
<1>1. reg[n] \in 0 .. MaxGuid
  BY DEF DatabaseType
<1> QED
  BY <1>1 DEF NewDistro, Object

LEMMA CreateDb ==
    ASSUME DatabaseType, DbInv, NEW c \in Callers, NEW n \in Names, NEW p \in Props, Create(c, n, p)
    PROVE  DatabaseType' /\ DbInv'
<1>1. PICK o \in Free : Change(c, n, [object EXCEPT ![o] = NewDistro(n, p)], o)
  BY DEF Create
<1>2. PICK d : d = NewDistro(n, p)
  OBVIOUS
<1>3. PICK objects : objects = [object EXCEPT ![o] = d]
  OBVIOUS
<1>4. o \in Objs /\ object[o] = NoObject /\ \A m \in Names : distros[m] # o
  BY FreeIsOut
<1>5. /\ caller[c].pc = "entered" /\ mu = "none" /\ distros[n] = 0 /\ reg[n] # 0
      /\ Change(c, n, objects, o)
  BY <1>1, <1>2, <1>3 DEF Create
<1>6. d \in Object /\ d.name = n /\ d.guid # 0 /\ d.worker = "running"
  BY <1>2, <1>5, NewDistroType
<1>7. /\ objects \in [Objs -> Object] /\ objects[o] = d
      /\ \A q \in Objs \ {o} : objects[q] = object[q] /\ q # distros[n]
  BY <1>3, <1>4, <1>5, <1>6, Zero DEF DatabaseType, Object
<1> QED
  BY <1>4, <1>5, <1>6, <1>7, ChangeDb

LEMMA ReplaceDb ==
    ASSUME DatabaseType, DbInv, NEW c \in Callers, NEW n \in Names, NEW p \in Props, Replace(c, n, p)
    PROVE  DatabaseType' /\ DbInv'
<1>1. PICK o \in Free : Change(c, n, [Retire({distros[n]}) EXCEPT ![o] = NewDistro(n, p)], o)
  BY DEF Replace
<1>2. PICK d : d = NewDistro(n, p)
  OBVIOUS
<1>3. PICK objects : objects = [Retire({distros[n]}) EXCEPT ![o] = d]
  OBVIOUS
<1>4. o \in Objs /\ \A m \in Names : distros[m] # o
  BY FreeIsOut
<1>5. /\ caller[c].pc = "entered" /\ mu = "none" /\ distros[n] # 0 /\ reg[n] # 0
      /\ Change(c, n, objects, o)
  BY <1>1, <1>2, <1>3 DEF Replace
<1>6. d \in Object /\ d.name = n /\ d.guid # 0 /\ d.worker = "running"
  BY <1>2, <1>5, NewDistroType
<1>7. \A q \in Objs : object[q] \in Object /\ [object[q] EXCEPT !.worker = "stopping"] \in Object
  <2>1. \A q \in Objs : object[q] \in Object
    BY DEF DatabaseType, Object
  <2> QED
    BY <2>1 DEF Object
<1>8. Retire({distros[n]}) \in [Objs -> Object]
  BY <1>7 DEF Retire
<1>9. \A q \in Objs : Retire({distros[n]})[q] =
         IF q = distros[n] THEN [object[q] EXCEPT !.worker = "stopping"] ELSE object[q]
  BY DEF Retire
<1>10. /\ objects \in [Objs -> Object] /\ objects[o] = d
       /\ \A q \in Objs \ {o} : objects[q] =
             IF q = distros[n] THEN [object[q] EXCEPT !.worker = "stopping"] ELSE object[q]
  BY <1>3, <1>4, <1>6, <1>8, <1>9
<1>11. \A q \in Objs \ {o} :
          /\ objects[q].name = object[q].name /\ objects[q].guid = object[q].guid
          /\ objects[q].worker = IF q = distros[n] THEN "stopping" ELSE object[q].worker
  BY <1>7, <1>10 DEF Object
<1> QED
  BY <1>4, <1>5, <1>6, <1>10, <1>11, ChangeDb

LEMMA UpdateDb ==
    ASSUME DatabaseType, DbInv, NEW c \in Callers, NEW n \in Names, NEW p \in Props, Update(c, n, p)
    PROVE  DatabaseType' /\ DbInv'
<1>1. /\ caller[c].pc = "entered" /\ mu = "none" /\ distros[n] # 0
      /\ object \in [Objs -> Object] /\ distros \in [Names -> Objs \cup {0}]
  BY DEF Update, DatabaseType, Object
<1>2. CASE object[distros[n]].props = p
  <2>1. Step(c, "ok") /\ UNCHANGED <<reg, guids, object, distros, file, draft, snap, data, mu, open, gc, closer, calls,
                                     faults, behind, kept, orphans>>
    BY <1>2 DEF Update, registry, history, disk
  <2>2. /\ caller' \in [Callers -> Call]
        /\ caller'[c].pc = "ok" /\ caller'[c].name = caller[c].name
        /\ \A d \in Callers \ {c} : caller'[d] = caller[d]
    BY <2>1, Stepped
  <2>3. DatabaseType'
    BY <2>1, <2>2 DEF DatabaseType, Call
  <2>4. LockInv' /\ CallInv' /\ (Renaming' => Renaming)
    BY <1>1, <2>1, <2>2 DEF DbInv, LockInv, CallInv, Renaming
  <2> QED
    BY <2>1, <2>3, <2>4, FrameObjects
<1>3. CASE object[distros[n]].props # p
  <2>1. PICK o \in Objs : o = distros[n]
    BY <1>1
  <2>2. PICK objects : objects = [object EXCEPT ![o].props = p]
    OBVIOUS
  <2>3. Change(c, n, objects, o)
    BY <1>3, <2>1, <2>2 DEF Update
  <2>4. /\ objects \in [Objs -> Object]
        /\ objects[o].name = object[o].name /\ objects[o].guid = object[o].guid
        /\ objects[o].worker = object[o].worker
        /\ \A q \in Objs \ {o} : objects[q] = object[q]
    BY <1>1, <2>2 DEF Object
  <2>5. /\ object[o].name = n /\ object[o].guid # 0 /\ object[o].worker = "running"
        /\ \A m \in Names \ {n} : distros[m] # o
    BY <1>1, <2>1 DEF DbInv, ObjInv, LockInv
  <2> QED
    BY <1>1, <2>1, <2>3, <2>4, <2>5, ChangeDb
<1> QED
  BY <1>2, <1>3

\* Some entries are removed and their objects told to stop.
LEMMA DropObjects ==
    ASSUME DatabaseType, ObjInv,
           \A o \in Objs : SameObject(o),
           \A n \in Names : distros'[n] \in {0, distros[n]},
           \A o \in Objs : object'[o].worker =
               IF \E n \in Names : distros[n] = o /\ distros'[n] # o THEN "stopping" ELSE object[o].worker,
           closer' # "waiting" => closer # "waiting"
    PROVE  ObjInv'
<1>1. \A n \in Names : distros[n] \in Objs \cup {0}
  BY DEF DatabaseType
<1>2. \A n \in Names : distros'[n] # 0 =>
         object'[distros'[n]].name = n /\ object'[distros'[n]].guid # 0
  BY <1>1 DEF ObjInv, SameObject
<1>3. ASSUME closer' # "waiting", NEW n \in Names, distros'[n] # 0
      PROVE  object'[distros'[n]].worker = "running"
  <2>1. distros'[n] = distros[n] /\ distros[n] \in Objs /\ object[distros[n]].worker = "running"
    BY <1>1, <1>3 DEF ObjInv
  <2>2. \A m \in Names : distros[m] = distros[n] => m = n
    BY <2>1, <1>3 DEF ObjInv
  <2> QED
    BY <2>1, <2>2
<1>4. ASSUME NEW o \in Objs, object'[o].worker = "running"
      PROVE  object'[o].name \in Names /\ distros'[object'[o].name] = o
  <2>1. object[o].worker = "running" /\ \A n \in Names : distros[n] = o => distros'[n] = o
    BY <1>4
  <2>2. object[o].name \in Names /\ distros[object[o].name] = o /\ object'[o].name = object[o].name
    BY <2>1 DEF ObjInv, SameObject
  <2> QED
    BY <2>1, <2>2
<1> QED
  BY <1>2, <1>3, <1>4 DEF ObjInv

LEMMA NewFailsDb ==
    ASSUME DatabaseType, DbInv, NEW c \in Callers, NEW n \in Names, NewFails(c, n)
    PROVE  DatabaseType' /\ DbInv'
<1>1. /\ caller[c].pc = "entered" /\ mu = "none"
      /\ faults' = faults \/ (faults < MaxFaults /\ faults' = faults + 1)
      /\ object' = Retire({distros[n]} \ {0})
      /\ distros' = [distros EXCEPT ![n] = 0]
      /\ behind' = IF distros[n] # 0 THEN behind \cup {"replace"} \cup Overlap ELSE behind
      /\ orphans' = IF distros[n] # 0 /\ data[n] THEN orphans \cup {n} ELSE orphans
      /\ Step(c, "error")
      /\ UNCHANGED <<reg, guids, file, draft, snap, data, mu, open, gc, closer, calls, kept>>
  BY DEF NewFails, Fault, registry, disk
<1>2. /\ caller' \in [Callers -> Call]
      /\ caller'[c].pc = "error" /\ caller'[c].name = caller[c].name
      /\ \A d \in Callers \ {c} : caller'[d] = caller[d]
  BY <1>1, Stepped
<1>3. PICK os : os = {distros[n]} \ {0}
  OBVIOUS
<1>4. /\ object' \in [Objs -> Object] /\ \A o \in Objs : SameObject(o)
      /\ \A o \in Objs : object'[o].worker = IF o \in os THEN "stopping" ELSE object[o].worker
  BY <1>1, <1>3, Retired
<1>5. /\ distros \in [Names -> Objs \cup {0}] /\ distros' \in [Names -> Objs \cup {0}]
      /\ distros'[n] = 0 /\ \A m \in Names \ {n} : distros'[m] = distros[m]
  BY <1>1 DEF DatabaseType
<1>6. DatabaseType'
  <2>1. faults' \in 0 .. MaxFaults
    <3>1. faults \in 0 .. MaxFaults
      BY DEF DatabaseType
    <3> QED
      BY <1>1, <3>1, Bounds
  <2>2. behind' \in SUBSET {"dump", "replace", "load", "race", "late"} /\ orphans' \in SUBSET Names
    BY <1>1 DEF DatabaseType, Overlap
  <2> QED
    BY <1>1, <1>2, <1>4, <1>5, <2>1, <2>2 DEF DatabaseType, Object, Call
<1>7. ObjInv'
  <2>1. \A m \in Names : m # n /\ distros[m] # 0 => distros[m] # distros[n]
    BY DEF DbInv, ObjInv
  <2>2. \A o \in Objs : o \in os <=> \E m \in Names : distros[m] = o /\ distros'[m] # o
    BY <1>3, <1>5, Zero
  <2>3. \A m \in Names : distros'[m] \in {0, distros[m]}
    BY <1>5
  <2>4. \A o \in Objs : object'[o].worker =
           IF \E m \in Names : distros[m] = o /\ distros'[m] # o THEN "stopping" ELSE object[o].worker
    BY <1>4, <2>2
  <2> QED
    BY <1>1, <1>4, <2>3, <2>4, DropObjects DEF DbInv
<1>8. LockInv' /\ CallInv' /\ (Renaming' => Renaming)
  <2>1. LockInv'
    BY <1>1, <1>2 DEF DbInv, LockInv
  <2>2. CallInv'
    BY <1>1, <1>2 DEF DbInv, CallInv
  <2>3. Renaming' => Renaming
    BY <1>1, <1>2 DEF Renaming
  <2> QED
    BY <2>1, <2>2, <2>3
<1>9. CASE distros[n] = 0
  <2>1. distros' = distros
    BY <1>5, <1>9
  <2>2. \A m \in Names : distros[m] # 0 => SameObject(distros[m])
    BY <1>4, <1>5
  <2> QED
    BY <1>1, <1>6, <1>7, <1>8, <1>9, <2>1, <2>2, FrameDb
<1>10. CASE distros[n] # 0
  <2>1. behind' # {} /\ behind \subseteq behind'
    BY <1>1, <1>10
  <2>2. FileIsMap' /\ KeptInv' /\ LateInv'
    BY <1>1, <1>5, <2>1 DEF DbInv, FileIsMap, KeptInv, LateInv
  <2>3. DraftInv'
    <3> SUFFICES ASSUME "race" \notin behind' PROVE closer \notin {"write", "rename"} /\ ~Renaming'
      BY <1>1 DEF DraftInv
    <3>1. closer \notin {"write", "rename"}
      BY <1>1, <1>10 DEF Overlap
    <3> QED
      BY <1>1, <1>8, <3>1, RenamingLocks DEF DbInv
  <2> QED
    BY <1>6, <1>7, <1>8, <2>2, <2>3 DEF DbInv
<1> QED
  BY <1>9, <1>10

LEMMA ImageType ==
    ASSUME DatabaseType
    PROVE  Image(distros) \in Images
<1>1. NoEntry \in [guid : 0 .. MaxGuid, props : Props]
  BY Bounds DEF NoEntry, Props
<1>2. \A n \in Names : distros[n] # 0 => object[distros[n]] \in Object
  BY EntryIsObject
<1>3. \A n \in Names : distros[n] # 0 =>
         [guid |-> object[distros[n]].guid, props |-> object[distros[n]].props]
            \in [guid : 0 .. MaxGuid, props : Props]
  BY <1>2 DEF Object
<1> QED
  BY <1>1, <1>3 DEF Image, Images

LEMMA FaultType ==
    ASSUME DatabaseType, Fault \/ UNCHANGED faults
    PROVE  faults' \in 0 .. MaxFaults
<1>1. faults \in 0 .. MaxFaults
  BY DEF DatabaseType
<1> QED
  BY <1>1, Bounds DEF Fault

\* The draft is written or renamed, or neither.
LEMMA DiskType ==
    ASSUME DatabaseType, WriteDraft \/ RenameDraft \/ NoDraft \/ DumpFails
    PROVE  /\ faults' \in 0 .. MaxFaults
           /\ behind' \in SUBSET {"dump", "replace", "load", "race", "late"}
           /\ file' \in Images /\ draft' \in SUBSET Images
<1>1. Image(distros) \in Images
  BY ImageType
<1>2. faults' \in 0 .. MaxFaults
  BY FaultType DEF WriteDraft, RenameDraft, NoDraft, DumpFails
<1>3. behind' \in SUBSET {"dump", "replace", "load", "race", "late"}
  BY DEF DatabaseType, WriteDraft, RenameDraft, NoDraft, DumpFails
<1>4. file' \in Images /\ draft' \in SUBSET Images
  BY <1>1 DEF DatabaseType, WriteDraft, RenameDraft, NoDraft, DumpFails
<1> QED
  BY <1>2, <1>3, <1>4

LEMMA SameMap ==
    ASSUME UNCHANGED <<object, distros>>
    PROVE  Image(distros)' = Image(distros)
BY DEF Image

\* Who holds the lock writes a draft ...
LEMMA DraftUnderLock ==
    ASSUME DatabaseType, DbInv, WriteDraft, UNCHANGED <<object, distros, kept, mu>>,
           mu # "none", LockInv', CallInv', closer # "waiting",
           closer' \in {"write", "rename", "waiting", "closed"} => closer' = closer
    PROVE  DbInv'
<1>1. Image(distros)' = Image(distros)
  BY SameMap
<1>2. closer = "closed" => "late" \in behind'
  BY DEF DbInv, LateInv, WriteDraft
<1>3. ObjInv'
  BY DEF DbInv, ObjInv
<1>4. FileIsMap' /\ KeptInv' /\ LateInv'
  BY <1>2 DEF FileIsMap, KeptInv, LateInv
<1>5. DraftInv'
  BY <1>1 DEF DbInv, DraftInv, WriteDraft
<1> QED
  BY <1>3, <1>4, <1>5 DEF DbInv

\* What the file is when a dump ends.
LEMMA Renamed ==
    ASSUME DbInv, (Renaming /\ (RenameDraft \/ NoDraft)) \/ DumpFails,
           UNCHANGED <<object, distros>>
    PROVE  /\ behind' = {} => file' = Image(distros)'
           /\ "race" \in behind' <=> "race" \in behind
           /\ "late" \in behind' <=> "late" \in behind
<1>1. "race" \in behind' <=> "race" \in behind
  BY DEF RenameDraft, NoDraft, DumpFails
<1>2. "late" \in behind' <=> "late" \in behind
  BY DEF RenameDraft, NoDraft, DumpFails
<1>3. ASSUME behind' = {} PROVE file' = Image(distros)'
  <2>1. "race" \notin behind /\ ~DumpFails
    BY <1>1, <1>3 DEF DumpFails
  <2>2. draft = {Image(distros)}
    BY <2>1 DEF DbInv, DraftInv
  <2>3. RenameDraft
    BY <2>1, <2>2 DEF NoDraft
  <2> QED
    BY <2>2, <2>3, SameMap DEF RenameDraft
<1> QED
  BY <1>1, <1>2, <1>3

\* ... and leaves the lock when it has renamed it, or failed.
LEMMA WriteUnderLock ==
    ASSUME DatabaseType, DbInv, (Renaming /\ (RenameDraft \/ NoDraft)) \/ DumpFails,
           UNCHANGED <<object, distros, kept>>,
           mu # "none", mu' = "none", LockInv', CallInv', closer # "waiting",
           closer' \in {"write", "rename", "waiting", "closed"} => closer' = closer
    PROVE  DbInv'
<1>1. /\ behind' = {} => file' = Image(distros)'
      /\ "race" \in behind' <=> "race" \in behind
      /\ "late" \in behind' <=> "late" \in behind
  BY Renamed
<1>2. closer = "closed" => "late" \in behind'
  BY <1>1 DEF DbInv, LateInv
<1>3. ObjInv'
  BY DEF DbInv, ObjInv
<1>4. FileIsMap' /\ KeptInv' /\ LateInv'
  BY <1>1, <1>2 DEF FileIsMap, KeptInv, LateInv
<1>5. DraftInv'
  <2> SUFFICES ASSUME "race" \notin behind' PROVE closer' \notin {"write", "rename"} /\ ~Renaming'
    BY DEF DraftInv
  <2>1. closer' \notin {"write", "rename"}
    BY <1>1 DEF DbInv, DraftInv
  <2> QED
    BY <2>1, RenamingLocksNext
<1> QED
  BY <1>3, <1>4, <1>5 DEF DbInv

LEMMA DumpDb ==
    ASSUME DatabaseType, DbInv, NEW c \in Callers, Dump(c)
    PROVE  DatabaseType' /\ DbInv'
<1>1. PICK pc \in {"rename", "ok", "error"} :
         /\ Step(c, pc)
         /\ \/ pc = "rename" /\ WriteDraft /\ mu' = mu
            \/ pc # "rename" /\ mu' = "none" /\ ((Renaming /\ (RenameDraft \/ NoDraft)) \/ DumpFails)
  <2>1. caller[c].pc = "rename" => Renaming
    BY DEF Renaming
  <2> QED
    BY <2>1 DEF Dump
<1>2. /\ caller[c].pc \in {"dump", "rename"}
      /\ UNCHANGED <<reg, guids, object, distros, snap, data, open, gc, closer, calls, kept, orphans>>
  BY DEF Dump, registry
<1>3. /\ caller' \in [Callers -> Call]
      /\ caller'[c].pc = pc /\ caller'[c].name = caller[c].name
      /\ \A d \in Callers \ {c} : caller'[d] = caller[d]
  BY <1>1, Stepped
<1>4. DatabaseType'
  <2>1. /\ faults' \in 0 .. MaxFaults
        /\ behind' \in SUBSET {"dump", "replace", "load", "race", "late"}
        /\ file' \in Images /\ draft' \in SUBSET Images
    BY <1>1, DiskType
  <2> QED
    BY <1>1, <1>2, <1>3, <2>1 DEF DatabaseType, Call
<1>5. /\ mu = c /\ mu # "none" /\ gc \notin {"dump", "rename"} /\ closer \notin {"flush", "flushed", "waiting"}
      /\ \A d \in Callers \ {c} : caller[d].pc \notin {"dump", "rename"}
  BY <1>2, CallersApart DEF DbInv, LockInv
<1>6. LockInv'
  BY <1>1, <1>2, <1>3, <1>5, CallersApart DEF LockInv
<1>7. CallInv'
  BY <1>2, <1>3 DEF DbInv, CallInv
<1>8. CASE pc = "rename"
  BY <1>1, <1>2, <1>4, <1>5, <1>6, <1>7, <1>8, DraftUnderLock
<1>9. CASE pc # "rename"
  BY <1>1, <1>2, <1>4, <1>5, <1>6, <1>7, <1>9, WriteUnderLock
<1> QED
  BY <1>8, <1>9

LEMMA GcDumpsDb ==
    ASSUME DatabaseType, DbInv, GcDumps
    PROVE  DatabaseType' /\ DbInv'
<1>1. /\ gc \in {"dump", "rename"}
      /\ \/ WriteDraft /\ mu' = mu /\ gc' = "rename"
         \/ /\ mu' = "none" /\ gc' = "wait"
            /\ (Renaming /\ (RenameDraft \/ NoDraft)) \/ DumpFails
      /\ UNCHANGED <<reg, guids, object, distros, snap, data, open, closer, caller, calls, kept, orphans>>
  BY DEF GcDumps, registry, Renaming
<1>2. DatabaseType'
  <2>1. /\ faults' \in 0 .. MaxFaults
        /\ behind' \in SUBSET {"dump", "replace", "load", "race", "late"}
        /\ file' \in Images /\ draft' \in SUBSET Images
    BY <1>1, DiskType
  <2> QED
    BY <1>1, <2>1 DEF DatabaseType
<1>3. /\ mu = "gc" /\ closer \notin {"flush", "flushed", "waiting"}
      /\ \A d \in Callers : caller[d].pc \notin {"dump", "rename"}
  BY <1>1, CallersApart DEF DbInv, LockInv
<1>4. LockInv' /\ CallInv'
  BY <1>1, <1>3, CallersApart DEF DbInv, LockInv, CallInv
<1> QED
  BY <1>1, <1>2, <1>3, <1>4, DraftUnderLock, WriteUnderLock

LEMMA CloseFlushesDb ==
    ASSUME DatabaseType, DbInv, CloseFlushes
    PROVE  DatabaseType' /\ DbInv'
<1>1. /\ closer \in {"flush", "flushed"}
      /\ \/ WriteDraft /\ mu' = mu /\ closer' = "flushed"
         \/ /\ mu' = "none" /\ closer' = "dump"
            /\ (Renaming /\ (RenameDraft \/ NoDraft)) \/ DumpFails
      /\ UNCHANGED <<reg, guids, object, distros, snap, data, open, gc, caller, calls, kept, orphans>>
  BY DEF CloseFlushes, registry, Renaming
<1>2. DatabaseType'
  <2>1. /\ faults' \in 0 .. MaxFaults
        /\ behind' \in SUBSET {"dump", "replace", "load", "race", "late"}
        /\ file' \in Images /\ draft' \in SUBSET Images
    BY <1>1, DiskType
  <2> QED
    BY <1>1, <2>1 DEF DatabaseType
<1>3. mu = "close" /\ gc \notin {"dump", "rename"} /\ \A d \in Callers : caller[d].pc \notin {"dump", "rename"}
  BY <1>1, CallersApart DEF DbInv, LockInv
<1>4. LockInv' /\ CallInv'
  BY <1>1, <1>3, CallersApart DEF DbInv, LockInv, CallInv
<1> QED
  BY <1>1, <1>2, <1>3, <1>4, DraftUnderLock, WriteUnderLock

\* The second dump of Close, without the lock.
LEMMA CloseReadsDb ==
    ASSUME DatabaseType, DbInv, CloseReads
    PROVE  DatabaseType' /\ DbInv'
<1>1. /\ closer = "dump" /\ closer' = "write" /\ snap' = Image(distros)
      /\ behind' = IF mu # "none" THEN behind \cup {"race"} ELSE behind
      /\ UNCHANGED <<reg, guids, object, distros, file, draft, data, mu, open, gc, caller, calls, faults, kept,
                     orphans>>
  BY DEF CloseReads, registry
<1>2. DatabaseType'
  BY <1>1, ImageType DEF DatabaseType
<1>3. ObjInv' /\ LockInv' /\ CallInv' /\ KeptInv' /\ LateInv'
  BY <1>1 DEF DbInv, ObjInv, LockInv, CallInv, KeptInv, LateInv
<1>4. Image(distros)' = Image(distros)
  BY <1>1, SameMap
<1>5. FileIsMap'
  BY <1>1, <1>4 DEF DbInv, FileIsMap
<1>6. DraftInv'
  <2>1. ~Renaming' \/ mu' # "none"
    BY <1>1, <1>3, RenamingLocksNext
  <2> QED
    BY <1>1, <1>4, <2>1 DEF DraftInv
<1> QED
  BY <1>2, <1>3, <1>5, <1>6 DEF DbInv

LEMMA NoImageType == NoImage \in Images
<1>1. NoEntry \in [guid : 0 .. MaxGuid, props : Props]
  BY Bounds DEF NoEntry, Props
<1> QED
  BY <1>1 DEF NoImage, Images

LEMMA CloseWritesDb ==
    ASSUME DatabaseType, DbInv, CloseWrites
    PROVE  DatabaseType' /\ DbInv'
<1>1. /\ closer = "write" /\ snap' = NoImage
      /\ \/ draft' = {snap} /\ closer' = "rename" /\ UNCHANGED <<file, faults, behind>>
         \/ DumpFails /\ closer' = "distros"
      /\ UNCHANGED <<reg, guids, object, distros, data, mu, open, gc, caller, calls, kept, orphans>>
  BY DEF CloseWrites, registry
<1>2. DatabaseType'
  <2>1. /\ faults' \in 0 .. MaxFaults
        /\ behind' \in SUBSET {"dump", "replace", "load", "race", "late"}
        /\ file' \in Images /\ draft' \in SUBSET Images
    BY <1>1, DiskType DEF DatabaseType
  <2> QED
    BY <1>1, <2>1, NoImageType DEF DatabaseType
<1>3. ObjInv' /\ LockInv' /\ CallInv' /\ KeptInv' /\ LateInv'
  BY <1>1 DEF DbInv, ObjInv, LockInv, CallInv, KeptInv, LateInv
<1>4. Image(distros)' = Image(distros)
  BY <1>1, SameMap
<1>5. FileIsMap'
  BY <1>1, <1>4 DEF DbInv, FileIsMap, DumpFails
<1>6. DraftInv'
  <2> SUFFICES ASSUME "race" \notin behind'
               PROVE  mu' = "none" /\ closer' # "write" /\ (Renaming' => draft' = {Image(distros)'})
    BY DEF DraftInv
  <2>1. "race" \notin behind
    BY <1>1 DEF DumpFails
  <2>2. mu' = "none" /\ snap = Image(distros)
    BY <1>1, <2>1 DEF DbInv, DraftInv
  <2>3. Renaming' => closer' = "rename"
    BY <1>3, <2>2, RenamingLocksNext
  <2> QED
    BY <1>1, <1>4, <2>2, <2>3
<1> QED
  BY <1>2, <1>3, <1>5, <1>6 DEF DbInv

LEMMA CloseRenamesDb ==
    ASSUME DatabaseType, DbInv, CloseRenames
    PROVE  DatabaseType' /\ DbInv'
<1>1. /\ closer = "rename" /\ closer' = "distros" /\ (RenameDraft \/ NoDraft \/ DumpFails)
      /\ UNCHANGED <<reg, guids, object, distros, snap, data, mu, open, gc, caller, calls, kept, orphans>>
  BY DEF CloseRenames, registry
<1>2. DatabaseType'
  <2>1. /\ faults' \in 0 .. MaxFaults
        /\ behind' \in SUBSET {"dump", "replace", "load", "race", "late"}
        /\ file' \in Images /\ draft' \in SUBSET Images
    BY <1>1, DiskType
  <2> QED
    BY <1>1, <2>1 DEF DatabaseType
<1>3. ObjInv' /\ LockInv' /\ CallInv' /\ KeptInv' /\ LateInv'
  BY <1>1 DEF DbInv, ObjInv, LockInv, CallInv, KeptInv, LateInv
<1>4. /\ behind' = {} => file' = Image(distros)'
      /\ "race" \in behind' <=> "race" \in behind
  <2>1. Renaming
    BY <1>1 DEF Renaming
  <2> QED
    BY <1>1, <2>1, Renamed
<1>5. FileIsMap'
  BY <1>4 DEF FileIsMap
<1>6. DraftInv'
  <2> SUFFICES ASSUME "race" \notin behind' PROVE ~Renaming'
    BY <1>1 DEF DraftInv
  <2>1. mu' = "none"
    BY <1>1, <1>4 DEF DbInv, DraftInv
  <2> QED
    BY <1>1, <1>3, <2>1, RenamingLocksNext
<1> QED
  BY <1>2, <1>3, <1>5, <1>6 DEF DbInv

LEMMA GcEndsDb ==
    ASSUME DatabaseType, DbInv, GcEnds
    PROVE  DatabaseType' /\ DbInv'
<1>1. /\ gc = "wait" /\ gc' = "ended"
      /\ UNCHANGED <<reg, guids, object, distros, file, draft, snap, data, mu, open, closer, caller, calls, faults,
                     behind, kept, orphans>>
  BY DEF GcEnds, registry, history, disk
<1>2. DatabaseType'
  BY <1>1 DEF DatabaseType
<1>3. LockInv' /\ CallInv' /\ (Renaming' => Renaming)
  BY <1>1 DEF DbInv, LockInv, CallInv, Renaming
<1> QED
  BY <1>1, <1>2, <1>3, FrameObjects

LEMMA CloseStartsDb ==
    ASSUME DatabaseType, DbInv, CloseStarts
    PROVE  DatabaseType' /\ DbInv'
<1>1. /\ closer = "idle" /\ closer' = "cleanup" /\ open' = FALSE
      /\ UNCHANGED <<reg, guids, object, distros, file, draft, snap, data, mu, gc, caller, calls, faults,
                     behind, kept, orphans>>
  BY DEF CloseStarts, registry, history, disk
<1>2. DatabaseType'
  BY <1>1 DEF DatabaseType
<1>3. LockInv' /\ CallInv' /\ (Renaming' => Renaming)
  BY <1>1 DEF DbInv, LockInv, CallInv, Renaming
<1> QED
  BY <1>1, <1>2, <1>3, FrameObjects

-----------------------------------------------------------------------------
(* cleanup and Close.                                                      *)

LEMMA Swept ==
    ASSUME DatabaseType, ObjInv, Sweep, closer' # "waiting" => closer # "waiting"
    PROVE  /\ ObjInv' /\ object' \in [Objs -> Object] /\ distros' \in [Names -> Objs \cup {0}]
           /\ data' \in [Names -> BOOLEAN] /\ orphans' \in SUBSET Names /\ faults' \in 0 .. MaxFaults
           /\ behind' \in SUBSET {"dump", "replace", "load", "race", "late"}
           /\ \A o \in Objs : SameObject(o)
           /\ Invalid = {} => distros' = distros /\ behind' = behind
           /\ Invalid # {} => behind' = behind \cup Overlap
<1>1. PICK os : os = {distros[n] : n \in Invalid}
  OBVIOUS
<1>2. /\ object' \in [Objs -> Object]
      /\ \A o \in Objs : SameObject(o)
      /\ \A o \in Objs : object'[o].worker = IF o \in os THEN "stopping" ELSE object[o].worker
  BY <1>1, Retired DEF Sweep
<1>3. /\ distros \in [Names -> Objs \cup {0}] /\ distros' \in [Names -> Objs \cup {0}]
      /\ \A n \in Names : distros'[n] = IF n \in Invalid THEN 0 ELSE distros[n]
  BY DEF Sweep, DatabaseType
<1>4. /\ data' \in [Names -> BOOLEAN] /\ orphans' \in SUBSET Names /\ faults' \in 0 .. MaxFaults
      /\ behind' \in SUBSET {"dump", "replace", "load", "race", "late"}
  <2>1. PICK left \in SUBSET Invalid :
           /\ Fault \/ UNCHANGED faults
           /\ data' = [n \in Names |-> data[n] /\ n \notin Invalid \ left]
           /\ orphans' = orphans \cup {n \in left : data[n]}
    BY DEF Sweep
  <2>2. left \subseteq Names
    BY DEF Invalid, Present
  <2>3. data' \in [Names -> BOOLEAN]
    BY <2>1
  <2>4. faults' \in 0 .. MaxFaults
    BY <2>1, FaultType
  <2>5. behind' \in SUBSET {"dump", "replace", "load", "race", "late"}
    BY DEF Sweep, DatabaseType, Overlap
  <2> QED
    BY <2>1, <2>2, <2>3, <2>4, <2>5 DEF DatabaseType
<1>5. \A n \in Invalid : n \in Names /\ distros[n] # 0
  BY DEF Invalid, Present
<1>6. \A o \in Objs : o \in os <=> \E m \in Names : distros[m] = o /\ distros'[m] # o
  BY <1>1, <1>3, <1>5, Zero
<1>7. \A o \in Objs : object'[o].worker =
         IF \E m \in Names : distros[m] = o /\ distros'[m] # o THEN "stopping" ELSE object[o].worker
  BY <1>2, <1>6
<1>8. \A m \in Names : distros'[m] \in {0, distros[m]}
  BY <1>3
<1>9. ObjInv'
  BY <1>2, <1>7, <1>8, DropObjects
<1>10. /\ Invalid = {} => distros' = distros /\ behind' = behind
       /\ Invalid # {} => behind' = behind \cup Overlap
  BY <1>3 DEF Sweep
<1> QED
  BY <1>2, <1>3, <1>4, <1>9, <1>10

LEMMA GcSweepsDb ==
    ASSUME DatabaseType, DbInv, GcSweeps
    PROVE  DatabaseType' /\ DbInv'
<1>1. /\ gc = "wait" /\ mu = "none" /\ Invalid # {} /\ Sweep /\ mu' = "gc" /\ gc' = "dump"
      /\ UNCHANGED <<reg, guids, file, draft, snap, open, closer, caller, calls, kept>>
  BY DEF GcSweeps, registry, disk
<1>2. closer \notin {"flush", "flushed", "waiting"} /\ \A d \in Callers : caller[d].pc \notin {"dump", "rename"}
  BY <1>1, CallersApart DEF DbInv, LockInv
<1>3. /\ ObjInv' /\ object' \in [Objs -> Object] /\ distros' \in [Names -> Objs \cup {0}]
      /\ data' \in [Names -> BOOLEAN] /\ orphans' \in SUBSET Names /\ faults' \in 0 .. MaxFaults
      /\ behind' \in SUBSET {"dump", "replace", "load", "race", "late"} /\ behind' = behind \cup Overlap
  BY <1>1, <1>2, Swept DEF DbInv
<1>4. DatabaseType'
  BY <1>1, <1>3 DEF DatabaseType, Object
<1>5. LockInv' /\ CallInv'
  BY <1>1, <1>2, CallersApart DEF DbInv, LockInv, CallInv
<1>6. closer = "closed" => "late" \in behind
  BY <1>1 DEF DbInv, LateInv, Invalid, Present
<1>7. FileIsMap' /\ KeptInv' /\ LateInv'
  BY <1>1, <1>2, <1>3, <1>6 DEF FileIsMap, KeptInv, LateInv
<1>8. DraftInv'
  <2> SUFFICES ASSUME "race" \notin behind' PROVE closer \notin {"write", "rename"} /\ ~Renaming'
    BY <1>1 DEF DraftInv
  <2>1. closer \notin {"write", "rename"}
    BY <1>3 DEF Overlap
  <2>2. ~Renaming
    BY <1>1, <2>1, RenamingLocks DEF DbInv
  <2> QED
    BY <1>1, <2>1, <2>2 DEF Renaming
<1> QED
  BY <1>3, <1>4, <1>5, <1>7, <1>8 DEF DbInv

LEMMA CloseSweepsDb ==
    ASSUME DatabaseType, DbInv, CloseSweeps
    PROVE  DatabaseType' /\ DbInv'
<1>1. /\ closer = "cleanup" /\ mu = "none" /\ Sweep
      /\ mu' = IF Invalid = {} THEN "none" ELSE "close"
      /\ closer' = IF Invalid = {} THEN "dump" ELSE "flush"
      /\ UNCHANGED <<reg, guids, file, draft, snap, open, gc, caller, calls, kept>>
  BY DEF CloseSweeps, registry, disk
<1>2. gc \notin {"dump", "rename"} /\ \A d \in Callers : caller[d].pc \notin {"dump", "rename"}
  BY <1>1, CallersApart DEF DbInv, LockInv
<1>3. /\ ObjInv' /\ object' \in [Objs -> Object] /\ distros' \in [Names -> Objs \cup {0}]
      /\ data' \in [Names -> BOOLEAN] /\ orphans' \in SUBSET Names /\ faults' \in 0 .. MaxFaults
      /\ behind' \in SUBSET {"dump", "replace", "load", "race", "late"}
      /\ \A o \in Objs : SameObject(o)
      /\ Invalid = {} => distros' = distros /\ behind' = behind
  BY <1>1, Swept DEF DbInv
<1>4. DatabaseType'
  BY <1>1, <1>3 DEF DatabaseType, Object
<1>5. LockInv' /\ CallInv'
  BY <1>1, <1>2, CallersApart DEF DbInv, LockInv, CallInv
<1>6. ~Renaming' /\ closer' \notin {"write", "rename"}
  <2>1. ~Renaming
    BY <1>1, RenamingLocks DEF DbInv
  <2> QED
    BY <1>1, <2>1 DEF Renaming
<1>7. CASE Invalid = {}
  <2>1. \A n \in Names : distros[n] # 0 => SameObject(distros[n])
    BY <1>3, EntryIsObject
  <2> QED
    BY <1>1, <1>3, <1>4, <1>5, <1>6, <1>7, <2>1, FrameDb
<1>8. CASE Invalid # {}
  <2>1. FileIsMap' /\ KeptInv' /\ LateInv' /\ DraftInv'
    BY <1>1, <1>6, <1>8 DEF FileIsMap, KeptInv, LateInv, DraftInv
  <2> QED
    BY <1>3, <1>4, <1>5, <2>1 DEF DbInv
<1> QED
  BY <1>7, <1>8

\* cleanupAllDistros finds in the file what it finds in the map.
LEMMA CloseStopsDb ==
    ASSUME DatabaseType, DbInv, CloseStops
    PROVE  DatabaseType' /\ DbInv'
<1>1. /\ closer = "distros" /\ mu = "none" /\ closer' = "waiting" /\ mu' = "close"
      /\ object' = Retire({distros[n] : n \in Present})
      /\ kept' = [n \in Names |-> Image(distros)[n].guid]
      /\ UNCHANGED <<reg, guids, distros, file, draft, snap, data, open, gc, caller, calls, faults, behind, orphans>>
  BY DEF CloseStops, registry, disk
<1>2. gc \notin {"dump", "rename"} /\ \A d \in Callers : caller[d].pc \notin {"dump", "rename"}
  BY <1>1, CallersApart DEF DbInv, LockInv
<1>3. PICK os : os = {distros[n] : n \in Present}
  OBVIOUS
<1>4. /\ object' \in [Objs -> Object] /\ \A o \in Objs : SameObject(o)
      /\ \A o \in Objs : object'[o].worker = IF o \in os THEN "stopping" ELSE object[o].worker
  BY <1>1, <1>3, Retired
<1>5. kept' \in [Names -> 0 .. MaxGuid]
  <2>1. \A n \in Names : Image(distros)[n].guid \in 0 .. MaxGuid
    BY ImageType DEF Images
  <2> QED
    BY <1>1, <2>1
<1>6. DatabaseType'
  BY <1>1, <1>4, <1>5 DEF DatabaseType, Object
<1>7. ObjInv'
  <2>1. \A n \in Names : distros[n] # 0 => object[distros[n]].name = n /\ object[distros[n]].guid # 0
                                           /\ distros[n] \in Objs
    BY EntryIsObject DEF DbInv, ObjInv
  <2>2. \A n \in Names : distros'[n] # 0 =>
           object'[distros'[n]].name = n /\ object'[distros'[n]].guid # 0
    BY <1>1, <1>4, <2>1 DEF SameObject
  <2>3. \A o \in Objs : object'[o].worker # "running"
    <3>1. \A o \in Objs : object[o].worker = "running" => \E n \in Names : distros[n] = o
      BY DEF DbInv, ObjInv
    <3>2. \A o \in Objs : object[o].worker = "running" => o \in os
      BY <1>3, <3>1, Zero DEF Present
    <3> QED
      BY <1>4, <3>2
  <2> QED
    BY <1>1, <2>2, <2>3 DEF ObjInv
<1>8. LockInv' /\ CallInv'
  BY <1>1, <1>2, CallersApart DEF DbInv, LockInv, CallInv
<1>9. KeptInv'
  <2>1. behind = {} => file = Image(distros)
    BY <1>1 DEF DbInv, FileIsMap
  <2> QED
    BY <1>1, <2>1 DEF KeptInv
<1>10. FileIsMap' /\ LateInv' /\ DraftInv'
  <2>1. ~Renaming
    BY <1>1, RenamingLocks DEF DbInv
  <2>2. ~Renaming'
    BY <1>1, <2>1 DEF Renaming
  <2> QED
    BY <1>1, <2>2 DEF FileIsMap, LateInv, DraftInv
<1> QED
  BY <1>6, <1>7, <1>8, <1>9, <1>10 DEF DbInv

LEMMA CloseEndsDb ==
    ASSUME DatabaseType, DbInv, CloseEnds
    PROVE  DatabaseType' /\ DbInv'
<1>1. /\ closer = "waiting" /\ closer' = "closed" /\ mu' = "none"
      /\ object' = [o \in Objs |-> IF \E n \in Names : distros[n] = o THEN NoObject ELSE object[o]]
      /\ distros' = [n \in Names |-> 0]
      /\ UNCHANGED <<reg, guids, file, draft, snap, data, open, gc, caller, calls, faults, behind, kept, orphans>>
  BY DEF CloseEnds, registry, history, disk
<1>2. mu = "close" /\ gc \notin {"dump", "rename"} /\ \A d \in Callers : caller[d].pc \notin {"dump", "rename"}
  BY <1>1, CallersApart DEF DbInv, LockInv
<1>3. object' \in [Objs -> Object] /\ distros' \in [Names -> Objs \cup {0}]
  <2>1. \A o \in Objs : object[o] \in Object
    BY DEF DatabaseType, Object
  <2> QED
    BY <1>1, <2>1, NoObjectType
<1>4. DatabaseType'
  BY <1>1, <1>3 DEF DatabaseType, Object
<1>5. ObjInv'
  <2>1. \A o \in Objs : object[o].worker = "running" => \E n \in Names : distros[n] = o
    BY DEF DbInv, ObjInv
  <2>2. \A o \in Objs : object'[o].worker # "running"
    BY <1>1, <2>1, NoObjectType
  <2> QED
    BY <1>1, <2>2 DEF ObjInv
<1>6. LockInv' /\ CallInv'
  BY <1>1, <1>2, CallersApart DEF DbInv, LockInv, CallInv
<1>7. FileIsMap' /\ KeptInv' /\ LateInv'
  BY <1>1 DEF DbInv, FileIsMap, KeptInv, LateInv
<1>8. DraftInv'
  <2>1. ~Renaming'
    BY <1>1, <1>6, RenamingLocksNext
  <2> QED
    BY <1>1, <2>1 DEF DraftInv
<1> QED
  BY <1>4, <1>5, <1>6, <1>7, <1>8 DEF DbInv

\* New makes an object of its own for every entry it takes over.
LEMMA LoadDb ==
    ASSUME DatabaseType, Load
    PROVE  /\ DatabaseType' /\ DbInv'
           /\ closer' = "idle" /\ caller' = [c \in Callers |-> NoCall] /\ data' = data
           /\ \A n \in Names : data[n] => n \in orphans' \/ distros'[n] # 0
<1> DEFINE back == {n \in Names : file[n].guid # 0 /\ file[n].guid = reg[n]}
           inj(f) == \A m, n \in back : m # n => f[m] # f[n]
           obj == CHOOSE f \in [back -> Objs] : inj(f)
           made(n) == [NewDistro(n, file[n].props) EXCEPT !.guid = file[n].guid]
           of(i) == CHOOSE m \in back : obj[m] = i
<1>1. /\ object' = [i \in Objs |-> IF \E n \in back : obj[n] = i THEN made(of(i)) ELSE NoObject]
      /\ distros' = [n \in Names |-> IF n \in back THEN obj[n] ELSE 0]
      /\ orphans' = orphans \cup {n \in Names \ back : data[n]}
      /\ behind' = IF \E n \in Names : distros'[n] = 0 /\ file[n] # NoEntry THEN {"load"} ELSE {}
      /\ kept' = [n \in Names |-> 0]
      /\ mu' = "none" /\ open' = TRUE /\ gc' = "wait" /\ closer' = "idle"
      /\ caller' = [c \in Callers |-> NoCall]
      /\ faults < MaxFaults /\ faults' = faults + 1
      /\ draft' = {} /\ snap' = NoImage
      /\ UNCHANGED <<reg, guids, file, data, calls>>
  BY DEF Load, registry, Fault
<1>2. back \subseteq Names
  OBVIOUS
<1>3. obj \in [back -> Objs] /\ inj(obj)
  <2>1. PICK f \in [Names -> Objs] : \A m, n \in Names : m # n => f[m] # f[n]
    BY ObjsAssumption
  <2> DEFINE g == [n \in back |-> f[n]]
  <2>2. g \in [back -> Objs] /\ inj(g)
    BY <1>2, <2>1
  <2> QED
    BY <2>2
<1>4. \A n \in back : /\ made(n) \in Object /\ made(n).name = n /\ made(n).guid = file[n].guid
                      /\ made(n).guid # 0 /\ made(n).props = file[n].props
                      /\ made(n).worker = "running"
  <2> SUFFICES ASSUME NEW n \in back
               PROVE  /\ made(n) \in Object /\ made(n).name = n /\ made(n).guid = file[n].guid
                      /\ made(n).guid # 0 /\ made(n).props = file[n].props
                      /\ made(n).worker = "running"
    OBVIOUS
  <2>1. file[n].guid \in 0 .. MaxGuid /\ file[n].props \in Props /\ file[n].guid # 0
    BY DEF DatabaseType, Images
  <2> QED
    BY <2>1 DEF NewDistro, Object
<1> HIDE DEF back, obj, made
<1>5. \A i \in Objs : (\E n \in back : obj[n] = i) => of(i) \in back /\ obj[of(i)] = i
  OBVIOUS
<1>6. \A n \in back : of(obj[n]) = n
  <2> SUFFICES ASSUME NEW n \in back PROVE of(obj[n]) = n
    OBVIOUS
  <2>1. of(obj[n]) \in back /\ obj[of(obj[n])] = obj[n]
    OBVIOUS
  <2> QED
    BY <1>3, <2>1
<1> HIDE DEF inj, of
<1>7. /\ \A n \in Names : distros'[n] = IF n \in back THEN obj[n] ELSE 0
      /\ \A n \in back : obj[n] \in Objs /\ distros'[n] # 0 /\ object'[distros'[n]] = made(n)
  BY <1>1, <1>2, <1>3, <1>6, Zero
<1>8. object' \in [Objs -> Object] /\ distros' \in [Names -> Objs \cup {0}]
  <2>1. \A i \in Objs : object'[i] \in Object
    BY <1>1, <1>4, <1>5, NoObjectType
  <2> QED
    BY <1>1, <1>7, <2>1
<1>9. DatabaseType'
  <2>1. faults' \in 0 .. MaxFaults
    <3>1. faults \in 0 .. MaxFaults
      BY DEF DatabaseType
    <3> QED
      BY <1>1, <3>1, Bounds
  <2>2. behind' \in SUBSET {"dump", "replace", "load", "race", "late"} /\ orphans' \in SUBSET Names
    BY <1>1 DEF DatabaseType
  <2>3. kept' \in [Names -> 0 .. MaxGuid]
    BY <1>1, Bounds
  <2>4. caller' \in [Callers -> Call]
    BY <1>1 DEF NoCall, Call, Props
  <2> QED
    BY <1>1, <1>8, <2>1, <2>2, <2>3, <2>4, NoImageType DEF DatabaseType, Object, Call
<1>10. ObjInv'
  <2>1. \A n \in Names : distros'[n] # 0 =>
           /\ object'[distros'[n]].name = n /\ object'[distros'[n]].guid # 0
           /\ object'[distros'[n]].worker = "running"
    BY <1>4, <1>7
  <2>2. ASSUME NEW i \in Objs, object'[i].worker = "running"
        PROVE  object'[i].name \in Names /\ distros'[object'[i].name] = i
    <3>1. \E n \in back : obj[n] = i
      BY <1>1, <2>2, NoObjectType
    <3>2. of(i) \in back /\ obj[of(i)] = i /\ object'[i] = made(of(i))
      BY <1>1, <1>5, <3>1
    <3>3. object'[i].name = of(i)
      BY <1>4, <3>2
    <3> QED
      BY <1>2, <1>7, <3>2, <3>3
  <2> QED
    BY <2>1, <2>2 DEF ObjInv
<1>11. LockInv' /\ CallInv'
  BY <1>1, CallersApart DEF LockInv, CallInv, NoCall
<1>12. KeptInv' /\ LateInv' /\ DraftInv'
  <2>1. ~Renaming'
    BY <1>1, <1>11, RenamingLocksNext
  <2> QED
    BY <1>1, <2>1 DEF KeptInv, LateInv, DraftInv
<1>13. FileIsMap'
  <2> SUFFICES ASSUME behind' = {} PROVE file' = Image(distros)'
    BY DEF FileIsMap
  <2>1. \A n \in Names : distros'[n] = 0 => file[n] = NoEntry
    BY <1>1
  <2>2. \A n \in Names : distros'[n] # 0 =>
           [guid |-> object'[distros'[n]].guid, props |-> object'[distros'[n]].props] = file[n]
    <3>1. \A n \in Names : file[n] \in [guid : 0 .. MaxGuid, props : Props]
      BY DEF DatabaseType, Images
    <3>2. \A n \in Names : distros'[n] # 0 =>
             object'[distros'[n]].guid = file[n].guid /\ object'[distros'[n]].props = file[n].props
      BY <1>4, <1>7
    <3> QED
      BY <3>1, <3>2
  <2>3. \A n \in Names : Image(distros)'[n] = file[n]
    BY <2>1, <2>2 DEF Image
  <2>4. file \in [Names -> [guid : 0 .. MaxGuid, props : Props]] /\ file' = file
    BY <1>1 DEF DatabaseType, Images
  <2> QED
    BY <2>3, <2>4 DEF Image
<1>14. DbInv'
  BY <1>10, <1>11, <1>12, <1>13 DEF DbInv
<1>15. \A n \in Names : data[n] => n \in orphans' \/ distros'[n] # 0
  BY <1>1, <1>7
<1> QED
  BY <1>1, <1>9, <1>14, <1>15

-----------------------------------------------------------------------------
(* What the steps of others do to a command.                               *)

Cmd == [pc : {"idle", "check", "write", "fetch", "register", "setup", "call", "start", "user",
              "rollback", "drop", "remove", "unregister", "uninstalled"},
        name : Names \cup {""}, from : {"", "url", "launcher", "modern"}, raced : BOOLEAN,
        lost : BOOLEAN, guid : 0 .. MaxGuid]

CmdInvs == CmdInv /\ OwnInv /\ KnownInv /\ DataInv

\* The command is where it was, and knows no less.
SameCmd ==
    /\ cmd'.pc = cmd.pc /\ cmd'.name = cmd.name /\ cmd'.guid = cmd.guid
    /\ cmd'.raced = FALSE => cmd.raced = FALSE
    /\ cmd'.lost = FALSE => cmd.lost = FALSE

\* The entry of n stays, with its GUID, and valid.
SameEntry(n) ==
    /\ distros'[n] = distros[n]
    /\ object'[distros[n]].guid = object[distros[n]].guid
    /\ object'[distros[n]].valid = object[distros[n]].valid

\* Cloud-init's data is not added, and an entry that has some is not removed unseen.
DataKept ==
    /\ \A n \in Names : data'[n] => data[n]
    /\ orphans \subseteq orphans'
    /\ closer' # "closed" => \A n \in Names :
         data'[n] /\ distros[n] # 0 => distros'[n] # 0 \/ n \in orphans'

\* Whoever takes this step leaves alone the command, its call, and the valid entry of its
\* distro.
LEMMA OthersStep ==
    ASSUME TypeOK, DbInv, CmdInvs, SameCmd, DataKept,
           caller'["landscape"] = caller["landscape"],
           closer = "idle" => closer' = "idle",
           closer = "closed" => closer' = "closed",
           Exposed /\ cmd'.raced = FALSE => reg'[cmd.name] \in {0, reg[cmd.name]},
           ASSUME Exposed, cmd.name \in Names, closer = "idle", cmd'.lost = FALSE,
                  reg[cmd.name] # 0, distros[cmd.name] # 0, IsValid(distros[cmd.name])
           PROVE  SameEntry(cmd.name)
    PROVE  CmdInvs'
<1>2. Exposed' <=> Exposed
  BY DEF Exposed, SameCmd
<1>3. Entered' <=> Entered
  BY DEF Entered, SameCmd
<1>4. Unfinished' <=> Unfinished
  BY <1>3 DEF Unfinished, SameCmd
<1>5. CmdInv'
  BY DEF CmdInvs, CmdInv, SameCmd
<1>6. OwnInv'
  BY <1>2 DEF CmdInvs, OwnInv, SameCmd
<1>7. KnownInv'
  <2> SUFFICES ASSUME Entered, cmd'.raced = FALSE, cmd'.lost = FALSE, reg'[cmd.name] # 0
               PROVE  /\ distros'[cmd.name] # 0
                      /\ object'[distros'[cmd.name]].guid = cmd.guid
                      /\ object'[distros'[cmd.name]].valid = TRUE
    BY <1>3 DEF KnownInv, SameCmd
  <2>1. Exposed /\ cmd.pc # "idle"
    BY DEF Entered, Exposed
  <2>2. cmd.name \in Names /\ closer = "idle"
    BY <2>1 DEF CmdInvs, CmdInv
  <2>3. cmd.raced = FALSE /\ cmd.lost = FALSE /\ reg[cmd.name] # 0 /\ reg[cmd.name] = cmd.guid
    BY <2>1 DEF SameCmd, CmdInvs, OwnInv
  <2>4. /\ distros[cmd.name] # 0 /\ object[distros[cmd.name]].guid = cmd.guid
        /\ object[distros[cmd.name]].valid = TRUE
    BY <2>3 DEF CmdInvs, KnownInv
  <2>5. object[distros[cmd.name]].name = cmd.name
    BY <2>2, <2>4 DEF DbInv, ObjInv
  <2>6. IsValid(distros[cmd.name])
    BY <2>3, <2>4, <2>5 DEF IsValid
  <2>7. SameEntry(cmd.name)
    BY <2>1, <2>2, <2>3, <2>4, <2>6
  <2> QED
    BY <2>4, <2>7 DEF SameEntry
<1>8. DataInv'
  BY <1>4 DEF CmdInvs, DataInv, DataKept, SameCmd
<1> QED
  BY <1>5, <1>6, <1>7, <1>8 DEF CmdInvs

\* What NoteRace notes.
LEMMA Noted ==
    ASSUME TypeOK, NoteRace
    PROVE  /\ cmd' \in Cmd /\ SameCmd
           /\ Exposed /\ cmd'.raced = FALSE => reg' = reg \/ reg'[cmd.name] = 0
           /\ Exposed /\ cmd'.lost = FALSE =>
                 \A o \in Objs : Invalidate(o) => object[o].name # cmd.name
<1>1. cmd \in Cmd
  BY DEF TypeOK, Cmd
<1>2. CASE ~Exposed
  BY <1>1, <1>2 DEF NoteRace, SameCmd
<1>3. CASE Exposed
  <2> DEFINE r == cmd.raced \/ (reg' # reg /\ reg'[cmd.name] # 0)
             l == cmd.lost \/ \E o \in Objs : Invalidate(o) /\ object[o].name = cmd.name
  <2>1. cmd' = [cmd EXCEPT !.raced = r, !.lost = l]
    BY <1>3 DEF NoteRace
  <2>2. r \in BOOLEAN /\ l \in BOOLEAN
    OBVIOUS
  <2>3. r = FALSE => cmd.raced = FALSE /\ (reg' = reg \/ reg'[cmd.name] = 0)
    BY <1>1 DEF Cmd
  <2>4. l = FALSE => cmd.lost = FALSE /\ \A o \in Objs : Invalidate(o) => object[o].name # cmd.name
    BY <1>1 DEF Cmd
  <2> HIDE DEF r, l
  <2>5. cmd' \in Cmd /\ cmd'.pc = cmd.pc /\ cmd'.name = cmd.name /\ cmd'.guid = cmd.guid
        /\ cmd'.raced = r /\ cmd'.lost = l
    BY <1>1, <2>1, <2>2 DEF Cmd
  <2> QED
    BY <2>3, <2>4, <2>5 DEF SameCmd
<1> QED
  BY <1>2, <1>3

LEMMA CleanupEndsCmd ==
    ASSUME TypeOK, DbInv, CmdInvs, NEW o \in Objs, CleanupEnds(o), NoteRace
    PROVE  CmdInvs'
<1>1. /\ UNCHANGED <<reg, distros, data, closer, caller, orphans>>
      /\ object' = [object EXCEPT ![o] = IF \E n \in Names : distros[n] = o
                                         THEN [@ EXCEPT !.worker = "none"] ELSE NoObject]
  BY DEF CleanupEnds, registry, history
<1>2. \A n \in Names : distros[n] # 0 => SameEntry(n)
  <2> SUFFICES ASSUME NEW n \in Names, distros[n] # 0 PROVE SameEntry(n)
    OBVIOUS
  <2>1. distros[n] \in Objs /\ object[distros[n]] \in Object /\ object \in [Objs -> Object]
    BY EntryIsObject DEF TypeOK, DatabaseType, Object
  <2>2. CASE distros[n] = o
    <3>1. object'[o] = [object[o] EXCEPT !.worker = "none"]
      BY <1>1, <2>1, <2>2
    <3> QED
      BY <1>1, <2>1, <2>2, <3>1 DEF SameEntry, Object
  <2>3. CASE distros[n] # o
    BY <1>1, <2>1, <2>3 DEF SameEntry
  <2> QED
    BY <2>2, <2>3
<1>3. DataKept
  BY <1>1 DEF DataKept
<1>4. SameCmd
  BY Noted
<1> QED
  BY <1>1, <1>2, <1>3, <1>4, OthersStep

LEMMA InvalidateCmd ==
    ASSUME TypeOK, DbInv, CmdInvs, NEW o \in Objs, Invalidate(o), NoteRace
    PROVE  CmdInvs'
<1>1. /\ UNCHANGED <<reg, distros, data, closer, caller, orphans>>
      /\ object' = [object EXCEPT ![o].valid = FALSE] /\ object \in [Objs -> Object]
  BY DEF Invalidate, registry, history, TypeOK, DatabaseType, Object
<1>2. SameCmd /\ (Exposed /\ cmd'.lost = FALSE => object[o].name # cmd.name)
  BY Noted
<1>3. DataKept
  BY <1>1 DEF DataKept
<1>4. ASSUME Exposed, cmd.name \in Names, cmd'.lost = FALSE, distros[cmd.name] # 0
      PROVE  SameEntry(cmd.name)
  <2>1. distros[cmd.name] \in Objs /\ object[distros[cmd.name]].name = cmd.name
    <3>1. \A n \in Names : distros[n] # 0 => distros[n] \in Objs /\ object[distros[n]].name = n
      BY EntryIsObject DEF TypeOK, DbInv, ObjInv
    <3> QED
      BY <1>4, <3>1
  <2>2. distros[cmd.name] # o
    BY <1>2, <1>4, <2>1
  <2> QED
    BY <1>1, <2>1, <2>2 DEF SameEntry
<1> QED
  BY <1>1, <1>2, <1>3, <1>4, OthersStep

LEMMA RegistryCmd ==
    ASSUME TypeOK, DbInv, CmdInvs, NEW n \in Names, UserRegisters(n) \/ UserUnregisters(n), NoteRace
    PROVE  CmdInvs'
<1>1. UNCHANGED <<object, distros, data, closer, caller, orphans>>
  BY DEF UserRegisters, UserUnregisters, history
<1>2. SameCmd /\ (Exposed /\ cmd'.raced = FALSE => reg' = reg \/ reg'[cmd.name] = 0)
  BY Noted
<1>3. DataKept /\ SameEntry(cmd.name)
  BY <1>1 DEF DataKept, SameEntry
<1> QED
  BY <1>1, <1>2, <1>3, OthersStep

\* cleanup does not take a valid distro.
LEMMA SweepCmd ==
    ASSUME TypeOK, DbInv, CmdInvs, Sweep, NoteRace,
           UNCHANGED <<reg, caller>>,
           closer = "idle" => closer' = "idle",
           closer = "closed" => closer' = "closed"
    PROVE  CmdInvs'
<1>1. SameCmd
  BY Noted
<1>2. PICK os : os = {distros[n] : n \in Invalid}
  OBVIOUS
<1>3. \A o \in Objs : SameObject(o) /\ object'[o].valid = object[o].valid
  BY <1>2, Retired DEF Sweep, TypeOK
<1>4. \A n \in Names : /\ distros'[n] = IF n \in Invalid THEN 0 ELSE distros[n]
                       /\ data'[n] => data[n] /\ (n \notin Invalid \/ n \in orphans')
  <2>1. PICK left \in SUBSET Invalid :
           /\ data' = [n \in Names |-> data[n] /\ n \notin Invalid \ left]
           /\ orphans' = orphans \cup {n \in left : data[n]}
    BY DEF Sweep
  <2> QED
    BY <2>1 DEF Sweep
<1>5. DataKept
  <2>1. orphans \subseteq orphans'
    BY DEF Sweep
  <2> QED
    BY <1>4, <2>1 DEF DataKept
<1>6. ASSUME NEW n \in Names, distros[n] # 0, IsValid(distros[n]) PROVE SameEntry(n)
  <2>1. n \notin Invalid /\ distros[n] \in Objs
    BY <1>6, EntryIsObject DEF Invalid, TypeOK
  <2> QED
    BY <1>3, <1>4, <2>1 DEF SameEntry, SameObject
<1> QED
  BY <1>1, <1>5, <1>6, OthersStep

\* The steps of the loop and of Close that leave the map alone.
LEMMA QuietCmd ==
    ASSUME TypeOK, DbInv, CmdInvs, SameCmd,
           UNCHANGED <<reg, distros, data, caller, orphans>>,
           closer = "idle" => UNCHANGED <<object, closer>>,
           closer = "closed" => closer' = "closed"
    PROVE  CmdInvs'
<1>1. DataKept
  BY DEF DataKept
<1>2. closer = "idle" => SameEntry(cmd.name)
  BY DEF SameEntry
<1> QED
  BY <1>1, <1>2, OthersStep

LEMMA CloseEndsCmd ==
    ASSUME TypeOK, DbInv, CmdInvs, CloseEnds, NoteRace
    PROVE  CmdInvs'
<1>1. /\ closer = "waiting" /\ closer' = "closed" /\ UNCHANGED <<reg, data, caller, orphans>>
  BY DEF CloseEnds, registry, history
<1>2. SameCmd
  BY Noted
<1>3. DataKept
  BY <1>1 DEF DataKept
<1> QED
  BY <1>1, <1>2, <1>3, OthersStep

\* All that goes on beside the command and the calls.
LEMMA DatabaseStepInv ==
    ASSUME IInv, DatabaseStep, NoteRace, UNCHANGED cmds
    PROVE  IInv'
<1>1. TypeOK /\ DatabaseType /\ DbInv /\ CmdInvs
  BY DEF IInv, TypeOK, CmdInvs
<1>2. cmd' \in Cmd /\ cmds' \in 0 .. MaxCmds /\ SameCmd
  BY <1>1, Noted DEF TypeOK
<1>3. DatabaseType' /\ DbInv' /\ CmdInvs'
  <2>1. CASE \E o \in Objs : CleanupEnds(o) \/ Invalidate(o)
    BY <1>1, <2>1, CleanupEndsDb, CleanupEndsCmd, InvalidateDb, InvalidateCmd
  <2>2. CASE \E n \in Names : UserRegisters(n) \/ UserUnregisters(n)
    BY <1>1, <2>2, RegistryDb, RegistryCmd
  <2>3. CASE GcSweeps
    <3>1. Sweep /\ UNCHANGED <<reg, caller, closer>>
      BY <2>3 DEF GcSweeps, registry
    <3> QED
      BY <1>1, <2>3, <3>1, GcSweepsDb, SweepCmd
  <2>4. CASE CloseSweeps
    <3>1. Sweep /\ UNCHANGED <<reg, caller>> /\ closer = "cleanup"
      BY <2>4 DEF CloseSweeps, registry
    <3> QED
      BY <1>1, <2>4, <3>1, CloseSweepsDb, SweepCmd
  <2>5. CASE GcDumps \/ GcEnds
    <3>1. UNCHANGED <<reg, object, distros, data, closer, caller, orphans>>
      BY <2>5 DEF GcDumps, GcEnds, registry, history
    <3> QED
      BY <1>1, <1>2, <2>5, <3>1, GcDumpsDb, GcEndsDb, QuietCmd
  <2>6. CASE CloseFlushes \/ CloseReads \/ CloseWrites \/ CloseRenames \/ CloseStops
    <3>1. /\ UNCHANGED <<reg, distros, data, caller, orphans>>
          /\ closer \in {"flush", "flushed", "dump", "write", "rename", "distros"}
      BY <2>6 DEF CloseFlushes, CloseReads, CloseWrites, CloseRenames, CloseStops, registry
    <3>2. CmdInvs'
      BY <1>1, <1>2, <3>1, QuietCmd
    <3> QED
      BY <1>1, <2>6, <3>2, CloseFlushesDb, CloseReadsDb, CloseWritesDb, CloseRenamesDb, CloseStopsDb
  <2>7. CASE CloseEnds
    BY <1>1, <2>7, CloseEndsDb, CloseEndsCmd
  <2> QED
    BY <2>1, <2>2, <2>3, <2>4, <2>5, <2>6, <2>7 DEF DatabaseStep
<1>4. TypeOK'
  BY <1>2, <1>3 DEF TypeOK, Cmd
<1> QED
  BY <1>3, <1>4 DEF IInv, CmdInvs

-----------------------------------------------------------------------------
(* What a call does to the entries.                                        *)

\* The valid entries, and those of other names, stay; and a call that goes on to its end has
\* an entry for what is registered.
CallEffect(c, n) ==
    /\ UNCHANGED <<reg, data, closer>> /\ DataKept
    /\ \A m \in Names : distros[m] # 0 /\ (m # n \/ IsValid(distros[m])) => SameEntry(m)
    /\ caller'[c].name = caller[c].name /\ caller'[c].pc \in {"dump", "ok", "error"}
    /\ \A d \in Callers \ {c} : caller'[d] = caller[d]
    /\ caller'[c].pc \in {"dump", "ok"} =>
         /\ distros'[n] # 0
         /\ object'[distros'[n]].guid = reg[n] /\ object'[distros'[n]].valid = TRUE

LEMMA PutEffect ==
    ASSUME DatabaseType, DbInv, NEW c \in Callers, NEW n \in Names, NEW p \in Props,
           Create(c, n, p) \/ Replace(c, n, p)
    PROVE  CallEffect(c, n)
<1>1. PICK o \in Free : \/ Change(c, n, [object EXCEPT ![o] = NewDistro(n, p)], o)
                        \/ Change(c, n, [Retire({distros[n]}) EXCEPT ![o] = NewDistro(n, p)], o)
  BY DEF Create, Replace
<1>2. reg[n] # 0 /\ (distros[n] # 0 => ~IsValid(distros[n]))
  BY DEF Create, Replace
<1>3. o \in Objs /\ \A m \in Names : distros[m] # o
  BY FreeIsOut
<1>4. PICK d : d = NewDistro(n, p)
  OBVIOUS
<1>5. d.guid = reg[n] /\ d.valid = TRUE
  BY <1>2, <1>4, NewDistroType
<1>6. /\ distros' = [distros EXCEPT ![n] = o] /\ Step(c, "dump")
      /\ UNCHANGED <<reg, data, closer, orphans>>
  BY <1>1 DEF Change, registry
<1>7. /\ caller'[c].pc = "dump" /\ caller'[c].name = caller[c].name
      /\ \A e \in Callers \ {c} : caller'[e] = caller[e]
  BY <1>6, Stepped
<1>8. /\ distros \in [Names -> Objs \cup {0}] /\ object \in [Objs -> Object]
      /\ distros'[n] = o /\ \A m \in Names \ {n} : distros'[m] = distros[m]
  BY <1>6 DEF DatabaseType, Object
<1>9. object'[o] = d /\ \A q \in Objs \ {o} : q # distros[n] => object'[q] = object[q]
  <2>1. CASE Change(c, n, [object EXCEPT ![o] = d], o)
    BY <1>3, <1>8, <2>1 DEF Change
  <2>2. CASE Change(c, n, [Retire({distros[n]}) EXCEPT ![o] = d], o)
    BY <1>3, <1>8, <2>2 DEF Change, Retire
  <2> QED
    BY <1>1, <1>4, <2>1, <2>2
<1>10. \A m \in Names : m # n /\ distros[m] # 0 => distros[m] # distros[n] /\ distros[m] \in Objs
  BY <1>8 DEF DbInv, ObjInv
<1>11. \A m \in Names : distros[m] # 0 /\ (m # n \/ IsValid(distros[m])) => SameEntry(m)
  BY <1>2, <1>3, <1>8, <1>9, <1>10 DEF SameEntry
<1>12. DataKept
  BY <1>3, <1>6, <1>8, Zero DEF DataKept
<1> QED
  BY <1>3, <1>5, <1>6, <1>7, <1>8, <1>9, <1>11, <1>12, Zero DEF CallEffect

LEMMA UpdateEffect ==
    ASSUME DatabaseType, DbInv, NEW c \in Callers, NEW n \in Names, NEW p \in Props, Update(c, n, p)
    PROVE  CallEffect(c, n)
<1>1. /\ distros \in [Names -> Objs \cup {0}] /\ object \in [Objs -> Object]
      /\ distros[n] \in Objs /\ distros[n] # 0
  BY DEF Update, DatabaseType, Object
<1>2. PICK pc \in {"ok", "dump"} : Step(c, pc)
  BY DEF Update, Change
<1>3. /\ object' = object \/ object' = [object EXCEPT ![distros[n]].props = p]
      /\ distros' = distros \/ distros' = [distros EXCEPT ![n] = distros[n]]
      /\ UNCHANGED <<reg, data, closer, orphans>>
  BY DEF Update, Change, registry, history
<1>4. distros' = distros
  BY <1>1, <1>3
<1>5. \A o \in Objs : object'[o].guid = object[o].guid /\ object'[o].valid = object[o].valid
  <2>1. PICK q \in Objs : q = distros[n]
    BY <1>1
  <2>2. CASE object' = [object EXCEPT ![q].props = p]
    BY <1>1, <2>2 DEF Object
  <2> QED
    BY <1>3, <2>1, <2>2
<1>6. \A m \in Names : distros[m] # 0 => SameEntry(m)
  BY <1>1, <1>4, <1>5 DEF SameEntry
<1>7. /\ caller'[c].pc = pc /\ caller'[c].name = caller[c].name
      /\ \A e \in Callers \ {c} : caller'[e] = caller[e]
  BY <1>2, Stepped
<1>8. DataKept
  BY <1>3, <1>4 DEF DataKept
<1>9. object[distros[n]].guid = reg[n] /\ object[distros[n]].valid = TRUE
  <2>1. object[distros[n]] \in Object /\ object[distros[n]].name = n
    BY <1>1 DEF DbInv, ObjInv
  <2>2. IsValid(distros[n])
    BY DEF Update
  <2> QED
    BY <2>1, <2>2 DEF IsValid, Object
<1> QED
  BY <1>1, <1>3, <1>4, <1>5, <1>6, <1>7, <1>8, <1>9 DEF CallEffect

LEMMA NewFailsEffect ==
    ASSUME DatabaseType, DbInv, NEW c \in Callers, NEW n \in Names, NewFails(c, n)
    PROVE  CallEffect(c, n)
<1>1. /\ n \notin Present \ Invalid
      /\ object' = Retire({distros[n]} \ {0})
      /\ distros' = [distros EXCEPT ![n] = 0]
      /\ orphans' = IF distros[n] # 0 /\ data[n] THEN orphans \cup {n} ELSE orphans
      /\ Step(c, "error")
      /\ UNCHANGED <<reg, data, closer>>
  BY DEF NewFails, registry
<1>2. PICK os : os = {distros[n]} \ {0}
  OBVIOUS
<1>3. \A o \in Objs : SameObject(o) /\ object'[o].valid = object[o].valid
  BY <1>1, <1>2, Retired
<1>4. /\ distros \in [Names -> Objs \cup {0}]
      /\ distros'[n] = 0 /\ \A m \in Names \ {n} : distros'[m] = distros[m]
  BY <1>1 DEF DatabaseType
<1>5. distros[n] # 0 => ~IsValid(distros[n])
  BY <1>1 DEF Present, Invalid
<1>6. \A m \in Names : distros[m] # 0 /\ (m # n \/ IsValid(distros[m])) => SameEntry(m)
  BY <1>3, <1>4, <1>5 DEF SameEntry, SameObject
<1>7. /\ caller'[c].pc = "error" /\ caller'[c].name = caller[c].name
      /\ \A e \in Callers \ {c} : caller'[e] = caller[e]
  BY <1>1, Stepped
<1>8. DataKept
  BY <1>1, <1>4 DEF DataKept
<1> QED
  BY <1>1, <1>6, <1>7, <1>8 DEF CallEffect

LEMMA CallInvs ==
    ASSUME TypeOK, DbInv, CmdInvs, DatabaseType', NEW c \in Callers, NEW n \in Names, n = caller[c].name,
           caller[c].pc = "entered", CallEffect(c, n), UNCHANGED cmd
    PROVE  CmdInvs'
<1>1. SameCmd
  BY DEF SameCmd
<1>2. CASE c # "landscape"
  <2>1. caller'["landscape"] = caller["landscape"]
    BY <1>2, ExecutorAssumption DEF CallEffect
  <2>2. ASSUME cmd.name \in Names, distros[cmd.name] # 0, IsValid(distros[cmd.name])
        PROVE  SameEntry(cmd.name)
    BY <2>2 DEF CallEffect
  <2> QED
    BY <1>1, <2>1, <2>2, OthersStep DEF CallEffect
<1>3. CASE c = "landscape"
  <2>1. cmd.pc = "call" /\ n = cmd.name /\ closer = "idle" /\ Exposed
    BY <1>3 DEF CmdInvs, CmdInv, Exposed
  <2>2. /\ caller'["landscape"].name = cmd.name /\ caller'["landscape"].pc \in {"dump", "ok", "error"}
        /\ reg' = reg /\ closer' = closer /\ cmd' = cmd
    BY <1>3, <2>1 DEF CallEffect
  <2>3. CmdInv'
    BY <2>1, <2>2 DEF CmdInv
  <2>4. OwnInv'
    BY <2>2 DEF CmdInvs, OwnInv, Exposed
  <2>5. Entered' => /\ distros'[n] # 0 /\ object'[distros'[n]].guid = reg[n]
                    /\ object'[distros'[n]].valid = TRUE
    BY <1>3, <2>1, <2>2 DEF Entered, CallEffect
  <2>6. KnownInv'
    BY <2>1, <2>2, <2>5 DEF CmdInvs, OwnInv, KnownInv
  <2>7. DataInv'
    <3> SUFFICES ASSUME NEW m \in Names, data'[m], closer' # "closed"
                 PROVE  m \in orphans' \/ distros'[m] # 0 \/ (Unfinished' /\ cmd'.name = m)
      BY DEF DataInv
    <3>1. data[m] /\ closer # "closed" /\ (m \in orphans => m \in orphans')
           /\ (distros[m] # 0 => distros'[m] # 0 \/ m \in orphans')
      BY <2>1 DEF CallEffect, DataKept
    <3>2. m \in orphans \/ distros[m] # 0 \/ m = n
      BY <2>1, <3>1 DEF CmdInvs, DataInv
    <3>3. Entered' \/ Unfinished'
      BY <2>1, <2>2 DEF Unfinished
    <3> QED
      BY <2>1, <2>2, <2>5, <3>1, <3>2, <3>3
  <2> QED
    BY <2>3, <2>4, <2>6, <2>7 DEF CmdInvs
<1> QED
  BY <1>2, <1>3

LEMMA FetchInv ==
    ASSUME IInv, NEW c \in Callers, Fetch(c), UNCHANGED <<cmd, cmds>>
    PROVE  IInv'
<1>1. TypeOK /\ DatabaseType /\ DbInv /\ CmdInvs
  BY DEF IInv, TypeOK, CmdInvs
<1>2. caller[c].pc = "entered"
  BY DEF Fetch, Create, Replace, NewFails, Update
<1>3. PICK n \in Names : n = caller[c].name
  BY <1>1, <1>2 DEF DbInv, CallInv
<1>4. PICK p \in Props : p = caller[c].props
  BY <1>1 DEF DatabaseType
<1>5. Create(c, n, p) \/ Replace(c, n, p) \/ NewFails(c, n) \/ Update(c, n, p)
  BY <1>3, <1>4 DEF Fetch
<1>6. DatabaseType' /\ DbInv' /\ CallEffect(c, n)
  BY <1>1, <1>5, CreateDb, ReplaceDb, NewFailsDb, UpdateDb, PutEffect, UpdateEffect, NewFailsEffect
<1>7. CmdInvs'
  BY <1>1, <1>2, <1>3, <1>6, CallInvs
<1>8. TypeOK'
  BY <1>1, <1>6 DEF TypeOK
<1> QED
  BY <1>6, <1>7, <1>8 DEF IInv, CmdInvs

LEMMA DumpInv ==
    ASSUME IInv, NEW c \in Callers, Dump(c), UNCHANGED <<cmd, cmds>>
    PROVE  IInv'
<1>1. TypeOK /\ DatabaseType /\ DbInv /\ CmdInvs
  BY DEF IInv, TypeOK, CmdInvs
<1>2. DatabaseType' /\ DbInv'
  BY <1>1, DumpDb
<1>3. PICK pc \in {"rename", "ok", "error"} : Step(c, pc)
  BY DEF Dump
<1>4. /\ caller[c].pc \in {"dump", "rename"}
      /\ UNCHANGED <<reg, object, distros, data, closer, orphans>>
  BY DEF Dump, registry
<1>5. /\ caller'[c].pc = pc /\ caller'[c].name = caller[c].name
      /\ \A d \in Callers \ {c} : caller'[d] = caller[d]
  BY <1>1, <1>3, Stepped
<1>6. SameCmd
  BY DEF SameCmd
<1>7. CASE c # "landscape"
  <2>1. caller'["landscape"] = caller["landscape"]
    BY <1>5, <1>7, ExecutorAssumption
  <2>2. DataKept /\ SameEntry(cmd.name)
    BY <1>4 DEF DataKept, SameEntry
  <2>3. CmdInvs'
    BY <1>1, <1>4, <1>6, <2>1, <2>2, OthersStep
  <2> QED
    BY <1>1, <1>2, <2>3 DEF IInv, CmdInvs, TypeOK
<1>8. CASE c = "landscape"
  <2>1. Entered /\ cmd.pc = "call" /\ caller["landscape"].name = cmd.name
    BY <1>1, <1>4, <1>8 DEF CmdInvs, CmdInv, Entered
  <2>2. CmdInv'
    BY <1>1, <1>4, <1>5, <1>8, <2>1 DEF CmdInvs, CmdInv
  <2>3. OwnInv' /\ KnownInv'
    BY <1>1, <1>4, <2>1 DEF CmdInvs, OwnInv, KnownInv, Exposed
  <2>4. DataInv'
    BY <1>1, <1>4, <2>1 DEF CmdInvs, DataInv, Unfinished
  <2> QED
    BY <1>1, <1>2, <2>2, <2>3, <2>4 DEF IInv, TypeOK
<1> QED
  BY <1>7, <1>8

-----------------------------------------------------------------------------
(* The steps of a command.                                                 *)

\* A command by itself does not touch the database.
LEMMA CommandDb ==
    ASSUME IInv,
           UNCHANGED <<object, distros, file, draft, snap, mu, open, gc, closer, caller, calls, behind, kept>>,
           reg' \in [Names -> 0 .. MaxGuid], guids' \in [Names -> 0 .. MaxGuid],
           data' \in [Names -> BOOLEAN], Fault \/ UNCHANGED faults, orphans' \in SUBSET Names,
           cmd' \in Cmd, cmds' \in 0 .. MaxCmds, CmdInvs'
    PROVE  IInv'
<1>1. TypeOK /\ DatabaseType /\ DbInv
  BY DEF IInv, TypeOK
<1>2. faults' \in 0 .. MaxFaults
  BY <1>1, FaultType
<1>3. TypeOK'
  BY <1>1, <1>2 DEF TypeOK, DatabaseType, Cmd
<1>4. LockInv' /\ CallInv' /\ (Renaming' => Renaming)
  BY <1>1 DEF DbInv, LockInv, CallInv, Renaming
<1>5. DbInv'
  BY <1>1, <1>4, FrameObjects
<1> QED
  BY <1>3, <1>5 DEF IInv, CmdInvs

LEMMA NoCmdType == NoCmd \in Cmd /\ NoCmd.pc = "idle"
BY Bounds DEF NoCmd, Cmd

\* The command ends: its data is gone, or that of a distro in the database, or left behind.
LEMMA Finished ==
    ASSUME CmdInvs, cmd.pc # "call", cmd' = NoCmd, UNCHANGED <<distros, closer, caller>>,
           orphans \subseteq orphans',
           \A n \in Names : data'[n] => data[n] /\ (Unfinished /\ cmd.name = n => n \in orphans')
    PROVE  CmdInvs'
<1>1. cmd'.pc = "idle" /\ caller'["landscape"].pc = "idle"
  BY NoCmdType DEF CmdInvs, CmdInv
<1>2. ~Exposed' /\ ~Entered'
  BY <1>1 DEF Exposed, Entered
<1>3. CmdInv' /\ OwnInv' /\ KnownInv'
  BY <1>1, <1>2 DEF CmdInv, OwnInv, KnownInv
<1>4. DataInv'
  BY DEF CmdInvs, DataInv
<1> QED
  BY <1>3, <1>4 DEF CmdInvs

\* The command goes on.
LEMMA Advanced ==
    ASSUME TypeOK, CmdInvs, cmd.pc \notin {"idle", "call"}, cmd'.pc # "idle", cmd'.name = cmd.name,
           UNCHANGED <<object, distros, closer, caller, orphans>>,
           OwnInv',
           cmd'.pc \in {"start", "user"} =>
              /\ cmd.pc \in {"start", "user"} /\ cmd'.guid = cmd.guid /\ cmd'.raced = cmd.raced
              /\ cmd'.lost = cmd.lost /\ reg' = reg,
           Unfinished => Unfinished',
           \A n \in Names : data'[n] => data[n] \/ (n = cmd.name /\ Unfinished')
    PROVE  CmdInvs'
<1>1. caller'["landscape"].pc = "idle" /\ cmd.name \in Names /\ closer' = "idle"
  BY DEF CmdInvs, CmdInv
<1>2. CmdInv'
  BY <1>1 DEF CmdInv
<1>3. Entered' => Entered /\ cmd'.pc \in {"start", "user"}
  BY <1>1 DEF Entered
<1>4. KnownInv'
  BY <1>3 DEF CmdInvs, KnownInv
<1>5. DataInv'
  BY DEF CmdInvs, DataInv
<1> QED
  BY <1>2, <1>4, <1>5 DEF CmdInvs

\* A command arrives.
LEMMA BegunInv ==
    ASSUME IInv, NEW n \in Names, Install(n) \/ Uninstall(n)
    PROVE  IInv'
<1>1. /\ cmd.pc = "idle" /\ closer = "idle" /\ cmds < MaxCmds /\ cmds' = cmds + 1
      /\ UNCHANGED <<reg, guids, data, faults, orphans, object, distros, file, draft, snap, mu, open, gc, closer,
                     caller, calls, behind, kept>>
  BY DEF Install, Uninstall, dbVars, registry, history, disk
<1>2. TypeOK /\ DatabaseType /\ CmdInvs
  BY DEF IInv, TypeOK, CmdInvs
<1>3. cmd' \in Cmd /\ cmd'.pc \in {"check", "remove"} /\ cmd'.name = n
  <2>1. CASE Install(n)
    BY <2>1, NoCmdType DEF Install, Cmd
  <2>2. CASE Uninstall(n)
    <3>1. object[distros[n]].guid \in 0 .. MaxGuid
      BY <1>2, <2>2, EntryIsObject DEF Uninstall, Object
    <3> QED
      BY <2>2, <3>1, NoCmdType DEF Uninstall, Cmd
  <2> QED
    BY <2>1, <2>2
<1>4. caller["landscape"].pc = "idle"
  BY <1>1, <1>2 DEF CmdInvs, CmdInv
<1>5. ~Exposed' /\ ~Entered' /\ ~Unfinished
  BY <1>1, <1>3 DEF Exposed, Entered, Unfinished
<1>6. CmdInvs'
  BY <1>1, <1>2, <1>3, <1>4, <1>5 DEF CmdInvs, CmdInv, OwnInv, KnownInv, DataInv
<1>7. cmds' \in 0 .. MaxCmds
  <2>1. cmds \in 0 .. MaxCmds /\ MaxCmds \in Nat
    BY <1>2, ExecutorAssumption DEF TypeOK
  <2> QED
    BY <1>1, <2>1
<1>8. reg' \in [Names -> 0 .. MaxGuid] /\ guids' \in [Names -> 0 .. MaxGuid]
      /\ data' \in [Names -> BOOLEAN] /\ orphans' \in SUBSET Names
  BY <1>1, <1>2 DEF DatabaseType
<1> QED
  BY <1>1, <1>3, <1>6, <1>7, <1>8, CommandDb

\* What Goto and GiveUp leave of the command.
LEMMA Gone ==
    ASSUME TypeOK,
           NEW pc \in {"idle", "check", "write", "fetch", "register", "setup", "call", "start", "user",
                       "rollback", "drop", "remove", "unregister", "uninstalled"},
           NEW from \in {"", "url", "launcher", "modern"},
           cmd' = [cmd EXCEPT !.pc = pc] \/ cmd' = [cmd EXCEPT !.pc = pc, !.from = from]
    PROVE  /\ cmd' \in Cmd /\ cmd'.pc = pc /\ cmd'.name = cmd.name /\ cmd'.guid = cmd.guid
           /\ cmd'.raced = cmd.raced /\ cmd'.lost = cmd.lost
<1>1. cmd \in Cmd
  BY DEF TypeOK, Cmd
<1> QED
  BY <1>1 DEF Cmd

\* Steps that change nothing but the command itself.
LEMMA PlainStep ==
    ASSUME IInv, UNCHANGED <<reg, guids, data, unchangedDb, cmds>>, Fault \/ UNCHANGED faults,
           cmd' \in Cmd, CmdInvs'
    PROVE  IInv'
<1>1. UNCHANGED <<reg, guids, data, orphans, object, distros, file, draft, snap, mu, open, gc, closer,
                  caller, calls, behind, kept, cmds>>
  BY DEF unchangedDb, history, disk
<1>2. reg' \in [Names -> 0 .. MaxGuid] /\ guids' \in [Names -> 0 .. MaxGuid]
      /\ data' \in [Names -> BOOLEAN] /\ orphans' \in SUBSET Names /\ cmds' \in 0 .. MaxCmds
  BY <1>1 DEF IInv, TypeOK, DatabaseType
<1> QED
  BY <1>1, <1>2, CommandDb

LEMMA CheckInv ==
    ASSUME IInv, Check
    PROVE  IInv'
<1>1. TypeOK /\ CmdInvs
  BY DEF IInv, CmdInvs
<1>2. /\ cmd.pc = "check" /\ UNCHANGED <<reg, guids, data, unchangedDb, cmds, faults>>
      /\ IF reg[cmd.name] # 0 THEN cmd' = NoCmd ELSE Goto("write")
  BY DEF Check, dbVars, registry, unchangedDb
<1>3. UNCHANGED <<object, distros, closer, caller, orphans>> /\ ~Unfinished
  BY <1>2 DEF unchangedDb, history, Unfinished
<1>4. CASE reg[cmd.name] # 0
  <2>1. CmdInvs'
    BY <1>1, <1>2, <1>3, <1>4, Finished
  <2> QED
    BY <1>2, <1>4, <2>1, NoCmdType, PlainStep
<1>5. CASE reg[cmd.name] = 0
  <2>1. cmd' \in Cmd /\ cmd'.pc = "write" /\ cmd'.name = cmd.name
    BY <1>1, <1>2, <1>5, Gone DEF Goto
  <2>2. OwnInv'
    BY <1>2, <1>5, <2>1 DEF OwnInv
  <2>3. CmdInvs'
    BY <1>1, <1>2, <1>3, <2>1, <2>2, Advanced
  <2> QED
    BY <1>2, <2>1, <2>3, PlainStep
<1> QED
  BY <1>4, <1>5

LEMMA WriteDistroDataInv ==
    ASSUME IInv, WriteDistroData
    PROVE  IInv'
<1>1. TypeOK /\ DatabaseType /\ CmdInvs
  BY DEF IInv, TypeOK, CmdInvs
<1>2. /\ cmd.pc = "write" /\ UNCHANGED <<reg, guids, unchangedDb, cmds>>
      /\ \/ data' = [data EXCEPT ![cmd.name] = TRUE] /\ Goto("fetch") /\ UNCHANGED faults
         \/ Fault /\ cmd' = NoCmd /\ UNCHANGED data
  BY DEF WriteDistroData, registry
<1>3. /\ UNCHANGED <<object, distros, closer, caller, orphans>> /\ ~Unfinished
      /\ UNCHANGED <<file, draft, snap, mu, open, gc, calls, behind, kept>>
  BY <1>2 DEF unchangedDb, history, Unfinished, disk
<1>4. CASE data' = [data EXCEPT ![cmd.name] = TRUE] /\ Goto("fetch") /\ UNCHANGED faults
  <2>1. /\ cmd' \in Cmd /\ cmd'.pc = "fetch" /\ cmd'.name = cmd.name /\ cmd'.guid = cmd.guid
        /\ cmd'.raced = cmd.raced
    BY <1>1, <1>4, Gone DEF Goto
  <2>2. OwnInv'
    BY <1>1, <1>2, <2>1 DEF CmdInvs, OwnInv, Exposed
  <2>3. Unfinished'
    BY <2>1 DEF Unfinished, Entered
  <2>4. data' \in [Names -> BOOLEAN] /\ \A n \in Names : n # cmd.name => data'[n] = data[n]
    BY <1>1, <1>4 DEF DatabaseType
  <2>5. CmdInvs'
    BY <1>1, <1>2, <1>3, <2>1, <2>2, <2>3, <2>4, Advanced
  <2>6. reg' \in [Names -> 0 .. MaxGuid] /\ guids' \in [Names -> 0 .. MaxGuid]
        /\ orphans' \in SUBSET Names /\ cmds' \in 0 .. MaxCmds
    BY <1>1, <1>2, <1>3 DEF TypeOK, DatabaseType
  <2> QED
    BY <1>3, <1>4, <2>1, <2>4, <2>5, <2>6, CommandDb
<1>5. CASE Fault /\ cmd' = NoCmd /\ UNCHANGED data
  <2>1. CmdInvs'
    BY <1>1, <1>2, <1>3, <1>5, Finished
  <2> QED
    BY <1>2, <1>5, <2>1, NoCmdType, PlainStep
<1> QED
  BY <1>2, <1>4, <1>5

\* An installation goes on, or is given up, and leaves the registry alone.
LEMMA OnwardInv ==
    ASSUME IInv, UNCHANGED <<reg, guids, data, unchangedDb, cmds>>, Fault \/ UNCHANGED faults,
           NEW pc \in {"register", "call", "user", "rollback"}, NEW from \in {"", "url", "launcher", "modern"},
           cmd.pc \in {"fetch", "register", "setup", "start", "user"},
           pc = "user" => cmd.pc = "start",
           cmd' = [cmd EXCEPT !.pc = pc] \/ cmd' = [cmd EXCEPT !.pc = pc, !.from = from]
    PROVE  IInv'
<1>1. TypeOK /\ CmdInvs
  BY DEF IInv, CmdInvs
<1>2. UNCHANGED <<object, distros, closer, caller, orphans>>
  BY DEF unchangedDb, history
<1>3. /\ cmd' \in Cmd /\ cmd'.pc = pc /\ cmd'.name = cmd.name /\ cmd'.guid = cmd.guid
      /\ cmd'.raced = cmd.raced /\ cmd'.lost = cmd.lost
  BY <1>1, Gone
<1>4. OwnInv'
  BY <1>1, <1>3 DEF CmdInvs, OwnInv, Exposed
<1>5. caller'["landscape"].pc = "idle"
  BY <1>1, <1>2 DEF CmdInvs, CmdInv
<1>6. Unfinished => Unfinished'
  BY <1>3, <1>5 DEF Unfinished, Entered
<1>7. CmdInvs'
  BY <1>1, <1>2, <1>3, <1>4, <1>6, Advanced
<1> QED
  BY <1>3, <1>7, PlainStep

LEMMA OnwardStepsInv ==
    ASSUME IInv, Download \/ WslInstall \/ RegisterFails \/ SetUp \/ SetUpFails \/ StartFails
    PROVE  IInv'
<1>1. CASE Download
  <2>1. /\ cmd.pc = "fetch" /\ UNCHANGED <<reg, guids, data, unchangedDb, cmds, faults>>
        /\ cmd' = [cmd EXCEPT !.pc = "register", !.from = "url"]
    BY <1>1 DEF Download, dbVars, registry, unchangedDb
  <2> QED
    BY <2>1, OnwardInv
<1>2. CASE WslInstall
  <2>1. PICK from \in {"launcher", "modern"} : cmd' = [cmd EXCEPT !.pc = "register", !.from = from]
    BY <1>2 DEF WslInstall
  <2>2. cmd.pc = "fetch" /\ UNCHANGED <<reg, guids, data, unchangedDb, cmds, faults>>
    BY <1>2 DEF WslInstall, dbVars, registry, unchangedDb
  <2> QED
    BY <2>1, <2>2, OnwardInv
<1>3. CASE SetUp
  <2>1. /\ cmd.pc = "setup" /\ UNCHANGED <<reg, guids, data, unchangedDb, cmds, faults>>
        /\ cmd' = [cmd EXCEPT !.pc = "call", !.from = ""]
    BY <1>3 DEF SetUp, dbVars, registry, unchangedDb
  <2> QED
    BY <2>1, OnwardInv
<1>4. CASE RegisterFails \/ SetUpFails \/ StartFails
  <2>1. /\ cmd.pc \in {"fetch", "register", "setup", "start", "user"}
        /\ UNCHANGED <<reg, guids, data, unchangedDb, cmds>>
        /\ Fault \/ UNCHANGED faults
        /\ cmd' = [cmd EXCEPT !.pc = "rollback", !.from = ""]
    BY <1>4 DEF RegisterFails, SetUpFails, StartFails, Lost, GiveUp, registry
  <2> QED
    BY <2>1, OnwardInv
<1> QED
  BY <1>1, <1>2, <1>3, <1>4

\* The command registers its distro, and nobody else's is there.
LEMMA RegisterInv ==
    ASSUME IInv, Register
    PROVE  IInv'
<1>1. TypeOK /\ DatabaseType /\ CmdInvs
  BY DEF IInv, TypeOK, CmdInvs
<1>2. /\ cmd.pc = "register" /\ reg[cmd.name] = 0 /\ guids[cmd.name] < MaxGuid
      /\ guids' = [guids EXCEPT ![cmd.name] = @ + 1]
      /\ reg' = [reg EXCEPT ![cmd.name] = guids[cmd.name] + 1]
      /\ UNCHANGED <<data, faults, unchangedDb, cmds>>
  BY DEF Register
<1>3. cmd.name \in Names
  BY <1>1, <1>2 DEF CmdInvs, CmdInv
<1>4. guids[cmd.name] + 1 \in 0 .. MaxGuid
  <2>1. guids[cmd.name] \in 0 .. MaxGuid
    BY <1>1, <1>3 DEF DatabaseType
  <2> QED
    BY <1>2, <2>1, Bounds
<1>5. PICK g \in 0 .. MaxGuid : g = guids[cmd.name] + 1
  BY <1>4
<1>6. /\ guids' \in [Names -> 0 .. MaxGuid] /\ reg' \in [Names -> 0 .. MaxGuid]
      /\ reg'[cmd.name] = g
  BY <1>1, <1>2, <1>3, <1>5 DEF DatabaseType
<1>7. /\ cmd' \in Cmd /\ cmd'.pc \in {"call", "setup"} /\ cmd'.name = cmd.name /\ cmd'.guid = g
  <2>1. cmd \in Cmd
    BY <1>1 DEF TypeOK, Cmd
  <2>2. cmd' = [cmd EXCEPT !.pc = "call", !.guid = g, !.from = ""]
        \/ cmd' = [cmd EXCEPT !.pc = "setup", !.guid = g]
    BY <1>5 DEF Register
  <2> QED
    BY <2>1, <2>2 DEF Cmd
<1>8. /\ UNCHANGED <<object, distros, closer, caller, orphans>>
      /\ UNCHANGED <<file, draft, snap, mu, open, gc, calls, behind, kept>>
  BY <1>2 DEF unchangedDb, history, disk
<1>9. caller'["landscape"].pc = "idle"
  BY <1>1, <1>2, <1>8 DEF CmdInvs, CmdInv
<1>10. Unfinished'
  BY <1>7, <1>9 DEF Unfinished, Entered
<1>11. OwnInv'
  BY <1>6, <1>7 DEF OwnInv
<1>12. CmdInvs'
  BY <1>1, <1>2, <1>7, <1>8, <1>10, <1>11, Advanced
<1>13. data' \in [Names -> BOOLEAN] /\ orphans' \in SUBSET Names /\ cmds' \in 0 .. MaxCmds
  BY <1>1, <1>2, <1>8 DEF TypeOK, DatabaseType
<1> QED
  BY <1>2, <1>6, <1>7, <1>8, <1>12, <1>13, CommandDb

LEMMA StartInv ==
    ASSUME IInv, Start \/ CreateUser
    PROVE  IInv'
<1>1. TypeOK /\ CmdInvs
  BY DEF IInv, CmdInvs
<1>2. /\ cmd.pc \in {"start", "user"} /\ UNCHANGED <<reg, guids, data, unchangedDb, cmds, faults>>
      /\ cmd' = NoCmd \/ (cmd.pc = "start" /\ cmd' = [cmd EXCEPT !.pc = "user"])
  BY DEF Start, CreateUser, Goto, dbVars, registry, unchangedDb
<1>3. CASE cmd' = NoCmd
  <2>1. ~Unfinished
    BY <1>2 DEF Unfinished, Entered
  <2>2. UNCHANGED <<distros, closer, caller, orphans>>
    BY <1>2 DEF unchangedDb, history
  <2>3. CmdInvs'
    BY <1>1, <1>2, <1>3, <2>1, <2>2, Finished
  <2> QED
    BY <1>2, <1>3, <2>3, NoCmdType, PlainStep
<1>4. CASE cmd.pc = "start" /\ cmd' = [cmd EXCEPT !.pc = "user"]
  BY <1>2, <1>4, OnwardInv
<1> QED
  BY <1>2, <1>3, <1>4

LEMMA RollbackInv ==
    ASSUME IInv, Rollback
    PROVE  IInv'
<1>1. TypeOK /\ DatabaseType /\ CmdInvs
  BY DEF IInv, TypeOK, CmdInvs
<1>2. /\ cmd.pc = "rollback" /\ cmd' = [cmd EXCEPT !.pc = "drop"]
      /\ reg' = [reg EXCEPT ![cmd.name] = 0] \/ reg' = reg
      /\ Fault \/ UNCHANGED faults
      /\ UNCHANGED <<guids, data, unchangedDb, cmds>>
  BY DEF Rollback, Goto
<1>3. /\ UNCHANGED <<object, distros, closer, caller, orphans>>
      /\ UNCHANGED <<file, draft, snap, mu, open, gc, calls, behind, kept>>
  BY <1>2 DEF unchangedDb, history, disk
<1>4. cmd' \in Cmd /\ cmd'.pc = "drop" /\ cmd'.name = cmd.name /\ cmd'.guid = cmd.guid
      /\ cmd'.raced = cmd.raced
  BY <1>1, <1>2, Gone
<1>5. cmd.name \in Names
  BY <1>1, <1>2 DEF CmdInvs, CmdInv
<1>6. reg' \in [Names -> 0 .. MaxGuid] /\ reg'[cmd.name] \in {0, reg[cmd.name]}
  <2>1. reg \in [Names -> 0 .. MaxGuid]
    BY <1>1 DEF DatabaseType
  <2>2. 0 \in 0 .. MaxGuid
    BY Bounds
  <2> QED
    BY <1>2, <1>5, <2>1, <2>2
<1>7. OwnInv'
  BY <1>1, <1>2, <1>4, <1>6 DEF CmdInvs, OwnInv, Exposed
<1>8. Unfinished'
  BY <1>4 DEF Unfinished, Entered
<1>9. CmdInvs'
  BY <1>1, <1>2, <1>3, <1>4, <1>7, <1>8, Advanced
<1>10. /\ guids' \in [Names -> 0 .. MaxGuid] /\ data' \in [Names -> BOOLEAN]
       /\ orphans' \in SUBSET Names /\ cmds' \in 0 .. MaxCmds
  BY <1>1, <1>2, <1>3 DEF TypeOK, DatabaseType
<1> QED
  BY <1>2, <1>3, <1>4, <1>6, <1>9, <1>10, CommandDb

LEMMA RollbackDataInv ==
    ASSUME IInv, RollbackData
    PROVE  IInv'
<1>1. TypeOK /\ DatabaseType /\ CmdInvs
  BY DEF IInv, TypeOK, CmdInvs
<1>2. /\ cmd.pc = "drop" /\ cmd' = NoCmd
      /\ \/ data' = [data EXCEPT ![cmd.name] = FALSE] /\ orphans' = orphans
         \/ data' = data /\ orphans' = orphans \cup {cmd.name}
      /\ Fault \/ UNCHANGED faults
      /\ UNCHANGED <<reg, guids, object, distros, file, draft, snap, mu, open, gc, closer, caller, calls, behind, kept, cmds>>
  BY DEF RollbackData, registry, disk
<1>3. cmd.name \in Names
  BY <1>1, <1>2 DEF CmdInvs, CmdInv
<1>4. /\ data' \in [Names -> BOOLEAN] /\ orphans' \in SUBSET Names /\ orphans \subseteq orphans'
      /\ \A n \in Names : data'[n] => data[n] /\ (cmd.name = n => n \in orphans')
  BY <1>1, <1>2, <1>3 DEF DatabaseType
<1>5. CmdInvs'
  BY <1>1, <1>2, <1>4, Finished
<1>6. reg' \in [Names -> 0 .. MaxGuid] /\ guids' \in [Names -> 0 .. MaxGuid] /\ cmds' \in 0 .. MaxCmds
  BY <1>1, <1>2 DEF TypeOK, DatabaseType
<1> QED
  BY <1>2, <1>4, <1>5, <1>6, NoCmdType, CommandDb

LEMMA CheckGuidInv ==
    ASSUME IInv, CheckGuid
    PROVE  IInv'
<1>1. TypeOK /\ CmdInvs
  BY DEF IInv, CmdInvs
<1>2. /\ cmd.pc = "remove" /\ UNCHANGED <<reg, guids, data, unchangedDb, cmds, faults>>
      /\ IF reg[cmd.name] = cmd.guid THEN Goto("unregister") ELSE cmd' = NoCmd
  BY DEF CheckGuid, dbVars, registry, unchangedDb
<1>3. UNCHANGED <<object, distros, closer, caller, orphans>> /\ ~Unfinished
  BY <1>2 DEF unchangedDb, history, Unfinished
<1>4. CASE reg[cmd.name] # cmd.guid
  <2>1. CmdInvs'
    BY <1>1, <1>2, <1>3, <1>4, Finished
  <2> QED
    BY <1>2, <1>4, <2>1, NoCmdType, PlainStep
<1>5. CASE reg[cmd.name] = cmd.guid
  <2>1. cmd' \in Cmd /\ cmd'.pc = "unregister" /\ cmd'.name = cmd.name /\ cmd'.guid = cmd.guid
    BY <1>1, <1>2, <1>5, Gone DEF Goto
  <2>2. OwnInv'
    BY <1>2, <1>5, <2>1 DEF OwnInv
  <2>3. CmdInvs'
    BY <1>1, <1>2, <1>3, <2>1, <2>2, Advanced
  <2> QED
    BY <1>2, <2>1, <2>3, PlainStep
<1> QED
  BY <1>4, <1>5

LEMMA UninstallInv ==
    ASSUME IInv, Unregister \/ RemoveDistroData
    PROVE  IInv'
<1>1. TypeOK /\ DatabaseType /\ CmdInvs
  BY DEF IInv, TypeOK, CmdInvs
<1>2. /\ cmd.pc \in {"unregister", "uninstalled"} /\ UNCHANGED <<guids, unchangedDb, cmds>>
      /\ Fault \/ UNCHANGED faults
      /\ \/ cmd' = [cmd EXCEPT !.pc = "uninstalled"] /\ reg' = [reg EXCEPT ![cmd.name] = 0] /\ data' = data
         \/ cmd' = NoCmd /\ reg' = reg /\ (data' = data \/ data' = [data EXCEPT ![cmd.name] = FALSE])
  BY DEF Unregister, RemoveDistroData, Lost, Goto, registry
<1>3. /\ UNCHANGED <<object, distros, closer, caller, orphans>> /\ ~Unfinished
      /\ UNCHANGED <<file, draft, snap, mu, open, gc, calls, behind, kept>>
  BY <1>2 DEF unchangedDb, history, Unfinished, disk
<1>4. cmd.name \in Names
  BY <1>1, <1>2 DEF CmdInvs, CmdInv
<1>5. reg' \in [Names -> 0 .. MaxGuid]
  <2>1. reg \in [Names -> 0 .. MaxGuid]
    BY <1>1 DEF DatabaseType
  <2>2. 0 \in 0 .. MaxGuid
    BY Bounds
  <2> QED
    BY <1>2, <1>4, <2>1, <2>2
<1>6. data' \in [Names -> BOOLEAN] /\ \A n \in Names : data'[n] => data[n]
  BY <1>1, <1>2, <1>4 DEF DatabaseType
<1>7. cmd' \in Cmd /\ CmdInvs'
  <2>1. CASE cmd' = NoCmd
    BY <1>1, <1>2, <1>3, <1>6, <2>1, NoCmdType, Finished
  <2>2. CASE cmd' = [cmd EXCEPT !.pc = "uninstalled"]
    <3>1. cmd' \in Cmd /\ cmd'.pc = "uninstalled" /\ cmd'.name = cmd.name
      BY <1>1, <2>2, Gone
    <3>2. OwnInv'
      BY <3>1 DEF OwnInv, Exposed
    <3> QED
      BY <1>1, <1>2, <1>3, <1>6, <3>1, <3>2, Advanced
  <2> QED
    BY <1>2, <2>1, <2>2
<1>8. guids' \in [Names -> 0 .. MaxGuid] /\ orphans' \in SUBSET Names /\ cmds' \in 0 .. MaxCmds
  BY <1>1, <1>2, <1>3 DEF TypeOK, DatabaseType
<1> QED
  BY <1>2, <1>3, <1>5, <1>6, <1>7, <1>8, CommandDb

\* The command's call of the database.
LEMMA EnterDatabaseInv ==
    ASSUME IInv, EnterDatabase
    PROVE  IInv'
<1>1. TypeOK /\ DatabaseType /\ DbInv /\ CmdInvs
  BY DEF IInv, TypeOK, CmdInvs
<1>2. /\ cmd.pc = "call" /\ UNCHANGED <<cmd, cmds>> /\ Enter("landscape", cmd.name, "empty")
  BY DEF EnterDatabase
<1>3. PICK n \in Names : n = cmd.name
  BY <1>1, <1>2 DEF CmdInvs, CmdInv
<1>4. DatabaseType' /\ DbInv'
  BY <1>1, <1>2, <1>3, EnterDb, ExecutorAssumption DEF Props
<1>5. /\ caller["landscape"].pc = "idle"
      /\ UNCHANGED <<reg, object, distros, data, closer, orphans>>
      /\ caller' = [caller EXCEPT !["landscape"] = [pc |-> IF open THEN "entered" ELSE "panic",
                                                    name |-> cmd.name, props |-> "empty"]]
  BY <1>2 DEF Enter, registry, history
<1>6. caller'["landscape"].pc \in {"entered", "panic"} /\ caller'["landscape"].name = cmd.name
  BY <1>1, <1>5, ExecutorAssumption DEF DatabaseType
<1>7. ~Entered /\ ~Entered' /\ Unfinished'
  BY <1>2, <1>5, <1>6 DEF Entered, Unfinished
<1>8. CmdInvs'
  BY <1>1, <1>2, <1>5, <1>6, <1>7
     DEF CmdInvs, CmdInv, OwnInv, Exposed, KnownInv, DataInv
<1>9. TypeOK'
  BY <1>1, <1>2, <1>4 DEF TypeOK
<1> QED
  BY <1>4, <1>8, <1>9 DEF IInv, CmdInvs

LEMMA LeaveDatabaseInv ==
    ASSUME IInv, LeaveDatabase
    PROVE  IInv'
<1>1. TypeOK /\ DatabaseType /\ DbInv /\ CmdInvs
  BY DEF IInv, TypeOK, CmdInvs
<1>2. PICK pc \in {"start", "rollback"} : pc = IF caller["landscape"].pc = "ok" THEN "start" ELSE "rollback"
  OBVIOUS
<1>3. /\ cmd.pc = "call" /\ cmd' = [cmd EXCEPT !.pc = pc] /\ UNCHANGED cmds /\ Return("landscape")
  BY <1>2 DEF LeaveDatabase, Goto
<1>4. DatabaseType' /\ DbInv'
  BY <1>1, <1>3, ReturnDb, ExecutorAssumption
<1>5. /\ UNCHANGED <<reg, object, distros, data, closer, orphans>>
      /\ caller' = [caller EXCEPT !["landscape"] = NoCall]
  BY <1>3 DEF Return, registry, history
<1>6. caller'["landscape"].pc = "idle"
  BY <1>1, <1>5, ExecutorAssumption DEF DatabaseType, NoCall
<1>7. /\ cmd' \in Cmd /\ cmd'.pc = pc /\ cmd'.name = cmd.name /\ cmd'.guid = cmd.guid
      /\ cmd'.raced = cmd.raced /\ cmd'.lost = cmd.lost
  BY <1>1, <1>3, Gone
<1>8. (Entered' => Entered) /\ (Unfinished => Unfinished')
  BY <1>2, <1>3, <1>6, <1>7 DEF Entered, Unfinished
<1>9. CmdInv' /\ OwnInv'
  BY <1>1, <1>3, <1>5, <1>6, <1>7 DEF CmdInvs, CmdInv, OwnInv, Exposed
<1>10. KnownInv' /\ DataInv'
  BY <1>1, <1>5, <1>7, <1>8 DEF CmdInvs, KnownInv, DataInv
<1>11. TypeOK'
  BY <1>1, <1>3, <1>4, <1>7 DEF TypeOK, Cmd
<1> QED
  BY <1>4, <1>9, <1>10, <1>11 DEF IInv

\* A distro that connects.
LEMMA HandlerInv ==
    ASSUME IInv, NEW c \in Callers, c # "landscape",
           (\E n \in Names : Connected(c, n)) \/ (Return(c) /\ UNCHANGED <<cmd, cmds>>)
    PROVE  IInv'
<1>1. TypeOK /\ DatabaseType /\ DbInv /\ CmdInvs
  BY DEF IInv, TypeOK, CmdInvs
<1>2. DatabaseType' /\ DbInv' /\ UNCHANGED <<cmd, cmds>>
  BY <1>1, EnterDb, ReturnDb DEF Connected, Props
<1>3. /\ UNCHANGED <<reg, object, distros, data, closer, orphans>>
      /\ caller'["landscape"] = caller["landscape"]
  <2>1. UNCHANGED <<reg, object, distros, data, closer, orphans>>
    BY DEF Connected, Enter, Return, registry, history
  <2>2. PICK e : caller' = [caller EXCEPT ![c] = e]
    BY DEF Connected, Enter, Return
  <2> QED
    BY <1>1, <2>1, <2>2, ExecutorAssumption DEF DatabaseType
<1>4. SameCmd /\ DataKept /\ SameEntry(cmd.name)
  BY <1>2, <1>3 DEF SameCmd, DataKept, SameEntry
<1>5. CmdInvs'
  BY <1>1, <1>3, <1>4, OthersStep
<1>6. TypeOK'
  BY <1>1, <1>2 DEF TypeOK
<1> QED
  BY <1>2, <1>5, <1>6 DEF IInv, CmdInvs

LEMMA StopServicesInv ==
    ASSUME IInv, StopServices
    PROVE  IInv'
<1>1. TypeOK /\ DatabaseType /\ DbInv /\ CmdInvs
  BY DEF IInv, TypeOK, CmdInvs
<1>2. /\ cmd.pc = "idle" /\ CloseStarts /\ UNCHANGED <<cmd, cmds>> /\ closer' = "cleanup" /\ closer = "idle"
      /\ UNCHANGED <<reg, object, distros, data, caller, orphans>>
  BY DEF StopServices, CloseStarts, registry, history
<1>3. DatabaseType' /\ DbInv'
  BY <1>1, <1>2, CloseStartsDb
<1>4. (Entered' <=> Entered) /\ (Unfinished' <=> Unfinished) /\ (Exposed' <=> Exposed)
  BY <1>2 DEF Entered, Unfinished, Exposed
<1>5. CmdInvs'
  BY <1>1, <1>2, <1>4 DEF CmdInvs, CmdInv, OwnInv, KnownInv, DataInv
<1>6. TypeOK'
  BY <1>1, <1>2, <1>3 DEF TypeOK
<1> QED
  BY <1>3, <1>5, <1>6 DEF IInv, CmdInvs

LEMMA RestartInv ==
    ASSUME IInv, Restart
    PROVE  IInv'
<1>1. DatabaseType /\ Load /\ cmd' = NoCmd /\ UNCHANGED cmds /\ cmds \in 0 .. MaxCmds
  BY DEF IInv, TypeOK, Restart
<1>2. /\ DatabaseType' /\ DbInv'
      /\ closer' = "idle" /\ caller' = [c \in Callers |-> NoCall] /\ data' = data
      /\ \A n \in Names : data[n] => n \in orphans' \/ distros'[n] # 0
  BY <1>1, LoadDb
<1>3. caller'["landscape"].pc = "idle" /\ cmd'.pc = "idle" /\ cmd' \in Cmd
  BY <1>1, <1>2, NoCmdType, ExecutorAssumption DEF NoCall
<1>4. ~Exposed' /\ ~Entered'
  BY <1>3 DEF Exposed, Entered
<1>5. CmdInv' /\ OwnInv' /\ KnownInv' /\ DataInv'
  BY <1>2, <1>3, <1>4 DEF CmdInv, OwnInv, KnownInv, DataInv
<1>6. TypeOK'
  BY <1>1, <1>2, <1>3 DEF TypeOK, Cmd
<1> QED
  BY <1>2, <1>5, <1>6 DEF IInv

-----------------------------------------------------------------------------
(* The theorems.                                                           *)

LEMMA InitIInv == Init => IInv
<1> SUFFICES ASSUME Init PROVE IInv
  OBVIOUS
<1>1. /\ DatabaseInit /\ cmd = NoCmd /\ cmds = 0
  BY DEF Init
<1>2. TypeOK
  <2>1. cmd \in Cmd /\ cmds \in 0 .. MaxCmds
    BY <1>1, NoCmdType, ExecutorAssumption
  <2>2. /\ object \in [Objs -> Object] /\ distros \in [Names -> Objs \cup {0}]
        /\ data \in [Names -> BOOLEAN] /\ open \in BOOLEAN
    BY <1>1, NoObjectType DEF DatabaseInit
  <2>3. kept \in [Names -> 0 .. MaxGuid] /\ calls \in 0 .. MaxCalls /\ faults \in 0 .. MaxFaults
    BY <1>1, Bounds DEF DatabaseInit
  <2>4. file \in Images /\ snap \in Images /\ draft \in SUBSET Images
    BY <1>1, NoImageType DEF DatabaseInit
  <2>5. caller \in [Callers -> Call]
    BY <1>1 DEF DatabaseInit, NoCall, Call, Props
  <2>6. reg \in [Names -> 0 .. MaxGuid] /\ guids \in [Names -> 0 .. MaxGuid]
    <3>1. {0, 1} \subseteq 0 .. MaxGuid
      BY Bounds
    <3> QED
      BY <1>1, <3>1 DEF DatabaseInit
  <2> QED
    BY <1>1, <2>1, <2>2, <2>3, <2>4, <2>5, <2>6
       DEF TypeOK, DatabaseType, DatabaseInit, Object, Call, Cmd
<1>3. DbInv
  <2>1. ObjInv
    BY <1>1, NoObjectType DEF ObjInv, DatabaseInit
  <2>2. LockInv /\ CallInv
    BY <1>1, CallersApart DEF LockInv, CallInv, DatabaseInit, NoCall
  <2>3. FileIsMap /\ KeptInv /\ LateInv
    BY <1>1 DEF FileIsMap, KeptInv, LateInv, DatabaseInit, Image, NoImage
  <2>4. DraftInv
    <3>1. ~Renaming
      BY <1>1, <2>2, RenamingLocks DEF DatabaseInit
    <3> QED
      BY <1>1, <3>1 DEF DraftInv, DatabaseInit
  <2> QED
    BY <2>1, <2>2, <2>3, <2>4 DEF DbInv
<1>4. cmd.pc = "idle" /\ caller["landscape"].pc = "idle" /\ \A n \in Names : data[n] = FALSE
  BY <1>1, NoCmdType, ExecutorAssumption DEF DatabaseInit, NoCall
<1>5. CmdInv /\ OwnInv /\ KnownInv /\ DataInv
  BY <1>4 DEF CmdInv, OwnInv, KnownInv, DataInv, Exposed, Entered
<1> QED
  BY <1>2, <1>3, <1>5 DEF IInv

LEMMA StutterIInv == IInv /\ UNCHANGED vars => IInv'
<1> SUFFICES ASSUME IInv, UNCHANGED vars PROVE IInv'
  OBVIOUS
<1>1. UNCHANGED <<reg, guids, data, unchangedDb, cmds, faults>> /\ cmd' = cmd
  BY DEF vars, dbVars, registry, history, unchangedDb
<1>2. UNCHANGED <<object, distros, closer, caller, orphans>>
  BY <1>1 DEF unchangedDb, history
<1>3. cmd' \in Cmd /\ SameCmd /\ DataKept /\ SameEntry(cmd.name)
  BY <1>1, <1>2 DEF IInv, TypeOK, Cmd, SameCmd, DataKept, SameEntry
<1>4. CmdInvs'
  BY <1>1, <1>2, <1>3, OthersStep DEF IInv, CmdInvs
<1> QED
  BY <1>1, <1>3, <1>4, PlainStep

LEMMA NextIInv == IInv /\ [Next]_vars => IInv'
<1> SUFFICES ASSUME IInv, Next PROVE IInv'
  BY StutterIInv
<1>1. CASE DatabaseStep /\ NoteRace /\ UNCHANGED cmds
  BY <1>1, DatabaseStepInv
<1>2. CASE \E c \in Callers : CallStep(c) /\ UNCHANGED <<cmd, cmds>>
  BY <1>2, FetchInv, DumpInv DEF CallStep
<1>3. CASE \E c \in Callers \ {"landscape"} :
             (\E n \in Names : Connected(c, n)) \/ (Return(c) /\ UNCHANGED <<cmd, cmds>>)
  BY <1>3, HandlerInv
<1>5. CASE \E n \in Names : Uninstall(n) \/ Install(n)
  BY <1>5, BegunInv
<1>6. CASE InstallStep
  BY <1>6, CheckInv, WriteDistroDataInv, OnwardStepsInv, RegisterInv, EnterDatabaseInv, LeaveDatabaseInv,
     StartInv, RollbackInv, RollbackDataInv DEF InstallStep
<1>7. CASE CheckGuid \/ Unregister \/ RemoveDistroData
  BY <1>7, CheckGuidInv, UninstallInv
<1>8. CASE StopServices \/ Restart
  BY <1>8, StopServicesInv, RestartInv
<1> QED
  BY <1>1, <1>2, <1>3, <1>5, <1>6, <1>7, <1>8 DEF Next

LEMMA Invariance == Spec => []IInv
BY InitIInv, NextIInv, PTL DEF Spec

\* The file says what the map does whenever nobody is at work, whatever calls, clean-ups and
\* Close interleave (database.go 29-30).
THEOREM WritesFollowChanges == Spec => []FileIsMap
<1>1. IInv => FileIsMap
  BY DEF IInv, DbInv
<1> QED
  BY Invariance, <1>1, PTL

\* A worker that runs is that of an entry: who puts a distro out of the map has it stopped.
THEOREM ForgottenWorkersStop == Spec => []NoStrayWorker
<1>1. IInv => NoStrayWorker
  BY DEF IInv, DbInv, ObjInv, NoStrayWorker
<1> QED
  BY Invariance, <1>1, PTL

\* Close leaves in the file what it has stopped.
THEOREM ClosedDistrosAreKept == Spec => []CloseKeepsDistros
<1>1. IInv => CloseKeepsDistros
  BY DEF IInv, DbInv, KeptInv, CloseKeepsDistros
<1> QED
  BY Invariance, <1>1, PTL

\* Cloud-init's data is the concern of a distro, of a command, or of nobody for a known
\* reason.
THEOREM DataIsSomebodys == Spec => []DataHasADistro
<1>1. IInv => DataHasADistro
  BY DEF IInv, DataInv, DataHasADistro
<1> QED
  BY Invariance, <1>1, PTL

\* A command uninstalls only its own distro, unless the user took the name meanwhile.
THEOREM CommandsRemoveTheirOwn == Spec => RemovesOnlyItsOwn
<1>1. ASSUME IInv, [Next]_vars
      PROVE  [(Rollback \/ Unregister) /\ reg[cmd.name] # reg'[cmd.name]
              => cmd.raced \/ reg[cmd.name] = cmd.guid]_vars
  <2> SUFFICES ASSUME Rollback \/ Unregister, reg[cmd.name] # reg'[cmd.name], cmd.raced = FALSE
               PROVE  reg[cmd.name] = cmd.guid
    BY <1>1 DEF IInv, TypeOK
  <2>1. cmd.name \in Names /\ DatabaseType
    BY <1>1 DEF IInv, CmdInv, Rollback, Unregister, TypeOK
  <2>2. Exposed /\ reg[cmd.name] \in {0, cmd.guid}
    BY <1>1 DEF IInv, OwnInv, Exposed, Rollback, Unregister
  <2>3. reg' = reg \/ reg' = [reg EXCEPT ![cmd.name] = 0]
    BY DEF Rollback, Unregister
  <2> QED
    BY <2>1, <2>2, <2>3 DEF DatabaseType
<1> QED
  BY Invariance, <1>1, PTL DEF Spec, RemovesOnlyItsOwn

\* An installation that succeeds has put its distro into the database, with its worker.
THEOREM InstallationsAreKnown == Spec => InstalledIsKnown
<1>1. ASSUME IInv, [Next]_vars
      PROVE  [(Start \/ CreateUser) /\ cmd'.pc = "idle" /\ ~cmd.raced /\ ~cmd.lost
              => /\ distros[cmd.name] # 0
                 /\ object[distros[cmd.name]].guid = cmd.guid
                 /\ object[distros[cmd.name]].worker = "running"]_vars
  <2> SUFFICES ASSUME Start \/ CreateUser, ~cmd.raced, ~cmd.lost
               PROVE  /\ distros[cmd.name] # 0
                      /\ object[distros[cmd.name]].guid = cmd.guid
                      /\ object[distros[cmd.name]].worker = "running"
    OBVIOUS
  <2>1. cmd.raced = FALSE /\ cmd.lost = FALSE
    BY <1>1 DEF IInv, TypeOK
  <2>2. cmd.pc \in {"start", "user"} /\ reg[cmd.name] # 0
    BY DEF Start, CreateUser
  <2>3. cmd.name \in Names /\ closer = "idle"
    BY <1>1, <2>2 DEF IInv, CmdInv
  <2>4. distros[cmd.name] # 0 /\ object[distros[cmd.name]].guid = cmd.guid
    BY <1>1, <2>1, <2>2 DEF IInv, KnownInv, Entered
  <2> QED
    BY <1>1, <2>3, <2>4 DEF IInv, DbInv, ObjInv
<1> QED
  BY Invariance, <1>1, PTL DEF Spec, InstalledIsKnown
==============================================================================
