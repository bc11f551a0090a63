---------------------------- MODULE DistroDatabase ----------------------------
(***************************************************************************)
(* The agent's database of distros (distros/database): the map and its     *)
(* mutex, the file it is written to, the loop that removes distros that    *)
(* are no longer registered, Close, and what New finds after a restart.    *)
(* The distros themselves are only what the database sees of them: the     *)
(* GUID they were created for, whether they have been found invalid, their *)
(* properties, and whether their worker runs.  WSL's registry of distros   *)
(* is external, and changes at any moment.                                 *)
(*                                                                         *)
(* A section under db.mu is one step for what changes the map and two for  *)
(* the write to the file: a draft, which is then renamed.  Close does the  *)
(* same without db.mu, with the map it saw.  Other readers take a snapshot *)
(* and are not modelled.  That Go ends a program that writes to a map      *)
(* while Close reads it is a crash like any other.                         *)
(***************************************************************************)
EXTENDS Integers, FiniteSets

CONSTANTS
    Names,      \* names of distros
    Objs,       \* numbers of the Distro objects remembered at a time
    Callers,    \* goroutines that call GetDistroAndUpdateProperties
    MaxGuid,    \* bound: registrations of a name
    MaxCalls,   \* bound: calls
    MaxFaults   \* bound: failures and restarts

ASSUME DatabaseAssumption ==
    /\ "" \notin Names
    /\ Objs \subseteq Nat \ {0}
    /\ {"none", "gc", "close"} \cap Callers = {}
    /\ MaxGuid \in Nat \ {0} /\ MaxCalls \in Nat /\ MaxFaults \in Nat

\* New can make an object for every entry of the file.
ASSUME ObjsAssumption ==
    \E f \in [Names -> Objs] : \A m, n \in Names : m # n => f[m] # f[n]

VARIABLES
    reg,        \* WSL: the GUID registered under each name; 0: none
    guids,      \* the GUIDs used so far
    object,     \* the Distro objects
    distros,    \* db.distros; 0: no entry
    file,       \* the file's entries
    draft,      \* those of the file ".new", if there is one
    data,       \* cloud-init's data for each distro, which onCleanup removes
    mu,         \* who holds db.mu
    open,       \* db.ctx is not done
    gc,         \* the loop of New: where it is
    closer,     \* Close: where it is
    snap,       \* what Close read of the map and has not written yet
    caller,     \* the calls under way
    calls, faults,
    behind,     \* history: why the file may not say what the map does
    kept,       \* history: what Close should leave in the file
    orphans     \* history: names whose cloud-init data nobody will remove

registry == <<reg, guids>>
disk     == <<file, draft, snap>>
history  == <<behind, kept, orphans>>
dbVars   == <<registry, object, distros, disk, data, mu, open, gc, closer, caller, calls, faults,
              history>>

Props    == {"empty", "reported"}
NoEntry  == [guid |-> 0, props |-> "empty"]
NoObject == [name |-> "", guid |-> 0, valid |-> FALSE, props |-> "empty", worker |-> "none"]
NoImage  == [n \in Names |-> NoEntry]
NoCall   == [pc |-> "idle", name |-> "", props |-> "empty"]

Images   == [Names -> [guid : 0 .. MaxGuid, props : Props]]

DatabaseType ==
    /\ reg \in [Names -> 0 .. MaxGuid] /\ guids \in [Names -> 0 .. MaxGuid]
    /\ object \in [Objs -> [name : Names \cup {""}, guid : 0 .. MaxGuid, valid : BOOLEAN, props : Props,
                            worker : {"none", "running", "stopping"}]]
    /\ distros \in [Names -> Objs \cup {0}]
    /\ file \in Images /\ snap \in Images /\ draft \in SUBSET Images
    /\ data \in [Names -> BOOLEAN]
    /\ mu \in {"none", "gc", "close"} \cup Callers
    /\ open \in BOOLEAN
    /\ gc \in {"wait", "dump", "rename", "ended"}
    /\ closer \in {"idle", "cleanup", "flush", "flushed", "dump", "write", "rename", "distros", "waiting",
                   "closed"}
    /\ caller \in [Callers -> [pc : {"idle", "entered", "dump", "rename", "ok", "error", "panic"},
                               name : Names \cup {""}, props : Props]]
    /\ calls \in 0 .. MaxCalls /\ faults \in 0 .. MaxFaults
    /\ behind \in SUBSET {"dump", "replace", "load", "race", "late"}
    /\ kept \in [Names -> 0 .. MaxGuid] /\ orphans \in SUBSET Names

DatabaseInit ==
    /\ reg \in [Names -> {0, 1}] /\ guids = reg
    /\ object = [o \in Objs |-> NoObject] /\ distros = [n \in Names |-> 0]
    /\ file = NoImage /\ draft = {} /\ snap = NoImage /\ data = [n \in Names |-> FALSE]
    /\ mu = "none" /\ open = TRUE /\ gc = "wait" /\ closer = "idle"
    /\ caller = [c \in Callers |-> NoCall] /\ calls = 0 /\ faults = 0
    /\ behind = {} /\ kept = [n \in Names |-> 0] /\ orphans = {}

Fault == faults < MaxFaults /\ faults' = faults + 1

\* A panic ends the agent.
Running == \A c \in Callers : caller[c].pc # "panic"

-----------------------------------------------------------------------------
(* Distros.                                                                *)

\* Wrong: the GUID is not looked at.
IsValidWrong(o) == object[o].valid /\ reg[object[o].name] # 0

\* IsValid: not marked, and still registered with its GUID.
IsValid(o) == object[o].valid /\ reg[object[o].name] = object[o].guid

Present == {n \in Names : distros[n] # 0}
Invalid == {n \in Present : ~IsValid(distros[n])}

\* dump: what the file will say.
Image(map) ==
    [n \in Names |-> IF map[n] = 0 THEN NoEntry
                     ELSE [guid |-> object[map[n]].guid, props |-> object[map[n]].props]]

Free == {o \in Objs : object[o] = NoObject}

\* distro.New for what is registered now: its worker runs.
NewDistro(n, p) == [name |-> n, guid |-> reg[n], valid |-> TRUE, props |-> p, worker |-> "running"]

\* Distro.Cleanup, in a goroutine of its own.
Retire(os) ==
    [o \in Objs |-> IF o \in os THEN [object[o] EXCEPT !.worker = "stopping"] ELSE object[o]]

\* Its worker has stopped.
CleanupEnds(o) ==
    /\ Running
    /\ object[o].worker = "stopping"
    /\ object' = [object EXCEPT ![o] = IF \E n \in Names : distros[n] = o
                                       THEN [@ EXCEPT !.worker = "none"] ELSE NoObject]
    /\ UNCHANGED <<registry, distros, disk, data, mu, open, gc, closer, caller, calls, faults,
                   history>>

\* A task found the distro unreachable: Invalidate.
Invalidate(o) ==
    /\ Running
    /\ object[o].worker = "running" /\ object[o].valid /\ Fault
    /\ object' = [object EXCEPT ![o].valid = FALSE]
    /\ UNCHANGED <<registry, distros, disk, data, mu, open, gc, closer, caller, calls, history>>

\* The user registers a distro, or unregisters it.
UserRegisters(n) ==
    /\ Running
    /\ reg[n] = 0 /\ guids[n] < MaxGuid
    /\ guids' = [guids EXCEPT ![n] = @ + 1]
    /\ reg' = [reg EXCEPT ![n] = guids[n] + 1]
    /\ UNCHANGED <<object, distros, disk, data, mu, open, gc, closer, caller, calls, faults,
                   history>>

UserUnregisters(n) ==
    /\ Running
    /\ reg[n] # 0
    /\ reg' = [reg EXCEPT ![n] = 0]
    /\ UNCHANGED <<guids, object, distros, disk, data, mu, open, gc, closer, caller, calls,
                   faults, history>>

-----------------------------------------------------------------------------
(* GetDistroAndUpdateProperties.                                           *)

Step(c, pc) == caller' = [caller EXCEPT ![c].pc = pc]

\* The look at the context, before the lock.
Enter(c, n, p) ==
    /\ Running /\ caller[c].pc = "idle" /\ calls < MaxCalls
    /\ calls' = calls + 1
    /\ caller' = [caller EXCEPT ![c] = [pc |-> IF open THEN "entered" ELSE "panic",
                                        name |-> n, props |-> p]]
    /\ UNCHANGED <<registry, object, distros, disk, data, mu, open, gc, closer, faults, history>>

\* The map changes after Close has read it and before it has renamed its draft.
Overlap == IF closer \in {"write", "rename"} THEN {"race"} ELSE {}

\* A change of the map; the call goes on to write it to the file.
Change(c, n, objects, o) ==
    /\ object' = objects
    /\ distros' = [distros EXCEPT ![n] = o]
    /\ behind' = behind \cup Overlap \cup (IF closer = "closed" THEN {"late"} ELSE {})
    /\ mu' = c
    /\ Step(c, "dump")
    /\ UNCHANGED <<registry, disk, data, open, gc, closer, calls, faults, kept, orphans>>

\* Not in the database: a new distro is added.
Create(c, n, p) ==
    /\ caller[c].pc = "entered" /\ mu = "none"
    /\ distros[n] = 0 /\ reg[n] # 0
    /\ \E o \in Free :
         /\ \A q \in Free : o <= q
         /\ Change(c, n, [object EXCEPT ![o] = NewDistro(n, p)], o)

\* Wrong: the old distro is dropped, and its worker goes on.
ReplaceWrong(c, n, p) ==
    /\ caller[c].pc = "entered" /\ mu = "none"
    /\ distros[n] # 0 /\ ~IsValid(distros[n]) /\ reg[n] # 0
    /\ \E o \in Free :
         /\ \A q \in Free : o <= q
         /\ Change(c, n, [object EXCEPT ![o] = NewDistro(n, p)], o)

\* In the database, but no longer valid: it is cleaned up in the background and replaced.
Replace(c, n, p) ==
    /\ caller[c].pc = "entered" /\ mu = "none"
    /\ distros[n] # 0 /\ ~IsValid(distros[n]) /\ reg[n] # 0
    /\ \E o \in Free :
         /\ \A q \in Free : o <= q
         /\ Change(c, n, [Retire({distros[n]}) EXCEPT ![o] = NewDistro(n, p)], o)

\* distro.New fails: it is not registered, or its worker cannot read its tasks.  An old entry
\* is gone by then, but neither the file nor cloud-init's data are touched.
NewFails(c, n) ==
    /\ caller[c].pc = "entered" /\ mu = "none" /\ n \notin Present \ Invalid
    /\ (reg[n] = 0 /\ UNCHANGED faults) \/ Fault
    /\ object' = Retire({distros[n]} \ {0})
    /\ distros' = [distros EXCEPT ![n] = 0]
    /\ behind' = IF distros[n] # 0 THEN behind \cup {"replace"} \cup Overlap ELSE behind
    /\ orphans' = IF distros[n] # 0 /\ data[n] THEN orphans \cup {n} ELSE orphans
    /\ Step(c, "error")
    /\ UNCHANGED <<registry, disk, data, mu, open, gc, closer, calls, kept>>

\* Wrong: new properties are not written to the file.
UpdateWrong(c, n, p) ==
    /\ caller[c].pc = "entered" /\ mu = "none"
    /\ distros[n] # 0 /\ IsValid(distros[n])
    /\ object' = [object EXCEPT ![distros[n]].props = p]
    /\ Step(c, "ok")
    /\ UNCHANGED <<registry, distros, disk, data, mu, open, gc, closer, calls, faults, history>>

\* In the database and valid: only the properties may be new.
Update(c, n, p) ==
    /\ caller[c].pc = "entered" /\ mu = "none"
    /\ distros[n] # 0 /\ IsValid(distros[n])
    /\ IF object[distros[n]].props = p
       THEN /\ Step(c, "ok")
            /\ UNCHANGED <<registry, object, distros, disk, data, mu, open, gc, closer, calls,
                           faults, history>>
       ELSE Change(c, n, [object EXCEPT ![distros[n]].props = p], distros[n])

Fetch(c) ==
    /\ Running
    /\ \/ Create(c, caller[c].name, caller[c].props)
       \/ Replace(c, caller[c].name, caller[c].props)
       \/ NewFails(c, caller[c].name)
       \/ Update(c, caller[c].name, caller[c].props)

\* dump, the end of a section that changed the map: the draft is written ...
WriteDraft == draft' = {Image(distros)} /\ UNCHANGED <<file, faults, behind>>

\* ... and renamed, if Close has not done it.
RenameDraft ==
    /\ draft # {} /\ file' \in draft /\ draft' = {}
    /\ behind' = behind \cap {"late", "race"}
    /\ UNCHANGED faults

\* An error leaves the old file.
DumpFails == Fault /\ behind' = behind \cup {"dump"} /\ UNCHANGED <<file, draft>>
NoDraft   == draft = {} /\ UNCHANGED <<file, draft, faults, behind>>

Dump(c) ==
    /\ Running /\ caller[c].pc \in {"dump", "rename"}
    /\ \/ /\ caller[c].pc = "dump" /\ WriteDraft
          /\ Step(c, "rename") /\ UNCHANGED mu
       \/ /\ caller[c].pc = "rename" /\ RenameDraft
          /\ Step(c, "ok") /\ mu' = "none"
       \/ /\ DumpFails \/ (caller[c].pc = "rename" /\ NoDraft)
          /\ Step(c, "error") /\ mu' = "none"
    /\ UNCHANGED <<registry, object, distros, snap, data, open, gc, closer, calls, kept, orphans>>

\* The caller goes its way.
Return(c) ==
    /\ Running /\ caller[c].pc \in {"ok", "error"}
    /\ caller' = [caller EXCEPT ![c] = NoCall]
    /\ UNCHANGED <<registry, object, distros, disk, data, mu, open, gc, closer, calls, faults,
                   history>>

-----------------------------------------------------------------------------
(* cleanup, by the loop and by Close.                                      *)

\* Invalid distros are removed, with cloud-init's data for the name; if that fails, it is only
\* logged.
Sweep ==
    /\ object' = Retire({distros[n] : n \in Invalid})
    /\ distros' = [n \in Names |-> IF n \in Invalid THEN 0 ELSE distros[n]]
    /\ \E left \in SUBSET Invalid :
         /\ IF left = {} THEN UNCHANGED faults ELSE Fault
         /\ data' = [n \in Names |-> data[n] /\ n \notin Invalid \ left]
         /\ orphans' = orphans \cup {n \in left : data[n]}
    /\ behind' = IF Invalid = {} THEN behind ELSE behind \cup Overlap

\* An hour has gone by, or somebody called TriggerCleanup; or the channel of that is closed.
GcSweeps ==
    /\ Running /\ gc = "wait" /\ mu = "none" /\ Invalid # {}
    /\ Sweep
    /\ mu' = "gc" /\ gc' = "dump"
    /\ UNCHANGED <<registry, disk, open, closer, caller, calls, kept>>

GcDumps ==
    /\ Running /\ gc \in {"dump", "rename"}
    /\ \/ gc = "dump" /\ WriteDraft /\ gc' = "rename" /\ UNCHANGED mu
       \/ /\ (gc = "rename" /\ (RenameDraft \/ NoDraft)) \/ DumpFails
          /\ gc' = "wait" /\ mu' = "none"
    /\ UNCHANGED <<registry, object, distros, snap, data, open, closer, caller, calls, kept, orphans>>

GcEnds ==
    /\ Running /\ gc = "wait" /\ ~open
    /\ gc' = "ended"
    /\ UNCHANGED <<registry, object, distros, disk, data, mu, open, closer, caller, calls, faults,
                   history>>

-----------------------------------------------------------------------------
(* Close.                                                                  *)

CloseStarts ==
    /\ Running /\ closer = "idle"
    /\ open' = FALSE /\ closer' = "cleanup"
    /\ UNCHANGED <<registry, object, distros, disk, data, mu, gc, caller, calls, faults, history>>

CloseSweeps ==
    /\ Running /\ closer = "cleanup" /\ mu = "none"
    /\ Sweep
    /\ mu' = IF Invalid = {} THEN "none" ELSE "close"
    /\ closer' = IF Invalid = {} THEN "dump" ELSE "flush"
    /\ UNCHANGED <<registry, disk, open, gc, caller, calls, kept>>

CloseFlushes ==
    /\ Running /\ closer \in {"flush", "flushed"}
    /\ \/ closer = "flush" /\ WriteDraft /\ closer' = "flushed" /\ UNCHANGED mu
       \/ /\ (closer = "flushed" /\ RenameDraft) \/ DumpFails
          /\ closer' = "dump" /\ mu' = "none"
    /\ UNCHANGED <<registry, object, distros, snap, data, open, gc, caller, calls, kept, orphans>>

\* The second dump does not take the lock, and may meet another one: the map is read, ...
CloseReads ==
    /\ Running /\ closer = "dump"
    /\ snap' = Image(distros) /\ closer' = "write"
    /\ behind' = IF mu # "none" THEN behind \cup {"race"} ELSE behind
    /\ UNCHANGED <<registry, object, distros, file, draft, data, mu, open, gc, caller, calls, faults, kept,
                   orphans>>

\* ... the draft written ...
CloseWrites ==
    /\ Running /\ closer = "write"
    /\ \/ draft' = {snap} /\ closer' = "rename" /\ UNCHANGED <<file, faults, behind>>
       \/ DumpFails /\ closer' = "distros"
    /\ snap' = NoImage
    /\ UNCHANGED <<registry, object, distros, data, mu, open, gc, caller, calls, kept, orphans>>

\* ... and whatever is there as a draft renamed, unless somebody else has done it.
CloseRenames ==
    /\ Running /\ closer = "rename"
    /\ RenameDraft \/ NoDraft \/ DumpFails
    /\ closer' = "distros"
    /\ UNCHANGED <<registry, object, distros, snap, data, mu, open, gc, caller, calls, kept, orphans>>

\* cleanupAllDistros: every distro is stopped, under the lock ...
CloseStops ==
    /\ Running /\ closer = "distros" /\ mu = "none"
    /\ object' = Retire({distros[n] : n \in Present})
    /\ kept' = [n \in Names |-> Image(distros)[n].guid]
    /\ mu' = "close" /\ closer' = "waiting"
    /\ UNCHANGED <<registry, distros, disk, data, open, gc, caller, calls, faults, behind, orphans>>

\* Wrong: the empty map is written to the file.
CloseEndsWrong ==
    /\ Running /\ closer = "waiting"
    /\ \A n \in Present : object[distros[n]].worker = "none"
    /\ object' = [o \in Objs |-> IF \E n \in Names : distros[n] = o THEN NoObject ELSE object[o]]
    /\ distros' = [n \in Names |-> 0] /\ file' = NoImage
    /\ mu' = "none" /\ closer' = "closed"
    /\ UNCHANGED <<registry, draft, snap, data, open, gc, caller, calls, faults, history>>

\* ... and when all workers have ended, the map is left empty.
CloseEnds ==
    /\ Running /\ closer = "waiting"
    /\ \A n \in Present : object[distros[n]].worker = "none"
    /\ object' = [o \in Objs |-> IF \E n \in Names : distros[n] = o THEN NoObject ELSE object[o]]
    /\ distros' = [n \in Names |-> 0]
    /\ mu' = "none" /\ closer' = "closed"
    /\ UNCHANGED <<registry, disk, data, open, gc, caller, calls, faults, history>>

\* The agent ends, or crashes, and starts again; New: load.  Entries that are no longer
\* valid are left out, with nobody to remove their cloud-init data.  A draft that was left
\* behind is written again before it is used.
Load ==
    /\ Fault
    /\ LET back == {n \in Names : file[n].guid # 0 /\ file[n].guid = reg[n]}
           o == CHOOSE f \in [back -> Objs] : \A m, n \in back : m # n => f[m] # f[n]
       IN  /\ object' = [i \in Objs |->
                 IF \E n \in back : o[n] = i
                 THEN LET n == CHOOSE m \in back : o[m] = i
                      IN  [NewDistro(n, file[n].props) EXCEPT !.guid = file[n].guid]
                 ELSE NoObject]
           /\ distros' = [n \in Names |-> IF n \in back THEN o[n] ELSE 0]
           /\ orphans' = orphans \cup {n \in Names \ back : data[n]}
    /\ behind' = IF \E n \in Names : distros'[n] = 0 /\ file[n] # NoEntry THEN {"load"} ELSE {}
    /\ kept' = [n \in Names |-> 0]
    /\ mu' = "none" /\ open' = TRUE /\ gc' = "wait" /\ closer' = "idle"
    /\ caller' = [c \in Callers |-> NoCall]
    /\ draft' = {} /\ snap' = NoImage
    /\ UNCHANGED <<registry, file, data, calls>>

CallStep(c) == Fetch(c) \/ Dump(c)

DatabaseStep ==
    \/ \E o \in Objs : CleanupEnds(o) \/ Invalidate(o)
    \/ \E n \in Names : UserRegisters(n) \/ UserUnregisters(n)
    \/ GcSweeps \/ GcDumps \/ GcEnds
    \/ CloseSweeps \/ CloseFlushes \/ CloseReads \/ CloseWrites \/ CloseRenames \/ CloseStops
    \/ CloseEnds
=============================================================================
