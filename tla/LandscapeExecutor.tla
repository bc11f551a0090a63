-------------------------- MODULE LandscapeExecutor --------------------------
(***************************************************************************)
(* The commands of the Landscape server that install and remove distros    *)
(* (proservices/landscape/executor.go and distroinstall), next to the      *)
(* database, the handlers of distros that connect, and the user, who may   *)
(* register and unregister the same distros meanwhile.  A connection       *)
(* executes one command at a time (connection.go, receiveCommands), also   *)
(* when it is being closed.                                                *)
(***************************************************************************)
EXTENDS DistroDatabase

CONSTANT MaxCmds    \* bound: commands

ASSUME ExecutorAssumption == "landscape" \in Callers /\ MaxCmds \in Nat

VARIABLES
    cmd,        \* the command under way
    cmds        \* commands so far

vars == <<dbVars, cmd, cmds>>

\* from: where an installation comes from.  raced: the user has registered the name since
\* it was found free.  lost: the new distro was found unreachable by a task.  guid: what the
\* command registered.
NoCmd == [pc |-> "idle", name |-> "", from |-> "", raced |-> FALSE, lost |-> FALSE,
          guid |-> 0]

TypeOK ==
    /\ DatabaseType
    /\ cmd \in [pc : {"idle", "check", "write", "fetch", "register", "setup", "call", "start", "user",
                      "rollback", "drop", "remove", "unregister", "uninstalled"},
                name : Names \cup {""}, from : {"", "url", "launcher", "modern"}, raced : BOOLEAN,
                lost : BOOLEAN, guid : 0 .. MaxGuid]
    /\ cmds \in 0 .. MaxCmds

Init == DatabaseInit /\ cmd = NoCmd /\ cmds = 0

Goto(pc) == cmd' = [cmd EXCEPT !.pc = pc]
GiveUp   == cmd' = [cmd EXCEPT !.pc = "rollback", !.from = ""]

unchangedDb == <<object, distros, disk, mu, open, gc, closer, caller, calls, history>>

-----------------------------------------------------------------------------
(* install.                                                                *)

Install(n) ==
    /\ Running /\ cmd.pc = "idle" /\ cmds < MaxCmds /\ closer = "idle"
    /\ cmds' = cmds + 1
    /\ cmd' = [NoCmd EXCEPT !.pc = "check", !.name = n]
    /\ UNCHANGED dbVars

\* "already installed".
Check ==
    /\ Running /\ cmd.pc = "check"
    /\ IF reg[cmd.name] # 0 THEN cmd' = NoCmd ELSE Goto("write")
    /\ UNCHANGED <<dbVars, cmds>>

\* WriteDistroData; if it fails there is nothing to clean up.
WriteDistroData ==
    /\ Running /\ cmd.pc = "write"
    /\ \/ /\ data' = [data EXCEPT ![cmd.name] = TRUE]
          /\ Goto("fetch")
          /\ UNCHANGED faults
       \/ Fault /\ cmd' = NoCmd /\ UNCHANGED data
    /\ UNCHANGED <<registry, unchangedDb, cmds>>

\* The image is downloaded, and is what the server's SHA256SUMS says, if it has them.
Download ==
    /\ Running /\ cmd.pc = "fetch"
    /\ cmd' = [cmd EXCEPT !.pc = "register", !.from = "url"]
    /\ UNCHANGED <<dbVars, cmds>>

\* `wsl --install`: for an old distro, its package with the launcher; a modern one is
\* registered right away.
WslInstall ==
    /\ Running /\ cmd.pc = "fetch"
    /\ \E from \in {"launcher", "modern"} : cmd' = [cmd EXCEPT !.pc = "register", !.from = from]
    /\ UNCHANGED <<dbVars, cmds>>

\* WSL imports the image, installs the modern distro, or the launcher is run, and there is a
\* distro.  An old one is then ready for use.
Register ==
    /\ Running /\ cmd.pc = "register"
    /\ reg[cmd.name] = 0 /\ guids[cmd.name] < MaxGuid
    /\ guids' = [guids EXCEPT ![cmd.name] = @ + 1]
    /\ reg' = [reg EXCEPT ![cmd.name] = guids[cmd.name] + 1]
    /\ cmd' = IF cmd.from = "launcher"
              THEN [cmd EXCEPT !.pc = "call", !.guid = guids[cmd.name] + 1, !.from = ""]
              ELSE [cmd EXCEPT !.pc = "setup", !.guid = guids[cmd.name] + 1]
    /\ UNCHANGED <<data, faults, unchangedDb, cmds>>

\* The URL is bad, the name reserved, the image or the package not to be had, the image not
\* what the server's SHA256SUMS says, or WSL refuses, as it does when the name is taken.
RegisterFails ==
    /\ Running
    /\ (cmd.pc = "register" /\ reg[cmd.name] # 0 /\ UNCHANGED faults)
       \/ (cmd.pc \in {"fetch", "register"} /\ Fault)
    /\ GiveUp
    /\ UNCHANGED <<registry, data, unchangedDb, cmds>>

\* WaitForCloudInit; its errors count for a modern distro and not for an imported one.
SetUp ==
    /\ Running /\ cmd.pc = "setup" /\ (cmd.from = "url" \/ reg[cmd.name] # 0)
    /\ cmd' = [cmd EXCEPT !.pc = "call", !.from = ""]
    /\ UNCHANGED <<dbVars, cmds>>

\* What needs the distro fails: it is gone, or else.
Lost(n) == (reg[n] = 0 /\ UNCHANGED faults) \/ Fault

SetUpFails ==
    /\ Running /\ cmd.pc = "setup" /\ cmd.from = "modern" /\ Lost(cmd.name)
    /\ GiveUp
    /\ UNCHANGED <<registry, data, unchangedDb, cmds>>

\* GetDistroAndUpdateProperties, with empty properties.
EnterDatabase ==
    /\ cmd.pc = "call"
    /\ Enter("landscape", cmd.name, "empty")
    /\ UNCHANGED <<cmd, cmds>>

LeaveDatabase ==
    /\ cmd.pc = "call"
    /\ Goto(IF caller["landscape"].pc = "ok" THEN "start" ELSE "rollback")
    /\ Return("landscape")
    /\ UNCHANGED cmds

\* The distro is kept running for 5 s.  With cloud-init's data given, or a default user, that
\* is all ...
Start ==
    /\ Running /\ cmd.pc = "start" /\ reg[cmd.name] # 0
    /\ cmd' = NoCmd \/ Goto("user")
    /\ UNCHANGED <<dbVars, cmds>>

\* ... and else a default user is created.
CreateUser ==
    /\ Running /\ cmd.pc = "user" /\ reg[cmd.name] # 0
    /\ cmd' = NoCmd
    /\ UNCHANGED <<dbVars, cmds>>

StartFails ==
    /\ Running /\ cmd.pc \in {"start", "user"} /\ Lost(cmd.name)
    /\ GiveUp
    /\ UNCHANGED <<registry, data, unchangedDb, cmds>>

\* "Avoid error states by cleaning up on error": the distro of this name is uninstalled ...
Rollback ==
    /\ Running /\ cmd.pc = "rollback"
    /\ \/ reg' = [reg EXCEPT ![cmd.name] = 0] /\ UNCHANGED faults
       \/ Fault /\ UNCHANGED reg
    /\ Goto("drop")
    /\ UNCHANGED <<guids, data, unchangedDb, cmds>>

\* Wrong: the data is left.
RollbackDataWrong ==
    /\ Running /\ cmd.pc = "drop"
    /\ cmd' = NoCmd
    /\ UNCHANGED <<registry, data, faults, unchangedDb, cmds>>

\* ... and its data removed.  Errors of either are only logged.
RollbackData ==
    /\ Running /\ cmd.pc = "drop"
    /\ \/ data' = [data EXCEPT ![cmd.name] = FALSE] /\ UNCHANGED <<faults, orphans>>
       \/ Fault /\ orphans' = orphans \cup {cmd.name} /\ UNCHANGED data
    /\ cmd' = NoCmd
    /\ UNCHANGED <<registry, object, distros, disk, mu, open, gc, closer, caller, calls, behind, kept, cmds>>

-----------------------------------------------------------------------------
(* uninstall.                                                              *)

\* The distro must be in the database ...
Uninstall(n) ==
    /\ Running /\ cmd.pc = "idle" /\ cmds < MaxCmds /\ closer = "idle"
    /\ distros[n] # 0
    /\ cmds' = cmds + 1
    /\ cmd' = [NoCmd EXCEPT !.pc = "remove", !.name = n, !.guid = object[distros[n]].guid]
    /\ UNCHANGED dbVars

\* Wrong: any distro of that name will do.
CheckGuidWrong ==
    /\ Running /\ cmd.pc = "remove"
    /\ IF reg[cmd.name] # 0 THEN Goto("unregister") ELSE cmd' = NoCmd
    /\ UNCHANGED <<dbVars, cmds>>

\* ... and be the one that is registered, ...
CheckGuid ==
    /\ Running /\ cmd.pc = "remove"
    /\ IF reg[cmd.name] = cmd.guid THEN Goto("unregister") ELSE cmd' = NoCmd
    /\ UNCHANGED <<dbVars, cmds>>

\* ... before WSL uninstalls what has its name.
Unregister ==
    /\ Running /\ cmd.pc = "unregister"
    /\ \/ /\ reg[cmd.name] # 0 /\ UNCHANGED faults
          /\ reg' = [reg EXCEPT ![cmd.name] = 0]
          /\ Goto("uninstalled")
       \/ /\ Lost(cmd.name)
          /\ cmd' = NoCmd
          /\ UNCHANGED reg
    /\ UNCHANGED <<guids, data, unchangedDb, cmds>>

\* RemoveDistroData; an error is only logged.
RemoveDistroData ==
    /\ Running /\ cmd.pc = "uninstalled"
    /\ \/ data' = [data EXCEPT ![cmd.name] = FALSE] /\ UNCHANGED faults
       \/ Fault /\ UNCHANGED data
    /\ cmd' = NoCmd
    /\ UNCHANGED <<registry, unchangedDb, cmds>>

-----------------------------------------------------------------------------
\* A distro that connects is registered with the properties it reports (Connected).
Connected(c, n) == reg[n] # 0 /\ Enter(c, n, "reported") /\ UNCHANGED <<cmd, cmds>>

\* The user takes the name after it was found free, or after the GUID was looked at; or the
\* new distro is given up.
Exposed == cmd.pc \notin {"idle", "check", "remove", "uninstalled"}

NoteRace ==
    cmd' = IF ~Exposed THEN cmd
           ELSE [cmd EXCEPT !.raced = @ \/ (reg' # reg /\ reg'[cmd.name] # 0),
                            !.lost = @ \/ \E o \in Objs : Invalidate(o) /\ object[o].name = cmd.name]

\* Landscape's client is stopped before the database is closed (proservices.go, Stop).
StopServices == cmd.pc = "idle" /\ CloseStarts /\ UNCHANGED <<cmd, cmds>>

\* A crash leaves the data of an unfinished installation behind.
Restart ==
    /\ Load
    /\ cmd' = NoCmd
    /\ UNCHANGED cmds

InstallStep ==
    \/ Check \/ WriteDistroData \/ Download \/ WslInstall \/ Register \/ RegisterFails \/ SetUp \/ SetUpFails
    \/ EnterDatabase \/ LeaveDatabase \/ Start \/ CreateUser \/ StartFails
    \/ Rollback \/ RollbackData

Next ==
    \/ DatabaseStep /\ NoteRace /\ UNCHANGED cmds
    \/ \E c \in Callers : CallStep(c) /\ UNCHANGED <<cmd, cmds>>
    \/ \E c \in Callers \ {"landscape"} :
         (\E n \in Names : Connected(c, n)) \/ (Return(c) /\ UNCHANGED <<cmd, cmds>>)
    \/ \E n \in Names : Uninstall(n) \/ Install(n)
    \/ InstallStep \/ CheckGuid \/ Unregister \/ RemoveDistroData
    \/ StopServices \/ Restart

Spec == Init /\ [][Next]_vars

-----------------------------------------------------------------------------
\* "Any write on the database will be instanly followed up by a write-to-disk"
\* (database.go 29-30): the file says what the map does whenever nobody is at work.  The
\* exceptions: the write failed; a distro that had become invalid was asked for, removed
\* from the map, and could not be created again; what is no longer valid was not loaded;
\* Close's dump, which does not take the lock, overlapped with a change.
FileIsMap == mu = "none" /\ behind = {} /\ closer # "closed" => file = Image(distros)

\* A distro that is no longer in the map is being stopped, whatever put it out: no worker
\* goes on executing tasks for a distro the agent has forgotten.
NoStrayWorker ==
    \A o \in Objs : object[o].worker = "running" => distros[object[o].name] = o

\* Close leaves in the file every distro it has stopped, so that the next start finds
\* them.  The exceptions: the write failed; a call that had come in before Close changed the
\* map while Close was writing it, or when Close had ended.
CloseKeepsDistros ==
    closer = "closed" /\ behind = {} => \A n \in Names : kept[n] # 0 => file[n].guid = kept[n]

\* cloud-init's data for a distro is the concern of an installation under way, or of a
\* distro in the database, whose removal will remove it.  The exceptions: the distro was
\* put out of the map without a clean-up, or was not loaded, or the data could not be removed.
DataHasADistro ==
    closer # "closed" =>
        \A n \in Names : data[n] => n \in orphans \/ distros[n] # 0 \/ cmd.name = n

\* A command removes no distro but the one it has installed or was asked to remove.  The
\* exceptions: an installation fails because the user took the name after it was found free,
\* and the user's distro is uninstalled; or the user replaces the distro that is to be removed
\* after its GUID was looked at.
RemovesOnlyItsOwn ==
    [][(Rollback \/ Unregister) /\ reg[cmd.name] # reg'[cmd.name]
       => cmd.raced \/ reg[cmd.name] = cmd.guid]_vars

\* An installation that succeeds leaves its distro in the database, with its worker,
\* also where the database still had an old one.  The exceptions: the user took the name, or a
\* task found the distro unreachable.
InstalledIsKnown ==
    [][(Start \/ CreateUser) /\ cmd'.pc = "idle" /\ ~cmd.raced /\ ~cmd.lost
       => /\ distros[cmd.name] # 0
          /\ object[distros[cmd.name]].guid = cmd.guid
          /\ object[distros[cmd.name]].worker = "running"]_vars
=============================================================================
