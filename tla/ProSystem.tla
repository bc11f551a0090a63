------------------------------ MODULE ProSystem ------------------------------
(***************************************************************************)
(* What wsl-pro-service does to its distro (internal/system, called by     *)
(* internal/commandservice and by Daemon.Serve): it attaches the distro to *)
(* Ubuntu Pro, and writes Landscape's client.conf and registers with it.   *)
(* One goroutine serves each of the two command streams; when the service  *)
(* starts, it first brings client.conf up to date.  The service may be     *)
(* killed at any moment, and the distro may have another name when it      *)
(* starts again (it was exported and imported).  The programs it runs      *)
(* (pro, landscape-config, wslpath, wslinfo, cloud-init) are external.     *)
(***************************************************************************)
EXTENDS Integers, Sequences, FiniteSets

CONSTANTS
    Names,      \* names the distro may have
    Tokens,     \* Ubuntu Pro tokens
    ConfIds,    \* Landscape configurations the agent may send
    Byte,       \* bound: values of a byte of an address, 0 .. Byte - 1
    MaxOps,     \* bound: commands of each kind
    MaxFaults   \* bound: failures, crashes and renamings

ASSUME SystemAssumption ==
    /\ Names # {} /\ "" \notin Names
    /\ "" \notin Tokens
    /\ Byte \in Nat \ {0} /\ MaxOps \in Nat /\ MaxFaults \in Nat

VARIABLES
    name,       \* the distro's name
    cache,      \* System.wslDistroNameCache; "": empty
    service,    \* the service: off, ensure, dial, dialled, serving
    dialled,    \* where it looks for the agent
    conf,       \* /etc/landscape/client.conf
    draft,      \* client.conf.new
    registered, \* the configuration Landscape's client runs with
    attached,   \* the token the distro is attached with; "": none
    lpe,        \* the Landscape operation under way
    pro,        \* the Pro operation under way
    asked,      \* history: the last Landscape operation, if it succeeded
    paid,       \* history: the token of the last Pro command, if it succeeded
    ops, faults

vars == <<name, cache, service, dialled, conf, draft, registered, attached, lpe, pro, asked, paid,
          ops, faults>>

\* client.conf: whose it is, its computer_title ("": none) and the kind of path in its
\* ssl_public_key.  A file that is being written is Partial.
Confs   == [id : ConfIds, title : Names \cup {""}, cert : {"none", "windows", "linux"}]
Absent  == [id |-> 0, title |-> "", cert |-> "none"]
Partial == [id |-> -1, title |-> "", cert |-> "none"]

\* What cloud-init may have put there.
Given == {c \in Confs : c.title = "" /\ c.cert # "linux"}

\* What the agent sends: no title, a Windows path if any.  Absent stands for the empty
\* configuration, Partial for a text without a [client] section.
Sent == Given \cup {Absent, Partial}

\* IPv4 addresses, and how WSL's network is set up.
Addresses == [1 .. 4 -> 0 .. Byte - 1]
Loopback  == <<127, 0, 0, 1>>
NoAddress == <<>>
Modes     == {"nat", "mirrored", "unknown"}
Nowhere   == [mode |-> "none"]

\* force: enableUnconditionally.
LpeIdle == [op |-> "none", pc |-> "idle", text |-> Absent, force |-> FALSE]
ProIdle == [pc |-> "idle", token |-> ""]

TypeOK ==
    /\ name \in Names /\ cache \in Names \cup {""}
    /\ service \in {"off", "ensure", "dial", "dialled", "serving"}
    /\ dialled = Nowhere \/ (dialled.mode \in Modes /\ dialled.gateway \in Addresses)
    /\ {conf, draft, registered} \subseteq Confs \cup {Absent, Partial}
    /\ attached \in Tokens \cup {""}
    /\ lpe \in [op : {"none", "ensure", "enable", "disable"},
                pc : {"idle", "fix", "write", "chown", "rename", "register", "disable", "failed"},
                text : Confs \cup {Absent, Partial}, force : BOOLEAN]
    /\ pro \in [pc : {"idle", "detach", "attach", "failed"}, token : Tokens \cup {""}]
    /\ asked \in {"none", "ensure", "enable", "disable"}
    /\ paid \in Tokens \cup {"", "unknown"}
    /\ ops \in [{"lpe", "pro"} -> 0 .. MaxOps] /\ faults \in 0 .. MaxFaults

Init ==
    /\ name \in Names /\ cache = "" /\ service = "off" /\ dialled = Nowhere
    /\ conf \in {Absent} \cup Given /\ draft = Absent /\ registered = Absent /\ attached = ""
    /\ lpe = LpeIdle /\ pro = ProIdle
    /\ asked = "none" /\ paid = "unknown"
    /\ ops = [k \in {"lpe", "pro"} |-> 0] /\ faults = 0

Fault == faults < MaxFaults /\ faults' = faults + 1

landscapeVars == <<conf, draft, registered, lpe, asked, cache>>
proVars       == <<attached, pro, paid>>
hostVars      == <<name, service, dialled>>

-----------------------------------------------------------------------------
(* Landscape.                                                              *)

\* WslDistroName: from the cache, or from wslpath, which is then remembered.
DistroName == IF cache # "" THEN cache ELSE name

\* Wrong: a title that is there is kept.
NormalizeWrong(c, n) ==
    [c EXCEPT !.title = IF @ = "" THEN n ELSE @,
              !.cert = IF @ = "windows" THEN "linux" ELSE @]

\* normalizeLandscapeConfig, overrideSSLCertificate: wslpath leaves a Linux path alone.
Normalize(c, n) ==
    [c EXCEPT !.title = n, !.cert = IF @ = "windows" THEN "linux" ELSE @]

\* EnsureValidLandscapeConfig, once cloud-init is done.
EnsureStarts ==
    /\ service = "off"
    /\ service' = "ensure"
    /\ lpe' = IF conf = Absent THEN LpeIdle
              ELSE [LpeIdle EXCEPT !.op = "ensure", !.pc = "fix", !.text = conf]
    /\ UNCHANGED <<name, dialled, conf, draft, registered, asked, cache, proVars, ops, faults>>

\* It returned; an error is only logged.
EnsureEnds ==
    /\ service = "ensure" /\ lpe.pc \in {"idle", "failed"}
    /\ service' = "dial"
    /\ lpe' = LpeIdle
    /\ UNCHANGED <<name, dialled, conf, draft, registered, asked, cache, proVars, ops, faults>>

\* ApplyLandscapeConfig.
ApplyLandscapeConfig(c) ==
    /\ service = "serving" /\ lpe.pc \in {"idle", "failed"}
    /\ ops["lpe"] < MaxOps /\ ops' = [ops EXCEPT !["lpe"] = @ + 1]
    /\ lpe' = IF c = Absent THEN [LpeIdle EXCEPT !.op = "disable", !.pc = "disable"]
              ELSE [LpeIdle EXCEPT !.op = "enable", !.pc = "fix", !.text = c, !.force = TRUE]
    /\ asked' = "none"
    /\ UNCHANGED <<hostVars, conf, draft, registered, cache, proVars, faults>>

\* The operation returns without an error.
Done ==
    /\ lpe' = LpeIdle
    /\ asked' = IF lpe.op = "ensure" /\ asked # "none" THEN asked ELSE lpe.op

\* The operation returns an error.
Fails ==
    /\ lpe' = [lpe EXCEPT !.pc = "failed", !.text = Absent, !.force = FALSE]
    /\ asked' = "none"

\* Wrong: a configuration that needs no change is never registered.
FixWrong ==
    /\ lpe.pc = "fix" /\ lpe.text # Partial
    /\ cache' = DistroName
    /\ LET new == Normalize(lpe.text, DistroName)
       IN  IF new = conf THEN Done
           ELSE lpe' = [lpe EXCEPT !.pc = "write", !.text = new] /\ asked' = "none"
    /\ UNCHANGED <<hostVars, conf, draft, registered, proVars, ops, faults>>

\* fixAndEnableLandscapeFromConfig, to the decision whether there is anything to do.
Fix ==
    /\ lpe.pc = "fix" /\ lpe.text # Partial
    /\ cache' = DistroName
    /\ LET new == Normalize(lpe.text, DistroName)
       IN  IF ~lpe.force /\ new = lpe.text THEN Done
           ELSE lpe' = [lpe EXCEPT !.pc = "write", !.text = new] /\ asked' = "none"
    /\ UNCHANGED <<hostVars, conf, draft, registered, proVars, ops, faults>>

\* The text has no [client] section; or the name, or the certificate's path, cannot be
\* had, before or after the name was remembered.
FixFails ==
    /\ lpe.pc = "fix"
    /\ \/ lpe.text = Partial /\ UNCHANGED <<cache, faults>>
       \/ Fault /\ cache' \in {cache, DistroName}
    /\ Fails
    /\ UNCHANGED <<hostVars, conf, draft, registered, proVars, ops>>

\* writeConfig: the user and the group were found; client.conf.new is written, ...
Write ==
    /\ lpe.pc = "write"
    /\ draft' = IF draft = Partial THEN lpe.text ELSE Partial
    /\ lpe' = IF draft = Partial THEN [lpe EXCEPT !.pc = "chown"] ELSE lpe
    /\ UNCHANGED <<hostVars, conf, registered, asked, cache, proVars, ops, faults>>

\* ... given to group landscape, ...
Chown ==
    /\ lpe.pc = "chown"
    /\ lpe' = [lpe EXCEPT !.pc = "rename"]
    /\ UNCHANGED <<hostVars, conf, draft, registered, asked, cache, proVars, ops, faults>>

\* ... and put in its place.
Rename ==
    /\ lpe.pc = "rename"
    /\ conf' = draft /\ draft' = Absent
    /\ lpe' = [lpe EXCEPT !.pc = "register"]
    /\ UNCHANGED <<hostVars, registered, asked, cache, proVars, ops, faults>>

\* One of its steps fails.  A draft that cannot be written stays, one that cannot be
\* given away or renamed is removed.
WriteFails ==
    /\ lpe.pc \in {"write", "chown", "rename"} /\ Fault
    /\ draft' = IF lpe.pc = "write" THEN draft ELSE Absent
    /\ Fails
    /\ UNCHANGED <<hostVars, conf, registered, cache, proVars, ops>>

\* landscape-config --register-if-needed.
Register ==
    /\ lpe.pc = "register"
    /\ registered' = conf
    /\ Done
    /\ UNCHANGED <<hostVars, conf, draft, cache, proVars, ops, faults>>

\* LandscapeDisable: landscape-config --disable; client.conf stays.
Disable ==
    /\ lpe.pc = "disable"
    /\ registered' = Absent
    /\ Done
    /\ UNCHANGED <<hostVars, conf, draft, cache, proVars, ops, faults>>

\* landscape-config fails, having done its work or not.
LandscapeConfigFails ==
    /\ lpe.pc \in {"register", "disable"} /\ Fault
    /\ registered' \in {registered, IF lpe.pc = "register" THEN conf ELSE Absent}
    /\ Fails
    /\ UNCHANGED <<hostVars, conf, draft, cache, proVars, ops>>

-----------------------------------------------------------------------------
(* Ubuntu Pro.                                                             *)

\* ApplyProToken: whatever the token, the distro is detached first.
ApplyProToken(t) ==
    /\ service = "serving" /\ pro.pc \in {"idle", "failed"}
    /\ ops["pro"] < MaxOps /\ ops' = [ops EXCEPT !["pro"] = @ + 1]
    /\ pro' = [ProIdle EXCEPT !.pc = "detach", !.token = t]
    /\ paid' = "unknown"
    /\ UNCHANGED <<hostVars, landscapeVars, attached, faults>>

ProFails ==
    /\ pro' = [pro EXCEPT !.pc = "failed", !.token = ""]
    /\ UNCHANGED paid

\* ProDetach: pro fails with "unattached" if the distro is not attached, which is as good.
ProDetach ==
    /\ pro.pc = "detach"
    /\ attached' = ""
    /\ pro' = IF pro.token = "" THEN ProIdle ELSE [pro EXCEPT !.pc = "attach"]
    /\ paid' = IF pro.token = "" THEN "" ELSE paid
    /\ UNCHANGED <<hostVars, landscapeVars, ops, faults>>

\* Wrong: a failure of pro detach is ignored.
ProDetachFailsWrong ==
    /\ pro.pc = "detach" /\ Fault
    /\ attached' \in {attached, ""}
    /\ pro' = IF pro.token = "" THEN ProIdle ELSE [pro EXCEPT !.pc = "attach"]
    /\ paid' = IF pro.token = "" THEN "" ELSE paid
    /\ UNCHANGED <<hostVars, landscapeVars, ops>>

\* pro detach fails otherwise, or what it says cannot be parsed.
ProDetachFails ==
    /\ pro.pc = "detach" /\ Fault
    /\ attached' \in {attached, ""}
    /\ ProFails
    /\ UNCHANGED <<hostVars, landscapeVars, ops>>

\* ProAttach.
ProAttach ==
    /\ pro.pc = "attach"
    /\ attached' = pro.token /\ paid' = pro.token
    /\ pro' = ProIdle
    /\ UNCHANGED <<hostVars, landscapeVars, ops, faults>>

ProAttachFails ==
    /\ pro.pc = "attach" /\ Fault
    /\ attached' \in {attached, pro.token}
    /\ ProFails
    /\ UNCHANGED <<hostVars, landscapeVars, ops>>

-----------------------------------------------------------------------------
(* Where the agent is: Daemon.address.                                     *)

\* What each byte of a word is worth, the lowest first.
Weight == <<1, Byte, Byte * Byte, Byte * Byte * Byte>>

\* /proc/net/route: a header and a row whose third field is the gateway.  The kernel
\* prints the address as the number its bytes make in memory, the first one the lowest.
Word(g)   == g[1] * Weight[1] + g[2] * Weight[2] + g[3] * Weight[3] + g[4] * Weight[4]
Routes(g) == <<<<0, 0, 0>>, <<0, 0, Word(g)>>>>

\* An empty file and one whose row is too short are possible too.
Tables(g) == {<<>>, <<<<0, 0, 0>>, <<0>>>>, Routes(g)}

\* Wrong: the bytes are taken from the highest to the lowest.
BytesWrong(n) == [i \in 1 .. 4 |-> (n \div Weight[5 - i]) % Byte]

\* binary.LittleEndian.PutUint32.
Bytes(n) == [i \in 1 .. 4 |-> (n \div Weight[i]) % Byte]

\* defaultGateway: there may be no second line, or too few fields in it.
DefaultGateway(table) ==
    IF Len(table) < 2 THEN NoAddress
    ELSE IF Len(table[2]) < 3 THEN NoAddress
    ELSE Bytes(table[2][3])

\* networkingMode, WindowsHostAddress: wslinfo may fail.
WindowsHostAddress(mode, table) ==
    CASE mode = "unknown" -> NoAddress
      [] mode = "nat"     -> DefaultGateway(table)
      [] OTHER            -> Loopback

\* splitPort of what the agent's file says.
SplitPort(p) == IF p > 0 THEN p ELSE 0

\* Daemon.address.  Without a port the daemon tries again later; without an address it
\* gives up (SystemError), and is started again.
Dial(mode, table, g, p) ==
    /\ service = "dial" /\ SplitPort(p) # 0
    /\ LET host == WindowsHostAddress(mode, table)
       IN  /\ service' = IF host = NoAddress THEN "off" ELSE "dialled"
           /\ dialled' = IF host = NoAddress THEN Nowhere
                         ELSE [host |-> host, port |-> SplitPort(p), mode |-> mode, gateway |-> g]
           /\ cache' = IF host = NoAddress THEN "" ELSE cache
    /\ UNCHANGED <<name, conf, draft, registered, lpe, asked, proVars, ops, faults>>

\* The agent answers there, and the streams are served.
Serving ==
    /\ service = "dialled"
    /\ service' = "serving" /\ dialled' = Nowhere
    /\ UNCHANGED <<name, landscapeVars, proVars, ops, faults>>

-----------------------------------------------------------------------------
\* The service is killed, with the program it is waiting for, whose work may be done.
\* When the distro starts again it may have another name.
Crash ==
    /\ service # "off" /\ Fault
    /\ service' = "off" /\ cache' = "" /\ dialled' = Nowhere
    /\ registered' \in {registered, IF lpe.pc = "register" THEN conf
                                    ELSE IF lpe.pc = "disable" THEN Absent ELSE registered}
    /\ attached' \in {attached, IF pro.pc = "detach" THEN ""
                                ELSE IF pro.pc = "attach" THEN pro.token ELSE attached}
    /\ lpe' = LpeIdle /\ pro' = ProIdle
    /\ name' \in Names
    /\ asked' = IF name' = name THEN asked ELSE "none"
    /\ UNCHANGED <<conf, draft, paid, ops>>

Next ==
    \/ EnsureStarts \/ EnsureEnds
    \/ \E c \in Sent : ApplyLandscapeConfig(c)
    \/ Fix \/ FixFails \/ Write \/ Chown \/ Rename \/ WriteFails
    \/ Register \/ Disable \/ LandscapeConfigFails
    \/ \E t \in Tokens \cup {""} : ApplyProToken(t)
    \/ ProDetach \/ ProDetachFails \/ ProAttach \/ ProAttachFails
    \/ \E mode \in Modes, g \in Addresses, p \in {-1, 0, 1} :
         \E table \in Tables(g) : Dial(mode, table, g, p)
    \/ Serving
    \/ Crash

Spec == Init /\ [][Next]_vars

-----------------------------------------------------------------------------
Idle == service = "serving" /\ lpe.pc = "idle"

\* client.conf carries the distro's name, and no path of Windows.
Fits == conf.title = name /\ conf.cert # "windows"

\* What a Landscape command that was answered with success asked for is in force, and
\* stays so over restarts: an enabled Landscape runs with the configuration in
\* client.conf, titled with the distro's name and with a certificate path that Linux
\* understands; a disabled one stays disabled.  Until the service finds client.conf in
\* need of correction when it starts: then it is corrected and enabled, also if it was
\* disabled (landscape.go 60-92).
AnswerIsInForce ==
    Idle => /\ asked = "enable" => registered = conf /\ Fits
            /\ asked = "disable" => registered = Absent

\* When the service has started and EnsureValidLandscapeConfig had nothing to complain of,
\* client.conf fits the distro, whatever was interrupted before and whoever wrote it.
ConfigFitsDistro ==
    Idle /\ asked = "ensure" => Fits

\* What ApplyProToken reported as a success is so: attached with that token, or detached.
TokenIsInForce == pro.pc = "idle" /\ paid # "unknown" => attached = paid

\* The agent is looked for at the gateway of WSL's network if that is a network of its
\* own, and else on the same machine.
AddressIsRight ==
    service = "dialled" =>
        /\ dialled.host = IF dialled.mode = "nat" THEN dialled.gateway ELSE Loopback
        /\ dialled.port > 0
=============================================================================
