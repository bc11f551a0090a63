--------------------------- MODULE ProSystem_proofs ---------------------------
(***************************************************************************)
(* Proofs about what wsl-pro-service does to its distro, for all names,    *)
(* tokens and configurations, every number of commands and of failures,    *)
(* crashes and renamings, and addresses made of bytes of any size.         *)
(***************************************************************************)
EXTENDS ProSystem, TLAPS

\* The name that is remembered is the distro's.
CacheInv == cache \in {"", name}

\* What the Landscape operation under way has got, step by step.
LpeInv ==
    /\ lpe.pc \in {"fix", "write", "chown", "rename", "register"} => lpe.op \in {"ensure", "enable"}
    /\ lpe.pc = "disable" => lpe.op = "disable"
    /\ lpe.pc = "fix" =>
         /\ lpe.text # Absent
         /\ lpe.op = "ensure" => lpe.text = conf
         /\ lpe.force = FALSE => lpe.op = "ensure"
         /\ lpe.op = "enable" => asked = "none"
    /\ lpe.pc \in {"write", "chown", "rename"} =>
         lpe.text \in Confs /\ lpe.text.title = name /\ lpe.text.cert # "windows"
    /\ lpe.pc \in {"chown", "rename"} => draft = lpe.text
    /\ lpe.pc = "register" => Fits
    /\ lpe.pc \notin {"idle", "fix"} => asked = "none"

\* What the last operation asked for is so from its end on, not only when the service
\* is idle.
AskedInv ==
    /\ asked = "enable" => registered = conf /\ Fits
    /\ asked = "disable" => registered = Absent
    /\ asked = "ensure" => Fits

\* A Pro command under way has forgotten what the one before it achieved.
PaidInv == paid = "unknown" \/ (pro.pc = "idle" /\ attached = paid)

\* The parts of TypeOK.
Texts  == Confs \cup {Absent, Partial}
LpeOps == {"none", "ensure", "enable", "disable"}
LpePcs == {"idle", "fix", "write", "chown", "rename", "register", "disable", "failed"}
Lpes   == [op : LpeOps, pc : LpePcs, text : Texts, force : BOOLEAN]
Pros   == [pc : {"idle", "detach", "attach", "failed"}, token : Tokens \cup {""}]

HostType ==
    /\ name \in Names /\ cache \in Names \cup {""}
    /\ service \in {"off", "ensure", "dial", "dialled", "serving"}
    /\ dialled = Nowhere \/ (dialled.mode \in Modes /\ dialled.gateway \in Addresses)
ConfType  == conf \in Texts /\ draft \in Texts /\ registered \in Texts
LpeType   == lpe \in Lpes /\ asked \in LpeOps
ProType   == attached \in Tokens \cup {""} /\ pro \in Pros /\ paid \in Tokens \cup {"", "unknown"}
CountType == ops \in [{"lpe", "pro"} -> 0 .. MaxOps] /\ faults \in 0 .. MaxFaults

Types == HostType /\ ConfType /\ LpeType /\ ProType /\ CountType

IInv == Types /\ CacheInv /\ LpeInv /\ AskedInv /\ PaidInv /\ AddressIsRight

-----------------------------------------------------------------------------
LEMMA TypeParts == Types <=> TypeOK
BY DEF Types, TypeOK, HostType, ConfType, LpeType, ProType, CountType, Texts, LpeOps, LpePcs, Lpes, Pros

\* The counters stay within their bounds.
LEMMA CountSteps ==
    ASSUME CountType, faults' = faults \/ Fault,
           ops' = ops \/ \E k \in {"lpe", "pro"} : ops[k] < MaxOps /\ ops' = [ops EXCEPT ![k] = @ + 1]
    PROVE  CountType'
<1>1. MaxOps \in Nat /\ MaxFaults \in Nat
  BY SystemAssumption
<1>2. \A n \in 0 .. MaxOps : n < MaxOps => n + 1 \in 0 .. MaxOps
  BY <1>1
<1>3. \A n \in 0 .. MaxFaults : n < MaxFaults => n + 1 \in 0 .. MaxFaults
  BY <1>1
<1>4. faults' \in 0 .. MaxFaults
  BY <1>3 DEF CountType, Fault
<1>5. ops' \in [{"lpe", "pro"} -> 0 .. MaxOps]
  BY <1>2 DEF CountType
<1> QED
  BY <1>4, <1>5 DEF CountType

-----------------------------------------------------------------------------
(* The gateway's address.                                                  *)

\* Dividing by the size of a digit takes the digit off.
LEMMA DivMod ==
    ASSUME NEW m \in Nat \ {0}, NEW q \in Nat, NEW r \in 0 .. m - 1
    PROVE  (m * q + r) \div m = q /\ (m * q + r) % m = r
OBVIOUS

LEMMA Weights ==
    /\ Weight[1] = 1 /\ Weight[2] = Byte /\ Weight[3] = Byte * Byte
    /\ Weight[4] = Byte * Byte * Byte
BY DEF Weight

\* PutUint32 gives back the bytes the kernel made the word of.
LEMMA BytesOfWord ==
    ASSUME NEW g \in Addresses
    PROVE  Bytes(Word(g)) = g
<1> DEFINE B == Byte
           n == Word(g)
<1>1. B \in Nat \ {0}
  BY SystemAssumption
<1>2. g[1] \in 0 .. B - 1 /\ g[2] \in 0 .. B - 1 /\ g[3] \in 0 .. B - 1 /\ g[4] \in 0 .. B - 1
  BY DEF Addresses
<1>3. n = g[1] * 1 + g[2] * B + g[3] * (B * B) + g[4] * (B * B * B)
  BY Weights DEF Word
<1> HIDE DEF B, n
<1>4. n % B = g[1] /\ n \div 1 = n
  <2>1. n = B * (g[2] + B * g[3] + B * B * g[4]) + g[1]
    BY <1>1, <1>2, <1>3
  <2>2. g[2] + B * g[3] + B * B * g[4] \in Nat
    BY <1>1, <1>2
  <2>3. n \in Nat
    BY <1>1, <1>2, <2>1, <2>2
  <2>4. (B * (g[2] + B * g[3] + B * B * g[4]) + g[1]) % B = g[1]
    BY <1>1, <1>2, <2>2, DivMod, Zenon
  <2> QED
    BY <2>1, <2>3, <2>4
<1>5. (n \div B) % B = g[2]
  <2>1. n = B * (B * (g[3] + B * g[4]) + g[2]) + g[1]
    BY <1>1, <1>2, <1>3
  <2>2. g[3] + B * g[4] \in Nat
    BY <1>1, <1>2
  <2>3. B * (g[3] + B * g[4]) + g[2] \in Nat
    BY <1>1, <1>2, <2>2
  <2>4. n \div B = B * (g[3] + B * g[4]) + g[2]
    BY <1>1, <1>2, <2>1, <2>3, DivMod
  <2>5. (B * (g[3] + B * g[4]) + g[2]) % B = g[2]
    BY <1>1, <1>2, <2>2, DivMod, Zenon
  <2> QED
    BY <2>4, <2>5
<1>6. (n \div (B * B)) % B = g[3]
  <2>1. n = (B * B) * (B * g[4] + g[3]) + (g[1] + g[2] * B)
    BY <1>1, <1>2, <1>3
  <2>2. B * g[4] + g[3] \in Nat /\ g[1] + g[2] * B \in 0 .. B * B - 1 /\ B * B \in Nat \ {0}
    BY <1>1, <1>2
  <2>3. n \div (B * B) = B * g[4] + g[3]
    BY <2>1, <2>2, DivMod
  <2>4. g[4] \in Nat
    BY <1>1, <1>2
  <2>5. (B * g[4] + g[3]) % B = g[3]
    BY <1>1, <1>2, <2>4, DivMod, Zenon
  <2> QED
    BY <2>3, <2>5
<1>7. (n \div (B * B * B)) % B = g[4]
  <2>1. n = (B * B * B) * g[4] + (g[1] + g[2] * B + g[3] * (B * B))
    BY <1>1, <1>2, <1>3
  <2>2. g[1] + g[2] * B + g[3] * (B * B) \in 0 .. B * B * B - 1 /\ B * B * B \in Nat \ {0}
    BY <1>1, <1>2
  <2>3. g[4] \in Nat /\ g[4] = B * 0 + g[4] /\ 0 \in Nat
    BY <1>1, <1>2
  <2>4. n \div (B * B * B) = g[4]
    BY <2>1, <2>2, <2>3, DivMod, Zenon
  <2>5. (B * 0 + g[4]) % B = g[4]
    BY <1>1, <1>2, <2>3, DivMod, Zenon
  <2> QED
    BY <2>3, <2>4, <2>5
<1>8. \A i \in 1 .. 4 : (n \div Weight[i]) % B = g[i]
  <2>1. \A i \in 1 .. 4 : i = 1 \/ i = 2 \/ i = 3 \/ i = 4
    OBVIOUS
  <2> QED
    BY <1>4, <1>5, <1>6, <1>7, <2>1, Weights DEF B
<1> QED
  BY <1>8 DEF Bytes, Addresses, n, B

\* Where the daemon dials, when it dials.
LEMMA HostAddress ==
    ASSUME NEW mode \in Modes, NEW g \in Addresses,
           NEW table \in Tables(g),
           WindowsHostAddress(mode, table) # NoAddress
    PROVE  WindowsHostAddress(mode, table) = IF mode = "nat" THEN g ELSE Loopback
<1>1. CASE mode # "nat"
  BY <1>1 DEF WindowsHostAddress, Modes
<1>2. CASE mode = "nat"
  <2>1. WindowsHostAddress(mode, table) = DefaultGateway(table)
    BY <1>2 DEF WindowsHostAddress
  <2>2. table = Routes(g)
    <3>1. table # <<>>
      BY <2>1 DEF DefaultGateway
    <3>2. table # <<<<0, 0, 0>>, <<0>>>>
      BY <2>1 DEF DefaultGateway
    <3> QED
      BY <3>1, <3>2 DEF Tables
  <2>3. DefaultGateway(table) = Bytes(Word(g))
    <3>1. Len(table) = 2 /\ Len(table[2]) = 3 /\ table[2][3] = Word(g)
      BY <2>2 DEF Routes
    <3> QED
      BY <3>1 DEF DefaultGateway
  <2> QED
    BY <1>2, <2>1, <2>3, BytesOfWord
<1> QED
  BY <1>1, <1>2

-----------------------------------------------------------------------------
(* The steps.                                                              *)

\* What a step that leaves Landscape alone, or Ubuntu Pro, or the address, keeps.
LEMMA LandscapeFrame ==
    ASSUME IInv, UNCHANGED <<name, cache, conf, draft, registered, lpe, asked>>
    PROVE  CacheInv' /\ LpeInv' /\ AskedInv'
BY DEF IInv, CacheInv, LpeInv, AskedInv, Fits

LEMMA ProFrame ==
    ASSUME IInv, UNCHANGED <<attached, pro, paid>>
    PROVE  PaidInv'
BY DEF IInv, PaidInv

LEMMA AddressFrame ==
    ASSUME IInv, dialled' = dialled, service' = service \/ service' # "dialled"
    PROVE  AddressIsRight'
BY DEF IInv, AddressIsRight

\* ApplyProToken, ProDetach and ProAttach.
LEMMA ProSteps ==
    ASSUME IInv,
           \/ \E t \in Tokens \cup {""} : ApplyProToken(t)
           \/ ProDetach \/ ProDetachFails \/ ProAttach \/ ProAttachFails
    PROVE  IInv'
<1>1. UNCHANGED <<name, cache, service, dialled, conf, draft, registered, lpe, asked>>
  BY DEF ApplyProToken, ProDetach, ProDetachFails, ProAttach, ProAttachFails, hostVars, landscapeVars
<1>2. CacheInv' /\ LpeInv' /\ AskedInv' /\ AddressIsRight'
  BY <1>1, LandscapeFrame, AddressFrame
<1>3. HostType /\ ConfType /\ LpeType /\ ProType /\ CountType
  BY DEF IInv, Types
<1>4. HostType' /\ ConfType' /\ LpeType'
  BY <1>1, <1>3 DEF HostType, ConfType, LpeType
<1>5. CountType'
  <2>1. ops' = ops \/ \E k \in {"lpe", "pro"} : ops[k] < MaxOps /\ ops' = [ops EXCEPT ![k] = @ + 1]
    BY DEF ApplyProToken, ProDetach, ProDetachFails, ProAttach, ProAttachFails
  <2>2. faults' = faults \/ Fault
    BY DEF ApplyProToken, ProDetach, ProDetachFails, ProAttach, ProAttachFails
  <2> QED
    BY <1>3, <2>1, <2>2, CountSteps
<1>6. ProIdle \in Pros /\ ProIdle.pc = "idle"
  BY DEF ProIdle, Pros
<1>7. ProType' /\ PaidInv'
  <2>1. ASSUME NEW t \in Tokens \cup {""}, ApplyProToken(t)
        PROVE  pro' \in Pros /\ attached' = attached /\ paid' = "unknown"
    BY <1>6, <2>1 DEF ApplyProToken, ProIdle, Pros
  <2>2. ASSUME ProDetach
        PROVE  /\ pro' \in Pros /\ attached' = ""
               /\ paid' = "unknown" \/ (paid' = "" /\ pro'.pc = "idle")
    <3>1. paid = "unknown" /\ pro.pc = "detach"
      BY <2>2 DEF ProDetach, IInv, PaidInv
    <3> QED
      BY <1>3, <1>6, <2>2, <3>1 DEF ProDetach, ProType, Pros
  <2>3. ASSUME ProDetachFails \/ ProAttachFails
        PROVE  pro' \in Pros /\ attached' \in Tokens \cup {""} /\ paid' = "unknown"
    <3>1. paid = "unknown"
      BY <2>3 DEF ProDetachFails, ProAttachFails, IInv, PaidInv
    <3> QED
      BY <1>3, <2>3, <3>1 DEF ProDetachFails, ProAttachFails, ProFails, ProType, Pros
  <2>4. ASSUME ProAttach
        PROVE  /\ pro' \in Pros /\ attached' \in Tokens \cup {""}
               /\ paid' = attached' /\ pro'.pc = "idle"
    BY <1>3, <1>6, <2>4 DEF ProAttach, ProType, Pros
  <2> QED
    BY <1>3, <2>1, <2>2, <2>3, <2>4 DEF PaidInv, ProType
<1> QED
  BY <1>2, <1>4, <1>5, <1>7 DEF IInv, Types

\* Dialling, and serving.
LEMMA DialSteps ==
    ASSUME IInv,
           \/ \E mode \in Modes, g \in Addresses, p \in {-1, 0, 1} :
                \E table \in Tables(g) : Dial(mode, table, g, p)
           \/ Serving
    PROVE  IInv'
<1>1. UNCHANGED <<name, conf, draft, registered, lpe, asked, attached, pro, paid, ops, faults>>
      /\ cache' \in {cache, ""}
  BY DEF Dial, Serving, landscapeVars, proVars
<1>2. CacheInv' /\ LpeInv' /\ AskedInv' /\ PaidInv'
  <2>1. CacheInv'
    BY <1>1 DEF IInv, CacheInv
  <2>2. LpeInv' /\ AskedInv'
    BY <1>1 DEF IInv, LpeInv, AskedInv, Fits
  <2> QED
    BY <1>1, <2>1, <2>2, ProFrame
<1>0. HostType /\ ConfType /\ LpeType /\ ProType /\ CountType
  BY DEF IInv, Types
<1>5. ConfType' /\ LpeType' /\ ProType' /\ CountType'
  BY <1>0, <1>1 DEF ConfType, LpeType, ProType, CountType
<1>3. CASE Serving
  <2>1. service' = "serving" /\ dialled' = Nowhere
    BY <1>3 DEF Serving
  <2>2. AddressIsRight'
    BY <2>1 DEF AddressIsRight
  <2>3. HostType'
    BY <1>0, <1>1, <2>1 DEF HostType
  <2> QED
    BY <1>2, <1>5, <2>2, <2>3 DEF IInv, Types
<1>4. ASSUME NEW mode \in Modes, NEW g \in Addresses, NEW p \in {-1, 0, 1},
             NEW table \in Tables(g), Dial(mode, table, g, p)
      PROVE  IInv'
  <2> DEFINE host == WindowsHostAddress(mode, table)
  <2>1. /\ SplitPort(p) # 0
        /\ service' = IF host = NoAddress THEN "off" ELSE "dialled"
        /\ dialled' = IF host = NoAddress THEN Nowhere
                      ELSE [host |-> host, port |-> SplitPort(p), mode |-> mode, gateway |-> g]
    BY <1>4 DEF Dial
  <2>2. SplitPort(p) > 0
    BY <2>1 DEF SplitPort
  <2>3. host # NoAddress => host = IF mode = "nat" THEN g ELSE Loopback
    BY HostAddress
  <2> HIDE DEF host
  <2>4. AddressIsRight'
    BY <2>1, <2>2, <2>3 DEF AddressIsRight
  <2>5. dialled' = Nowhere \/ (dialled'.mode \in Modes /\ dialled'.gateway \in Addresses)
    BY <2>1
  <2>6. HostType'
    BY <1>0, <1>1, <2>1, <2>5 DEF HostType
  <2> QED
    BY <1>2, <1>5, <2>4, <2>6 DEF IInv, Types
<1> QED
  BY <1>3, <1>4

\* The service is killed: what was reported as done stays so.
LEMMA CrashStep ==
    ASSUME IInv, Crash
    PROVE  IInv'
<1>1. /\ service' = "off" /\ cache' = "" /\ dialled' = Nowhere /\ lpe' = LpeIdle /\ pro' = ProIdle
      /\ name' \in Names /\ asked' = IF name' = name THEN asked ELSE "none"
      /\ UNCHANGED <<conf, draft, paid, ops>>
      /\ registered' \in {registered, IF lpe.pc = "register" THEN conf
                                      ELSE IF lpe.pc = "disable" THEN Absent ELSE registered}
      /\ attached' \in {attached, IF pro.pc = "detach" THEN ""
                                  ELSE IF pro.pc = "attach" THEN pro.token ELSE attached}
  BY DEF Crash
<1>2. LpeIdle \in Lpes /\ LpeIdle.pc = "idle"
  BY DEF LpeIdle, Lpes, LpeOps, LpePcs, Texts
<1>3. ProIdle \in Pros /\ ProIdle.pc = "idle"
  BY DEF ProIdle, Pros
<1>4. CacheInv' /\ AddressIsRight' /\ LpeInv'
  BY <1>1, <1>2 DEF CacheInv, AddressIsRight, LpeInv
<1>5. AskedInv'
  <2>1. asked' # "none" => asked' = asked /\ name' = name
    BY <1>1
  <2>2. asked # "none" => lpe.pc \in {"idle", "fix"}
    BY DEF IInv, LpeInv
  <2>3. asked # "none" => registered' = registered
    BY <1>1, <2>2
  <2> QED
    BY <1>1, <2>1, <2>3 DEF IInv, AskedInv, Fits
<1>6. PaidInv'
  BY <1>1, <1>3 DEF IInv, PaidInv
<1>7. HostType /\ ConfType /\ LpeType /\ ProType /\ CountType
  BY DEF IInv, Types
<1>8. CountType'
  <2>1. Fault /\ ops' = ops
    BY DEF Crash
  <2> QED
    BY <1>7, <2>1, CountSteps
<1>9. HostType' /\ LpeType'
  BY <1>1, <1>2, <1>7 DEF HostType, LpeType, LpeOps
<1>10. ConfType'
  BY <1>1, <1>7 DEF ConfType, Texts
<1>11. ProType'
  BY <1>1, <1>3, <1>7 DEF ProType, Pros
<1> QED
  BY <1>4, <1>5, <1>6, <1>8, <1>9, <1>10, <1>11 DEF IInv, Types

\* A Landscape operation's step moves the operation on and leaves the rest in its types.
LEMMA LandscapeRest ==
    ASSUME IInv,
           \/ EnsureStarts \/ EnsureEnds \/ (\E c \in Sent : ApplyLandscapeConfig(c))
           \/ Fix \/ FixFails \/ Write \/ Chown \/ Rename \/ WriteFails
           \/ Register \/ Disable \/ LandscapeConfigFails
    PROVE  name' = name /\ CacheInv' /\ PaidInv' /\ AddressIsRight' /\ HostType' /\ ProType' /\ CountType'
<1>1. /\ name' = name /\ dialled' = dialled /\ UNCHANGED <<attached, pro, paid>>
      /\ service' = service \/ service' \in {"ensure", "dial"}
      /\ cache' = cache \/ cache' = DistroName
  BY DEF EnsureStarts, EnsureEnds, ApplyLandscapeConfig, Fix, FixFails, Write, Chown, Rename,
         WriteFails, Register, Disable, LandscapeConfigFails, hostVars, proVars
<1>2. HostType /\ ProType /\ CountType
  BY DEF IInv, Types
<1>3. DistroName \in {"", name}
  BY DEF IInv, CacheInv, DistroName
<1>4. CacheInv' /\ HostType' /\ ProType'
  BY <1>1, <1>2, <1>3 DEF IInv, CacheInv, HostType, ProType
<1>5. CountType'
  <2>1. ops' = ops \/ \E k \in {"lpe", "pro"} : ops[k] < MaxOps /\ ops' = [ops EXCEPT ![k] = @ + 1]
    BY DEF EnsureStarts, EnsureEnds, ApplyLandscapeConfig, Fix, FixFails, Write, Chown, Rename,
           WriteFails, Register, Disable, LandscapeConfigFails
  <2>2. faults' = faults \/ Fault
    BY DEF EnsureStarts, EnsureEnds, ApplyLandscapeConfig, Fix, FixFails, Write, Chown, Rename,
           WriteFails, Register, Disable, LandscapeConfigFails
  <2> QED
    BY <1>2, <2>1, <2>2, CountSteps
<1>6. PaidInv' /\ AddressIsRight'
  BY <1>1, ProFrame, AddressFrame
<1> QED
  BY <1>1, <1>4, <1>5, <1>6

\* What normalizeLandscapeConfig makes of a configuration fits the distro, and one that
\* it leaves as it is did so before.
LEMMA NormalizeFits ==
    ASSUME NEW c \in Confs, NEW n \in Names
    PROVE  /\ Normalize(c, n) \in Confs
           /\ Normalize(c, n).title = n /\ Normalize(c, n).cert # "windows"
BY DEF Normalize, Confs

\* The operation ends, with an error or without one.
LEMMA EndsWell ==
    ASSUME Done, LpeType, lpe.op # "none"
    PROVE  /\ lpe' \in Lpes /\ lpe'.pc = "idle" /\ asked' \in LpeOps
           /\ asked' = lpe.op \/ (asked' = asked /\ lpe.op = "ensure")
BY DEF Done, LpeType, LpeIdle, Lpes, LpeOps, LpePcs, Texts

LEMMA EndsBadly ==
    ASSUME Fails, LpeType
    PROVE  lpe' \in Lpes /\ lpe'.pc = "failed" /\ asked' = "none"
BY DEF Fails, LpeType, Lpes, LpeOps, LpePcs, Texts

\* The beginning and the end of an operation, and its failures.
LEMMA LandscapeEdges ==
    ASSUME IInv,
           \/ EnsureStarts \/ EnsureEnds \/ (\E c \in Sent : ApplyLandscapeConfig(c))
           \/ FixFails \/ WriteFails \/ LandscapeConfigFails
    PROVE  ConfType' /\ LpeType' /\ LpeInv' /\ AskedInv'
<1>1. name' = name
  BY LandscapeRest
<1>2. ConfType /\ LpeType /\ LpeInv /\ AskedInv
  BY DEF IInv, Types
<1>3. LpeIdle \in Lpes /\ LpeIdle.pc = "idle"
  BY DEF LpeIdle, Lpes, LpeOps, LpePcs, Texts
<1>4. CASE EnsureStarts
  <2>1. UNCHANGED <<conf, draft, registered, asked>>
    BY <1>4 DEF EnsureStarts
  <2>2. AskedInv' /\ ConfType'
    BY <1>1, <1>2, <2>1 DEF AskedInv, ConfType, Fits
  <2>3. CASE conf = Absent
    <3>1. lpe' = LpeIdle
      BY <1>4, <2>3 DEF EnsureStarts
    <3> QED
      BY <1>2, <1>3, <2>1, <2>2, <3>1 DEF LpeType, LpeInv
  <2>4. CASE conf # Absent
    <3>1. lpe' = [LpeIdle EXCEPT !.op = "ensure", !.pc = "fix", !.text = conf]
      BY <1>4, <2>4 DEF EnsureStarts
    <3>2. /\ lpe' \in Lpes /\ lpe'.op = "ensure" /\ lpe'.pc = "fix" /\ lpe'.text = conf
      BY <1>2, <3>1 DEF LpeIdle, Lpes, LpeOps, LpePcs, Texts, ConfType
    <3> QED
      BY <1>2, <2>1, <2>2, <2>4, <3>2 DEF LpeType, LpeInv
  <2> QED
    BY <2>3, <2>4
<1>5. CASE EnsureEnds
  <2>1. UNCHANGED <<conf, draft, registered, asked>> /\ lpe' = LpeIdle
    BY <1>5 DEF EnsureEnds
  <2>2. AskedInv' /\ ConfType'
    BY <1>1, <1>2, <2>1 DEF AskedInv, ConfType, Fits
  <2> QED
    BY <1>2, <1>3, <2>1, <2>2 DEF LpeType, LpeInv
<1>6. ASSUME NEW c \in Sent, ApplyLandscapeConfig(c) PROVE ConfType' /\ LpeType' /\ LpeInv' /\ AskedInv'
  <2>1. UNCHANGED <<conf, draft, registered>> /\ asked' = "none"
    BY <1>6 DEF ApplyLandscapeConfig
  <2>2. AskedInv' /\ ConfType'
    BY <1>2, <2>1 DEF AskedInv, ConfType
  <2>3. CASE c = Absent
    <3>1. lpe' = [LpeIdle EXCEPT !.op = "disable", !.pc = "disable"]
      BY <1>6, <2>3 DEF ApplyLandscapeConfig
    <3>2. lpe' \in Lpes /\ lpe'.op = "disable" /\ lpe'.pc = "disable"
      BY <3>1 DEF LpeIdle, Lpes, LpeOps, LpePcs, Texts
    <3> QED
      BY <2>1, <2>2, <3>2 DEF LpeType, LpeInv, LpeOps
  <2>4. CASE c # Absent
    <3>1. lpe' = [LpeIdle EXCEPT !.op = "enable", !.pc = "fix", !.text = c, !.force = TRUE]
      BY <1>6, <2>4 DEF ApplyLandscapeConfig
    <3>2. /\ lpe' \in Lpes /\ lpe'.op = "enable" /\ lpe'.pc = "fix" /\ lpe'.text = c
          /\ lpe'.force = TRUE
      BY <3>1 DEF LpeIdle, Lpes, LpeOps, LpePcs, Texts, Sent, Given
    <3> QED
      BY <2>1, <2>2, <2>4, <3>2 DEF LpeType, LpeInv, LpeOps
  <2> QED
    BY <2>3, <2>4
<1>7. CASE FixFails \/ WriteFails \/ LandscapeConfigFails
  <2>1. Fails /\ conf' = conf
    BY <1>7 DEF FixFails, WriteFails, LandscapeConfigFails
  <2>2. draft' \in {draft, Absent} /\ registered' \in {registered, conf, Absent}
    BY <1>7 DEF FixFails, WriteFails, LandscapeConfigFails
  <2>3. lpe' \in Lpes /\ lpe'.pc = "failed" /\ asked' = "none"
    BY <1>2, <2>1, EndsBadly
  <2>4. ConfType'
    BY <1>2, <2>1, <2>2 DEF ConfType, Texts
  <2> QED
    BY <2>3, <2>4 DEF LpeType, LpeInv, AskedInv, LpeOps
<1> QED
  BY <1>4, <1>5, <1>6, <1>7

\* The steps of an operation that goes well.
LEMMA LandscapeProgress ==
    ASSUME IInv, Fix \/ Write \/ Chown \/ Rename \/ Register \/ Disable
    PROVE  ConfType' /\ LpeType' /\ LpeInv' /\ AskedInv'
<1>1. name' = name /\ name \in Names
  BY LandscapeRest DEF IInv, Types, HostType
<1>2. ConfType /\ LpeType /\ LpeInv /\ AskedInv /\ lpe \in Lpes
  BY DEF IInv, Types, LpeType
<1>3. CASE Fix
  <2>1. DistroName = name
    BY DEF IInv, CacheInv, DistroName
  <2>2. /\ lpe.pc = "fix" /\ lpe.text # Partial /\ UNCHANGED <<conf, draft, registered>>
        /\ \/ /\ lpe.force = FALSE /\ Normalize(lpe.text, name) = lpe.text /\ Done
           \/ /\ lpe' = [lpe EXCEPT !.pc = "write", !.text = Normalize(lpe.text, name)]
              /\ asked' = "none"
    <3>1. lpe.force \in BOOLEAN
      BY <1>2 DEF Lpes
    <3>2. IF ~lpe.force /\ Normalize(lpe.text, name) = lpe.text THEN Done
          ELSE lpe' = [lpe EXCEPT !.pc = "write", !.text = Normalize(lpe.text, name)] /\ asked' = "none"
      BY <1>3, <2>1 DEF Fix
    <3>3. lpe.pc = "fix" /\ lpe.text # Partial /\ UNCHANGED <<conf, draft, registered>>
      BY <1>3 DEF Fix
    <3> QED
      BY <3>1, <3>2, <3>3
  <2>3. lpe.text \in Confs
    BY <1>2, <2>2 DEF LpeInv, Lpes, Texts
  <2>4. ConfType'
    BY <1>2, <2>2 DEF ConfType
  <2>5. PICK c \in Confs : c = lpe.text
    BY <2>3
  <2>6. /\ Normalize(lpe.text, name) \in Confs
        /\ Normalize(lpe.text, name).title = name /\ Normalize(lpe.text, name).cert # "windows"
    <3>1. PICK n \in Names : n = name
      BY <1>1
    <3> QED
      BY <2>5, <3>1, NormalizeFits
  <2>7. CASE lpe.force = FALSE /\ Normalize(lpe.text, name) = lpe.text /\ Done
    <3>1. lpe.op = "ensure" /\ lpe.text = conf
      BY <1>2, <2>2, <2>7 DEF LpeInv
    <3>2. Fits
      BY <2>6, <2>7, <3>1 DEF Fits
    <3>3. lpe' \in Lpes /\ lpe'.pc = "idle" /\ asked' \in LpeOps /\ (asked' = "ensure" \/ asked' = asked)
      BY <1>2, <2>7, <3>1, EndsWell
    <3>4. Fits'
      BY <1>1, <2>2, <3>2 DEF Fits
    <3> QED
      BY <1>2, <2>2, <2>4, <3>3, <3>4 DEF LpeType, LpeInv, AskedInv
  <2>8. CASE /\ lpe' = [lpe EXCEPT !.pc = "write", !.text = Normalize(lpe.text, name)]
             /\ asked' = "none"
    <3>1. /\ lpe' \in Lpes /\ lpe'.op = lpe.op /\ lpe'.pc = "write"
          /\ lpe'.text = Normalize(lpe.text, name)
      BY <1>2, <2>6, <2>8 DEF Lpes, LpePcs, Texts
    <3>2. lpe.op \in {"ensure", "enable"}
      BY <1>2, <2>2 DEF LpeInv
    <3> QED
      BY <1>1, <2>4, <2>6, <2>8, <3>1, <3>2 DEF LpeType, LpeInv, AskedInv, LpeOps
  <2> QED
    BY <2>2, <2>7, <2>8
<1>4. CASE Write
  <2>1. lpe.pc = "write" /\ asked = "none" /\ lpe.text \in Confs
    BY <1>2, <1>4 DEF Write, LpeInv
  <2>2. UNCHANGED <<conf, registered, asked>>
    BY <1>4 DEF Write
  <2>3. \/ draft' = lpe.text /\ lpe' = [lpe EXCEPT !.pc = "chown"]
        \/ draft' = Partial /\ lpe' = lpe
    BY <1>4 DEF Write
  <2>4. ConfType'
    BY <1>2, <2>1, <2>2, <2>3 DEF ConfType, Texts
  <2>5. /\ lpe' \in Lpes /\ lpe'.op = lpe.op /\ lpe'.text = lpe.text
        /\ lpe'.pc = "write" \/ (lpe'.pc = "chown" /\ draft' = lpe.text)
    BY <1>2, <2>1, <2>3 DEF Lpes, LpePcs
  <2>6. AskedInv'
    BY <2>1, <2>2 DEF AskedInv
  <2> QED
    BY <1>1, <1>2, <2>1, <2>2, <2>4, <2>5, <2>6 DEF LpeType, LpeInv
<1>5. CASE Chown
  <2>1. lpe.pc = "chown" /\ UNCHANGED <<conf, draft, registered, asked>> /\ lpe' = [lpe EXCEPT !.pc = "rename"]
    BY <1>5 DEF Chown
  <2>2. lpe' \in Lpes /\ lpe'.op = lpe.op /\ lpe'.text = lpe.text /\ lpe'.pc = "rename"
    BY <1>2, <2>1 DEF Lpes, LpePcs
  <2>3. ConfType' /\ AskedInv'
    BY <1>1, <1>2, <2>1 DEF ConfType, AskedInv, Fits
  <2> QED
    BY <1>1, <1>2, <2>1, <2>2, <2>3 DEF LpeType, LpeInv
<1>6. CASE Rename
  <2>1. /\ lpe.pc = "rename" /\ UNCHANGED <<registered, asked>> /\ conf' = draft /\ draft' = Absent
        /\ lpe' = [lpe EXCEPT !.pc = "register"]
    BY <1>6 DEF Rename
  <2>2. lpe' \in Lpes /\ lpe'.op = lpe.op /\ lpe'.pc = "register"
    BY <1>2, <2>1 DEF Lpes, LpePcs
  <2>3. Fits' /\ asked = "none"
    BY <1>1, <1>2, <2>1 DEF LpeInv, Fits
  <2>4. ConfType'
    BY <1>2, <2>1 DEF ConfType, Texts
  <2> QED
    BY <1>2, <2>1, <2>2, <2>3, <2>4 DEF LpeType, LpeInv, AskedInv
<1>7. CASE Register
  <2>1. lpe.pc = "register" /\ Done /\ registered' = conf /\ UNCHANGED <<conf, draft>>
    BY <1>7 DEF Register
  <2>2. lpe.op \in {"ensure", "enable"} /\ Fits /\ asked = "none"
    BY <1>2, <2>1 DEF LpeInv
  <2>3. lpe' \in Lpes /\ lpe'.pc = "idle" /\ asked' \in {"ensure", "enable", "none"}
    BY <1>2, <2>1, <2>2, EndsWell
  <2>4. Fits' /\ registered' = conf' /\ ConfType'
    BY <1>1, <1>2, <2>1, <2>2 DEF Fits, ConfType
  <2> QED
    BY <2>3, <2>4 DEF LpeType, LpeInv, AskedInv, LpeOps
<1>8. CASE Disable
  <2>1. lpe.pc = "disable" /\ Done /\ registered' = Absent /\ UNCHANGED <<conf, draft>>
    BY <1>8 DEF Disable
  <2>2. lpe.op = "disable"
    BY <1>2, <2>1 DEF LpeInv
  <2>3. lpe' \in Lpes /\ lpe'.pc = "idle" /\ asked' = "disable"
    BY <1>2, <2>1, <2>2, EndsWell
  <2>4. ConfType'
    BY <1>2, <2>1 DEF ConfType, Texts
  <2> QED
    BY <2>1, <2>3, <2>4 DEF LpeType, LpeInv, AskedInv, LpeOps
<1> QED
  BY <1>3, <1>4, <1>5, <1>6, <1>7, <1>8

-----------------------------------------------------------------------------
LEMMA InitIInv == Init => IInv
<1> SUFFICES ASSUME Init PROVE IInv
  OBVIOUS
<1>1. /\ name \in Names /\ cache = "" /\ service = "off" /\ dialled = Nowhere
      /\ conf \in {Absent} \cup Given /\ draft = Absent /\ registered = Absent /\ attached = ""
      /\ lpe = LpeIdle /\ pro = ProIdle /\ asked = "none" /\ paid = "unknown"
  BY DEF Init
<1>2. LpeIdle \in Lpes /\ LpeIdle.pc = "idle" /\ ProIdle \in Pros
  BY DEF LpeIdle, Lpes, LpeOps, LpePcs, Texts, ProIdle, Pros
<1>3. HostType /\ LpeType /\ ProType
  BY <1>1, <1>2 DEF HostType, LpeType, ProType, LpeOps
<1>4. ConfType
  BY <1>1 DEF ConfType, Texts, Given
<1>5. CountType
  <2>1. ops = [k \in {"lpe", "pro"} |-> 0] /\ faults = 0 /\ MaxOps \in Nat /\ MaxFaults \in Nat
    BY SystemAssumption DEF Init
  <2>2. 0 \in 0 .. MaxOps /\ 0 \in 0 .. MaxFaults
    BY <2>1
  <2> QED
    BY <2>1, <2>2 DEF CountType
<1>6. CacheInv /\ LpeInv /\ AskedInv /\ PaidInv /\ AddressIsRight
  BY <1>1, <1>2 DEF CacheInv, LpeInv, AskedInv, PaidInv, AddressIsRight
<1> QED
  BY <1>3, <1>4, <1>5, <1>6 DEF IInv, Types

LEMMA NextIInv == IInv /\ [Next]_vars => IInv'
<1> SUFFICES ASSUME IInv, [Next]_vars PROVE IInv'
  OBVIOUS
<1>1. CASE \/ EnsureStarts \/ EnsureEnds \/ (\E c \in Sent : ApplyLandscapeConfig(c))
           \/ Fix \/ FixFails \/ Write \/ Chown \/ Rename \/ WriteFails
           \/ Register \/ Disable \/ LandscapeConfigFails
  <2>1. CacheInv' /\ PaidInv' /\ AddressIsRight' /\ HostType' /\ ProType' /\ CountType'
    BY <1>1, LandscapeRest
  <2>2. ConfType' /\ LpeType' /\ LpeInv' /\ AskedInv'
    BY <1>1, LandscapeEdges, LandscapeProgress
  <2> QED
    BY <2>1, <2>2 DEF IInv, Types
<1>2. CASE \/ \E t \in Tokens \cup {""} : ApplyProToken(t)
           \/ ProDetach \/ ProDetachFails \/ ProAttach \/ ProAttachFails
  BY <1>2, ProSteps
<1>3. CASE \/ \E mode \in Modes, g \in Addresses, p \in {-1, 0, 1} :
                \E table \in Tables(g) : Dial(mode, table, g, p)
           \/ Serving
  BY <1>3, DialSteps
<1>4. CASE Crash
  BY <1>4, CrashStep
<1>5. CASE UNCHANGED vars
  <2>1. UNCHANGED <<name, cache, conf, draft, registered, lpe, asked, attached, pro, paid, dialled, service,
                    ops, faults>>
    BY <1>5 DEF vars
  <2>2. CacheInv' /\ LpeInv' /\ AskedInv' /\ PaidInv' /\ AddressIsRight'
    BY <2>1, LandscapeFrame, ProFrame, AddressFrame
  <2>3. Types'
    BY <2>1 DEF IInv, Types, HostType, ConfType, LpeType, ProType, CountType
  <2> QED
    BY <2>2, <2>3 DEF IInv
<1> QED
  BY <1>1, <1>2, <1>3, <1>4, <1>5 DEF Next

LEMMA Invariance == Spec => []IInv
BY InitIInv, NextIInv, PTL DEF Spec

\* The service's files, operations and counters stay within their types.
THEOREM TypesAreKept == Spec => []TypeOK
<1>1. IInv => TypeOK
  BY TypeParts DEF IInv
<1> QED
  BY Invariance, <1>1, PTL

\* What a Landscape command reported as done is in force whenever the service is idle:
\* registered with the client.conf that fits the distro, or disabled, over restarts too.
THEOREM AnswersAreInForce == Spec => []AnswerIsInForce
<1>1. IInv => AnswerIsInForce
  BY DEF IInv, AskedInv, AnswerIsInForce
<1> QED
  BY Invariance, <1>1, PTL

\* EnsureValidLandscapeConfig leaves a client.conf that fits the distro, whoever wrote it
\* and whatever was interrupted before.
THEOREM ConfigsFitTheDistro == Spec => []ConfigFitsDistro
<1>1. IInv => ConfigFitsDistro
  BY DEF IInv, AskedInv, ConfigFitsDistro
<1> QED
  BY Invariance, <1>1, PTL

\* What ApplyProToken reported as done is so.
THEOREM TokensAreInForce == Spec => []TokenIsInForce
<1>1. IInv => TokenIsInForce
  BY DEF IInv, PaidInv, TokenIsInForce
<1> QED
  BY Invariance, <1>1, PTL

\* The daemon dials the gateway that the kernel's routing table encodes, or the loopback.
THEOREM AddressesAreRight == Spec => []AddressIsRight
<1>1. IInv => AddressIsRight
  BY DEF IInv
<1> QED
  BY Invariance, <1>1, PTL
==============================================================================
