--------------------------- MODULE DeviceAgentsProofs ---------------------------
(***************************************************************************)
(* Proofs about DeviceAgents, for any number of machines, employees,       *)
(* tokens, keys, commands and calls under way. Whatever calls interleave   *)
(* and wherever the process dies: the types, and that a revoked device     *)
(* stays revoked but for a registration that knew it. With one call at a   *)
(* time: that only the key in force lets a device in, and that an          *)
(* employee has one primary device.                                        *)
(***************************************************************************)
EXTENDS DeviceAgents, FiniteSetTheorems, TLAPS

\* The stages of a registration, and those of its new device.
EnrolPc == {"count", "row", "inc"}
RegisterPc == {"device", "create", "save"} \cup EnrolPc

\* What a call knows, whatever the others do meanwhile: an employee's key names
\* the employee, the device it saves is known, and it neither re-activates a
\* device it found revoked for nobody, nor one it found active.
CallKnows(c) ==
  /\ c.pc \in RegisterPc /\ c.r.k # 0 => c.r.e # None
  /\ c.pc \in EnrolPc => c.r.e # None
  /\ c.pc = "save" => /\ device[c.r.d].known /\ c.seen.known
                      /\ c.seen.status = "revoked" => c.r.e # None
  /\ c.pc \in {"heartbeat", "leave"} =>
       device[c.d].known /\ c.seen.known /\ c.seen.status = "active"
Unseen(d) == ~device[d].known => device[d].status = "active" /\ device[d].employee = None
KnownInv ==
  /\ TypeOK
  /\ \A d \in Devices : Unseen(d)
  /\ \A h \in Handlers : CallKnows(call[h])

\* What a call that is served alone knows besides: the device is as it found it,
\* its employee's key is in force, and the tokens an old key was worth are cut.
InForce(e, k) == credential[e].status = "active" /\ credential[e].key = k
Current(c) ==
  /\ c.pc = "save" => c.seen = device[c.r.d]
  /\ c.pc \in {"heartbeat", "leave"} => c.seen = device[c.d]
  /\ c.pc \in RegisterPc /\ c.r.k # 0 => InForce(c.r.e, c.r.k)
  /\ c.pc \in EnrolPc => proof[c.r.d] = ProofOf(c.r)
  /\ c.pc = "store" /\ c.first => credential[c.e].status = "none"
  /\ c.pc = "store" /\ ~c.first =>
       \A d \in Devices : device[d].employee = c.e /\ device[d].status # "revoked" => device[d].token = 0
Proven(d) == proof[d] # None => device[d].employee = proof[d][1]
Backed(d) ==
  Authenticated(d) /\ proof[d] # None =>
    \/ InForce(proof[d][1], proof[d][2])
    \/ \E h \in Handlers : At(h, "cut") /\ call[h].e = proof[d][1]
AllBacked == \A d \in Devices : Proven(d) /\ Backed(d)
AllCurrent == \A h \in Handlers : Current(call[h])
BackedInv ==
  /\ KnownInv
  /\ IsSerial /\ crashes = 0 => AllBacked /\ AllCurrent

\* One call at a time: a device without an agent document has no row, nor has
\* the one being enrolled, which is an employee's first if the call found it so.
RowsAreKnown == \A d \in Devices : ~device[d].known => \A e \in Employees : row[e][d] = "none"
HasNone(e) == \A d \in Devices : row[e][d] = "none"
HasPrimary(e) == \E p \in Devices : {d \in Devices : row[e][d] = "primary"} = {p}
Enrolling(c) ==
  /\ c.pc \in {"count", "row"} => device[c.r.d].known /\ row[c.r.e][c.r.d] = "none"
  /\ c.pc = "row" => (c.first <=> HasNone(c.r.e))
OneEach ==
  /\ RowsAreKnown
  /\ \A e \in Employees : HasNone(e) \/ HasPrimary(e)
  /\ \A h \in Handlers : Enrolling(call[h])
PrimaryInv == KnownInv /\ (IsSerial => OneEach)

-----------------------------------------------------------------------------
(* Calls and documents.                                                      *)

LEMMA Shapes ==
  ASSUME NEW c \in Call
  PROVE  /\ c.pc \in {"device", "create", "count", "inc"} => c.r \in Registration
         /\ c.pc = "save" => c.r \in Registration /\ c.seen \in DeviceAgent
         /\ c.pc = "row" => c.r \in Registration /\ c.first \in BOOLEAN
         /\ c.pc \in {"rotate", "cut", "zero", "store"} => c.e \in Employees
         /\ c.pc = "store" => c.first \in BOOLEAN
         /\ c.pc \in {"heartbeat", "leave"} => c.d \in Devices /\ c.seen \in DeviceAgent
         /\ c.pc \in {"expire", "list"} => c.d \in Devices
         /\ c.pc \in {"upload", "finish"} => c.c \in Commands
         /\ c.pc = "finish" => c.to \in {"completed", "failed"}
         /\ c.pc = "order" => c.todo \in SUBSET Devices
BY DEF Call, OffCall, IdleCall

LEMMA RegistersOf ==
  ASSUME NEW c \in Call, c.pc \in RegisterPc
  PROVE  c.r \in Registration
BY Shapes DEF RegisterPc, EnrolPc

LEMMA IdleKnows == IdleCall \in Call /\ OffCall \in Call /\ CallKnows(IdleCall) /\ CallKnows(OffCall)
BY DEF Call, IdleCall, OffCall, CallKnows, RegisterPc, EnrolPc

LEMMA IdleKnowsNext == CallKnows(IdleCall)' /\ CallKnows(OffCall)'
BY DEF IdleCall, OffCall, CallKnows, RegisterPc, EnrolPc

\* A save writes what the call changed, field by field.
LEMMA SavedAgent ==
  ASSUME NEW stored \in DeviceAgent, NEW seen \in DeviceAgent, NEW doc \in DeviceAgent
  PROVE  /\ Saved(stored, seen, doc) \in DeviceAgent
         /\ \A f \in {"known", "status", "employee", "token"} :
              Saved(stored, seen, doc)[f] = IF doc[f] = seen[f] THEN stored[f] ELSE doc[f]
<1> DEFINE s == Saved(stored, seen, doc)
           at(f) == IF doc[f] = seen[f] THEN stored[f] ELSE doc[f]
<1>1. DOMAIN stored = {"known", "status", "employee", "token"}
  BY DEF DeviceAgent
<1>2. s = [f \in {"known", "status", "employee", "token"} |-> at(f)]
  BY <1>1 DEF Saved
<1>3. /\ at("known") \in BOOLEAN /\ at("status") \in {"active", "revoked"}
      /\ at("employee") \in MaybeEmployee /\ at("token") \in 0..MaxTokens
  BY DEF DeviceAgent
<1>4. s = [known |-> at("known"), status |-> at("status"), employee |-> at("employee"),
           token |-> at("token")]
  <2> HIDE DEF at, s
  <2> QED BY <1>2
<1>5. s \in DeviceAgent
  <2> HIDE DEF at, s
  <2> QED BY <1>3, <1>4 DEF DeviceAgent
<1>6. \A f \in {"known", "status", "employee", "token"} : s[f] = at(f)
  <2> HIDE DEF at, s
  <2> QED BY <1>2
<1> QED BY <1>5, <1>6

-----------------------------------------------------------------------------
(* The types, and what calls know whatever overlaps.                         *)

Monotone == \A d \in Devices : device[d].known => device'[d].known
OthersStay(h) == \A g \in Handlers : g # h => call'[g] = call[g]
CallsKnow == call \in [Handlers -> Call] /\ \A h \in Handlers : CallKnows(call[h])
DevicesKnow == device \in [Devices -> DeviceAgent] /\ \A d \in Devices : Unseen(d)

LEMMA KnowsOn ==
  ASSUME NEW c \in Call, CallKnows(c), Monotone
  PROVE  CallKnows(c)'
<1>1. c.pc = "save" => c.r.d \in Devices
  BY RegistersOf DEF RegisterPc, Registration
<1>2. c.pc \in {"heartbeat", "leave"} => c.d \in Devices
  BY Shapes
<1> QED BY <1>1, <1>2 DEF CallKnows, Monotone

LEMMA GoesTo ==
  ASSUME CallsKnow, Monotone, NEW h \in Handlers, NEW c \in Call, CallKnows(c)', Goto(h, c)
  PROVE  CallsKnow' /\ call'[h] = c /\ OthersStay(h)
<1>1. /\ call' \in [Handlers -> Call] /\ call'[h] = c
      /\ \A g \in Handlers : g # h => call'[g] = call[g]
  BY DEF CallsKnow, Goto
<1>2. ASSUME NEW g \in Handlers PROVE CallKnows(call[g])'
  <2>1. CASE g = h
    BY <1>1, <2>1 DEF CallKnows
  <2>2. CASE g # h
    <3>1. CallKnows(call[g]) /\ call[g] \in Call
      BY DEF CallsKnow
    <3>2. call'[g] = call[g]
      BY <1>1, <2>2
    <3>3. PICK q : q = call[g]
      OBVIOUS
    <3>4. CallKnows(q)'
      BY <3>1, <3>3, KnowsOn
    <3> QED BY <3>2, <3>3, <3>4 DEF CallKnows
  <2> QED BY <2>1, <2>2
<1> QED BY <1>1, <1>2 DEF CallsKnow, OthersStay

\* A call that only looks, and what it goes on with.
Looks(h) ==
  /\ UNCHANGED <<docs, held, proof, shown, issued, crashes>>
  /\ \E c \in Call : CallKnows(c) /\ Goto(h, c)

LEMMA RegistrationLooks ==
  ASSUME KnownInv, NEW h \in Handlers, NEW d \in Devices,
         \/ \E e \in Employees : ResolveEmployeeCredential(h, d, e)
         \/ \E e \in MaybeEmployee : VerifyCompanyKey(h, d, e)
  PROVE  Looks(h)
<1>1. ASSUME NEW e \in MaybeEmployee, NEW k \in 0..MaxKeys, k # 0 => e # None,
             Register(h, "device", [d |-> d, e |-> e, k |-> k, t |-> 0])
      PROVE  \E c \in Call : CallKnows(c) /\ Goto(h, c)
  <2>1. PICK r : r = [d |-> d, e |-> e, k |-> k, t |-> 0]
    OBVIOUS
  <2>2. PICK c : c = [pc |-> "device", r |-> r]
    OBVIOUS
  <2>3. r \in Registration
    BY <2>1, BoundsAssumption DEF Registration
  <2>4. c \in Call /\ c.pc = "device" /\ c.r = r
    BY <2>2, <2>3 DEF Call
  <2>5. CallKnows(c)
    BY <1>1, <2>1, <2>4 DEF CallKnows, EnrolPc
  <2> QED BY <1>1, <2>1, <2>2, <2>4, <2>5 DEF Register
<1>2. ASSUME NEW e \in Employees, ResolveEmployeeCredential(h, d, e) PROVE Looks(h)
  <2>1. credential[e].key \in 0..MaxKeys
    BY DEF KnownInv, TypeOK, Credential
  <2>2. e \in MaybeEmployee /\ e # None
    BY NoneAssumption DEF MaybeEmployee
  <2> QED BY <1>1, <1>2, <2>1, <2>2 DEF ResolveEmployeeCredential, Looks
<1>3. ASSUME NEW e \in MaybeEmployee, VerifyCompanyKey(h, d, e) PROVE Looks(h)
  <2>1. 0 \in 0..MaxKeys
    BY BoundsAssumption
  <2> QED BY <1>1, <1>3, <2>1 DEF VerifyCompanyKey, Looks
<1> QED BY <1>2, <1>3

LEMMA FindAgentLooks ==
  ASSUME KnownInv, NEW h \in Handlers, FindAgent(h)
  PROVE  Looks(h)
<1> DEFINE r == call[h].r
<1>1. /\ call[h] \in Call /\ call[h].pc = "device" /\ CallKnows(call[h])
      /\ UNCHANGED <<docs, held, proof, shown, issued, crashes>>
  BY DEF FindAgent, At, KnownInv, TypeOK
<1>2. r \in Registration /\ (r.k # 0 => r.e # None)
  BY <1>1, Shapes DEF CallKnows, RegisterPc
<1>3. device[r.d] \in DeviceAgent
  BY <1>2 DEF Registration, KnownInv, TypeOK
<1>4. CASE Register(h, "create", r)
  <2>1. PICK c : c = [pc |-> "create", r |-> r]
    OBVIOUS
  <2>2. c \in Call /\ c.pc = "create" /\ c.r = r
    BY <1>2, <2>1 DEF Call
  <2>3. CallKnows(c)
    BY <1>2, <2>2 DEF CallKnows, EnrolPc
  <2> QED BY <1>1, <1>4, <2>1, <2>2, <2>3 DEF Register, Looks
<1>5. CASE Answer(h)
  BY <1>1, <1>5, IdleKnows DEF Answer, Looks
<1>6. CASE /\ device[r.d].known /\ ~(device[r.d].status = "revoked" /\ r.e = None)
           /\ Goto(h, [pc |-> "save", r |-> r, seen |-> device[r.d]])
  <2>1. PICK c : c = [pc |-> "save", r |-> r, seen |-> device[r.d]]
    OBVIOUS
  <2>2. c \in Call /\ c.pc = "save" /\ c.r = r /\ c.seen = device[r.d]
    BY <1>2, <1>3, <2>1 DEF Call
  <2>3. CallKnows(c)
    BY <1>2, <1>6, <2>2 DEF CallKnows, EnrolPc
  <2> QED BY <1>1, <1>6, <2>1, <2>2, <2>3 DEF Looks
<1> QED BY <1>4, <1>5, <1>6 DEF FindAgent

LEMMA CountDevicesLooks ==
  ASSUME KnownInv, NEW h \in Handlers, CountDevices(h)
  PROVE  Looks(h)
<1> DEFINE r == call[h].r
           first == \A d \in Devices : row[r.e][d] = "none"
<1>1. /\ call[h] \in Call /\ call[h].pc = "count" /\ CallKnows(call[h])
      /\ UNCHANGED <<docs, held, proof, shown, issued, crashes>>
  BY DEF CountDevices, At, KnownInv, TypeOK
<1>2. r \in Registration /\ r.e # None
  BY <1>1, Shapes DEF CallKnows, EnrolPc
<1>3. first \in BOOLEAN
  OBVIOUS
<1>4. PICK c : c = [pc |-> "row", r |-> r, first |-> first]
  OBVIOUS
<1>5. Goto(h, c)
  BY <1>4 DEF CountDevices
<1> HIDE DEF first
<1>6. c \in Call /\ c.pc = "row" /\ c.r = r
  BY <1>2, <1>3, <1>4 DEF Call
<1>7. CallKnows(c)
  BY <1>2, <1>6 DEF CallKnows
<1> QED BY <1>1, <1>5, <1>6, <1>7 DEF Looks

LEMMA AgentLooks ==
  ASSUME KnownInv, NEW h \in Handlers, NEW d \in Devices,
         \/ AgentHeartbeat(h, d) \/ AgentLeave(h, d) \/ AgentConfig(h, d)
         \/ AgentUpload(h, d) \/ AgentCompletes(h, d)
  PROVE  Looks(h)
<1>1. device[d] \in DeviceAgent /\ shown \subseteq Commands
  BY DEF KnownInv, TypeOK
<1>2. ASSUME NEW pc \in {"heartbeat", "leave"},
             AgentCall(h, d, [pc |-> pc, d |-> d, seen |-> device[d]])
      PROVE  Looks(h)
  <2>1. PICK c : c = [pc |-> pc, d |-> d, seen |-> device[d]]
    OBVIOUS
  <2>2. c \in Call /\ c.pc = pc /\ c.d = d /\ c.seen = device[d]
    BY <1>1, <2>1 DEF Call
  <2>3. CallKnows(c)
    BY <1>2, <2>2 DEF CallKnows, AgentCall, Authenticated, RegisterPc, EnrolPc
  <2> QED BY <1>2, <2>1, <2>2, <2>3 DEF AgentCall, Looks
<1>3. ASSUME NEW c \in Call, c.pc \in {"expire", "upload", "finish"}, AgentCall(h, d, c) PROVE Looks(h)
  BY <1>3 DEF CallKnows, RegisterPc, EnrolPc, AgentCall, Looks
<1>4. \A c \in Commands : \A to \in {"completed", "failed"} :
        [pc |-> "upload", c |-> c] \in Call /\ [pc |-> "finish", c |-> c, to |-> to] \in Call
  BY DEF Call
<1>5. [pc |-> "expire", d |-> d] \in Call
  BY DEF Call
<1>6. CASE AgentHeartbeat(h, d) \/ AgentLeave(h, d)
  BY <1>2, <1>6 DEF AgentHeartbeat, AgentLeave
<1>7. CASE AgentConfig(h, d)
  BY <1>3, <1>5, <1>7 DEF AgentConfig
<1>8. CASE AgentUpload(h, d)
  <2>1. PICK c \in Commands : AgentCall(h, d, [pc |-> "upload", c |-> c])
    BY <1>1, <1>8 DEF AgentUpload
  <2> QED BY <1>3, <1>4, <2>1
<1>9. CASE AgentCompletes(h, d)
  <2>1. PICK c \in Commands, to \in {"completed", "failed"} :
          AgentCall(h, d, [pc |-> "finish", c |-> c, to |-> to])
    BY <1>1, <1>9 DEF AgentCompletes
  <2> QED BY <1>3, <1>4, <2>1
<1> QED BY <1>6, <1>7, <1>8, <1>9

LEMMA OtherLooks ==
  ASSUME KnownInv, NEW h \in Handlers,
         \/ UploadScreenshot(h)
         \/ \E e \in Employees : CreateEmployeeCredential(h, e) \/ QueueOpenWorkspace(h, e)
         \/ \E d \in Devices : RequestCommand(h, d)
  PROVE  Looks(h)
<1>1. ASSUME NEW c \in Call, c.pc \in {"finish", "store", "rotate", "order"}, Goto(h, c),
             UNCHANGED <<docs, held, proof, shown, issued, crashes>>
      PROVE  Looks(h)
  BY <1>1 DEF CallKnows, RegisterPc, EnrolPc, Looks
<1>2. CASE UploadScreenshot(h)
  <2>1. call[h].c \in Commands
    BY <1>2, Shapes DEF UploadScreenshot, At, KnownInv, TypeOK
  <2>2. [pc |-> "finish", c |-> call[h].c, to |-> "completed"] \in Call
    BY <2>1 DEF Call
  <2> QED BY <1>1, <1>2, <2>2 DEF UploadScreenshot
<1>3. ASSUME NEW e \in Employees, CreateEmployeeCredential(h, e) PROVE Looks(h)
  <2>1. [pc |-> "store", e |-> e, first |-> TRUE] \in Call /\ [pc |-> "rotate", e |-> e] \in Call
    BY DEF Call
  <2> QED BY <1>1, <1>3, <2>1 DEF CreateEmployeeCredential
<1>4. ASSUME NEW todo \in SUBSET Devices, Goto(h, [pc |-> "order", todo |-> todo]),
             UNCHANGED <<docs, held, proof, shown, issued, crashes>>
      PROVE  Looks(h)
  <2>1. [pc |-> "order", todo |-> todo] \in Call
    BY DEF Call
  <2> QED BY <1>1, <1>4, <2>1
<1>5. ASSUME NEW e \in Employees, QueueOpenWorkspace(h, e) PROVE Looks(h)
  <2> DEFINE todo == {d \in Devices : device[d].employee = e /\ device[d].status # "revoked"}
  <2>1. todo \in SUBSET Devices /\ Goto(h, [pc |-> "order", todo |-> todo])
    BY <1>5 DEF QueueOpenWorkspace
  <2> HIDE DEF todo
  <2> QED BY <1>4, <1>5, <2>1 DEF QueueOpenWorkspace
<1>6. ASSUME NEW d \in Devices, RequestCommand(h, d) PROVE Looks(h)
  BY <1>4, <1>6 DEF RequestCommand
<1> QED BY <1>2, <1>3, <1>5, <1>6

LEMMA LooksKnown ==
  ASSUME KnownInv, NEW h \in Handlers, Looks(h)
  PROVE  KnownInv' /\ OthersStay(h)
<1>1. PICK c \in Call : CallKnows(c) /\ Goto(h, c)
  BY DEF Looks
<1>2. UNCHANGED <<docs, held, proof, shown, issued, crashes>>
  BY DEF Looks
<1>3. Monotone /\ UNCHANGED device
  BY <1>2 DEF Monotone, docs
<1>4. CallKnows(c)'
  BY <1>1, <1>3 DEF CallKnows
<1>5. CallsKnow' /\ OthersStay(h)
  BY <1>1, <1>3, <1>4, GoesTo DEF KnownInv, TypeOK, CallsKnow
<1> QED BY <1>2, <1>5 DEF KnownInv, TypeOK, CallsKnow, docs, Unseen

-----------------------------------------------------------------------------
(* What writes.                                                              *)

RestTyped ==
  /\ enabled \in BOOLEAN
  /\ held \in [Devices -> 0..MaxTokens]
  /\ proof \in [Devices -> (Employees \X (1..MaxKeys)) \cup {None}]
  /\ row \in [Employees -> [Devices -> {"none", "primary", "other"}]]
  /\ credential \in [Employees -> Credential]
  /\ command \in [Commands -> MonitorCommand]
  /\ shown \subseteq Commands
  /\ issued \in 0..MaxTokens
  /\ crashes \in 0..MaxCrashes

LEMMA Parts == KnownInv <=> RestTyped /\ DevicesKnow /\ CallsKnow
BY DEF KnownInv, TypeOK, RestTyped, DevicesKnow, CallsKnow

LEMMA CallOf ==
  ASSUME KnownInv, NEW h \in Handlers
  PROVE  call[h] \in Call /\ CallKnows(call[h])
BY DEF KnownInv, TypeOK

LEMMA WritesKnown ==
  ASSUME KnownInv, NEW h \in Handlers, NEW c \in Call, CallKnows(c)', Goto(h, c),
         Monotone, DevicesKnow', RestTyped'
  PROVE  KnownInv' /\ call'[h] = c /\ OthersStay(h)
<1>1. CallsKnow
  BY Parts
<1>2. CallsKnow' /\ call'[h] = c /\ OthersStay(h)
  BY <1>1, GoesTo
<1>3. KnownInv'
  BY <1>2 DEF KnownInv, TypeOK, RestTyped, DevicesKnow, CallsKnow
<1> QED BY <1>2, <1>3

LEMMA DevicesStay ==
  ASSUME KnownInv, UNCHANGED device
  PROVE  DevicesKnow' /\ Monotone
BY DEF KnownInv, TypeOK, DevicesKnow, Monotone, Unseen

LEMMA DeviceWritten ==
  ASSUME KnownInv, NEW d \in Devices, NEW a \in DeviceAgent, a.known,
         device' = [device EXCEPT ![d] = a]
  PROVE  /\ DevicesKnow' /\ Monotone
         /\ device'[d] = a /\ \A x \in Devices : x # d => device'[x] = device[x]
<1>1. /\ device' \in [Devices -> DeviceAgent] /\ device'[d] = a
      /\ \A x \in Devices : x # d => device'[x] = device[x]
  BY DEF KnownInv, TypeOK
<1>2. ASSUME NEW x \in Devices PROVE Unseen(x)' /\ (device[x].known => device'[x].known)
  <2>1. CASE x = d
    BY <1>1, <2>1 DEF Unseen
  <2>2. CASE x # d
    BY <1>1, <2>2 DEF KnownInv, Unseen
  <2> QED BY <2>1, <2>2
<1> QED BY <1>1, <1>2 DEF DevicesKnow, Monotone

\* A write to all devices of an employee leaves the unknown ones, which are nobody's.
LEMMA DevicesCut ==
  ASSUME KnownInv, device' \in [Devices -> DeviceAgent],
         \A x \in Devices : /\ device'[x].known = device[x].known
                            /\ device'[x].employee = device[x].employee
                            /\ device[x].employee = None => device'[x] = device[x]
  PROVE  DevicesKnow' /\ Monotone
<1>1. \A x \in Devices : Unseen(x)'
  BY DEF KnownInv, Unseen
<1> QED BY <1>1 DEF DevicesKnow, Monotone

LEMMA ProofTyped ==
  ASSUME NEW r \in Registration, r.k # 0 => r.e # None
  PROVE  ProofOf(r) \in (Employees \X (1..MaxKeys)) \cup {None}
<1>1. r.k \in 0..MaxKeys /\ r.e \in MaybeEmployee
  BY DEF Registration
<1>2. CASE r.k # 0
  <2>1. r.k \in 1..MaxKeys /\ r.e \in Employees
    BY <1>1, <1>2, BoundsAssumption DEF MaybeEmployee
  <2> QED BY <1>2, <2>1 DEF ProofOf
<1> QED BY <1>2 DEF ProofOf

\* A saved registration: the device it leaves, and what it leaves alone.
LEMMA SaveAgentWrites ==
  ASSUME KnownInv, NEW h \in Handlers, SaveAgent(h),
         NEW r, r = call[h].r, NEW seen, seen = call[h].seen
  PROVE  \E t \in 1..MaxTokens, a \in DeviceAgent :
           /\ r \in Registration /\ seen \in DeviceAgent
           /\ call[h].pc = "save" /\ CallKnows(call[h])
           /\ t = issued + 1 /\ issued' = t
           /\ a.known
           /\ a.token = IF t = seen.token THEN device[r.d].token ELSE t
           /\ a.status = IF seen.status = "active" THEN device[r.d].status ELSE "active"
           /\ a.employee = IF r.e = None \/ r.e = seen.employee THEN device[r.d].employee ELSE r.e
           /\ device' = [device EXCEPT ![r.d] = a]
           /\ proof' = [proof EXCEPT ![r.d] = ProofOf(r)]
           /\ held' = [held EXCEPT ![r.d] = t]
           /\ Answer(h)
<1>1. call[h] \in Call /\ call[h].pc = "save" /\ CallKnows(call[h])
  BY CallOf DEF SaveAgent, At
<1>2. r \in Registration /\ seen \in DeviceAgent
  BY <1>1, Shapes
<1>3. r.d \in Devices /\ r.e \in MaybeEmployee /\ device[r.d] \in DeviceAgent
  BY <1>2 DEF Registration, KnownInv, TypeOK
<1>4. device[r.d].known /\ seen.known
  BY <1>1 DEF CallKnows
<1>5. PICK t \in 1..MaxTokens :
        /\ IssueToken(t)
        /\ device' = [device EXCEPT ![r.d] =
             Saved(@, seen,
                   [seen EXCEPT !.token = t, !.status = "active",
                                !.employee = IF r.e = None THEN @ ELSE r.e])]
        /\ proof' = [proof EXCEPT ![r.d] = ProofOf(r)]
        /\ Registered(h, [r EXCEPT !.t = t])
  BY DEF SaveAgent
<1>6. PICK doc : doc = [seen EXCEPT !.token = t, !.status = "active",
                                    !.employee = IF r.e = None THEN @ ELSE r.e]
  OBVIOUS
<1>7. /\ doc \in DeviceAgent /\ doc.known = seen.known /\ doc.token = t /\ doc.status = "active"
      /\ doc.employee = IF r.e = None THEN seen.employee ELSE r.e
  <2>1. t \in 0..MaxTokens
    BY BoundsAssumption
  <2> QED BY <1>2, <1>3, <1>6, <2>1 DEF DeviceAgent
<1>8. PICK a : a = Saved(device[r.d], seen, doc)
  OBVIOUS
<1>9. /\ a \in DeviceAgent
      /\ a["known"] = IF doc["known"] = seen["known"] THEN device[r.d]["known"] ELSE doc["known"]
      /\ a["status"] = IF doc["status"] = seen["status"] THEN device[r.d]["status"] ELSE doc["status"]
      /\ a["token"] = IF doc["token"] = seen["token"] THEN device[r.d]["token"] ELSE doc["token"]
      /\ a["employee"] =
           IF doc["employee"] = seen["employee"] THEN device[r.d]["employee"] ELSE doc["employee"]
  BY <1>2, <1>3, <1>7, <1>8, SavedAgent
<1>10. /\ a.known
       /\ a.token = IF t = seen.token THEN device[r.d].token ELSE t
       /\ a.status = IF seen.status = "active" THEN device[r.d].status ELSE "active"
       /\ a.employee = IF r.e = None \/ r.e = seen.employee THEN device[r.d].employee ELSE r.e
  BY <1>4, <1>7, <1>9
<1>11. device' = [device EXCEPT ![r.d] = a]
  <2>1. device \in [Devices -> DeviceAgent]
    BY DEF KnownInv, TypeOK
  <2> QED BY <1>3, <1>5, <1>6, <1>8, <2>1
<1>12. held' = [held EXCEPT ![r.d] = t] /\ Answer(h)
  BY <1>2, <1>5 DEF Registered, Registration
<1> QED BY <1>1, <1>2, <1>5, <1>9, <1>10, <1>11, <1>12 DEF IssueToken

LEMMA SaveAgentKnown ==
  ASSUME KnownInv, NEW h \in Handlers, SaveAgent(h)
  PROVE  KnownInv' /\ OthersStay(h)
<1>1. PICK r : r = call[h].r
  OBVIOUS
<1>2. PICK seen : seen = call[h].seen
  OBVIOUS
<1>3. PICK t \in 1..MaxTokens, a \in DeviceAgent :
        /\ r \in Registration /\ call[h].pc = "save" /\ CallKnows(call[h])
        /\ issued' = t
        /\ a.known
        /\ device' = [device EXCEPT ![r.d] = a]
        /\ proof' = [proof EXCEPT ![r.d] = ProofOf(r)]
        /\ held' = [held EXCEPT ![r.d] = t]
        /\ Answer(h)
  BY <1>1, <1>2, SaveAgentWrites
<1>4. r.d \in Devices
  BY <1>3 DEF Registration
<1>5. DevicesKnow' /\ Monotone
  BY <1>3, <1>4, DeviceWritten
<1>6. ProofOf(r) \in (Employees \X (1..MaxKeys)) \cup {None}
  BY <1>1, <1>3, ProofTyped DEF CallKnows, RegisterPc
<1>7. t \in 0..MaxTokens
  BY BoundsAssumption
<1>8. RestTyped'
  BY <1>3, <1>6, <1>7, Parts DEF SaveAgent, RestTyped
<1> QED BY <1>3, <1>5, <1>8, WritesKnown, IdleKnows, IdleKnowsNext DEF Answer

\* A new device, and the two ways a registration goes on.
LEMMA CreateAgentWrites ==
  ASSUME KnownInv, NEW h \in Handlers, CreateAgent(h), NEW r, r = call[h].r
  PROVE  /\ r \in Registration /\ r.d \in Devices /\ call[h].pc = "create" /\ CallKnows(call[h])
         /\ \/ device[r.d].known /\ Answer(h) /\ UNCHANGED <<device, held, proof, issued>>
            \/ \E t \in 1..MaxTokens, a \in DeviceAgent, q \in Registration :
                 /\ ~device[r.d].known
                 /\ t = issued + 1 /\ issued' = t
                 /\ a = [known |-> TRUE, status |-> "active", employee |-> r.e, token |-> t]
                 /\ q = [r EXCEPT !.t = t]
                 /\ device' = [device EXCEPT ![r.d] = a]
                 /\ proof' = [proof EXCEPT ![r.d] = ProofOf(r)]
                 /\ \/ r.e = None /\ Answer(h) /\ held' = [held EXCEPT ![r.d] = t]
                    \/ r.e # None /\ Register(h, "count", q) /\ UNCHANGED held
<1>1. call[h] \in Call /\ call[h].pc = "create" /\ CallKnows(call[h])
  BY CallOf DEF CreateAgent, At
<1>2. r \in Registration
  BY <1>1, Shapes
<1>3. r.d \in Devices /\ r.e \in MaybeEmployee
  BY <1>2 DEF Registration
<1>4. CASE device[r.d].known
  BY <1>1, <1>2, <1>3, <1>4 DEF CreateAgent
<1>5. CASE ~device[r.d].known
  <2>1. PICK t \in 1..MaxTokens :
          /\ IssueToken(t)
          /\ device' = [device EXCEPT ![r.d] =
               [known |-> TRUE, status |-> "active", employee |-> r.e, token |-> t]]
          /\ \/ r.e = None /\ Registered(h, [r EXCEPT !.t = t])
             \/ r.e # None /\ Register(h, "count", [r EXCEPT !.t = t]) /\ UNCHANGED held
    BY <1>5 DEF CreateAgent
  <2>2. proof' = [proof EXCEPT ![r.d] = ProofOf(r)]
    BY <1>5 DEF CreateAgent
  <2>3. t \in 0..MaxTokens
    BY BoundsAssumption
  <2>4. PICK q : q = [r EXCEPT !.t = t]
    OBVIOUS
  <2>5. q \in Registration /\ q.d = r.d /\ q.t = t
    BY <1>2, <2>3, <2>4 DEF Registration
  <2>6. PICK a : a = [known |-> TRUE, status |-> "active", employee |-> r.e, token |-> t]
    OBVIOUS
  <2>7. a \in DeviceAgent
    BY <1>3, <2>3, <2>6 DEF DeviceAgent
  <2>8. \/ r.e = None /\ Answer(h) /\ held' = [held EXCEPT ![r.d] = t]
        \/ r.e # None /\ Register(h, "count", q) /\ UNCHANGED held
    BY <2>1, <2>4, <2>5 DEF Registered
  <2> QED BY <1>1, <1>2, <1>3, <1>5, <2>1, <2>2, <2>4, <2>5, <2>6, <2>7, <2>8 DEF IssueToken
<1> QED BY <1>4, <1>5

LEMMA CreateAgentKnown ==
  ASSUME KnownInv, NEW h \in Handlers, CreateAgent(h)
  PROVE  KnownInv' /\ OthersStay(h)
<1>1. PICK r : r = call[h].r
  OBVIOUS
<1>2. r \in Registration /\ r.d \in Devices /\ call[h].pc = "create" /\ CallKnows(call[h])
  BY <1>1, CreateAgentWrites
<1>3. CASE device[r.d].known /\ Answer(h) /\ UNCHANGED <<device, held, proof, issued>>
  <2>1. RestTyped'
    BY <1>3, Parts DEF CreateAgent, RestTyped
  <2> QED BY <1>3, <2>1, DevicesStay, WritesKnown, IdleKnows, IdleKnowsNext DEF Answer
<1>4. ASSUME NEW t \in 1..MaxTokens, NEW a \in DeviceAgent, NEW q \in Registration,
             /\ issued' = t
             /\ a = [known |-> TRUE, status |-> "active", employee |-> r.e, token |-> t]
             /\ q = [r EXCEPT !.t = t]
             /\ device' = [device EXCEPT ![r.d] = a]
             /\ proof' = [proof EXCEPT ![r.d] = ProofOf(r)]
             /\ \/ r.e = None /\ Answer(h) /\ held' = [held EXCEPT ![r.d] = t]
                \/ r.e # None /\ Register(h, "count", q) /\ UNCHANGED held
      PROVE  KnownInv' /\ OthersStay(h)
  <2>1. a.known
    BY <1>4
  <2>2. DevicesKnow' /\ Monotone
    BY <1>2, <1>4, <2>1, DeviceWritten
  <2>3. ProofOf(r) \in (Employees \X (1..MaxKeys)) \cup {None}
    BY <1>1, <1>2, ProofTyped DEF CallKnows, RegisterPc
  <2>4. t \in 0..MaxTokens
    BY BoundsAssumption
  <2>5. held' \in [Devices -> 0..MaxTokens]
    BY <1>2, <1>4, <2>4, Parts DEF RestTyped
  <2>6. RestTyped'
    BY <1>4, <2>3, <2>4, <2>5, Parts DEF CreateAgent, RestTyped
  <2>7. CASE Answer(h)
    BY <2>2, <2>6, <2>7, WritesKnown, IdleKnows, IdleKnowsNext DEF Answer
  <2>8. CASE r.e # None /\ Register(h, "count", q)
    <3>1. q.e = r.e /\ q.k = r.k
      BY <1>2, <1>4 DEF Registration
    <3>2. PICK c : c = [pc |-> "count", r |-> q]
      OBVIOUS
    <3>3. c \in Call /\ c.pc = "count" /\ c.r = q
      BY <3>2 DEF Call
    <3>4. CallKnows(c)'
      BY <2>8, <3>1, <3>3 DEF CallKnows
    <3>5. Goto(h, c)
      BY <2>8, <3>2 DEF Register
    <3> QED BY <2>2, <2>6, <3>3, <3>4, <3>5, WritesKnown
  <2> QED BY <1>4, <2>7, <2>8
<1> QED BY <1>1, <1>3, <1>4, CreateAgentWrites

LEMMA CreateEmployeeDeviceKnown ==
  ASSUME KnownInv, NEW h \in Handlers, CreateEmployeeDevice(h)
  PROVE  KnownInv' /\ OthersStay(h)
<1>1. PICK r : r = call[h].r
  OBVIOUS
<1>2. call[h] \in Call /\ call[h].pc = "row" /\ CallKnows(call[h])
  BY CallOf DEF CreateEmployeeDevice, At
<1>3. r \in Registration /\ r.d \in Devices /\ r.t \in 0..MaxTokens /\ r.e # None
  BY <1>1, <1>2, Shapes DEF Registration, CallKnows, EnrolPc
<1>4. DevicesKnow' /\ Monotone
  BY DevicesStay DEF CreateEmployeeDevice
<1>5. row' \in [Employees -> [Devices -> {"none", "primary", "other"}]]
  BY Parts DEF CreateEmployeeDevice, RestTyped
<1>6. held' \in [Devices -> 0..MaxTokens]
  BY <1>1, <1>3, Parts DEF CreateEmployeeDevice, RestTyped, Registered
<1>7. RestTyped'
  BY <1>5, <1>6, Parts DEF CreateEmployeeDevice, RestTyped
<1>8. CASE Answer(h)
  BY <1>4, <1>7, <1>8, WritesKnown, IdleKnows, IdleKnowsNext DEF Answer
<1>9. CASE Register(h, "inc", r)
  <2>1. PICK c : c = [pc |-> "inc", r |-> r]
    OBVIOUS
  <2>2. c \in Call /\ c.pc = "inc" /\ c.r = r
    BY <1>3, <2>1 DEF Call
  <2>3. CallKnows(c)'
    BY <1>3, <2>2 DEF CallKnows
  <2> QED BY <1>4, <1>7, <1>9, <2>1, <2>2, <2>3, WritesKnown DEF Register
<1> QED BY <1>1, <1>8, <1>9 DEF CreateEmployeeDevice, Registered

LEMMA CountDeviceKnown ==
  ASSUME KnownInv, NEW h \in Handlers, CountDevice(h)
  PROVE  KnownInv' /\ OthersStay(h)
<1>1. PICK r : r = call[h].r
  OBVIOUS
<1>2. call[h] \in Call /\ call[h].pc = "inc" /\ CallKnows(call[h])
  BY CallOf DEF CountDevice, At
<1>3. /\ r \in Registration /\ r.d \in Devices /\ r.t \in 0..MaxTokens
      /\ r.e # None /\ r.e \in MaybeEmployee
  BY <1>1, <1>2, Shapes DEF Registration, CallKnows, EnrolPc
<1>4. DevicesKnow' /\ Monotone
  BY DevicesStay DEF CountDevice
<1>5. credential' \in [Employees -> Credential]
  <2>1. r.e \in Employees /\ credential \in [Employees -> Credential]
    BY <1>3, Parts DEF MaybeEmployee, RestTyped
  <2>2. PICK m : m = [credential[r.e] EXCEPT !.deviceCount = @ + 1]
    OBVIOUS
  <2>3. m \in Credential
    BY <2>1, <2>2 DEF Credential
  <2>4. credential' = [credential EXCEPT ![r.e] = m]
    BY <1>1, <2>1, <2>2 DEF CountDevice, Credential
  <2> QED BY <2>1, <2>3, <2>4
<1>6. held' \in [Devices -> 0..MaxTokens] /\ Answer(h)
  BY <1>1, <1>3, Parts DEF CountDevice, RestTyped, Registered
<1>7. RestTyped'
  BY <1>5, <1>6, Parts DEF CountDevice, RestTyped
<1> QED BY <1>4, <1>6, <1>7, WritesKnown, IdleKnows, IdleKnowsNext DEF Answer

\* A heartbeat writes nothing, since the guard found the device active; a
\* leaving agent's device is revoked.
LEMMA AgentWrites ==
  ASSUME KnownInv, NEW h \in Handlers, Heartbeat(h) \/ RevokeSelf(h)
  PROVE  \E a \in DeviceAgent :
           LET d == call[h].d IN
           /\ d \in Devices /\ device[d].known
           /\ a = IF At(h, "leave") THEN [device[d] EXCEPT !.status = "revoked"] ELSE device[d]
           /\ device' = [device EXCEPT ![d] = a]
           /\ At(h, "heartbeat") \/ At(h, "leave")
           /\ Answer(h)
<1> DEFINE d == call[h].d
           seen == call[h].seen
<1>1. call[h] \in Call /\ call[h].pc \in {"heartbeat", "leave"} /\ CallKnows(call[h])
  BY CallOf DEF Heartbeat, RevokeSelf, At
<1>2. d \in Devices /\ seen \in DeviceAgent /\ device[d] \in DeviceAgent
  BY <1>1, Shapes DEF KnownInv, TypeOK
<1>3. device[d].known /\ seen.status = "active"
  BY <1>1 DEF CallKnows
<1>4. ASSUME NEW status \in {"active", "revoked"}, NEW doc, doc = [seen EXCEPT !.status = status]
      PROVE  /\ Saved(device[d], seen, doc) \in DeviceAgent
             /\ status = "active" => Saved(device[d], seen, doc) = device[d]
             /\ status = "revoked" =>
                  Saved(device[d], seen, doc) = [device[d] EXCEPT !.status = "revoked"]
  <2>1. /\ doc \in DeviceAgent /\ doc.known = seen.known /\ doc.token = seen.token
        /\ doc.employee = seen.employee /\ doc.status = status
    BY <1>2, <1>4 DEF DeviceAgent
  <2>2. PICK a : a = Saved(device[d], seen, doc)
    OBVIOUS
  <2>3. PICK b \in DeviceAgent : b = device[d]
    BY <1>2
  <2>4. /\ a \in DeviceAgent
        /\ a["known"] = IF doc["known"] = seen["known"] THEN b["known"] ELSE doc["known"]
        /\ a["status"] = IF doc["status"] = seen["status"] THEN b["status"] ELSE doc["status"]
        /\ a["token"] = IF doc["token"] = seen["token"] THEN b["token"] ELSE doc["token"]
        /\ a["employee"] = IF doc["employee"] = seen["employee"] THEN b["employee"] ELSE doc["employee"]
    BY <1>2, <2>1, <2>2, <2>3, SavedAgent
  <2>5. /\ a.known = b.known /\ a.token = b.token /\ a.employee = b.employee
        /\ a.status = IF status = "active" THEN b.status ELSE "revoked"
    BY <1>3, <1>4, <2>1, <2>4
  <2>6. (status = "active" => a = b) /\ (status = "revoked" => a = [b EXCEPT !.status = "revoked"])
    BY <2>4, <2>5 DEF DeviceAgent
  <2> QED BY <2>2, <2>3, <2>4, <2>6
<1>5. device \in [Devices -> DeviceAgent]
  BY DEF KnownInv, TypeOK
<1>6. CASE Heartbeat(h)
  <2>1. PICK doc : doc = [seen EXCEPT !.status = "active"]
    OBVIOUS
  <2>2. Saved(device[d], seen, doc) = device[d]
    BY <1>4, <2>1
  <2>3. device' = [device EXCEPT ![d] = device[d]]
    BY <1>2, <1>5, <1>6, <2>1, <2>2 DEF Heartbeat
  <2> QED BY <1>2, <1>3, <1>6, <2>3 DEF Heartbeat, At
<1>7. CASE RevokeSelf(h)
  <2>1. PICK doc : doc = [seen EXCEPT !.status = "revoked"]
    OBVIOUS
  <2>2. PICK a : a = Saved(device[d], seen, doc)
    OBVIOUS
  <2>3. a \in DeviceAgent /\ a = [device[d] EXCEPT !.status = "revoked"]
    BY <1>4, <2>1, <2>2
  <2>4. device' = [device EXCEPT ![d] = a]
    BY <1>2, <1>5, <1>7, <2>1, <2>2 DEF RevokeSelf
  <2> QED BY <1>2, <1>3, <1>7, <2>3, <2>4 DEF RevokeSelf, At
<1> QED BY <1>6, <1>7

LEMMA AgentWritesKnown ==
  ASSUME KnownInv, NEW h \in Handlers, Heartbeat(h) \/ RevokeSelf(h)
  PROVE  KnownInv' /\ OthersStay(h)
<1>1. PICK d : d = call[h].d
  OBVIOUS
<1>2. PICK a \in DeviceAgent :
        /\ d \in Devices /\ device[d].known
        /\ a = IF At(h, "leave") THEN [device[d] EXCEPT !.status = "revoked"] ELSE device[d]
        /\ device' = [device EXCEPT ![d] = a]
        /\ Answer(h)
  BY <1>1, AgentWrites
<1>3. a.known
  BY <1>2 DEF KnownInv, TypeOK, DeviceAgent
<1>4. DevicesKnow' /\ Monotone
  BY <1>2, <1>3, DeviceWritten
<1>5. RestTyped'
  BY Parts DEF Heartbeat, RevokeSelf, RestTyped
<1> QED BY <1>2, <1>4, <1>5, WritesKnown, IdleKnows, IdleKnowsNext DEF Answer

LEMMA CommandWritesKnown ==
  ASSUME KnownInv, NEW h \in Handlers,
         \/ ExpireStaleCommands(h) \/ GetPendingCommands(h)
         \/ CompleteCommand(h) \/ CreateCommand(h)
  PROVE  KnownInv' /\ OthersStay(h)
<1>1. call[h] \in Call /\ command \in [Commands -> MonitorCommand] /\ RestTyped
  BY CallOf, Parts DEF RestTyped
<1>2. DevicesKnow' /\ Monotone
  BY DevicesStay
     DEF ExpireStaleCommands, GetPendingCommands, CompleteCommand, CreateCommand, docs
<1>3. ASSUME RestTyped', Answer(h) PROVE KnownInv' /\ OthersStay(h)
  BY <1>2, <1>3, WritesKnown, IdleKnows, IdleKnowsNext DEF Answer
<1>4. ASSUME RestTyped', NEW c \in Call, c.pc \in {"list", "order"}, Goto(h, c)
      PROVE  KnownInv' /\ OthersStay(h)
  <2>1. CallKnows(c)'
    BY <1>4 DEF CallKnows, RegisterPc, EnrolPc
  <2> QED BY <1>2, <1>4, <2>1, WritesKnown
<1>5. CASE ExpireStaleCommands(h)
  <2>1. \A c \in Commands : [command[c] EXCEPT !.status = "expired"] \in MonitorCommand
    BY <1>1 DEF MonitorCommand
  <2>2. command' \in [Commands -> MonitorCommand]
    BY <1>1, <1>5, <2>1 DEF ExpireStaleCommands
  <2>3. RestTyped'
    BY <1>1, <1>5, <2>2 DEF ExpireStaleCommands, RestTyped
  <2>4. call[h].d \in Devices
    BY <1>1, <1>5, Shapes DEF ExpireStaleCommands, At
  <2>5. [pc |-> "list", d |-> call[h].d] \in Call
    BY <2>4 DEF Call
  <2> QED BY <1>4, <1>5, <2>3, <2>5 DEF ExpireStaleCommands
<1>6. CASE GetPendingCommands(h)
  <2>1. RestTyped'
    BY <1>1, <1>6 DEF GetPendingCommands, RestTyped, docs
  <2> QED BY <1>3, <1>6, <2>1 DEF GetPendingCommands
<1>7. CASE CompleteCommand(h)
  <2>1. call[h].c \in Commands /\ call[h].to \in {"completed", "failed"}
    BY <1>1, <1>7, Shapes DEF CompleteCommand, At
  <2>2. [command[call[h].c] EXCEPT !.status = call[h].to] \in MonitorCommand
    BY <1>1, <2>1 DEF MonitorCommand
  <2>3. command' \in [Commands -> MonitorCommand]
    BY <1>1, <1>7, <2>1, <2>2 DEF CompleteCommand
  <2>4. RestTyped'
    BY <1>1, <1>7, <2>3 DEF CompleteCommand, RestTyped
  <2> QED BY <1>3, <1>7, <2>4 DEF CompleteCommand
<1>8. CASE CreateCommand(h)
  <2>1. call[h].todo \in SUBSET Devices
    BY <1>1, <1>8, Shapes DEF CreateCommand, At
  <2>2. CASE Answer(h) /\ UNCHANGED command
    <3>1. RestTyped'
      BY <1>1, <1>8, <2>2 DEF CreateCommand, RestTyped
    <3> QED BY <1>3, <2>2, <3>1
  <2>3. ASSUME NEW d \in call[h].todo, NEW c \in Commands,
               command' = [command EXCEPT ![c] =
                             [status |-> "pending", device |-> d, due |-> FALSE]],
               Goto(h, [pc |-> "order", todo |-> call[h].todo \ {d}])
        PROVE  KnownInv' /\ OthersStay(h)
    <3>1. [status |-> "pending", device |-> d, due |-> FALSE] \in MonitorCommand
      BY <2>1 DEF MonitorCommand
    <3>2. RestTyped'
      BY <1>1, <1>8, <2>3, <3>1 DEF CreateCommand, RestTyped
    <3>3. [pc |-> "order", todo |-> call[h].todo \ {d}] \in Call
      BY <2>1 DEF Call
    <3> QED BY <1>4, <2>3, <3>2, <3>3
  <2> QED BY <1>8, <2>2, <2>3 DEF CreateCommand
<1> QED BY <1>5, <1>6, <1>7, <1>8

LEMMA InvalidateSessionsKnown ==
  ASSUME KnownInv, NEW h \in Handlers, InvalidateSessions(h)
  PROVE  KnownInv' /\ OthersStay(h)
<1>1. PICK e : e = call[h].e
  OBVIOUS
<1>2. e \in Employees /\ e # None
  BY <1>1, CallOf, Shapes, NoneAssumption DEF InvalidateSessions, At
<1>3. device \in [Devices -> DeviceAgent]
  BY DEF KnownInv, TypeOK
<1>4. ASSUME NEW x \in Devices
      PROVE  /\ [device[x] EXCEPT !.token = 0] \in DeviceAgent
             /\ [device[x] EXCEPT !.token = 0].known = device[x].known
             /\ [device[x] EXCEPT !.token = 0].employee = device[x].employee
  BY <1>3, BoundsAssumption DEF DeviceAgent
<1>5. device' = [d \in Devices |->
        IF device[d].employee = e /\ device[d].status # "revoked"
        THEN [device[d] EXCEPT !.token = 0] ELSE device[d]]
  BY <1>1 DEF InvalidateSessions
<1>6. DevicesKnow' /\ Monotone
  BY <1>2, <1>3, <1>4, <1>5, DevicesCut
<1>7. RestTyped'
  BY Parts DEF InvalidateSessions, RestTyped
<1>8. PICK c : c = [pc |-> "store", e |-> e, first |-> FALSE]
  OBVIOUS
<1>9. c \in Call /\ c.pc = "store"
  BY <1>2, <1>8 DEF Call
<1>10. CallKnows(c)' /\ Goto(h, c)
  BY <1>1, <1>8, <1>9 DEF InvalidateSessions, CallKnows, RegisterPc, EnrolPc
<1> QED BY <1>6, <1>7, <1>9, <1>10, WritesKnown

LEMMA RevokeEmployeeDevicesKnown ==
  ASSUME KnownInv, NEW h \in Handlers, RevokeEmployeeDevices(h)
  PROVE  KnownInv' /\ OthersStay(h)
<1>1. PICK e : e = call[h].e
  OBVIOUS
<1>2. e \in Employees /\ e # None
  BY <1>1, CallOf, Shapes, NoneAssumption DEF RevokeEmployeeDevices, At
<1>3. device \in [Devices -> DeviceAgent]
  BY DEF KnownInv, TypeOK
<1>4. ASSUME NEW x \in Devices
      PROVE  /\ [device[x] EXCEPT !.status = "revoked"] \in DeviceAgent
             /\ [device[x] EXCEPT !.status = "revoked"].known = device[x].known
             /\ [device[x] EXCEPT !.status = "revoked"].employee = device[x].employee
  BY <1>3 DEF DeviceAgent
<1>5. device' = [d \in Devices |->
        IF device[d].employee = e THEN [device[d] EXCEPT !.status = "revoked"] ELSE device[d]]
  BY <1>1 DEF RevokeEmployeeDevices
<1>6. DevicesKnow' /\ Monotone
  BY <1>2, <1>3, <1>4, <1>5, DevicesCut
<1>7. RestTyped'
  BY Parts DEF RevokeEmployeeDevices, RestTyped
<1>8. PICK c : c = [pc |-> "zero", e |-> e]
  OBVIOUS
<1>9. c \in Call /\ c.pc = "zero"
  BY <1>2, <1>8 DEF Call
<1>10. CallKnows(c)' /\ Goto(h, c)
  BY <1>1, <1>8, <1>9 DEF RevokeEmployeeDevices, CallKnows, RegisterPc, EnrolPc
<1> QED BY <1>6, <1>7, <1>9, <1>10, WritesKnown

LEMMA CredentialWritesKnown ==
  ASSUME KnownInv, NEW h \in Handlers,
         \/ StoreCredential(h) \/ ZeroDeviceCount(h)
         \/ \E e \in Employees : RevokeEmployeeCredential(h, e)
  PROVE  KnownInv' /\ OthersStay(h)
<1>1. call[h] \in Call /\ credential \in [Employees -> Credential] /\ RestTyped
  BY CallOf, Parts DEF RestTyped
<1>2. DevicesKnow' /\ Monotone
  BY DevicesStay DEF StoreCredential, ZeroDeviceCount, RevokeEmployeeCredential
<1>3. ASSUME credential' \in [Employees -> Credential],
             StoreCredential(h) \/ ZeroDeviceCount(h)
      PROVE  KnownInv' /\ OthersStay(h)
  <2>1. RestTyped' /\ Answer(h)
    BY <1>1, <1>3 DEF StoreCredential, ZeroDeviceCount, RestTyped
  <2> QED BY <1>2, <2>1, WritesKnown, IdleKnows, IdleKnowsNext DEF Answer
<1>4. CASE StoreCredential(h)
  <2>1. PICK e : e = call[h].e
    OBVIOUS
  <2>2. e \in Employees
    BY <1>1, <1>4, <2>1, Shapes DEF StoreCredential, At
  <2>3. CASE UNCHANGED credential
    BY <1>1, <1>3, <1>4, <2>3
  <2>4. CASE /\ credential[e].key < MaxKeys
             /\ credential' = [credential EXCEPT ![e].status = "active", ![e].key = @ + 1]
    <3>1. credential[e] \in Credential
      BY <1>1, <2>2
    <3>2. credential[e].key + 1 \in 0..MaxKeys
      BY <2>4, <3>1, BoundsAssumption DEF Credential
    <3>3. credential' = [credential EXCEPT ![e] =
                           [[@ EXCEPT !.status = "active"] EXCEPT !.key = credential[e].key + 1]]
      BY <1>1, <2>2, <2>4, <3>1 DEF Credential
    <3>4. [[credential[e] EXCEPT !.status = "active"] EXCEPT !.key = credential[e].key + 1]
            \in Credential
      BY <3>1, <3>2 DEF Credential
    <3>5. credential' \in [Employees -> Credential]
      BY <1>1, <2>2, <3>3, <3>4
    <3> QED BY <1>3, <1>4, <3>5
  <2> QED BY <1>4, <2>1, <2>3, <2>4 DEF StoreCredential
<1>5. CASE ZeroDeviceCount(h)
  <2>1. call[h].e \in Employees
    BY <1>1, <1>5, Shapes DEF ZeroDeviceCount, At
  <2>2. credential' \in [Employees -> Credential]
    BY <1>1, <1>5, <2>1 DEF ZeroDeviceCount, Credential
  <2> QED BY <1>3, <1>5, <2>2
<1>6. ASSUME NEW e \in Employees, RevokeEmployeeCredential(h, e)
      PROVE  KnownInv' /\ OthersStay(h)
  <2>1. credential' \in [Employees -> Credential]
    BY <1>1, <1>6 DEF RevokeEmployeeCredential, Credential
  <2>2. RestTyped'
    BY <1>1, <1>6, <2>1 DEF RevokeEmployeeCredential, RestTyped
  <2>3. PICK c : c = [pc |-> "cut", e |-> e]
    OBVIOUS
  <2>4. c \in Call /\ c.pc = "cut"
    BY <2>3 DEF Call
  <2>5. CallKnows(c)' /\ Goto(h, c)
    BY <1>6, <2>3, <2>4 DEF RevokeEmployeeCredential, CallKnows, RegisterPc, EnrolPc
  <2> QED BY <1>2, <2>2, <2>4, <2>5, WritesKnown
<1> QED BY <1>4, <1>5, <1>6

\* What no call is under way for.
LEMMA AtOnceKnown ==
  ASSUME KnownInv,
         \/ \E h \in Handlers : UpdateSettings(h) \/ \E d \in Devices : RevokeDevice(h, d)
         \/ \E c \in Commands : Lapse(c)
         \/ UNCHANGED vars
  PROVE  KnownInv' /\ UNCHANGED call
<1>1. UNCHANGED call /\ CallsKnow /\ RestTyped
  BY Parts DEF UpdateSettings, RevokeDevice, Lapse, vars
<1>2. ASSUME Monotone, DevicesKnow', RestTyped' PROVE KnownInv'
  <2>1. ASSUME NEW g \in Handlers PROVE CallKnows(call[g])'
    <3>1. PICK c : c = call[g]
      OBVIOUS
    <3>2. CallKnows(c)' /\ call'[g] = c
      BY <1>1, <1>2, <3>1, KnowsOn DEF CallsKnow
    <3> QED BY <3>1, <3>2 DEF CallKnows
  <2> QED BY <1>1, <1>2, <2>1 DEF KnownInv, TypeOK, RestTyped, DevicesKnow, CallsKnow
<1>3. CASE (\E h \in Handlers : UpdateSettings(h)) \/ UNCHANGED vars
  <2>1. DevicesKnow' /\ Monotone /\ RestTyped'
    BY <1>1, <1>3, DevicesStay DEF UpdateSettings, vars, RestTyped
  <2> QED BY <1>1, <1>2, <2>1
<1>4. ASSUME NEW h \in Handlers, NEW d \in Devices, RevokeDevice(h, d) PROVE KnownInv'
  <2>1. PICK a : a = [device[d] EXCEPT !.status = "revoked"]
    OBVIOUS
  <2>2. a \in DeviceAgent /\ a.known
    BY <1>4, <2>1 DEF RevokeDevice, KnownInv, TypeOK, DeviceAgent
  <2>3. device' = [device EXCEPT ![d] = a]
    BY <1>4, <2>1 DEF RevokeDevice, KnownInv, TypeOK
  <2>4. RestTyped'
    BY <1>1, <1>4 DEF RevokeDevice, RestTyped
  <2> QED BY <1>2, <2>2, <2>3, <2>4, DeviceWritten
<1>5. ASSUME NEW c \in Commands, Lapse(c) PROVE KnownInv'
  <2>1. command' \in [Commands -> MonitorCommand]
    BY <1>1, <1>5 DEF Lapse, RestTyped, MonitorCommand
  <2>2. DevicesKnow' /\ Monotone /\ RestTyped'
    BY <1>1, <1>5, <2>1, DevicesStay DEF Lapse, RestTyped
  <2> QED BY <1>2, <2>2
<1> QED BY <1>1, <1>3, <1>4, <1>5

LEMMA CrashKnown ==
  ASSUME KnownInv, Crash
  PROVE  /\ KnownInv' /\ UNCHANGED <<docs, held, proof, shown, issued>>
         /\ crashes' = crashes + 1
         /\ \A h \in Handlers : call'[h] = IF call[h] = OffCall THEN OffCall ELSE IdleCall
<1>1. /\ UNCHANGED <<docs, held, proof, shown, issued>>
      /\ crashes' = crashes + 1 /\ crashes < MaxCrashes
      /\ call' = [h \in Handlers |-> IF call[h] = OffCall THEN OffCall ELSE IdleCall]
  BY DEF Crash
<1>2. \A h \in Handlers : call'[h] = IF call[h] = OffCall THEN OffCall ELSE IdleCall
  BY <1>1
<1>3. CallsKnow'
  <2>1. call' \in [Handlers -> Call]
    BY <1>1, IdleKnows
  <2>2. ASSUME NEW h \in Handlers PROVE CallKnows(call[h])'
    <3>1. call'[h] = OffCall \/ call'[h] = IdleCall
      BY <1>2
    <3> QED BY <3>1, IdleKnowsNext DEF CallKnows
  <2> QED BY <2>1, <2>2 DEF CallsKnow
<1>4. DevicesKnow'
  BY <1>1, DevicesStay DEF docs
<1>5. RestTyped'
  BY <1>1, Parts, BoundsAssumption DEF RestTyped, docs
<1>6. KnownInv'
  BY <1>3, <1>4, <1>5 DEF KnownInv, TypeOK, RestTyped, DevicesKnow, CallsKnow
<1> QED BY <1>1, <1>2, <1>6

-----------------------------------------------------------------------------
(* Steps.                                                                    *)

\* A handler that takes a step serves calls, before it and after it.
On(c) == c.pc # "off"
Acts(h) == On(call[h]) /\ On(call'[h])

LEMMA OnNotOff == \A c \in Call : On(c) <=> c # OffCall
BY DEF Call, OffCall, IdleCall, On

LEMMA GoesOn ==
  ASSUME KnownInv, NEW h \in Handlers, NEW c, Goto(h, c), On(c), On(call[h])
  PROVE  Acts(h)
BY DEF KnownInv, TypeOK, Goto, Acts

LEMMA AgentActs ==
  ASSUME KnownInv, NEW h \in Handlers, NEW d \in Devices, Agent(h, d)
  PROVE  Acts(h)
<1>1. On(call[h])
  BY DEF Agent, ResolveEmployeeCredential, VerifyCompanyKey, AgentHeartbeat, AgentLeave, AgentConfig,
         AgentUpload, AgentCompletes, AgentCall, Idle, At, On
<1>2. CASE \/ \E e \in Employees : ResolveEmployeeCredential(h, d, e)
           \/ \E e \in MaybeEmployee : VerifyCompanyKey(h, d, e)
  BY <1>1, <1>2, GoesOn DEF ResolveEmployeeCredential, VerifyCompanyKey, Register, On
<1>3. CASE AgentHeartbeat(h, d) \/ AgentLeave(h, d) \/ AgentConfig(h, d)
  BY <1>1, <1>3, GoesOn DEF AgentHeartbeat, AgentLeave, AgentConfig, AgentCall, On
<1>4. CASE AgentUpload(h, d) \/ AgentCompletes(h, d)
  BY <1>1, <1>4, GoesOn DEF AgentUpload, AgentCompletes, AgentCall, On
<1> QED BY <1>2, <1>3, <1>4 DEF Agent

LEMMA RegistrationActs ==
  ASSUME KnownInv, NEW h \in Handlers,
         \/ FindAgent(h) \/ SaveAgent(h) \/ CreateAgent(h) \/ CountDevices(h)
         \/ CreateEmployeeDevice(h) \/ CountDevice(h)
  PROVE  Acts(h)
<1>1. On(call[h])
  BY DEF FindAgent, SaveAgent, CreateAgent, CountDevices, CreateEmployeeDevice, CountDevice, At, On
<1>2. On(IdleCall)
  BY DEF On, IdleCall
<1>3. CASE FindAgent(h) \/ CountDevices(h)
  BY <1>1, <1>2, <1>3, GoesOn DEF FindAgent, CountDevices, Register, Answer, On
<1>4. CASE CreateEmployeeDevice(h) \/ CountDevice(h) \/ SaveAgent(h)
  BY <1>1, <1>2, <1>4, GoesOn
     DEF CreateEmployeeDevice, CountDevice, SaveAgent, Register, Registered, Answer, On
<1>5. CASE CreateAgent(h)
  <2>1. Answer(h) \/ \E q : Register(h, "count", q)
    BY <1>5 DEF CreateAgent, Registered
  <2> QED BY <1>1, <1>2, <2>1, GoesOn DEF Register, Answer, On
<1> QED BY <1>3, <1>4, <1>5

LEMMA StepActs ==
  ASSUME KnownInv, NEW h \in Handlers, Step(h)
  PROVE  Acts(h)
<1>1. On(IdleCall)
  BY DEF On, IdleCall
<1>2. CASE \/ Heartbeat(h) \/ RevokeSelf(h) \/ GetPendingCommands(h) \/ CompleteCommand(h)
           \/ StoreCredential(h) \/ ZeroDeviceCount(h)
  BY <1>1, <1>2, GoesOn DEF Heartbeat, RevokeSelf, GetPendingCommands, CompleteCommand,
                            StoreCredential, ZeroDeviceCount, Answer, At, On
<1>3. CASE \/ ExpireStaleCommands(h) \/ UploadScreenshot(h) \/ InvalidateSessions(h)
           \/ RevokeEmployeeDevices(h)
  BY <1>3, GoesOn DEF ExpireStaleCommands, UploadScreenshot, InvalidateSessions,
                      RevokeEmployeeDevices, At, On
<1>4. CASE CreateCommand(h)
  BY <1>1, <1>4, GoesOn DEF CreateCommand, Answer, At, On
<1> QED BY <1>2, <1>3, <1>4, RegistrationActs DEF Step

LEMMA AdminActs ==
  ASSUME KnownInv, NEW h \in Handlers,
         \/ \E d \in Devices : RequestCommand(h, d)
         \/ \E e \in Employees : \/ CreateEmployeeCredential(h, e)
                                 \/ RevokeEmployeeCredential(h, e) \/ QueueOpenWorkspace(h, e)
  PROVE  Acts(h)
<1>1. On(call[h])
  BY DEF RequestCommand, CreateEmployeeCredential, RevokeEmployeeCredential, QueueOpenWorkspace,
         Idle, At, On
<1>2. CASE \E d \in Devices : RequestCommand(h, d)
  BY <1>1, <1>2, GoesOn DEF RequestCommand, On
<1>3. CASE \E e \in Employees : CreateEmployeeCredential(h, e) \/ RevokeEmployeeCredential(h, e)
  BY <1>1, <1>3, GoesOn DEF CreateEmployeeCredential, RevokeEmployeeCredential, On
<1>4. ASSUME NEW e \in Employees, QueueOpenWorkspace(h, e) PROVE Acts(h)
  <2>1. \E c : Goto(h, c) /\ On(c)
    BY <1>4 DEF QueueOpenWorkspace, On
  <2> QED BY <1>1, <2>1, GoesOn
<1> QED BY <1>2, <1>3, <1>4

\* The next-state relation, as the proofs take it apart: one call looks, or one
\* call writes, or no call moves, or the process dies.
AnyLooks(h) ==
  \/ \E d \in Devices :
       \/ \E e \in Employees : ResolveEmployeeCredential(h, d, e)
       \/ \E e \in MaybeEmployee : VerifyCompanyKey(h, d, e)
       \/ AgentHeartbeat(h, d) \/ AgentLeave(h, d) \/ AgentConfig(h, d)
       \/ AgentUpload(h, d) \/ AgentCompletes(h, d)
       \/ RequestCommand(h, d)
  \/ \E e \in Employees : CreateEmployeeCredential(h, e) \/ QueueOpenWorkspace(h, e)
  \/ FindAgent(h) \/ CountDevices(h) \/ UploadScreenshot(h)
WritesDevice(h) ==
  \/ SaveAgent(h) \/ CreateAgent(h) \/ Heartbeat(h) \/ RevokeSelf(h)
  \/ InvalidateSessions(h) \/ RevokeEmployeeDevices(h)
WritesOther(h) ==
  \/ CreateEmployeeDevice(h) \/ CountDevice(h)
  \/ ExpireStaleCommands(h) \/ GetPendingCommands(h) \/ CompleteCommand(h) \/ CreateCommand(h)
  \/ StoreCredential(h) \/ ZeroDeviceCount(h)
  \/ \E e \in Employees : RevokeEmployeeCredential(h, e)
AtOnce ==
  \/ \E h \in Handlers : UpdateSettings(h) \/ \E d \in Devices : RevokeDevice(h, d)
  \/ \E c \in Commands : Lapse(c)
  \/ UNCHANGED vars

LEMMA NextParts ==
  ASSUME [Next]_vars
  PROVE  \/ \E h \in Handlers : AnyLooks(h) \/ WritesDevice(h) \/ WritesOther(h)
         \/ AtOnce \/ Crash
<1>1. ASSUME NEW h \in Handlers, NEW d \in Devices, Agent(h, d) PROVE AnyLooks(h)
  BY <1>1 DEF Agent, AnyLooks
<1>2. ASSUME NEW h \in Handlers, Admin(h) PROVE AnyLooks(h) \/ WritesOther(h) \/ AtOnce
  BY <1>2 DEF Admin, AnyLooks, WritesOther, AtOnce
<1>3. ASSUME NEW h \in Handlers, Step(h) PROVE AnyLooks(h) \/ WritesDevice(h) \/ WritesOther(h)
  BY <1>3 DEF Step, AnyLooks, WritesDevice, WritesOther
<1>4. ASSUME NEW c \in Commands, Lapse(c) PROVE AtOnce
  BY <1>4 DEF AtOnce
<1> QED BY <1>1, <1>2, <1>3, <1>4 DEF Next, AtOnce

LEMMA AnyLooksLooks ==
  ASSUME KnownInv, NEW h \in Handlers, AnyLooks(h)
  PROVE  Looks(h) /\ Acts(h)
<1>1. CASE \E d \in Devices :
             \/ \E e \in Employees : ResolveEmployeeCredential(h, d, e)
             \/ \E e \in MaybeEmployee : VerifyCompanyKey(h, d, e)
             \/ AgentHeartbeat(h, d) \/ AgentLeave(h, d) \/ AgentConfig(h, d)
             \/ AgentUpload(h, d) \/ AgentCompletes(h, d)
  BY <1>1, RegistrationLooks, AgentLooks, AgentActs DEF Agent
<1>2. CASE \/ \E d \in Devices : RequestCommand(h, d)
           \/ \E e \in Employees : CreateEmployeeCredential(h, e) \/ QueueOpenWorkspace(h, e)
  BY <1>2, OtherLooks, AdminActs
<1>3. CASE FindAgent(h) \/ CountDevices(h) \/ UploadScreenshot(h)
  BY <1>3, FindAgentLooks, CountDevicesLooks, OtherLooks, StepActs DEF Step
<1> QED BY <1>1, <1>2, <1>3 DEF AnyLooks

LEMMA WritesDeviceKnown ==
  ASSUME KnownInv, NEW h \in Handlers, WritesDevice(h)
  PROVE  KnownInv' /\ OthersStay(h) /\ Acts(h)
BY SaveAgentKnown, CreateAgentKnown, AgentWritesKnown, InvalidateSessionsKnown,
   RevokeEmployeeDevicesKnown, StepActs DEF WritesDevice, Step

LEMMA WritesOtherKnown ==
  ASSUME KnownInv, NEW h \in Handlers, WritesOther(h)
  PROVE  KnownInv' /\ OthersStay(h) /\ Acts(h)
BY CreateEmployeeDeviceKnown, CountDeviceKnown, CommandWritesKnown, CredentialWritesKnown,
   StepActs, AdminActs DEF WritesOther, Step

LEMMA KnownInit == ASSUME Init PROVE KnownInv
<1>1. RestTyped
  BY BoundsAssumption DEF Init, RestTyped, Credential, MonitorCommand
<1>2. DevicesKnow
  BY BoundsAssumption DEF Init, DevicesKnow, DeviceAgent, MaybeEmployee, Unseen
<1>3. CallsKnow
  BY IdleKnows DEF Init, CallsKnow
<1> QED BY <1>1, <1>2, <1>3, Parts

LEMMA KnownNext == ASSUME KnownInv, [Next]_vars PROVE KnownInv'
BY NextParts, AnyLooksLooks, LooksKnown, WritesDeviceKnown, WritesOtherKnown, AtOnceKnown, CrashKnown
   DEF AtOnce

\* Whatever calls interleave and wherever the process dies, every device, key,
\* command and call has its type (agent.service.ts, employee-monitor.service.ts).
THEOREM TypeCorrect == Spec => []TypeOK
<1>1. Init => KnownInv
  BY KnownInit
<1>2. KnownInv /\ [Next]_vars => KnownInv'
  BY KnownNext
<1>3. KnownInv => TypeOK
  BY DEF KnownInv
<1> QED BY <1>1, <1>2, <1>3, PTL DEF Spec

-----------------------------------------------------------------------------
(* A revoked device stays revoked.                                           *)

Reactivates(d) == device[d].status = "revoked" /\ device'[d].status = "active"
KnewIt(h, d) ==
  At(h, "save") /\ call[h].r.d = d /\ call[h].r.e # None /\ call[h].seen.status = "revoked"

LEMMA SaveSticks ==
  ASSUME KnownInv, NEW h \in Handlers, SaveAgent(h), NEW d \in Devices, Reactivates(d)
  PROVE  KnewIt(h, d)
<1>1. PICK r : r = call[h].r
  OBVIOUS
<1>2. PICK seen : seen = call[h].seen
  OBVIOUS
<1>3. PICK t \in 1..MaxTokens, a \in DeviceAgent :
        /\ r \in Registration /\ seen \in DeviceAgent
        /\ call[h].pc = "save" /\ CallKnows(call[h])
        /\ a.known
        /\ a.status = IF seen.status = "active" THEN device[r.d].status ELSE "active"
        /\ device' = [device EXCEPT ![r.d] = a]
  BY <1>1, <1>2, SaveAgentWrites
<1>4. r.d \in Devices
  BY <1>3 DEF Registration
<1>5. device'[r.d] = a /\ \A x \in Devices : x # r.d => device'[x] = device[x]
  BY <1>3, <1>4, DeviceWritten
<1>6. d = r.d
  BY <1>5 DEF Reactivates
<1>7. seen.status = "revoked"
  BY <1>3, <1>5, <1>6 DEF Reactivates, DeviceAgent
<1>8. r.e # None
  BY <1>1, <1>2, <1>3, <1>7 DEF CallKnows
<1> QED BY <1>1, <1>2, <1>3, <1>6, <1>7, <1>8 DEF KnewIt, At

LEMMA OtherWritesStick ==
  ASSUME KnownInv, NEW h \in Handlers, WritesDevice(h), ~SaveAgent(h), NEW d \in Devices
  PROVE  ~Reactivates(d)
<1>1. device \in [Devices -> DeviceAgent] /\ Unseen(d)
  BY DEF KnownInv, TypeOK
<1>2. CASE CreateAgent(h)
  <2>1. PICK r : r = call[h].r
    OBVIOUS
  <2>2. CASE UNCHANGED device
    BY <2>2 DEF Reactivates
  <2>3. ASSUME NEW a \in DeviceAgent, ~device[r.d].known, a.known,
               device' = [device EXCEPT ![r.d] = a]
        PROVE  ~Reactivates(d)
    <3>1. r.d \in Devices
      BY <1>2, <2>1, CreateAgentWrites
    <3>2. \A x \in Devices : x # r.d => device'[x] = device[x]
      BY <2>3, <3>1, DeviceWritten
    <3>3. d = r.d => device[d].status = "active"
      BY <1>1, <2>3 DEF Unseen
    <3> QED BY <3>2, <3>3 DEF Reactivates
  <2> QED BY <1>2, <2>1, <2>2, <2>3, CreateAgentWrites
<1>3. CASE Heartbeat(h) \/ RevokeSelf(h)
  <2>1. PICK x : x = call[h].d
    OBVIOUS
  <2>2. PICK a \in DeviceAgent :
          /\ x \in Devices /\ device[x].known
          /\ a = IF At(h, "leave") THEN [device[x] EXCEPT !.status = "revoked"] ELSE device[x]
          /\ device' = [device EXCEPT ![x] = a]
    BY <1>3, <2>1, AgentWrites
  <2>3. a.status = "revoked" \/ a.status = device[x].status
    BY <1>1, <2>2 DEF DeviceAgent
  <2>4. device'[d] = IF d = x THEN a ELSE device[d]
    BY <1>1, <2>2
  <2> QED BY <2>3, <2>4 DEF Reactivates
<1>4. CASE InvalidateSessions(h)
  <2>1. device'[d] = device[d] \/ device'[d] = [device[d] EXCEPT !.token = 0]
    BY <1>4 DEF InvalidateSessions
  <2> QED BY <1>1, <2>1 DEF Reactivates, DeviceAgent
<1>5. CASE RevokeEmployeeDevices(h)
  <2>1. device'[d] = device[d] \/ device'[d] = [device[d] EXCEPT !.status = "revoked"]
    BY <1>5 DEF RevokeEmployeeDevices
  <2> QED BY <1>1, <2>1 DEF Reactivates, DeviceAgent
<1> QED BY <1>2, <1>3, <1>4, <1>5 DEF WritesDevice

LEMMA Sticks ==
  ASSUME KnownInv, [Next]_vars, NEW d \in Devices, Reactivates(d)
  PROVE  \E h \in Handlers : KnewIt(h, d)
<1>1. ASSUME NEW h \in Handlers, WritesDevice(h) PROVE \E g \in Handlers : KnewIt(g, d)
  BY <1>1, SaveSticks, OtherWritesStick
<1>2. ASSUME UNCHANGED device PROVE FALSE
  BY <1>2 DEF Reactivates
<1>3. ASSUME NEW h \in Handlers, AnyLooks(h) PROVE FALSE
  BY <1>2, <1>3, AnyLooksLooks DEF Looks, docs
<1>4. ASSUME NEW h \in Handlers, WritesOther(h) PROVE FALSE
  BY <1>2, <1>4 DEF WritesOther, CreateEmployeeDevice, CountDevice, ExpireStaleCommands,
                    GetPendingCommands, CompleteCommand, CreateCommand, StoreCredential,
                    ZeroDeviceCount, RevokeEmployeeCredential, docs
<1>5. ASSUME NEW h \in Handlers, NEW x \in Devices, RevokeDevice(h, x) PROVE FALSE
  <2>1. device \in [Devices -> DeviceAgent]
    BY DEF KnownInv, TypeOK
  <2>2. PICK a : a = [device[x] EXCEPT !.status = "revoked"]
    OBVIOUS
  <2>3. a.status = "revoked" /\ device' = [device EXCEPT ![x] = a]
    BY <1>5, <2>1, <2>2 DEF RevokeDevice, DeviceAgent
  <2>4. device'[d] = IF d = x THEN a ELSE device[d]
    BY <2>1, <2>3
  <2> QED BY <2>3, <2>4 DEF Reactivates
<1>6. ASSUME \/ \E h \in Handlers : UpdateSettings(h)
             \/ \E c \in Commands : Lapse(c)
             \/ UNCHANGED vars
             \/ Crash
      PROVE  FALSE
  BY <1>2, <1>6 DEF UpdateSettings, Lapse, vars, Crash, docs
<1> QED BY <1>1, <1>3, <1>4, <1>5, <1>6, NextParts DEF AtOnce

\* Whatever calls interleave and wherever the process dies, a revoked device
\* works again only through a registration that found it revoked and named an
\* employee; no heartbeat in flight brings it back (registerAgent, heartbeatAgent).
THEOREM RevocationSticksAlways == Spec => RevocationSticks
<1>1. Init => KnownInv
  BY KnownInit
<1>2. KnownInv /\ [Next]_vars => KnownInv'
  BY KnownNext
<1>3. KnownInv /\ [Next]_vars =>
        [\A d \in Devices :
           device[d].status = "revoked" /\ device'[d].status = "active"
           => \E h \in Handlers : /\ At(h, "save") /\ call[h].r.d = d
                                  /\ call[h].r.e # None
                                  /\ call[h].seen.status = "revoked"]_vars
  BY Sticks DEF Reactivates, KnewIt
<1> QED BY <1>1, <1>2, <1>3, PTL DEF Spec, RevocationSticks

-----------------------------------------------------------------------------
(* One call at a time.                                                       *)

LEMMA OffIsOff == ~On(OffCall) /\ On(IdleCall)
BY DEF On, OffCall, IdleCall

Moves(h) == OthersStay(h) /\ Acts(h)
Alone(h) == \A g \in Handlers : g # h => call[g] = OffCall /\ call'[g] = OffCall

LEMMA MovesAlone ==
  ASSUME NEW h \in Handlers, Moves(h), IsSerial'
  PROVE  Alone(h)
BY OffIsOff DEF Moves, OthersStay, Acts, IsSerial, Alone

LEMMA StepMoves ==
  ASSUME KnownInv, NEW h \in Handlers, AnyLooks(h) \/ WritesDevice(h) \/ WritesOther(h)
  PROVE  KnownInv' /\ Moves(h)
BY AnyLooksLooks, LooksKnown, WritesDeviceKnown, WritesOtherKnown DEF Moves

\* A handler that serves no call never does: who is alone was alone before.
LEMMA SerialBefore ==
  ASSUME KnownInv, [Next]_vars, IsSerial'
  PROVE  IsSerial
<1>1. ASSUME NEW h \in Handlers, Moves(h) PROVE IsSerial
  BY <1>1, MovesAlone DEF Alone, IsSerial
<1>2. ASSUME UNCHANGED call PROVE IsSerial
  BY <1>2 DEF IsSerial
<1>3. ASSUME Crash PROVE IsSerial
  <2>1. \A h \in Handlers : call'[h] = IF call[h] = OffCall THEN OffCall ELSE IdleCall
    BY <1>3, CrashKnown
  <2>2. IdleCall # OffCall
    BY DEF IdleCall, OffCall
  <2> QED BY <2>1, <2>2 DEF IsSerial
<1> QED BY <1>1, <1>2, <1>3, NextParts, StepMoves, AtOnceKnown DEF AtOnce

-----------------------------------------------------------------------------
(* Only the key in force lets a device in.                                   *)

SameKeys ==
  \A e \in Employees : credential'[e].status = credential[e].status /\ credential'[e].key = credential[e].key

LEMMA RestingCurrent == Current(OffCall) /\ Current(IdleCall) /\ Current(OffCall)' /\ Current(IdleCall)'
BY DEF Current, OffCall, IdleCall, RegisterPc, EnrolPc

LEMMA ProofsOf ==
  ASSUME KnownInv, NEW d \in Devices, proof[d] # None
  PROVE  proof[d][1] \in Employees /\ proof[d][2] \in 1..MaxKeys
BY DEF KnownInv, TypeOK

LEMMA CurrentNext ==
  ASSUME NEW h \in Handlers, Alone(h), NEW c, call'[h] = c, Current(c)'
  PROVE  AllCurrent'
<1>1. ASSUME NEW g \in Handlers PROVE Current(call[g])'
  <2>1. call'[g] = c \/ call'[g] = OffCall
    BY DEF Alone
  <2> QED BY <2>1, RestingCurrent DEF Current
<1> QED BY <1>1 DEF AllCurrent

\* Served alone and about to cut nobody's devices: those that get in do so by the
\* key in force.
LEMMA NowInForce ==
  ASSUME NEW h \in Handlers, Alone(h), ~At(h, "cut"), NEW d \in Devices,
         Backed(d), Authenticated(d), proof[d] # None
  PROVE  InForce(proof[d][1], proof[d][2])
<1>1. ASSUME NEW g \in Handlers, At(g, "cut") PROVE FALSE
  BY <1>1 DEF Alone, At, OffCall
<1> QED BY <1>1 DEF Backed

LEMMA KeepsBacked ==
  ASSUME KnownInv, NEW h \in Handlers, Alone(h), ~At(h, "cut"), NEW d \in Devices,
         Proven(d), Backed(d), proof'[d] = proof[d], SameKeys,
         device'[d].employee = device[d].employee,
         Authenticated(d)' => Authenticated(d)
  PROVE  Proven(d)' /\ Backed(d)'
<1>1. Proven(d)'
  BY DEF Proven
<1>2. ASSUME Authenticated(d)', proof[d] # None
      PROVE  InForce(proof[d][1], proof[d][2])'
  <2>1. InForce(proof[d][1], proof[d][2])
    BY <1>2, NowInForce
  <2>2. proof[d][1] \in Employees
    BY <1>2, ProofsOf
  <2> QED BY <2>1, <2>2 DEF InForce, SameKeys
<1>3. Backed(d)'
  BY <1>2 DEF Backed
<1> QED BY <1>1, <1>3

LEMMA SameBacked ==
  ASSUME KnownInv, NEW h \in Handlers, Alone(h), ~At(h, "cut"), AllBacked,
         UNCHANGED <<device, held, proof>>, SameKeys
  PROVE  AllBacked'
<1>1. ASSUME NEW d \in Devices PROVE Proven(d)' /\ Backed(d)'
  <2>1. Proven(d) /\ Backed(d) /\ (Authenticated(d)' <=> Authenticated(d))
    BY DEF AllBacked, Authenticated
  <2> QED BY <2>1, KeepsBacked
<1> QED BY <1>1 DEF AllBacked

\* What a looking call goes on with is as it found it.
LEMMA LooksCurrent ==
  ASSUME KnownInv, AllCurrent, NEW h \in Handlers, AnyLooks(h)
  PROVE  Current(call'[h]) /\ ~At(h, "cut")
<1>1. call \in [Handlers -> Call] /\ Current(call[h])
  BY DEF KnownInv, TypeOK, AllCurrent
<1>2. ASSUME NEW c, Goto(h, c) PROVE call'[h] = c
  BY <1>1, <1>2 DEF Goto
<1>3. ASSUME NEW d \in Devices, NEW e \in Employees, ResolveEmployeeCredential(h, d, e)
      PROVE  Current(call'[h]) /\ ~At(h, "cut")
  BY <1>2, <1>3 DEF ResolveEmployeeCredential, Register, Current, InForce, EnrolPc, Idle, At
<1>4. ASSUME NEW d \in Devices, NEW e \in MaybeEmployee, VerifyCompanyKey(h, d, e)
      PROVE  Current(call'[h]) /\ ~At(h, "cut")
  BY <1>2, <1>4 DEF VerifyCompanyKey, Register, Current, EnrolPc, Idle, At
<1>5. ASSUME NEW d \in Devices, AgentHeartbeat(h, d) \/ AgentLeave(h, d)
      PROVE  Current(call'[h]) /\ ~At(h, "cut")
  BY <1>2, <1>5 DEF AgentHeartbeat, AgentLeave, AgentCall, Current, RegisterPc, EnrolPc, Idle, At
<1>6. ASSUME NEW d \in Devices, AgentConfig(h, d) \/ AgentUpload(h, d) \/ AgentCompletes(h, d)
      PROVE  Current(call'[h]) /\ ~At(h, "cut")
  <2>1. PICK c : AgentCall(h, d, c) /\ c.pc \in {"expire", "upload", "finish"}
    <3>1. CASE AgentConfig(h, d)
      BY <3>1 DEF AgentConfig
    <3>2. CASE AgentUpload(h, d)
      <4>1. PICK x : AgentCall(h, d, [pc |-> "upload", c |-> x])
        BY <3>2 DEF AgentUpload
      <4> QED BY <4>1
    <3>3. CASE AgentCompletes(h, d)
      <4>1. PICK x, to : AgentCall(h, d, [pc |-> "finish", c |-> x, to |-> to])
        BY <3>3 DEF AgentCompletes
      <4> QED BY <4>1
    <3> QED BY <1>6, <3>1, <3>2, <3>3
  <2>2. call'[h] = c /\ Idle(h)
    BY <1>2, <2>1 DEF AgentCall
  <2> QED BY <2>1, <2>2 DEF Current, RegisterPc, EnrolPc, Idle, At
<1>7. ASSUME NEW d \in Devices, RequestCommand(h, d) PROVE Current(call'[h]) /\ ~At(h, "cut")
  BY <1>2, <1>7 DEF RequestCommand, Current, RegisterPc, EnrolPc, Idle, At
<1>8. ASSUME NEW e \in Employees, CreateEmployeeCredential(h, e)
      PROVE  Current(call'[h]) /\ ~At(h, "cut")
  BY <1>2, <1>8 DEF CreateEmployeeCredential, Current, RegisterPc, EnrolPc, Idle, At
<1>9. ASSUME NEW e \in Employees, QueueOpenWorkspace(h, e) PROVE Current(call'[h]) /\ ~At(h, "cut")
  <2>1. PICK todo : Goto(h, [pc |-> "order", todo |-> todo])
    BY <1>9 DEF QueueOpenWorkspace
  <2> QED BY <1>2, <1>9, <2>1 DEF QueueOpenWorkspace, Current, RegisterPc, EnrolPc, Idle, At
<1>10. CASE FindAgent(h)
  <2>1. PICK r : r = call[h].r
    OBVIOUS
  <2>2. r.k # 0 => InForce(r.e, r.k)
    BY <1>1, <1>10, <2>1 DEF FindAgent, At, Current, RegisterPc
  <2>3. \/ call'[h] = [pc |-> "create", r |-> r]
        \/ call'[h] = IdleCall
        \/ call'[h] = [pc |-> "save", r |-> r, seen |-> device[r.d]]
    BY <1>2, <1>10, <2>1 DEF FindAgent, Register, Answer
  <2> QED BY <1>10, <2>2, <2>3, RestingCurrent DEF FindAgent, At, Current, EnrolPc
<1>11. CASE CountDevices(h)
  <2>1. PICK r : r = call[h].r
    OBVIOUS
  <2>2. (r.k # 0 => InForce(r.e, r.k)) /\ proof[r.d] = ProofOf(r)
    BY <1>1, <1>11, <2>1 DEF CountDevices, At, Current, RegisterPc, EnrolPc
  <2>3. \E first : call'[h] = [pc |-> "row", r |-> r, first |-> first]
    BY <1>2, <1>11, <2>1 DEF CountDevices
  <2> QED BY <1>11, <2>2, <2>3 DEF CountDevices, At, Current
<1>12. CASE UploadScreenshot(h)
  BY <1>2, <1>12 DEF UploadScreenshot, Current, RegisterPc, EnrolPc, At
<1> QED BY <1>3, <1>4, <1>5, <1>6, <1>7, <1>8, <1>9, <1>10, <1>11, <1>12 DEF AnyLooks

LEMMA LooksBacked ==
  ASSUME KnownInv, AllBacked, AllCurrent, NEW h \in Handlers, AnyLooks(h), Alone(h)
  PROVE  AllBacked' /\ AllCurrent'
<1>1. Current(call'[h]) /\ ~At(h, "cut")
  BY LooksCurrent
<1>2. UNCHANGED <<device, held, proof, credential>>
  BY AnyLooksLooks DEF Looks, docs
<1>3. AllBacked'
  BY <1>1, <1>2, SameBacked DEF SameKeys
<1>4. PICK c : c = call'[h]
  OBVIOUS
<1>5. Current(c)'
  BY <1>1, <1>2, <1>4 DEF Current, InForce
<1> QED BY <1>3, <1>4, <1>5, CurrentNext

\* A device registered by a call served alone: it is proved by the call's key,
\* which is in force, or by none.
LEMMA RegisteredBacked ==
  ASSUME NEW r \in Registration, r.k # 0 => InForce(r.e, r.k)',
         proof'[r.d] = ProofOf(r),
         r.k # 0 /\ proof'[r.d] # None => device'[r.d].employee = r.e
  PROVE  Proven(r.d)' /\ Backed(r.d)'
<1>1. CASE r.k = 0
  <2>1. proof'[r.d] = None
    BY <1>1 DEF ProofOf
  <2> QED BY <2>1 DEF Proven, Backed
<1>2. CASE r.k # 0
  <2>1. proof'[r.d] = <<r.e, r.k>>
    BY <1>2 DEF ProofOf
  <2>2. proof'[r.d][1] = r.e /\ proof'[r.d][2] = r.k
    BY <2>1
  <2>3. Proven(r.d)'
    BY <1>2, <2>2 DEF Proven
  <2>4. InForce(proof[r.d][1], proof[r.d][2])'
    BY <1>2, <2>2 DEF InForce
  <2> QED BY <2>3, <2>4 DEF Backed
<1> QED BY <1>1, <1>2

LEMMA SaveAgentBacked ==
  ASSUME KnownInv, AllBacked, AllCurrent, NEW h \in Handlers, SaveAgent(h), Alone(h)
  PROVE  AllBacked' /\ AllCurrent'
<1>1. PICK r : r = call[h].r
  OBVIOUS
<1>2. PICK seen : seen = call[h].seen
  OBVIOUS
<1>3. PICK t \in 1..MaxTokens, a \in DeviceAgent :
        /\ r \in Registration
        /\ call[h].pc = "save" /\ CallKnows(call[h])
        /\ a.employee = IF r.e = None \/ r.e = seen.employee THEN device[r.d].employee ELSE r.e
        /\ device' = [device EXCEPT ![r.d] = a]
        /\ proof' = [proof EXCEPT ![r.d] = ProofOf(r)]
        /\ held' = [held EXCEPT ![r.d] = t]
        /\ Answer(h)
  BY <1>1, <1>2, SaveAgentWrites
<1>4. r.d \in Devices
  BY <1>3 DEF Registration
<1>5. Current(call[h])
  BY DEF AllCurrent
<1>6. seen = device[r.d] /\ (r.k # 0 => InForce(r.e, r.k))
  BY <1>1, <1>2, <1>3, <1>5 DEF Current, RegisterPc
<1>7. r.k # 0 => a.employee = r.e
  BY <1>1, <1>3, <1>6 DEF CallKnows, RegisterPc
<1>8. UNCHANGED credential /\ ~At(h, "cut")
  BY <1>3 DEF SaveAgent, At
<1>9. /\ device'[r.d] = a /\ proof'[r.d] = ProofOf(r)
      /\ \A x \in Devices : x # r.d =>
           device'[x] = device[x] /\ proof'[x] = proof[x] /\ held'[x] = held[x]
  BY <1>3, <1>4 DEF KnownInv, TypeOK
<1>10. Proven(r.d)' /\ Backed(r.d)'
  BY <1>3, <1>6, <1>7, <1>8, <1>9, RegisteredBacked DEF InForce
<1>11. ASSUME NEW x \in Devices, x # r.d PROVE Proven(x)' /\ Backed(x)'
  BY <1>8, <1>9, <1>11, KeepsBacked DEF AllBacked, SameKeys, Authenticated
<1>12. call'[h] = IdleCall
  BY <1>3 DEF Answer, Goto, KnownInv, TypeOK
<1> QED BY <1>10, <1>11, <1>12, RestingCurrent, CurrentNext DEF AllBacked

LEMMA CreateAgentBacked ==
  ASSUME KnownInv, AllBacked, AllCurrent, NEW h \in Handlers, CreateAgent(h), Alone(h)
  PROVE  AllBacked' /\ AllCurrent'
<1>1. PICK r : r = call[h].r
  OBVIOUS
<1>2. r \in Registration /\ r.d \in Devices /\ call[h].pc = "create" /\ CallKnows(call[h])
  BY <1>1, CreateAgentWrites
<1>3. UNCHANGED credential /\ ~At(h, "cut")
  BY <1>2 DEF CreateAgent, At
<1>4. r.k # 0 => InForce(r.e, r.k)
  BY <1>1, <1>2 DEF AllCurrent, Current, RegisterPc
<1>5. call \in [Handlers -> Call]
  BY DEF KnownInv, TypeOK
<1>6. CASE Answer(h) /\ UNCHANGED <<device, held, proof, issued>>
  <2>1. call'[h] = IdleCall
    BY <1>5, <1>6 DEF Answer, Goto
  <2>2. AllBacked'
    BY <1>3, <1>6, SameBacked DEF SameKeys
  <2> QED BY <2>1, <2>2, RestingCurrent, CurrentNext
<1>7. ASSUME NEW t \in 1..MaxTokens, NEW a \in DeviceAgent, NEW q \in Registration,
             /\ a = [known |-> TRUE, status |-> "active", employee |-> r.e, token |-> t]
             /\ q = [r EXCEPT !.t = t]
             /\ device' = [device EXCEPT ![r.d] = a]
             /\ proof' = [proof EXCEPT ![r.d] = ProofOf(r)]
             /\ \/ r.e = None /\ Answer(h) /\ held' = [held EXCEPT ![r.d] = t]
                \/ r.e # None /\ Register(h, "count", q) /\ UNCHANGED held
      PROVE  AllBacked' /\ AllCurrent'
  <2>1. q.d = r.d /\ q.e = r.e /\ q.k = r.k
    BY <1>2, <1>7 DEF Registration
  <2>2. \A x \in Devices : x # r.d => held'[x] = held[x]
    BY <1>2, <1>7 DEF KnownInv, TypeOK
  <2>3. /\ device'[r.d] = a /\ proof'[r.d] = ProofOf(r)
        /\ \A x \in Devices : x # r.d => device'[x] = device[x] /\ proof'[x] = proof[x]
    BY <1>2, <1>7 DEF KnownInv, TypeOK
  <2>4. Proven(r.d)' /\ Backed(r.d)'
    BY <1>2, <1>3, <1>4, <1>7, <2>3, RegisteredBacked DEF InForce
  <2>5. ASSUME NEW x \in Devices, x # r.d PROVE Proven(x)' /\ Backed(x)'
    BY <1>3, <2>2, <2>3, <2>5, KeepsBacked DEF AllBacked, SameKeys, Authenticated
  <2>6. AllBacked'
    BY <2>4, <2>5 DEF AllBacked
  <2>7. CASE Answer(h)
    BY <1>5, <2>6, <2>7, RestingCurrent, CurrentNext DEF Answer, Goto
  <2>8. CASE Register(h, "count", q)
    <3>1. PICK c : c = [pc |-> "count", r |-> q]
      OBVIOUS
    <3>2. call'[h] = c
      BY <1>5, <2>8, <3>1 DEF Register, Goto
    <3>3. proof'[q.d] = ProofOf(q)
      BY <2>1, <2>3 DEF ProofOf
    <3>4. q.k # 0 => InForce(q.e, q.k)'
      BY <1>3, <1>4, <2>1 DEF InForce
    <3>5. c.pc = "count" /\ c.r = q
      BY <3>1
    <3>6. Current(c)'
      BY <3>3, <3>4, <3>5 DEF Current
    <3> QED BY <2>6, <3>2, <3>6, CurrentNext
  <2> QED BY <1>7, <2>7, <2>8
<1> QED BY <1>1, <1>6, <1>7, CreateAgentWrites

\* The reply of an enrolled device's registration.
LEMMA EnrolledBacked ==
  ASSUME KnownInv, AllBacked, AllCurrent, NEW h \in Handlers,
         CreateEmployeeDevice(h) \/ CountDevice(h), Alone(h)
  PROVE  AllBacked' /\ AllCurrent'
<1>1. PICK r : r = call[h].r
  OBVIOUS
<1>2. /\ call[h] \in Call /\ call[h].pc \in {"row", "inc"} /\ CallKnows(call[h])
      /\ Current(call[h]) /\ call \in [Handlers -> Call]
  BY CallOf DEF CreateEmployeeDevice, CountDevice, At, AllCurrent, KnownInv, TypeOK
<1>3. r \in Registration /\ r.d \in Devices /\ r.e # None /\ r.e \in Employees
  BY <1>1, <1>2, Shapes DEF Registration, CallKnows, EnrolPc, MaybeEmployee
<1>4. (r.k # 0 => InForce(r.e, r.k)) /\ proof[r.d] = ProofOf(r)
  BY <1>1, <1>2 DEF Current, RegisterPc, EnrolPc
<1>5. UNCHANGED <<device, proof>> /\ ~At(h, "cut")
  BY <1>2 DEF CreateEmployeeDevice, CountDevice, At
<1>6. SameKeys
  <2>1. CASE CreateEmployeeDevice(h)
    BY <2>1 DEF CreateEmployeeDevice, SameKeys
  <2>2. CASE CountDevice(h)
    <3>1. credential \in [Employees -> Credential]
      BY DEF KnownInv, TypeOK
    <3>2. PICK m : m = [credential[r.e] EXCEPT !.deviceCount = @ + 1]
      OBVIOUS
    <3>3. m.status = credential[r.e].status /\ m.key = credential[r.e].key
      BY <1>3, <3>1, <3>2 DEF Credential
    <3>4. credential' = [credential EXCEPT ![r.e] = m]
      BY <1>1, <1>3, <2>2, <3>1, <3>2 DEF CountDevice, Credential
    <3> QED BY <3>1, <3>3, <3>4 DEF SameKeys
  <2> QED BY <2>1, <2>2
<1>7. r.k # 0 => InForce(r.e, r.k)'
  BY <1>3, <1>4, <1>6 DEF InForce, SameKeys
<1>8. \A x \in Devices : x # r.d => held'[x] = held[x]
  BY <1>1, <1>3 DEF CreateEmployeeDevice, CountDevice, Registered, KnownInv, TypeOK
<1>9. r.k # 0 /\ proof'[r.d] # None => device'[r.d].employee = r.e
  <2>1. ASSUME r.k # 0 PROVE proof[r.d] = <<r.e, r.k>>
    BY <1>4, <2>1 DEF ProofOf
  <2>2. proof[r.d] # None => device[r.d].employee = proof[r.d][1]
    BY <1>3 DEF AllBacked, Proven
  <2>3. <<r.e, r.k>>[1] = r.e
    OBVIOUS
  <2> QED BY <1>5, <2>1, <2>2, <2>3
<1>10. Proven(r.d)' /\ Backed(r.d)'
  BY <1>3, <1>4, <1>5, <1>7, <1>9, RegisteredBacked
<1>11. ASSUME NEW x \in Devices, x # r.d PROVE Proven(x)' /\ Backed(x)'
  BY <1>5, <1>6, <1>8, <1>11, KeepsBacked DEF AllBacked, Authenticated
<1>12. AllBacked'
  BY <1>10, <1>11 DEF AllBacked
<1>13. CASE Answer(h)
  BY <1>2, <1>12, <1>13, RestingCurrent, CurrentNext DEF Answer, Goto
<1>14. CASE Register(h, "inc", r)
  <2>1. PICK c : c = [pc |-> "inc", r |-> r]
    OBVIOUS
  <2>2. call'[h] = c /\ c.pc = "inc" /\ c.r = r
    BY <1>2, <1>14, <2>1 DEF Register, Goto
  <2>3. Current(c)'
    BY <1>4, <1>5, <1>7, <2>2 DEF Current
  <2> QED BY <1>12, <2>2, <2>3, CurrentNext
<1> QED BY <1>1, <1>13, <1>14 DEF CreateEmployeeDevice, CountDevice, Registered

LEMMA AgentWritesBacked ==
  ASSUME KnownInv, AllBacked, NEW h \in Handlers, Heartbeat(h) \/ RevokeSelf(h), Alone(h)
  PROVE  AllBacked' /\ AllCurrent'
<1>1. PICK d : d = call[h].d
  OBVIOUS
<1>2. PICK a \in DeviceAgent :
        /\ d \in Devices /\ device[d].known
        /\ a = IF At(h, "leave") THEN [device[d] EXCEPT !.status = "revoked"] ELSE device[d]
        /\ device' = [device EXCEPT ![d] = a]
        /\ At(h, "heartbeat") \/ At(h, "leave")
        /\ Answer(h)
  BY <1>1, AgentWrites
<1>3. UNCHANGED <<held, proof>> /\ SameKeys /\ ~At(h, "cut")
  BY <1>2 DEF Heartbeat, RevokeSelf, SameKeys, At
<1>4. /\ a.employee = device[d].employee /\ a.known /\ a.token = device[d].token
      /\ a.status = "active" => device[d].status = "active"
  BY <1>2 DEF KnownInv, TypeOK, DeviceAgent
<1>5. ASSUME NEW x \in Devices
      PROVE  /\ device'[x].employee = device[x].employee
             /\ Authenticated(x)' => Authenticated(x)
  <2>1. device'[x] = IF x = d THEN a ELSE device[x]
    BY <1>2 DEF KnownInv, TypeOK
  <2> QED BY <1>2, <1>3, <1>4, <2>1 DEF Authenticated
<1>6. AllBacked'
  BY <1>3, <1>5, KeepsBacked DEF AllBacked
<1>7. call'[h] = IdleCall
  BY <1>2 DEF Answer, Goto, KnownInv, TypeOK
<1> QED BY <1>6, <1>7, RestingCurrent, CurrentNext

LEMMA CommandWritesBacked ==
  ASSUME KnownInv, AllBacked, NEW h \in Handlers, Alone(h),
         \/ ExpireStaleCommands(h) \/ GetPendingCommands(h)
         \/ CompleteCommand(h) \/ CreateCommand(h)
  PROVE  AllBacked' /\ AllCurrent'
<1>1. UNCHANGED <<device, held, proof, credential>> /\ ~At(h, "cut")
  BY DEF ExpireStaleCommands, GetPendingCommands, CompleteCommand, CreateCommand, docs, At
<1>2. AllBacked'
  BY <1>1, SameBacked DEF SameKeys
<1>3. call'[h] = IdleCall \/ call'[h].pc \in {"list", "order"}
  BY DEF ExpireStaleCommands, GetPendingCommands, CompleteCommand, CreateCommand, Answer, Goto,
         KnownInv, TypeOK
<1>4. PICK c : c = call'[h]
  OBVIOUS
<1>5. Current(c)'
  BY <1>3, <1>4, RestingCurrent DEF Current, RegisterPc, EnrolPc
<1> QED BY <1>2, <1>4, <1>5, CurrentNext

LEMMA InvalidateSessionsBacked ==
  ASSUME KnownInv, AllBacked, NEW h \in Handlers, InvalidateSessions(h), Alone(h)
  PROVE  AllBacked' /\ AllCurrent'
<1>1. PICK e : e = call[h].e
  OBVIOUS
<1>2. UNCHANGED <<held, proof>> /\ SameKeys /\ ~At(h, "cut")
  BY DEF InvalidateSessions, SameKeys, At
<1>3. ASSUME NEW x \in Devices
      PROVE  /\ device'[x].employee = device[x].employee
             /\ Authenticated(x)' => Authenticated(x)
             /\ device'[x].employee = e /\ device'[x].status # "revoked" => device'[x].token = 0
  <2>1. device[x] \in DeviceAgent
    BY DEF KnownInv, TypeOK
  <2>2. CASE device[x].employee = e /\ device[x].status # "revoked"
    <3>1. device'[x] = [device[x] EXCEPT !.token = 0]
      BY <1>1, <2>2 DEF InvalidateSessions
    <3>2. device'[x].employee = device[x].employee /\ device'[x].token = 0
      BY <2>1, <3>1 DEF DeviceAgent
    <3>3. ~Authenticated(x)'
      BY <3>2 DEF Authenticated
    <3> QED BY <3>2, <3>3
  <2>3. CASE ~(device[x].employee = e /\ device[x].status # "revoked")
    <3>1. device'[x] = device[x]
      BY <1>1, <2>3 DEF InvalidateSessions
    <3> QED BY <1>2, <2>3, <3>1 DEF Authenticated
  <2> QED BY <2>2, <2>3
<1>4. AllBacked'
  BY <1>2, <1>3, KeepsBacked DEF AllBacked
<1>5. PICK c : c = [pc |-> "store", e |-> e, first |-> FALSE]
  OBVIOUS
<1>6. call'[h] = c /\ c.pc = "store" /\ c.e = e /\ ~c.first
  BY <1>1, <1>5 DEF InvalidateSessions, Goto, KnownInv, TypeOK
<1>7. Current(c)'
  BY <1>3, <1>6 DEF Current, RegisterPc, EnrolPc
<1> QED BY <1>4, <1>6, <1>7, CurrentNext

LEMMA StoreCredentialBacked ==
  ASSUME KnownInv, AllBacked, AllCurrent, NEW h \in Handlers, StoreCredential(h), Alone(h)
  PROVE  AllBacked' /\ AllCurrent'
<1>1. PICK e : e = call[h].e
  OBVIOUS
<1>2. call[h] \in Call /\ call[h].pc = "store" /\ Current(call[h])
  BY CallOf DEF StoreCredential, At, AllCurrent
<1>3. e \in Employees
  BY <1>1, <1>2, Shapes
<1>4. UNCHANGED <<device, held, proof>> /\ ~At(h, "cut")
  BY <1>2 DEF StoreCredential, At
<1>5. call'[h] = IdleCall
  BY DEF StoreCredential, Answer, Goto, KnownInv, TypeOK
<1>6. \A x \in Employees : x # e => credential'[x] = credential[x]
  BY <1>1, <1>3 DEF StoreCredential, KnownInv, TypeOK
<1>7. ASSUME NEW d \in Devices, Authenticated(d), proof[d] # None, proof[d][1] = e
      PROVE  UNCHANGED credential
  <2>1. Proven(d) /\ Backed(d)
    BY DEF AllBacked
  <2>2. InForce(proof[d][1], proof[d][2])
    BY <1>4, <1>7, <2>1, NowInForce
  <2>3. credential[e].status = "active"
    BY <1>7, <2>2 DEF InForce
  <2>4. device[d].employee = e
    BY <1>7, <2>1 DEF Proven
  <2>5. device[d].status # "revoked" /\ device[d].token # 0
    BY <1>7 DEF Authenticated
  <2>6. call[h].first
    BY <1>1, <1>2, <2>4, <2>5 DEF Current
  <2>7. credential[e].status = "none"
    BY <1>1, <1>2, <2>6 DEF Current
  <2> QED BY <2>3, <2>7
<1>8. ASSUME NEW d \in Devices PROVE Proven(d)' /\ Backed(d)'
  <2>1. Proven(d) /\ Backed(d) /\ (Authenticated(d)' <=> Authenticated(d))
    BY <1>4 DEF AllBacked, Authenticated
  <2>2. Proven(d)'
    BY <1>4, <2>1 DEF Proven
  <2>3. ASSUME Authenticated(d), proof[d] # None PROVE InForce(proof[d][1], proof[d][2])'
    <3>1. InForce(proof[d][1], proof[d][2])
      BY <1>4, <2>1, <2>3, NowInForce
    <3>2. proof[d][1] \in Employees
      BY <2>3, ProofsOf
    <3>3. credential'[proof[d][1]] = credential[proof[d][1]]
      BY <1>6, <1>7, <2>3, <3>2
    <3> QED BY <1>4, <3>1, <3>3 DEF InForce
  <2>4. Backed(d)'
    BY <1>4, <2>1, <2>3 DEF Backed
  <2> QED BY <2>2, <2>4
<1> QED BY <1>5, <1>8, RestingCurrent, CurrentNext DEF AllBacked

LEMMA RevokeEmployeeCredentialBacked ==
  ASSUME KnownInv, AllBacked, NEW h \in Handlers, NEW e \in Employees,
         RevokeEmployeeCredential(h, e), Alone(h)
  PROVE  AllBacked' /\ AllCurrent'
<1>1. UNCHANGED <<device, held, proof>> /\ ~At(h, "cut")
  BY DEF RevokeEmployeeCredential, Idle, At
<1>2. PICK c : c = [pc |-> "cut", e |-> e]
  OBVIOUS
<1>3. call'[h] = c /\ c.pc = "cut" /\ c.e = e
  BY <1>2 DEF RevokeEmployeeCredential, Goto, KnownInv, TypeOK
<1>4. \A x \in Employees : x # e => credential'[x] = credential[x]
  BY DEF RevokeEmployeeCredential, KnownInv, TypeOK
<1>5. ASSUME NEW d \in Devices PROVE Proven(d)' /\ Backed(d)'
  <2>1. Proven(d) /\ Backed(d) /\ (Authenticated(d)' <=> Authenticated(d))
    BY <1>1 DEF AllBacked, Authenticated
  <2>2. Proven(d)'
    BY <1>1, <2>1 DEF Proven
  <2>3. CASE Authenticated(d) /\ proof[d] # None /\ proof[d][1] # e
    <3>1. InForce(proof[d][1], proof[d][2])
      BY <1>1, <2>1, <2>3, NowInForce
    <3>2. proof[d][1] \in Employees
      BY <2>3, ProofsOf
    <3>3. InForce(proof[d][1], proof[d][2])'
      BY <1>1, <1>4, <2>3, <3>1, <3>2 DEF InForce
    <3> QED BY <2>2, <3>3 DEF Backed
  <2>4. CASE proof[d] # None /\ proof[d][1] = e
    <3>1. At(h, "cut")' /\ call'[h].e = proof'[d][1]
      BY <1>1, <1>3, <2>4 DEF At
    <3> QED BY <2>2, <3>1 DEF Backed
  <2>5. CASE ~Authenticated(d) \/ proof[d] = None
    BY <1>1, <2>1, <2>2, <2>5 DEF Backed
  <2> QED BY <2>3, <2>4, <2>5
<1>6. Current(c)'
  BY <1>3 DEF Current, RegisterPc, EnrolPc
<1> QED BY <1>3, <1>5, <1>6, CurrentNext DEF AllBacked

LEMMA RevokeEmployeeDevicesBacked ==
  ASSUME KnownInv, AllBacked, NEW h \in Handlers, RevokeEmployeeDevices(h), Alone(h)
  PROVE  AllBacked' /\ AllCurrent'
<1>1. PICK e : e = call[h].e
  OBVIOUS
<1>2. UNCHANGED <<held, proof, credential>>
  BY DEF RevokeEmployeeDevices
<1>3. ASSUME NEW x \in Devices
      PROVE  /\ device'[x].employee = device[x].employee
             /\ Authenticated(x)' => Authenticated(x) /\ device[x].employee # e
  <2>1. device[x] \in DeviceAgent
    BY DEF KnownInv, TypeOK
  <2>2. CASE device[x].employee = e
    <3>1. device'[x] = [device[x] EXCEPT !.status = "revoked"]
      BY <1>1, <2>2 DEF RevokeEmployeeDevices
    <3>2. device'[x].employee = device[x].employee /\ device'[x].status = "revoked"
      BY <2>1, <3>1 DEF DeviceAgent
    <3> QED BY <3>2 DEF Authenticated
  <2>3. CASE device[x].employee # e
    <3>1. device'[x] = device[x]
      BY <1>1, <2>3 DEF RevokeEmployeeDevices
    <3> QED BY <1>2, <2>3, <3>1 DEF Authenticated
  <2> QED BY <2>2, <2>3
<1>4. ASSUME NEW d \in Devices PROVE Proven(d)' /\ Backed(d)'
  <2>1. Proven(d) /\ Backed(d)
    BY DEF AllBacked
  <2>2. Proven(d)'
    BY <1>2, <1>3, <2>1 DEF Proven
  <2>3. ASSUME Authenticated(d)', proof[d] # None PROVE InForce(proof[d][1], proof[d][2])
    <3>1. Authenticated(d) /\ proof[d][1] # e
      BY <1>3, <2>1, <2>3 DEF Proven
    <3>2. ASSUME NEW g \in Handlers, At(g, "cut"), call[g].e = proof[d][1] PROVE FALSE
      <4>1. CASE g = h
        BY <1>1, <3>1, <3>2, <4>1
      <4>2. CASE g # h
        BY <3>2, <4>2 DEF Alone, At, OffCall
      <4> QED BY <4>1, <4>2
    <3> QED BY <2>1, <2>3, <3>1, <3>2 DEF Backed
  <2>4. Backed(d)'
    BY <1>2, <2>3 DEF Backed, InForce
  <2> QED BY <2>2, <2>4
<1>5. PICK c : c = [pc |-> "zero", e |-> e]
  OBVIOUS
<1>6. call'[h] = c /\ c.pc = "zero"
  BY <1>1, <1>5 DEF RevokeEmployeeDevices, Goto, KnownInv, TypeOK
<1>7. Current(c)'
  BY <1>6 DEF Current, RegisterPc, EnrolPc
<1> QED BY <1>4, <1>6, <1>7, CurrentNext DEF AllBacked

LEMMA ZeroDeviceCountBacked ==
  ASSUME KnownInv, AllBacked, NEW h \in Handlers, ZeroDeviceCount(h), Alone(h)
  PROVE  AllBacked' /\ AllCurrent'
<1>1. UNCHANGED <<device, held, proof>> /\ ~At(h, "cut")
  BY DEF ZeroDeviceCount, At
<1>2. SameKeys
  BY DEF ZeroDeviceCount, SameKeys, KnownInv, TypeOK, Credential
<1>3. call'[h] = IdleCall
  BY DEF ZeroDeviceCount, Answer, Goto, KnownInv, TypeOK
<1> QED BY <1>1, <1>2, <1>3, SameBacked, RestingCurrent, CurrentNext

LEMMA AtOnceBacked ==
  ASSUME KnownInv, AllBacked, AllCurrent, IsSerial, AtOnce
  PROVE  AllBacked' /\ AllCurrent'
<1>1. UNCHANGED <<held, proof, credential, call>>
  BY DEF AtOnce, UpdateSettings, RevokeDevice, Lapse, vars
<1>2. CASE UNCHANGED device
  <2>1. AllBacked'
    BY <1>1, <1>2 DEF AllBacked, Proven, Backed, Authenticated, InForce, At
  <2>2. ASSUME NEW h \in Handlers PROVE Current(call[h])'
    <3>1. PICK c : c = call[h]
      OBVIOUS
    <3>2. Current(c)'
      BY <1>1, <1>2, <3>1 DEF AllCurrent, Current, InForce
    <3> QED BY <1>1, <3>1, <3>2 DEF Current
  <2> QED BY <2>1, <2>2 DEF AllCurrent
<1>3. ASSUME NEW h \in Handlers, NEW d \in Devices, RevokeDevice(h, d)
      PROVE  AllBacked' /\ AllCurrent'
  <2>1. call \in [Handlers -> Call] /\ device[d] \in DeviceAgent
    BY DEF KnownInv, TypeOK
  <2>2. call[h].pc = "idle"
    BY <1>3 DEF RevokeDevice, Idle, At
  <2>3. call[h] = IdleCall
    BY <2>1, <2>2 DEF Call, IdleCall, OffCall
  <2>4. ASSUME NEW g \in Handlers PROVE call[g] = IdleCall \/ call[g] = OffCall
    <3>1. IdleCall # OffCall
      BY DEF IdleCall, OffCall
    <3> QED BY <2>3, <3>1 DEF IsSerial
  <2>5. PICK a : a = [device[d] EXCEPT !.status = "revoked"]
    OBVIOUS
  <2>6. device' = [device EXCEPT ![d] = a] /\ a.status = "revoked" /\ a.employee = device[d].employee
    BY <1>3, <2>1, <2>5 DEF RevokeDevice, KnownInv, TypeOK, DeviceAgent
  <2>7. ASSUME NEW x \in Devices
        PROVE  /\ device'[x].employee = device[x].employee
               /\ Authenticated(x)' => Authenticated(x)
    <3>1. device'[x] = IF x = d THEN a ELSE device[x]
      BY <2>6 DEF KnownInv, TypeOK
    <3> QED BY <1>1, <2>6, <3>1 DEF Authenticated
  <2>8. AllBacked'
    BY <1>1, <2>7 DEF AllBacked, Proven, Backed, InForce, At
  <2>9. ASSUME NEW g \in Handlers PROVE Current(call[g])'
    BY <1>1, <2>4, RestingCurrent DEF Current
  <2> QED BY <2>8, <2>9 DEF AllCurrent
<1> QED BY <1>2, <1>3 DEF AtOnce, UpdateSettings, Lapse, vars

LEMMA BackedInit == ASSUME Init PROVE BackedInv
<1>1. \A d \in Devices : Proven(d) /\ Backed(d)
  BY DEF Init, Proven, Backed
<1>2. \A h \in Handlers : Current(call[h])
  BY RestingCurrent DEF Init
<1> QED BY <1>1, <1>2, KnownInit DEF BackedInv, AllBacked, AllCurrent

LEMMA StepBacked ==
  ASSUME KnownInv, AllBacked, AllCurrent, NEW h \in Handlers, Alone(h),
         AnyLooks(h) \/ WritesDevice(h) \/ WritesOther(h)
  PROVE  AllBacked' /\ AllCurrent'
<1>1. CASE AnyLooks(h)
  BY <1>1, LooksBacked
<1>2. CASE WritesDevice(h)
  BY <1>2, SaveAgentBacked, CreateAgentBacked, AgentWritesBacked, InvalidateSessionsBacked,
     RevokeEmployeeDevicesBacked DEF WritesDevice
<1>3. CASE WritesOther(h)
  BY <1>3, EnrolledBacked, CommandWritesBacked, StoreCredentialBacked, ZeroDeviceCountBacked,
     RevokeEmployeeCredentialBacked DEF WritesOther
<1> QED BY <1>1, <1>2, <1>3

LEMMA BackedNext == ASSUME BackedInv, [Next]_vars PROVE BackedInv'
<1>1. KnownInv /\ KnownInv'
  BY KnownNext DEF BackedInv
<1>2. ASSUME IsSerial', crashes' = 0 PROVE AllBacked' /\ AllCurrent'
  <2>1. IsSerial
    BY <1>1, <1>2, SerialBefore
  <2>2. CASE Crash
    <3>1. crashes' = crashes + 1 /\ crashes \in Nat
      BY <1>1, <2>2, CrashKnown, BoundsAssumption DEF KnownInv, TypeOK
    <3> QED BY <1>2, <3>1
  <2>3. CASE AtOnce
    <3>1. crashes = 0
      BY <1>2, <2>3 DEF AtOnce, UpdateSettings, RevokeDevice, Lapse, vars
    <3> QED BY <1>1, <2>1, <2>3, <3>1, AtOnceBacked DEF BackedInv
  <2>4. ASSUME NEW h \in Handlers, AnyLooks(h) \/ WritesDevice(h) \/ WritesOther(h)
        PROVE  AllBacked' /\ AllCurrent'
    <3>1. UNCHANGED crashes
      <4>1. CASE AnyLooks(h)
        BY <1>1, <4>1, AnyLooksLooks DEF Looks
      <4>2. CASE WritesDevice(h)
        BY <4>2 DEF WritesDevice, SaveAgent, CreateAgent, Heartbeat, RevokeSelf, InvalidateSessions,
                    RevokeEmployeeDevices
      <4>3. CASE WritesOther(h)
        BY <4>3 DEF WritesOther, CreateEmployeeDevice, CountDevice, ExpireStaleCommands,
                    GetPendingCommands, CompleteCommand, CreateCommand, StoreCredential,
                    ZeroDeviceCount, RevokeEmployeeCredential
      <4> QED BY <2>4, <4>1, <4>2, <4>3
    <3>2. Alone(h)
      BY <1>1, <1>2, <2>4, StepMoves, MovesAlone
    <3> QED BY <1>1, <1>2, <2>1, <2>4, <3>1, <3>2, StepBacked DEF BackedInv
  <2> QED BY <2>2, <2>3, <2>4, NextParts
<1> QED BY <1>1, <1>2 DEF BackedInv

\* With one call at a time and no crash, the agents of employees that get in were
\* registered with the key now in force (createEmployeeCredential,
\* revokeEmployeeCredential).
THEOREM TokenIsBackedAlways == Spec => []TokenIsBacked
<1>1. Init => BackedInv
  BY BackedInit
<1>2. BackedInv /\ [Next]_vars => BackedInv'
  BY BackedNext
<1>3. BackedInv => TokenIsBacked
  <2>1. ASSUME BackedInv, IsSerial, AtRest, crashes = 0, NEW d \in Devices,
               Authenticated(d), proof[d] # None
        PROVE  InForce(proof[d][1], proof[d][2])
    <3>1. \A h \in Handlers : ~At(h, "cut")
      BY <2>1 DEF AtRest, At, OffCall, IdleCall
    <3> QED BY <2>1, <3>1 DEF BackedInv, AllBacked, Backed
  <2> QED BY <2>1 DEF TokenIsBacked, InForce
<1> QED BY <1>1, <1>2, <1>3, PTL DEF Spec

-----------------------------------------------------------------------------
(* An employee has one primary device.                                       *)

LEMMA RestingEnrols ==
  ASSUME NEW c, c.pc \notin {"count", "row"}
  PROVE  Enrolling(c) /\ Enrolling(c)'
BY DEF Enrolling

\* Rows are as they were, and the calls with them.
LEMMA RowsStay ==
  ASSUME OneEach, UNCHANGED row, Monotone,
         \A h \in Handlers : \/ call'[h].pc \notin {"count", "row"}
                             \/ \E c : call'[h] = c /\ Enrolling(c)'
  PROVE  OneEach'
<1>1. RowsAreKnown'
  BY DEF OneEach, RowsAreKnown, Monotone
<1>2. \A e \in Employees : HasNone(e)' \/ HasPrimary(e)'
  BY DEF OneEach, HasNone, HasPrimary
<1>3. ASSUME NEW h \in Handlers PROVE Enrolling(call[h])'
  <2>1. CASE call'[h].pc \notin {"count", "row"}
    BY <2>1 DEF Enrolling
  <2>2. CASE \E c : call'[h] = c /\ Enrolling(c)'
    BY <2>2 DEF Enrolling, HasNone
  <2> QED BY <2>1, <2>2
<1> QED BY <1>1, <1>2, <1>3 DEF OneEach

LEMMA RowsStayAlone ==
  ASSUME OneEach, UNCHANGED row, Monotone, NEW h \in Handlers, Alone(h),
         \/ call'[h].pc \notin {"count", "row"}
         \/ \E c : call'[h] = c /\ Enrolling(c)'
  PROVE  OneEach'
<1>1. \A g \in Handlers : g # h => call'[g].pc \notin {"count", "row"}
  BY DEF Alone, OffCall
<1> QED BY <1>1, RowsStay

LEMMA LooksOneEach ==
  ASSUME KnownInv, OneEach, NEW h \in Handlers, AnyLooks(h), Alone(h)
  PROVE  OneEach'
<1>1. UNCHANGED <<device, row>> /\ Monotone
  BY AnyLooksLooks DEF Looks, docs, Monotone
<1>2. call \in [Handlers -> Call]
  BY DEF KnownInv, TypeOK
<1>3. CASE CountDevices(h)
  <2>1. PICK r : r = call[h].r
    OBVIOUS
  <2>2. device[r.d].known /\ row[r.e][r.d] = "none"
    BY <1>3, <2>1 DEF OneEach, Enrolling, CountDevices, At
  <2>3. PICK c : c = [pc |-> "row", r |-> r, first |-> HasNone(r.e)]
    OBVIOUS
  <2>4. call'[h] = c
    BY <1>2, <1>3, <2>1, <2>3 DEF CountDevices, Goto, HasNone
  <2>5. c.pc = "row" /\ c.r = r /\ (c.first <=> HasNone(r.e))
    BY <2>3
  <2>6. Enrolling(c)'
    BY <1>1, <2>2, <2>5 DEF Enrolling, HasNone
  <2> QED BY <1>1, <2>4, <2>6, RowsStayAlone
<1>4. CASE ~CountDevices(h)
  <2>1. CASE \E d \in Devices :
               \/ \E e \in Employees : ResolveEmployeeCredential(h, d, e)
               \/ \E e \in MaybeEmployee : VerifyCompanyKey(h, d, e)
               \/ RequestCommand(h, d)
    BY <1>1, <1>2, <2>1, RowsStayAlone
       DEF ResolveEmployeeCredential, VerifyCompanyKey, RequestCommand, Register, Goto
  <2>2. CASE \E d \in Devices : AgentHeartbeat(h, d) \/ AgentLeave(h, d) \/ AgentConfig(h, d)
    BY <1>1, <1>2, <2>2, RowsStayAlone
       DEF AgentHeartbeat, AgentLeave, AgentConfig, AgentCall, Goto
  <2>3. CASE \E d \in Devices : AgentUpload(h, d)
    <3>1. PICK c : Goto(h, [pc |-> "upload", c |-> c])
      BY <2>3 DEF AgentUpload, AgentCall
    <3> QED BY <1>1, <1>2, <3>1, RowsStayAlone DEF Goto
  <2>4. CASE \E d \in Devices : AgentCompletes(h, d)
    <3>1. PICK c, to : Goto(h, [pc |-> "finish", c |-> c, to |-> to])
      BY <2>4 DEF AgentCompletes, AgentCall
    <3> QED BY <1>1, <1>2, <3>1, RowsStayAlone DEF Goto
  <2>5. CASE \E e \in Employees : CreateEmployeeCredential(h, e)
    BY <1>1, <1>2, <2>5, RowsStayAlone DEF CreateEmployeeCredential, Goto
  <2>6. CASE \E e \in Employees : QueueOpenWorkspace(h, e)
    <3>1. PICK todo : Goto(h, [pc |-> "order", todo |-> todo])
      BY <2>6 DEF QueueOpenWorkspace
    <3> QED BY <1>1, <1>2, <3>1, RowsStayAlone DEF Goto
  <2>7. CASE FindAgent(h)
    <3>1. call'[h].pc \in {"create", "idle", "save"}
      BY <1>2, <2>7 DEF FindAgent, Register, Answer, IdleCall, Goto
    <3> QED BY <1>1, <3>1, RowsStayAlone
  <2>8. CASE UploadScreenshot(h)
    BY <1>1, <1>2, <2>8, RowsStayAlone DEF UploadScreenshot, Goto
  <2> QED BY <1>4, <2>1, <2>2, <2>3, <2>4, <2>5, <2>6, <2>7, <2>8 DEF AnyLooks
<1> QED BY <1>3, <1>4

LEMMA CreateAgentOneEach ==
  ASSUME KnownInv, OneEach, NEW h \in Handlers, CreateAgent(h), Alone(h)
  PROVE  OneEach'
<1>1. PICK r : r = call[h].r
  OBVIOUS
<1>2. r \in Registration /\ r.d \in Devices /\ UNCHANGED row /\ call \in [Handlers -> Call]
  BY <1>1, CreateAgentWrites DEF CreateAgent, KnownInv, TypeOK
<1>3. CASE Answer(h) /\ UNCHANGED device
  BY <1>2, <1>3, RowsStayAlone DEF Answer, Goto, IdleCall, Monotone
<1>4. ASSUME NEW t \in 1..MaxTokens, NEW a \in DeviceAgent, NEW q \in Registration,
             /\ ~device[r.d].known
             /\ a = [known |-> TRUE, status |-> "active", employee |-> r.e, token |-> t]
             /\ q = [r EXCEPT !.t = t]
             /\ device' = [device EXCEPT ![r.d] = a]
             /\ Answer(h) \/ (r.e # None /\ Register(h, "count", q))
      PROVE  OneEach'
  <2>1. a.known
    BY <1>4
  <2>2. Monotone /\ device'[r.d] = a
    BY <1>2, <1>4, <2>1, DeviceWritten
  <2>3. CASE Answer(h)
    BY <1>2, <2>2, <2>3, RowsStayAlone DEF Answer, Goto, IdleCall
  <2>4. CASE r.e # None /\ Register(h, "count", q)
    <3>1. r.e \in Employees /\ q.d = r.d /\ q.e = r.e
      BY <1>2, <1>4, <2>4 DEF Registration, MaybeEmployee
    <3>2. row[r.e][r.d] = "none"
      BY <1>2, <1>4, <3>1 DEF OneEach, RowsAreKnown
    <3>3. PICK c : c = [pc |-> "count", r |-> q]
      OBVIOUS
    <3>4. call'[h] = c /\ c.pc = "count" /\ c.r = q
      BY <1>2, <2>4, <3>3 DEF Register, Goto
    <3>5. Enrolling(c)'
      BY <1>2, <2>1, <2>2, <3>1, <3>2, <3>4 DEF Enrolling
    <3> QED BY <1>2, <2>2, <3>4, <3>5, RowsStayAlone
  <2> QED BY <1>4, <2>3, <2>4
<1> QED BY <1>1, <1>3, <1>4, CreateAgentWrites

LEMMA CreateEmployeeDeviceOneEach ==
  ASSUME KnownInv, OneEach, NEW h \in Handlers, CreateEmployeeDevice(h), Alone(h)
  PROVE  OneEach'
<1>1. PICK r : r = call[h].r
  OBVIOUS
<1>2. PICK first : first = call[h].first
  OBVIOUS
<1>3. /\ call[h] \in Call /\ call[h].pc = "row" /\ CallKnows(call[h]) /\ Enrolling(call[h])
      /\ call \in [Handlers -> Call] /\ UNCHANGED device
  BY CallOf DEF CreateEmployeeDevice, At, OneEach, KnownInv, TypeOK
<1>4. r \in Registration /\ r.d \in Devices /\ r.e \in Employees
  BY <1>1, <1>3, Shapes DEF Registration, CallKnows, EnrolPc, MaybeEmployee
<1>5. /\ device[r.d].known /\ row[r.e][r.d] = "none"
      /\ first <=> HasNone(r.e)
  BY <1>1, <1>2, <1>3 DEF Enrolling
<1>6. PICK w : w = IF first THEN "primary" ELSE "other"
  OBVIOUS
<1>7. row \in [Employees -> [Devices -> {"none", "primary", "other"}]]
  BY DEF KnownInv, TypeOK
<1>8. row' = [row EXCEPT ![r.e][r.d] = w]
  BY <1>1, <1>2, <1>6 DEF CreateEmployeeDevice
<1>9. /\ \A e \in Employees : e # r.e => row'[e] = row[e]
      /\ \A d \in Devices : row'[r.e][d] = IF d = r.d THEN w ELSE row[r.e][d]
  BY <1>4, <1>7, <1>8
<1>10. RowsAreKnown'
  <2>1. ASSUME NEW d \in Devices, ~device[d].known, NEW e \in Employees PROVE row'[e][d] = "none"
    <3>1. row[e][d] = "none" /\ d # r.d
      BY <1>5, <2>1 DEF OneEach, RowsAreKnown
    <3> QED BY <1>9, <3>1
  <2> QED BY <1>3, <2>1 DEF RowsAreKnown
<1>11. HasPrimary(r.e)'
  <2>1. CASE first
    <3>1. {d \in Devices : row'[r.e][d] = "primary"} = {r.d}
      BY <1>4, <1>5, <1>6, <1>9, <2>1 DEF HasNone
    <3> QED BY <1>4, <3>1 DEF HasPrimary
  <2>2. CASE ~first
    <3>1. HasPrimary(r.e)
      BY <1>4, <1>5, <2>2 DEF OneEach
    <3>2. {d \in Devices : row'[r.e][d] = "primary"} = {d \in Devices : row[r.e][d] = "primary"}
      BY <1>5, <1>6, <1>9, <2>2
    <3> QED BY <3>1, <3>2 DEF HasPrimary
  <2> QED BY <2>1, <2>2
<1>12. ASSUME NEW e \in Employees PROVE HasNone(e)' \/ HasPrimary(e)'
  <2>1. CASE e = r.e
    BY <1>11, <2>1
  <2>2. CASE e # r.e
    <3>1. row'[e] = row[e]
      BY <1>9, <2>2
    <3>2. HasNone(e) \/ HasPrimary(e)
      BY DEF OneEach
    <3> QED BY <3>1, <3>2 DEF HasNone, HasPrimary
  <2> QED BY <2>1, <2>2
<1>13. ASSUME NEW g \in Handlers PROVE Enrolling(call[g])'
  <2>1. call'[h].pc \in {"inc", "idle"}
    BY <1>1, <1>3 DEF CreateEmployeeDevice, Registered, Register, Answer, Goto, IdleCall
  <2>2. g # h => call'[g].pc = "off"
    BY DEF Alone, OffCall
  <2>3. call'[g].pc \notin {"count", "row"}
    BY <2>1, <2>2
  <2> QED BY <2>3 DEF Enrolling
<1> QED BY <1>10, <1>12, <1>13 DEF OneEach

LEMMA OtherOneEach ==
  ASSUME KnownInv, OneEach, NEW h \in Handlers, Alone(h),
         WritesDevice(h) \/ WritesOther(h), ~CreateAgent(h), ~CreateEmployeeDevice(h)
  PROVE  OneEach'
<1>1. call \in [Handlers -> Call]
  BY DEF KnownInv, TypeOK
<1>2. Monotone
  <2>1. CASE SaveAgent(h)
    <3>1. PICK r : r = call[h].r
      OBVIOUS
    <3>2. PICK a \in DeviceAgent : r \in Registration /\ a.known /\ device' = [device EXCEPT ![r.d] = a]
      BY <3>1, SaveAgentWrites, <2>1
    <3> QED BY <3>2, DeviceWritten DEF Registration
  <2>2. CASE Heartbeat(h) \/ RevokeSelf(h)
    <3>1. PICK d : d = call[h].d
      OBVIOUS
    <3>2. PICK a \in DeviceAgent :
            /\ d \in Devices /\ device[d].known
            /\ a = IF At(h, "leave") THEN [device[d] EXCEPT !.status = "revoked"] ELSE device[d]
            /\ device' = [device EXCEPT ![d] = a]
      BY <2>2, <3>1, AgentWrites
    <3>3. a.known
      BY <3>2 DEF KnownInv, TypeOK, DeviceAgent
    <3> QED BY <3>2, <3>3, DeviceWritten
  <2>3. CASE InvalidateSessions(h)
    BY <2>3 DEF InvalidateSessions, Monotone, KnownInv, TypeOK, DeviceAgent
  <2>4. CASE RevokeEmployeeDevices(h)
    BY <2>4 DEF RevokeEmployeeDevices, Monotone, KnownInv, TypeOK, DeviceAgent
  <2>5. CASE WritesOther(h)
    <3>1. UNCHANGED device
      BY <2>5 DEF WritesOther, CreateEmployeeDevice, CountDevice, ExpireStaleCommands,
                  GetPendingCommands, CompleteCommand, CreateCommand, StoreCredential,
                  ZeroDeviceCount, RevokeEmployeeCredential, docs
    <3> QED BY <3>1 DEF Monotone
  <2> QED BY <2>1, <2>2, <2>3, <2>4, <2>5 DEF WritesDevice
<1>3. UNCHANGED row
  <2>1. CASE WritesDevice(h)
    BY <2>1 DEF WritesDevice, SaveAgent, Heartbeat, RevokeSelf, InvalidateSessions,
                RevokeEmployeeDevices
  <2>2. CASE WritesOther(h)
    BY <2>2 DEF WritesOther, CountDevice, ExpireStaleCommands, GetPendingCommands, CompleteCommand,
                CreateCommand, StoreCredential, ZeroDeviceCount, RevokeEmployeeCredential, docs
  <2> QED BY <2>1, <2>2
<1>4. call'[h].pc \notin {"count", "row"}
  <2>1. CASE Answer(h)
    BY <1>1, <2>1 DEF Answer, Goto, IdleCall
  <2>2. CASE \/ InvalidateSessions(h) \/ RevokeEmployeeDevices(h) \/ ExpireStaleCommands(h)
             \/ \E e \in Employees : RevokeEmployeeCredential(h, e)
    BY <1>1, <2>2 DEF InvalidateSessions, RevokeEmployeeDevices, ExpireStaleCommands,
                      RevokeEmployeeCredential, Goto
  <2>3. CASE CreateCommand(h)
    BY <1>1, <2>1, <2>3 DEF CreateCommand, Goto
  <2>4. CASE \/ SaveAgent(h) \/ Heartbeat(h) \/ RevokeSelf(h) \/ CountDevice(h)
             \/ GetPendingCommands(h) \/ CompleteCommand(h) \/ StoreCredential(h)
             \/ ZeroDeviceCount(h)
    BY <2>1, <2>4 DEF SaveAgent, Heartbeat, RevokeSelf, CountDevice, GetPendingCommands,
                      CompleteCommand, StoreCredential, ZeroDeviceCount, Registered
  <2> QED BY <2>2, <2>3, <2>4 DEF WritesDevice, WritesOther
<1> QED BY <1>2, <1>3, <1>4, RowsStayAlone

LEMMA AtRestOneEach ==
  ASSUME KnownInv, OneEach, AtOnce \/ Crash
  PROVE  OneEach'
<1>1. UNCHANGED row
  BY DEF AtOnce, UpdateSettings, RevokeDevice, Lapse, vars, Crash, docs
<1>2. \A d \in Devices : device'[d].known = device[d].known
  <2>1. CASE UNCHANGED device
    BY <2>1
  <2>2. ASSUME NEW h \in Handlers, NEW d \in Devices, RevokeDevice(h, d)
        PROVE  \A x \in Devices : device'[x].known = device[x].known
    BY <2>2 DEF RevokeDevice, KnownInv, TypeOK, DeviceAgent
  <2> QED BY <2>1, <2>2 DEF AtOnce, UpdateSettings, Lapse, vars, Crash, docs
<1>3. Monotone
  BY <1>2 DEF Monotone
<1>4. CASE AtOnce
  <2>1. UNCHANGED call
    BY <1>4 DEF AtOnce, UpdateSettings, RevokeDevice, Lapse, vars
  <2>2. ASSUME NEW h \in Handlers, call'[h].pc \in {"count", "row"}
        PROVE  \E c : call'[h] = c /\ Enrolling(c)'
    <3>1. PICK c : c = call[h]
      OBVIOUS
    <3>2. c \in Call /\ c.pc \in {"count", "row"}
      BY <2>1, <2>2, <3>1, CallOf
    <3>3. c.r.d \in Devices
      BY <3>2, Shapes DEF Registration
    <3>4. Enrolling(c)
      BY <3>1 DEF OneEach
    <3>5. Enrolling(c)'
      BY <1>1, <1>2, <3>2, <3>3, <3>4 DEF Enrolling, HasNone
    <3> QED BY <2>1, <3>1, <3>5
  <2> QED BY <1>1, <1>3, <2>2, RowsStay
<1>5. CASE Crash
  <2>1. \A h \in Handlers : call'[h].pc \in {"off", "idle"}
    BY <1>5, CrashKnown DEF OffCall, IdleCall
  <2> QED BY <1>1, <1>3, <2>1, RowsStay
<1> QED BY <1>4, <1>5

LEMMA PrimaryInit == ASSUME Init PROVE PrimaryInv
<1>1. RowsAreKnown /\ \A e \in Employees : HasNone(e)
  BY DEF Init, RowsAreKnown, HasNone
<1>2. \A h \in Handlers : call[h].pc \notin {"count", "row"}
  BY DEF Init, OffCall, IdleCall
<1>3. \A h \in Handlers : Enrolling(call[h])
  BY <1>2 DEF Enrolling
<1> QED BY <1>1, <1>3, KnownInit DEF PrimaryInv, OneEach

LEMMA PrimaryNext == ASSUME PrimaryInv, [Next]_vars PROVE PrimaryInv'
<1>1. KnownInv /\ KnownInv'
  BY KnownNext DEF PrimaryInv
<1>2. ASSUME IsSerial' PROVE OneEach'
  <2>1. OneEach
    BY <1>1, <1>2, SerialBefore DEF PrimaryInv
  <2>2. ASSUME NEW h \in Handlers, AnyLooks(h) \/ WritesDevice(h) \/ WritesOther(h) PROVE OneEach'
    <3>1. Alone(h)
      BY <1>1, <1>2, <2>2, StepMoves, MovesAlone
    <3> QED BY <1>1, <2>1, <2>2, <3>1, LooksOneEach, CreateAgentOneEach,
               CreateEmployeeDeviceOneEach, OtherOneEach
  <2> QED BY <1>1, <2>1, <2>2, NextParts, AtRestOneEach
<1> QED BY <1>1, <1>2 DEF PrimaryInv

\* With one call at a time, wherever the process dies, an employee with devices
\* has exactly one primary one (registerAgent).
THEOREM OnePrimaryAlways == Spec => []OnePrimary
<1>1. Init => PrimaryInv
  BY PrimaryInit
<1>2. PrimaryInv /\ [Next]_vars => PrimaryInv'
  BY PrimaryNext
<1>3. PrimaryInv => OnePrimary
  <2>1. ASSUME PrimaryInv, IsSerial, NEW e \in Employees, NEW d \in Devices, row[e][d] # "none"
        PROVE  Cardinality({x \in Devices : row[e][x] = "primary"}) = 1
    <3>1. HasPrimary(e)
      BY <2>1 DEF PrimaryInv, OneEach, HasNone
    <3>2. PICK p : {x \in Devices : row[e][x] = "primary"} = {p}
      BY <3>1 DEF HasPrimary
    <3>3. Cardinality({p}) = 1
      BY FS_Singleton
    <3> QED BY <3>2, <3>3
  <2> QED BY <2>1 DEF OnePrimary
<1> QED BY <1>1, <1>2, <1>3, PTL DEF Spec

\* The two together, as the run checks them (registerAgent,
\* createEmployeeCredential, revokeEmployeeCredential).
THEOREM AgentsAreBackedAlways == Spec => []AgentsAreBacked
<1>1. TokenIsBacked /\ OnePrimary => AgentsAreBacked
  BY DEF AgentsAreBacked
<1> QED BY <1>1, TokenIsBackedAlways, OnePrimaryAlways, PTL

=============================================================================
