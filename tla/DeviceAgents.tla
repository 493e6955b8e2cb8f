---------------------------- MODULE DeviceAgents ----------------------------
(***************************************************************************)
(* The desktop monitoring agents of employees: registration with an        *)
(* employee's credential or the company key, the bearer token every later  *)
(* call is checked against, heartbeats, the credentials an administrator   *)
(* hands out, rotates and revokes, and the commands queued for a device    *)
(* (agent.service.ts, employee-monitor.service.ts, agent-auth.guard.ts,    *)
(* queueOpenWorkspaceForEmployee of agent-workspace.service.ts).           *)
(***************************************************************************)
EXTENDS Naturals, FiniteSets, MongoDocument

CONSTANTS
  Handlers,       \* calls the process serves at the same time
  Devices,        \* machines, by deviceHash
  Employees,      \* employee ids
  Commands,       \* command ids (bound on the commands issued)
  None,           \* no employee, no proof
  MaxTokens,      \* device tokens issued (bound)
  MaxKeys,        \* keys issued per employee (bound)
  MaxCrashes      \* how often the process may die (bound)

ASSUME NoneAssumption == None \notin Employees
ASSUME BoundsAssumption == MaxTokens \in Nat /\ MaxKeys \in Nat /\ MaxCrashes \in Nat

VARIABLES
  enabled,        \* settings.enabled
  device,         \* device_agents, by deviceHash
  held,           \* the token the agent on the machine keeps; 0 for none
  proof,          \* history: credential and key of a device's last registration
  row,            \* employee_devices: whose device, and whether the primary one
  credential,     \* monitor_employee_credentials, by employee
  command,        \* monitor_commands
  shown,          \* history: commands a device has been sent
  issued,         \* device tokens issued so far
  call,           \* what each handler remembers between two awaits
  crashes         \* how often the process has died

docs == <<enabled, device, row, credential, command>>
vars == <<enabled, device, held, proof, row, credential, command, shown, issued, call, crashes>>

MaybeEmployee == Employees \cup {None}
DeviceAgent ==
  [known: BOOLEAN, status: {"active", "revoked"}, employee: MaybeEmployee, token: 0..MaxTokens]
Credential == [status: {"none", "active", "revoked"}, key: 0..MaxKeys, deviceCount: Nat]
MonitorCommand ==
  [status: {"unused", "pending", "completed", "failed", "expired"},
   device: Devices \cup {None}, due: BOOLEAN]

\* A registration in flight: machine, employee, key (0: the company's), token.
Registration == [d: Devices, e: MaybeEmployee, k: 0..MaxKeys, t: 0..MaxTokens]

OffCall == [pc |-> "off"]     \* a handler that never serves a call
IdleCall == [pc |-> "idle"]
Call ==
  {OffCall, IdleCall}
    \cup [pc: {"device", "create", "count", "inc"}, r: Registration]
    \cup [pc: {"save"}, r: Registration, seen: DeviceAgent]
    \cup [pc: {"row"}, r: Registration, first: BOOLEAN]
    \cup [pc: {"rotate", "cut", "zero"}, e: Employees]
    \cup [pc: {"store"}, e: Employees, first: BOOLEAN]
    \cup [pc: {"heartbeat", "leave"}, d: Devices, seen: DeviceAgent]
    \cup [pc: {"expire", "list"}, d: Devices]
    \cup [pc: {"upload"}, c: Commands]
    \cup [pc: {"finish"}, c: Commands, to: {"completed", "failed"}]
    \cup [pc: {"order"}, todo: SUBSET Devices]

TypeOK ==
  /\ enabled \in BOOLEAN
  /\ device \in [Devices -> DeviceAgent]
  /\ held \in [Devices -> 0..MaxTokens]
  /\ proof \in [Devices -> (Employees \X (1..MaxKeys)) \cup {None}]
  /\ row \in [Employees -> [Devices -> {"none", "primary", "other"}]]
  /\ credential \in [Employees -> Credential]
  /\ command \in [Commands -> MonitorCommand]
  /\ shown \subseteq Commands
  /\ issued \in 0..MaxTokens
  /\ call \in [Handlers -> Call]
  /\ crashes \in 0..MaxCrashes

Init ==
  /\ enabled = TRUE
  /\ device = [d \in Devices |->
                 [known |-> FALSE, status |-> "active", employee |-> None, token |-> 0]]
  /\ held = [d \in Devices |-> 0]
  /\ proof = [d \in Devices |-> None]
  /\ row = [e \in Employees |-> [d \in Devices |-> "none"]]
  /\ credential = [e \in Employees |-> [status |-> "none", key |-> 0, deviceCount |-> 0]]
  /\ command = [c \in Commands |-> [status |-> "unused", device |-> None, due |-> FALSE]]
  /\ shown = {}
  /\ issued = 0
  /\ call \in [Handlers -> {OffCall, IdleCall}]
  /\ crashes = 0

-----------------------------------------------------------------------------
At(h, pc) == call[h].pc = pc
Idle(h) == At(h, "idle")
Goto(h, c) == call' = [call EXCEPT ![h] = c]
Answer(h) == Goto(h, IdleCall)
Register(h, pc, r) == Goto(h, [pc |-> pc, r |-> r])

\* The reply of a registration reaches the agent, which keeps its token.
Registered(h, r) == Answer(h) /\ held' = [held EXCEPT ![r.d] = r.t]

ProofOf(r) == IF r.k = 0 THEN None ELSE <<r.e, r.k>>

\* Monitoring is on, and the agent brings the employee's own key and hash; or
\* the company key, naming an employee or nobody. (A wrong key is refused.)
ResolveEmployeeCredential(h, d, e) ==
  /\ Idle(h)
  /\ enabled
  /\ credential[e].status = "active"
  /\ Register(h, "device", [d |-> d, e |-> e, k |-> credential[e].key, t |-> 0])
  /\ UNCHANGED <<docs, held, proof, shown, issued, crashes>>

VerifyCompanyKey(h, d, e) ==
  /\ Idle(h)
  /\ enabled
  /\ Register(h, "device", [d |-> d, e |-> e, k |-> 0, t |-> 0])
  /\ UNCHANGED <<docs, held, proof, shown, issued, crashes>>

FindAgent(h) ==
  /\ At(h, "device")
  /\ LET r == call[h].r
         refused == device[r.d].status = "revoked" /\ r.e = None IN
       \/ ~device[r.d].known /\ Register(h, "create", r)
       \/ device[r.d].known /\ refused /\ Answer(h)
       \/ device[r.d].known /\ ~refused
            /\ Goto(h, [pc |-> "save", r |-> r, seen |-> device[r.d]])
  /\ UNCHANGED <<docs, held, proof, shown, issued, crashes>>

IssueToken(t) == issued < MaxTokens /\ t = issued + 1 /\ issued' = t

\* A known machine: a new token, active again, and re-linked if an employee is
\* named; employee_devices, deviceCount and the consent log are not touched.
SaveAgent(h) ==
  /\ At(h, "save")
  /\ LET r == call[h].r  seen == call[h].seen IN
     \E t \in 1..MaxTokens :
       /\ IssueToken(t)
       /\ device' = [device EXCEPT ![r.d] =
            Saved(@, seen,
                  [seen EXCEPT !.token = t, !.status = "active",
                               !.employee = IF r.e = None THEN @ ELSE r.e])]
       /\ proof' = [proof EXCEPT ![r.d] = ProofOf(r)]
       /\ Registered(h, [r EXCEPT !.t = t])
  /\ UNCHANGED <<enabled, row, credential, command, shown, crashes>>

\* deviceHash is unique: a registration of the same machine that came first
\* makes this one fail.
CreateAgent(h) ==
  /\ At(h, "create")
  /\ LET r == call[h].r IN
     \/ device[r.d].known /\ Answer(h) /\ UNCHANGED <<device, held, proof, issued>>
     \/ /\ ~device[r.d].known
        /\ \E t \in 1..MaxTokens :
             /\ IssueToken(t)
             /\ device' = [device EXCEPT ![r.d] =
                  [known |-> TRUE, status |-> "active", employee |-> r.e, token |-> t]]
             /\ \/ r.e = None /\ Registered(h, [r EXCEPT !.t = t])
                \/ r.e # None /\ Register(h, "count", [r EXCEPT !.t = t]) /\ UNCHANGED held
        /\ proof' = [proof EXCEPT ![r.d] = ProofOf(r)]
  /\ UNCHANGED <<enabled, row, credential, command, shown, crashes>>

CountDevices(h) ==
  /\ At(h, "count")
  /\ LET r == call[h].r IN
       Goto(h, [pc |-> "row", r |-> r, first |-> \A d \in Devices : row[r.e][d] = "none"])
  /\ UNCHANGED <<docs, held, proof, shown, issued, crashes>>

CreateEmployeeDevice(h) ==
  /\ At(h, "row")
  /\ LET r == call[h].r IN
     /\ row' = [row EXCEPT ![r.e][r.d] = IF call[h].first THEN "primary" ELSE "other"]
     /\ \/ r.k = 0 /\ Registered(h, r)
        \/ r.k # 0 /\ Register(h, "inc", r) /\ UNCHANGED held
  /\ UNCHANGED <<enabled, device, proof, credential, command, shown, issued, crashes>>

\* The employee's credential counts the device, whatever has become of it. The
\* consent log written after it is read by nobody and left out.
CountDevice(h) ==
  /\ At(h, "inc")
  /\ LET r == call[h].r IN
     /\ credential' = [credential EXCEPT ![r.e].deviceCount = @ + 1]
     /\ Registered(h, r)
  /\ UNCHANGED <<enabled, device, proof, row, command, shown, issued, crashes>>

-----------------------------------------------------------------------------
(* Calls of a registered agent.                                            *)

\* AgentAuthGuard: the token is the one last issued and the device not revoked.
Authenticated(d) ==
  /\ device[d].known
  /\ device[d].status = "active"
  /\ held[d] # 0
  /\ held[d] = device[d].token

AgentCall(h, d, c) ==
  /\ Idle(h)
  /\ Authenticated(d)
  /\ Goto(h, c)
  /\ UNCHANGED <<docs, held, proof, shown, issued, crashes>>

AgentHeartbeat(h, d) == AgentCall(h, d, [pc |-> "heartbeat", d |-> d, seen |-> device[d]])
AgentLeave(h, d) == AgentCall(h, d, [pc |-> "leave", d |-> d, seen |-> device[d]])
AgentConfig(h, d) == AgentCall(h, d, [pc |-> "expire", d |-> d])

\* The agent answers a command it has been sent, with a screenshot or a verdict.
AgentUpload(h, d) ==
  \E c \in shown : command[c].device = d /\ AgentCall(h, d, [pc |-> "upload", c |-> c])
AgentCompletes(h, d) ==
  \E c \in shown, to \in {"completed", "failed"} :
    command[c].device = d /\ AgentCall(h, d, [pc |-> "finish", c |-> c, to |-> to])

\* Mutant: the whole document goes back, as the guard read it.
HeartbeatMutant(h) ==
  /\ At(h, "heartbeat")
  /\ device' = [device EXCEPT ![call[h].d] = [call[h].seen EXCEPT !.status = "active"]]
  /\ Answer(h)
  /\ UNCHANGED <<enabled, row, credential, command, held, proof, shown, issued, crashes>>

\* Of what a heartbeat saves, only the status matters here.
Heartbeat(h) ==
  /\ At(h, "heartbeat")
  /\ LET seen == call[h].seen IN
       device' = [device EXCEPT ![call[h].d] =
                    Saved(@, seen, [seen EXCEPT !.status = "active"])]
  /\ Answer(h)
  /\ UNCHANGED <<enabled, row, credential, command, held, proof, shown, issued, crashes>>

RevokeSelf(h) ==
  /\ At(h, "leave")
  /\ LET seen == call[h].seen IN
       device' = [device EXCEPT ![call[h].d] =
                    Saved(@, seen, [seen EXCEPT !.status = "revoked"])]
  /\ Answer(h)
  /\ UNCHANGED <<enabled, row, credential, command, held, proof, shown, issued, crashes>>

ExpireStaleCommands(h) ==
  /\ At(h, "expire")
  /\ command' = [c \in Commands |->
       IF command[c].status = "pending" /\ command[c].due
       THEN [command[c] EXCEPT !.status = "expired"] ELSE command[c]]
  /\ Goto(h, [pc |-> "list", d |-> call[h].d])
  /\ UNCHANGED <<enabled, device, row, credential, held, proof, shown, issued, crashes>>

GetPendingCommands(h) ==
  /\ At(h, "list")
  /\ shown' = shown \cup {c \in Commands : /\ command[c].device = call[h].d
                                           /\ command[c].status = "pending"
                                           /\ ~command[c].due}
  /\ Answer(h)
  /\ UNCHANGED <<docs, held, proof, issued, crashes>>

\* The image is stored under its id (an upsert), then the command is marked.
UploadScreenshot(h) ==
  /\ At(h, "upload")
  /\ Goto(h, [pc |-> "finish", c |-> call[h].c, to |-> "completed"])
  /\ UNCHANGED <<docs, held, proof, shown, issued, crashes>>

\* Whatever the command's status is by now.
CompleteCommand(h) ==
  /\ At(h, "finish")
  /\ command' = [command EXCEPT ![call[h].c].status = call[h].to]
  /\ Answer(h)
  /\ UNCHANGED <<enabled, device, row, credential, held, proof, shown, issued, crashes>>

-----------------------------------------------------------------------------
(* The administrator.                                                      *)

\* The first key of an employee is stored at once; a later one only after the
\* tokens of the employee's devices are cut.
CreateEmployeeCredential(h, e) ==
  /\ Idle(h)
  /\ credential[e].key < MaxKeys
  /\ IF credential[e].status = "none"
     THEN Goto(h, [pc |-> "store", e |-> e, first |-> TRUE])
     ELSE Goto(h, [pc |-> "rotate", e |-> e])
  /\ UNCHANGED <<docs, held, proof, shown, issued, crashes>>

\* Mutant: nothing is cut.
InvalidateSessionsMutant(h) ==
  /\ At(h, "rotate")
  /\ Goto(h, [pc |-> "store", e |-> call[h].e, first |-> FALSE])
  /\ UNCHANGED <<docs, held, proof, shown, issued, crashes>>

InvalidateSessions(h) ==
  /\ At(h, "rotate")
  /\ device' = [d \in Devices |->
       IF device[d].employee = call[h].e /\ device[d].status # "revoked"
       THEN [device[d] EXCEPT !.token = 0] ELSE device[d]]
  /\ Goto(h, [pc |-> "store", e |-> call[h].e, first |-> FALSE])
  /\ UNCHANGED <<enabled, row, credential, command, held, proof, shown, issued, crashes>>

\* An employee has one credential (unique index): a second first one fails.
StoreCredential(h) ==
  /\ At(h, "store")
  /\ LET e == call[h].e
         taken == call[h].first /\ credential[e].status # "none" IN
     \/ taken /\ UNCHANGED credential
     \/ /\ ~taken
        /\ credential[e].key < MaxKeys
        /\ credential' = [credential EXCEPT ![e].status = "active", ![e].key = @ + 1]
  /\ Answer(h)
  /\ UNCHANGED <<enabled, device, row, command, held, proof, shown, issued, crashes>>

RevokeEmployeeCredential(h, e) ==
  /\ Idle(h)
  /\ credential[e].status # "none"
  /\ credential' = [credential EXCEPT ![e].status = "revoked"]
  /\ Goto(h, [pc |-> "cut", e |-> e])
  /\ UNCHANGED <<enabled, device, row, command, held, proof, shown, issued, crashes>>

RevokeEmployeeDevices(h) ==
  /\ At(h, "cut")
  /\ device' = [d \in Devices |->
       IF device[d].employee = call[h].e
       THEN [device[d] EXCEPT !.status = "revoked"] ELSE device[d]]
  /\ Goto(h, [pc |-> "zero", e |-> call[h].e])
  /\ UNCHANGED <<enabled, row, credential, command, held, proof, shown, issued, crashes>>

ZeroDeviceCount(h) ==
  /\ At(h, "zero")
  /\ credential' = [credential EXCEPT ![call[h].e].deviceCount = 0]
  /\ Answer(h)
  /\ UNCHANGED <<enabled, device, row, command, held, proof, shown, issued, crashes>>

RevokeDevice(h, d) ==
  /\ Idle(h)
  /\ device[d].known
  /\ device' = [device EXCEPT ![d].status = "revoked"]
  /\ UNCHANGED <<enabled, row, credential, command, held, proof, shown, issued, call, crashes>>

UpdateSettings(h) ==
  /\ Idle(h)
  /\ enabled' = ~enabled
  /\ UNCHANGED <<device, row, credential, command, held, proof, shown, issued, call, crashes>>

\* A screenshot or a live view of one device that is not revoked; a new task
\* opens the workspace on all such devices of its employee.
RequestCommand(h, d) ==
  /\ Idle(h)
  /\ device[d].known /\ device[d].status # "revoked"
  /\ Goto(h, [pc |-> "order", todo |-> {d}])
  /\ UNCHANGED <<docs, held, proof, shown, issued, crashes>>

QueueOpenWorkspace(h, e) ==
  /\ Idle(h)
  /\ Goto(h, [pc |-> "order",
              todo |-> {d \in Devices : device[d].employee = e /\ device[d].status # "revoked"}])
  /\ UNCHANGED <<docs, held, proof, shown, issued, crashes>>

CreateCommand(h) ==
  /\ At(h, "order")
  /\ \/ call[h].todo = {} /\ Answer(h) /\ UNCHANGED command
     \/ \E d \in call[h].todo, c \in Commands :
          /\ command[c].status = "unused"
          /\ command' = [command EXCEPT ![c] = [status |-> "pending", device |-> d, due |-> FALSE]]
          /\ Goto(h, [pc |-> "order", todo |-> call[h].todo \ {d}])
  /\ UNCHANGED <<enabled, device, row, credential, held, proof, shown, issued, crashes>>

\* A command's expiresAt goes by.
Lapse(c) ==
  /\ command[c].status = "pending"
  /\ ~command[c].due
  /\ command' = [command EXCEPT ![c].due = TRUE]
  /\ UNCHANGED <<enabled, device, row, credential, held, proof, shown, issued, call, crashes>>

Crash ==
  /\ crashes < MaxCrashes
  /\ \E h \in Handlers : call[h] \notin {OffCall, IdleCall}
  /\ call' = [h \in Handlers |-> IF call[h] = OffCall THEN OffCall ELSE IdleCall]
  /\ crashes' = crashes + 1
  /\ UNCHANGED <<docs, held, proof, shown, issued>>

Agent(h, d) ==
  \/ \E e \in Employees : ResolveEmployeeCredential(h, d, e)
  \/ \E e \in MaybeEmployee : VerifyCompanyKey(h, d, e)
  \/ AgentHeartbeat(h, d) \/ AgentLeave(h, d) \/ AgentConfig(h, d)
  \/ AgentUpload(h, d) \/ AgentCompletes(h, d)

Admin(h) ==
  \/ UpdateSettings(h)
  \/ \E d \in Devices : RevokeDevice(h, d) \/ RequestCommand(h, d)
  \/ \E e \in Employees :
       CreateEmployeeCredential(h, e) \/ RevokeEmployeeCredential(h, e) \/ QueueOpenWorkspace(h, e)

Step(h) ==
  \/ FindAgent(h) \/ SaveAgent(h) \/ CreateAgent(h) \/ CountDevices(h)
  \/ CreateEmployeeDevice(h) \/ CountDevice(h)
  \/ Heartbeat(h) \/ RevokeSelf(h)
  \/ ExpireStaleCommands(h) \/ GetPendingCommands(h) \/ UploadScreenshot(h) \/ CompleteCommand(h)
  \/ InvalidateSessions(h) \/ StoreCredential(h)
  \/ RevokeEmployeeDevices(h) \/ ZeroDeviceCount(h) \/ CreateCommand(h)

Next ==
  \/ \E h \in Handlers, d \in Devices : Agent(h, d)
  \/ \E h \in Handlers : Admin(h) \/ Step(h)
  \/ \E c \in Commands : Lapse(c)
  \/ Crash

Spec == Init /\ [][Next]_vars

-----------------------------------------------------------------------------
(* Properties.                                                             *)

\* At most one handler serves calls.
IsSerial == \A g, h \in Handlers : g # h => OffCall \in {call[g], call[h]}
AtRest == \A h \in Handlers : call[h] \in {OffCall, IdleCall}

\* A revoked device works again only through a registration that knew it to be
\* revoked and named an employee: no heartbeat, no call in flight when it was
\* revoked, brings it back (registerAgent, heartbeatAgent).
RevocationSticks ==
  [][\A d \in Devices :
       device[d].status = "revoked" /\ device'[d].status = "active"
       => \E h \in Handlers : /\ At(h, "save") /\ call[h].r.d = d
                              /\ call[h].r.e # None
                              /\ call[h].seen.status = "revoked"]_vars

\* One call at a time and without a crash, a device that was registered with an
\* employee's key and still gets in was registered with the key now in force: a
\* rotated or revoked credential leaves nobody in (createEmployeeCredential,
\* revokeEmployeeCredential).
TokenIsBacked ==
  IsSerial /\ AtRest /\ crashes = 0 =>
    \A d \in Devices : Authenticated(d) /\ proof[d] # None
      => credential[proof[d][1]].status = "active" /\ credential[proof[d][1]].key = proof[d][2]

\* One call at a time, an employee with devices has exactly one primary device,
\* wherever the process dies (registerAgent).
OnePrimary ==
  IsSerial =>
    \A e \in Employees :
      (\E d \in Devices : row[e][d] # "none")
        => Cardinality({d \in Devices : row[e][d] = "primary"}) = 1

\* Both at once: the agents that get in hold the key in force, and an employee's
\* devices have one primary among them.
AgentsAreBacked == TokenIsBacked /\ OnePrimary

=============================================================================
