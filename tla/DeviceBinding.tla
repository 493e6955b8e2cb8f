---------------------------- MODULE DeviceBinding ----------------------------
(***************************************************************************)
(* Which phone may act for which field supervisor: the supervisor login    *)
(* and device registration of auth.controller.ts over registerDevice and   *)
(* verifyAndRegisterDevice of school-supervisors.service.ts, and the       *)
(* one-time code an administrator hands out. A registration reads the      *)
(* supervisor, checks the code, looks up who owns the device, clears that  *)
(* owner and binds the device, one database call after the other.          *)
(***************************************************************************)
EXTENDS Naturals

CONSTANTS
  Handlers,       \* calls the process serves at the same time
  Supervisors,    \* supervisor ids
  Devices,        \* device ids
  NoDevice,       \* the empty registeredDeviceId
  MaxCrashes      \* how often the process may die (bound)

ASSUME NoDeviceAssumption == NoDevice \notin Devices
ASSUME BoundsAssumption == MaxCrashes \in Nat

VARIABLES
  exists,         \* supervisors not deleted
  registered,     \* registeredDeviceId
  otp,            \* deviceChangeOtp: none, valid or expired
  sessions,       \* tokens issued: for whom, asked from which device
  bound,          \* history: every device ever bound to a supervisor
  call,           \* what each handler remembers between two awaits
  crashes         \* how often the process has died

vars == <<exists, registered, otp, sessions, bound, call, crashes>>

Session == [s: Supervisors, d: Devices]
Request == [op: {"login", "register"}, s: Supervisors, d: Devices, confirm: BOOLEAN]
IdleCall == [pc |-> "idle"]
Call ==
  {IdleCall}
    \cup [pc: {"verify", "lookup", "bind", "session"}, q: Request]
    \cup [pc: {"clear"}, q: Request, other: Supervisors]

TypeOK ==
  /\ exists \subseteq Supervisors
  /\ registered \in [Supervisors -> Devices \cup {NoDevice}]
  /\ otp \in [Supervisors -> {"none", "valid", "expired"}]
  /\ sessions \subseteq Session
  /\ bound \in [Supervisors -> SUBSET Devices]
  /\ call \in [Handlers -> Call]
  /\ crashes \in Nat

Init ==
  /\ exists = Supervisors
  /\ registered = [s \in Supervisors |-> NoDevice]
  /\ otp = [s \in Supervisors |-> "none"]
  /\ sessions = {}
  /\ bound = [s \in Supervisors |-> {}]
  /\ call = [h \in Handlers |-> IdleCall]
  /\ crashes = 0

-----------------------------------------------------------------------------
At(h, pc) == call[h].pc = pc
Idle(h) == At(h, "idle")
Goto(h, c) == call' = [call EXCEPT ![h] = c]
To(h, pc, q) == Goto(h, [pc |-> pc, q |-> q])

\* What a call does after the device is settled.
Settled(q) == IF q.op = "login" THEN [pc |-> "session", q |-> q] ELSE IdleCall

\* A login with the right password, or a registration under a session of one's
\* own: another device's owner must bring a code, a first device needs none.
ReadSupervisor(h, q) ==
  /\ Idle(h)
  /\ q.s \in exists
  /\ q.op = "register" => \E x \in sessions : x.s = q.s
  /\ \/ registered[q.s] \notin {NoDevice, q.d} /\ To(h, "verify", q)
     \/ registered[q.s] = NoDevice /\ To(h, "lookup", q)
     \/ registered[q.s] = q.d /\ Goto(h, Settled(q))
  /\ UNCHANGED <<exists, registered, otp, sessions, bound, crashes>>

SupervisorLogin(h) ==
  \E q \in Request : q.op = "login" /\ ReadSupervisor(h, q)
SupervisorRegisterDevice(h) ==
  \E q \in Request : q.op = "register" /\ ReadSupervisor(h, q)

\* Mutant: an account without a code passes.
VerifyMutant(h) ==
  /\ At(h, "verify")
  /\ LET q == call[h].q IN
       \/ q.s \in exists /\ otp[q.s] # "expired" /\ To(h, "lookup", q)
       \/ Goto(h, IdleCall)
  /\ UNCHANGED <<exists, registered, otp, sessions, bound, crashes>>

\* verifyAndRegisterDevice: a wrong or expired code ends the call.
Verify(h) ==
  /\ At(h, "verify")
  /\ LET q == call[h].q IN
       \/ q.s \in exists /\ otp[q.s] = "valid" /\ To(h, "lookup", q)
       \/ Goto(h, IdleCall)
  /\ UNCHANGED <<exists, registered, otp, sessions, bound, crashes>>

\* Mutant: the device's owner is only looked for when a transfer is confirmed.
LookupMutant(h) ==
  /\ At(h, "lookup")
  /\ LET q == call[h].q
         owners == {s \in exists : registered[s] = q.d} IN
       IF ~q.confirm \/ owners = {} THEN To(h, "bind", q)
       ELSE \E other \in owners :
              IF other = q.s THEN To(h, "bind", q)
              ELSE Goto(h, [pc |-> "clear", q |-> q, other |-> other])
  /\ UNCHANGED <<exists, registered, otp, sessions, bound, crashes>>

\* registerDevice: an owner other than the caller is cleared if the caller
\* confirms the transfer; otherwise the call ends with DEVICE_ALREADY_REGISTERED.
Lookup(h) ==
  /\ At(h, "lookup")
  /\ LET q == call[h].q
         owners == {s \in exists : registered[s] = q.d} IN
       \/ owners = {} /\ To(h, "bind", q)
       \/ \E other \in owners :
            \/ other = q.s /\ To(h, "bind", q)
            \/ /\ other # q.s /\ q.confirm
               /\ Goto(h, [pc |-> "clear", q |-> q, other |-> other])
            \/ other # q.s /\ ~q.confirm /\ Goto(h, IdleCall)
  /\ UNCHANGED <<exists, registered, otp, sessions, bound, crashes>>

ClearDeviceRegistration(h) ==
  /\ At(h, "clear")
  /\ registered' = [registered EXCEPT ![call[h].other] = NoDevice]
  /\ otp' = [otp EXCEPT ![call[h].other] = "none"]
  /\ To(h, "bind", call[h].q)
  /\ UNCHANGED <<exists, sessions, bound, crashes>>

\* Mutant: an impossible device is stored.
RegisterDeviceMutant(h) ==
  /\ At(h, "bind")
  /\ registered' = [registered EXCEPT ![call[h].q.s] = call[h].q]
  /\ Goto(h, IdleCall)
  /\ UNCHANGED <<exists, otp, sessions, bound, crashes>>

\* An updateOne: it does nothing for a supervisor deleted meanwhile.
RegisterDevice(h) ==
  /\ At(h, "bind")
  /\ LET q == call[h].q IN
     /\ IF q.s \in exists
        THEN /\ registered' = [registered EXCEPT ![q.s] = q.d]
             /\ otp' = [otp EXCEPT ![q.s] = "none"]
             /\ bound' = [bound EXCEPT ![q.s] = @ \cup {q.d}]
        ELSE UNCHANGED <<registered, otp, bound>>
     /\ Goto(h, Settled(q))
  /\ UNCHANGED <<exists, sessions, crashes>>

CreateSupervisorSession(h) ==
  /\ At(h, "session")
  /\ sessions' = sessions \cup {[s |-> call[h].q.s, d |-> call[h].q.d]}
  /\ Goto(h, IdleCall)
  /\ UNCHANGED <<exists, registered, otp, bound, crashes>>

-----------------------------------------------------------------------------
GenerateDeviceChangeOtp(h, s) ==
  /\ Idle(h)
  /\ s \in exists
  /\ otp' = [otp EXCEPT ![s] = "valid"]
  /\ UNCHANGED <<exists, registered, sessions, bound, call, crashes>>

\* Thirty minutes go by.
OtpExpires(s) ==
  /\ otp[s] = "valid"
  /\ otp' = [otp EXCEPT ![s] = "expired"]
  /\ UNCHANGED <<exists, registered, sessions, bound, call, crashes>>

\* The document goes with its registration; its sessions stay.
DeleteSupervisor(h, s) ==
  /\ Idle(h)
  /\ s \in exists
  /\ exists' = exists \ {s}
  /\ registered' = [registered EXCEPT ![s] = NoDevice]
  /\ otp' = [otp EXCEPT ![s] = "none"]
  /\ UNCHANGED <<sessions, bound, call, crashes>>

DestroySession(h, x) ==
  /\ Idle(h)
  /\ sessions' = sessions \ {x}
  /\ UNCHANGED <<exists, registered, otp, bound, call, crashes>>

Crash ==
  /\ crashes < MaxCrashes
  /\ \E h \in Handlers : ~Idle(h)
  /\ call' = [h \in Handlers |-> IdleCall]
  /\ crashes' = crashes + 1
  /\ UNCHANGED <<exists, registered, otp, sessions, bound>>

Step(h) ==
  \/ Verify(h) \/ Lookup(h) \/ ClearDeviceRegistration(h) \/ RegisterDevice(h)
  \/ CreateSupervisorSession(h)

Next ==
  \/ \E h \in Handlers : SupervisorLogin(h) \/ SupervisorRegisterDevice(h) \/ Step(h)
  \/ \E h \in Handlers, s \in Supervisors :
       GenerateDeviceChangeOtp(h, s) \/ DeleteSupervisor(h, s)
  \/ \E h \in Handlers : \E x \in sessions : DestroySession(h, x)
  \/ \E s \in Supervisors : OtpExpires(s)
  \/ Crash

Spec == Init /\ [][Next]_vars

-----------------------------------------------------------------------------
(* Properties.                                                             *)

\* The process serves one call at a time.
IsSerial == \A g, h \in Handlers : g = h
\* With registrations one at a time a device is registered to one supervisor,
\* so that what it sends speaks for one, wherever the process dies and whoever
\* is deleted: registerDevice's "If the device is already linked to another
\* account, require confirmDeviceTransfer and clear the previous link".
OneOwner ==
  \A s, t \in Supervisors :
    registered[s] = registered[t] /\ registered[s] # NoDevice => s = t

\* An account bound to one device moves to another only on a code handed out
\* for this move: no code serves two moves (supervisorLogin,
\* verifyAndRegisterDevice, registerDevice). It may expire after its check. One
\* call at a time.
MoveNeedsCode ==
  [][\A s \in Supervisors :
       registered[s] # NoDevice /\ registered'[s] \notin {registered[s], NoDevice}
       => otp[s] # "none" /\ otp'[s] = "none"]_vars

\* A binding is only ever taken away by the deletion of the supervisor or by a
\* transfer of that very device, which its caller confirmed: one call at a time
\* nobody loses a device to the transfer of another (clearDeviceRegistration).
ClearingIsAsked ==
  [][\A s \in exists' :
       registered[s] # NoDevice /\ registered'[s] = NoDevice
       => \E h \in Handlers : /\ At(h, "clear") /\ call[h].other = s
                              /\ call[h].q.confirm /\ call[h].q.d = registered[s]]_vars

\* A token is only issued to a device that was bound to its supervisor,
\* wherever the process dies in a login (supervisorLogin).
TokenFollowsBinding == \A x \in sessions : x.d \in bound[x.s] \/ x.s \notin exists
=============================================================================
