------------------------- MODULE DeviceBindingProofs -------------------------
(***************************************************************************)
(* Proofs about DeviceBinding, for any number of supervisors and devices:  *)
(* its types and the tokens however calls interleave, and that             *)
(* registrations served one at a time never leave a device with two        *)
(* owners, move an account without a code or take a device unasked.        *)
(***************************************************************************)
EXTENDS DeviceBinding, TLAPS

\* What a call remembers, by the await it is at.
LEMMA CallShape ==
  ASSUME TypeOK, NEW h \in Handlers
  PROVE  /\ ~Idle(h) => call[h].q \in Request
         /\ At(h, "clear") => call[h].other \in Supervisors
<1>1. call[h] \in Call
  BY DEF TypeOK
<1>2. CASE call[h] = IdleCall
  BY <1>2 DEF Idle, At, IdleCall
<1>3. CASE call[h] \in [pc: {"verify", "lookup", "bind", "session"}, q: Request]
  BY <1>3 DEF Idle, At
<1>4. CASE call[h] \in [pc: {"clear"}, q: Request, other: Supervisors]
  BY <1>4 DEF Idle, At
<1> QED BY <1>1, <1>2, <1>3, <1>4 DEF Call

LEMMA RequestShape ==
  ASSUME NEW q \in Request
  PROVE  q.s \in Supervisors /\ q.d \in Devices
BY DEF Request

\* Where a call may go next.
LEMMA Destinations ==
  ASSUME NEW q \in Request
  PROVE  /\ IdleCall \in Call
         /\ \A pc \in {"verify", "lookup", "bind", "session"} : [pc |-> pc, q |-> q] \in Call
         /\ \A t \in Supervisors : [pc |-> "clear", q |-> q, other |-> t] \in Call
         /\ Settled(q) \in Call
         /\ Settled(q).pc \notin {"bind", "clear"}
BY DEF Call, Settled, IdleCall

\* A step that only moves one call on.
LEMMA MoveTypeOK ==
  ASSUME TypeOK, NEW h \in Handlers, NEW c \in Call, Goto(h, c),
         UNCHANGED <<exists, registered, otp, sessions, bound, crashes>>
  PROVE  TypeOK'
BY DEF TypeOK, Goto

\* Type correctness is inductive.
LEMMA StepTypeOK == TypeOK /\ [Next]_vars => TypeOK'
<1> SUFFICES ASSUME TypeOK, [Next]_vars PROVE TypeOK'
  OBVIOUS
<1>1. ASSUME NEW h \in Handlers, NEW q \in Request, ReadSupervisor(h, q) PROVE TypeOK'
  <2>1. UNCHANGED <<exists, registered, otp, sessions, bound, crashes>>
    BY <1>1 DEF ReadSupervisor
  <2>2. PICK c \in Call : Goto(h, c)
    BY <1>1, Destinations DEF ReadSupervisor, To
  <2> QED BY <2>1, <2>2, MoveTypeOK
<1>2. ASSUME NEW h \in Handlers, Verify(h) PROVE TypeOK'
  <2>1. call[h].q \in Request /\ UNCHANGED <<exists, registered, otp, sessions, bound, crashes>>
    BY <1>2, CallShape DEF Verify, Idle, At
  <2>2. PICK c \in Call : Goto(h, c)
    BY <1>2, <2>1, Destinations DEF Verify, To
  <2> QED BY <2>1, <2>2, MoveTypeOK
<1>3. ASSUME NEW h \in Handlers, Lookup(h) PROVE TypeOK'
  <2>1. call[h].q \in Request /\ UNCHANGED <<exists, registered, otp, sessions, bound, crashes>>
    BY <1>3, CallShape DEF Lookup, Idle, At
  <2>2. exists \subseteq Supervisors
    BY DEF TypeOK
  <2>3. PICK c \in Call : Goto(h, c)
    BY <1>3, <2>1, <2>2, Destinations DEF Lookup, To
  <2> QED BY <2>1, <2>3, MoveTypeOK
<1>4. ASSUME NEW h \in Handlers, ClearDeviceRegistration(h) PROVE TypeOK'
  <2>1. call[h].q \in Request
    BY <1>4, CallShape DEF ClearDeviceRegistration, Idle, At
  <2>2. [pc |-> "bind", q |-> call[h].q] \in Call
    BY <2>1, Destinations
  <2> QED BY <1>4, <2>2 DEF ClearDeviceRegistration, TypeOK, Goto, To
<1>5. ASSUME NEW h \in Handlers, RegisterDevice(h) PROVE TypeOK'
  <2> DEFINE q == call[h].q
  <2>1. q \in Request
    BY <1>5, CallShape DEF RegisterDevice, Idle, At
  <2>2. q.s \in Supervisors /\ q.d \in Devices /\ Settled(q) \in Call
    BY <2>1, RequestShape, Destinations
  <2>3. call' \in [Handlers -> Call]
    BY <1>5, <2>2 DEF RegisterDevice, Goto, TypeOK
  <2>4. registered' \in [Supervisors -> Devices \cup {NoDevice}]
    BY <1>5, <2>2 DEF RegisterDevice, TypeOK
  <2>5. otp' \in [Supervisors -> {"none", "valid", "expired"}]
    BY <1>5, <2>2 DEF RegisterDevice, TypeOK
  <2>6. bound' \in [Supervisors -> SUBSET Devices]
    BY <1>5, <2>2 DEF RegisterDevice, TypeOK
  <2>7. UNCHANGED <<exists, sessions, crashes>>
    BY <1>5 DEF RegisterDevice
  <2> QED BY <2>3, <2>4, <2>5, <2>6, <2>7 DEF TypeOK
<1>6. ASSUME NEW h \in Handlers, CreateSupervisorSession(h) PROVE TypeOK'
  <2>1. call[h].q \in Request
    BY <1>6, CallShape DEF CreateSupervisorSession, Idle, At
  <2>2. [s |-> call[h].q.s, d |-> call[h].q.d] \in Session /\ IdleCall \in Call
    BY <2>1, RequestShape, Destinations DEF Session
  <2> QED BY <1>6, <2>2 DEF CreateSupervisorSession, TypeOK, Goto
<1>7. ASSUME NEW h \in Handlers, NEW s \in Supervisors, GenerateDeviceChangeOtp(h, s)
      PROVE  TypeOK'
  BY <1>7 DEF GenerateDeviceChangeOtp, TypeOK
<1>8. ASSUME NEW h \in Handlers, NEW s \in Supervisors, DeleteSupervisor(h, s) PROVE TypeOK'
  BY <1>8 DEF DeleteSupervisor, TypeOK
<1>9. ASSUME NEW h \in Handlers, NEW x \in sessions, DestroySession(h, x) PROVE TypeOK'
  BY <1>9 DEF DestroySession, TypeOK
<1>10. ASSUME NEW s \in Supervisors, OtpExpires(s) PROVE TypeOK'
  BY <1>10 DEF OtpExpires, TypeOK
<1>11. CASE Crash
  BY <1>11 DEF Crash, TypeOK, Call
<1>12. CASE UNCHANGED vars
  BY <1>12 DEF vars, TypeOK
<1> QED
  BY <1>1, <1>2, <1>3, <1>4, <1>5, <1>6, <1>7, <1>8, <1>9, <1>10, <1>11, <1>12
  DEF Next, Step, SupervisorLogin, SupervisorRegisterDevice

\* Whatever calls interleave and wherever the process dies, every binding is a
\* device or none and every call remembers a request.
THEOREM TypeCorrect == Spec => []TypeOK
<1>1. Init => TypeOK
  BY DEF Init, TypeOK, Call
<1> QED BY <1>1, StepTypeOK, PTL DEF Spec

-----------------------------------------------------------------------------
(* One owner. Between the look-up and the binding the device has, at most, *)
(* the owner that is to be cleared, and after the clearing nobody but the  *)
(* caller: that is what the invariant adds to OneOwner.                    *)

OwnersExist == \A s \in Supervisors : registered[s] # NoDevice => s \in exists
Unclaimed ==
  \A h \in Handlers :
    /\ At(h, "bind") => \A s \in Supervisors : registered[s] = call[h].q.d => s = call[h].q.s
    /\ At(h, "clear") => \A s \in Supervisors : registered[s] = call[h].q.d => s = call[h].other
OwnerInv == TypeOK /\ OneOwner /\ OwnersExist /\ Unclaimed

\* A step that changes no binding and moves to no await that relies on one.
LEMMA QuietStep ==
  ASSUME OwnerInv, TypeOK', UNCHANGED <<exists, registered>>,
         \A h \in Handlers : \/ call'[h] = call[h]
                             \/ call'[h].pc \notin {"bind", "clear"}
  PROVE  OwnerInv'
BY DEF OwnerInv, OneOwner, OwnersExist, Unclaimed, At

LEMMA StepOwnerInv == IsSerial /\ OwnerInv /\ [Next]_vars => OwnerInv'
<1> SUFFICES ASSUME IsSerial, OwnerInv, [Next]_vars PROVE OwnerInv'
  OBVIOUS
<1>a. TypeOK /\ TypeOK'
  BY StepTypeOK DEF OwnerInv
<1>b. registered \in [Supervisors -> Devices \cup {NoDevice}] /\ call \in [Handlers -> Call]
  BY <1>a DEF TypeOK
<1>1. ASSUME NEW h \in Handlers, NEW q \in Request, ReadSupervisor(h, q) PROVE OwnerInv'
  <2>1. PICK c \in Call : Goto(h, c) /\ c.pc \notin {"bind", "clear"}
    BY <1>1, Destinations DEF ReadSupervisor, To
  <2> QED BY <1>a, <1>b, <1>1, <2>1, QuietStep DEF ReadSupervisor, Goto
<1>2. ASSUME NEW h \in Handlers, Verify(h) PROVE OwnerInv'
  <2>1. PICK c : Goto(h, c) /\ c.pc \notin {"bind", "clear"}
    BY <1>2 DEF Verify, To, IdleCall
  <2> QED BY <1>a, <1>b, <1>2, <2>1, QuietStep DEF Verify, Goto
<1>3. ASSUME NEW h \in Handlers, Lookup(h) PROVE OwnerInv'
  <2> DEFINE q == call[h].q
             owners == {s \in exists : registered[s] = q.d}
  <2>1. q.d \in Devices /\ q.d # NoDevice
    BY <1>3, CallShape, RequestShape, NoDeviceAssumption, <1>a DEF Lookup, Idle, At
  <2>2. \A s \in Supervisors : registered[s] = q.d => s \in owners
    BY <2>1 DEF OwnerInv, OwnersExist
  <2>3. \A s, t \in owners : s = t
    BY <1>a, <2>1 DEF OwnerInv, OneOwner, TypeOK
  <2>4. UNCHANGED <<exists, registered>>
    BY <1>3 DEF Lookup
  <2>5. /\ call'[h].pc = "bind"
             => call'[h].q = q /\ \A s \in Supervisors : registered[s] = q.d => s = q.s
        /\ call'[h].pc = "clear"
             => call'[h].q = q /\ \A s \in Supervisors : registered[s] = q.d => s = call'[h].other
    <3>1. CASE owners = {} /\ To(h, "bind", q)
      BY <1>b, <2>2, <3>1 DEF To, Goto
    <3>2. ASSUME NEW t \in owners, t = q.s, To(h, "bind", q) PROVE <2>5!1 /\ <2>5!2
      BY <1>b, <2>2, <2>3, <3>2 DEF To, Goto
    <3>3. ASSUME NEW t \in owners, Goto(h, [pc |-> "clear", q |-> q, other |-> t])
          PROVE  <2>5!1 /\ <2>5!2
      BY <1>b, <2>2, <2>3, <3>3 DEF Goto
    <3>4. CASE Goto(h, IdleCall)
      BY <1>b, <3>4 DEF Goto, IdleCall
    <3> QED BY <1>3, <3>1, <3>2, <3>3, <3>4 DEF Lookup
  <2>6. \A g \in Handlers : g = h
    BY DEF IsSerial
  <2> QED BY <1>a, <2>4, <2>5, <2>6 DEF OwnerInv, OneOwner, OwnersExist, Unclaimed, At
<1>4. ASSUME NEW h \in Handlers, ClearDeviceRegistration(h) PROVE OwnerInv'
  <2> DEFINE q == call[h].q
             t == call[h].other
  <2>1. At(h, "clear") /\ q \in Request /\ t \in Supervisors
    BY <1>4, <1>a, CallShape DEF ClearDeviceRegistration, Idle, At
  <2>2. q.d \in Devices /\ q.d # NoDevice
    BY <2>1, RequestShape, NoDeviceAssumption
  <2>3. /\ \A s \in Supervisors : registered'[s] = IF s = t THEN NoDevice ELSE registered[s]
        /\ call'[h] = [pc |-> "bind", q |-> q] /\ exists' = exists
    BY <1>4, <1>b DEF ClearDeviceRegistration, To, Goto
  <2>4. \A s \in Supervisors : registered[s] = q.d => s = t
    BY <2>1 DEF OwnerInv, Unclaimed
  <2>5. OneOwner' /\ OwnersExist'
    BY <2>3 DEF OwnerInv, OneOwner, OwnersExist
  <2>6. \A g \in Handlers : g = h
    BY DEF IsSerial
  <2>7. Unclaimed'
    BY <2>2, <2>3, <2>4, <2>6 DEF Unclaimed, At
  <2> QED BY <1>a, <2>5, <2>7 DEF OwnerInv
<1>5. ASSUME NEW h \in Handlers, RegisterDevice(h) PROVE OwnerInv'
  <2> DEFINE q == call[h].q
  <2>1. At(h, "bind") /\ q \in Request
    BY <1>5, <1>a, CallShape DEF RegisterDevice, Idle, At
  <2>2. call'[h].pc \notin {"bind", "clear"} /\ exists' = exists
    BY <1>5, <1>b, <2>1, Destinations DEF RegisterDevice, Goto
  <2>3. \A g \in Handlers : g = h
    BY DEF IsSerial
  <2>4. Unclaimed'
    BY <2>2, <2>3 DEF Unclaimed, At
  <2>5. \A s \in Supervisors : registered[s] = q.d => s = q.s
    BY <2>1 DEF OwnerInv, Unclaimed
  <2>6. CASE q.s \in exists
    <3>1. \A s \in Supervisors : registered'[s] = IF s = q.s THEN q.d ELSE registered[s]
      BY <1>5, <1>b, <2>6 DEF RegisterDevice
    <3>2. OneOwner' /\ OwnersExist'
      BY <2>2, <2>5, <2>6, <3>1 DEF OwnerInv, OneOwner, OwnersExist
    <3> QED BY <1>a, <2>4, <3>2 DEF OwnerInv
  <2>7. CASE q.s \notin exists
    <3>1. registered' = registered
      BY <1>5, <2>7 DEF RegisterDevice
    <3> QED BY <1>a, <2>2, <2>4, <3>1 DEF OwnerInv, OneOwner, OwnersExist
  <2> QED BY <2>6, <2>7
<1>6. ASSUME NEW h \in Handlers, CreateSupervisorSession(h) PROVE OwnerInv'
  BY <1>a, <1>b, <1>6, QuietStep DEF CreateSupervisorSession, Goto, IdleCall
<1>7. ASSUME NEW h \in Handlers, NEW s \in Supervisors, GenerateDeviceChangeOtp(h, s)
      PROVE  OwnerInv'
  BY <1>a, <1>7, QuietStep DEF GenerateDeviceChangeOtp
<1>8. ASSUME NEW h \in Handlers, NEW s \in Supervisors, DeleteSupervisor(h, s) PROVE OwnerInv'
  <2>1. /\ \A t \in Supervisors : registered'[t] = IF t = s THEN NoDevice ELSE registered[t]
        /\ exists' = exists \ {s} /\ call' = call
    BY <1>8, <1>b DEF DeleteSupervisor
  <2>2. OneOwner' /\ OwnersExist'
    BY <2>1 DEF OwnerInv, OneOwner, OwnersExist
  <2>3. \A g \in Handlers : Idle(g)
    BY <1>8 DEF IsSerial, DeleteSupervisor
  <2>4. Unclaimed'
    BY <2>1, <2>3 DEF Unclaimed, At, Idle
  <2> QED BY <1>a, <2>2, <2>4 DEF OwnerInv
<1>9. ASSUME NEW h \in Handlers, NEW x \in sessions, DestroySession(h, x) PROVE OwnerInv'
  BY <1>a, <1>9, QuietStep DEF DestroySession
<1>10. ASSUME NEW s \in Supervisors, OtpExpires(s) PROVE OwnerInv'
  BY <1>a, <1>10, QuietStep DEF OtpExpires
<1>11. CASE Crash
  BY <1>a, <1>11, QuietStep DEF Crash, IdleCall
<1>12. CASE UNCHANGED vars
  BY <1>a, <1>12, QuietStep DEF vars
<1> QED
  BY <1>1, <1>2, <1>3, <1>4, <1>5, <1>6, <1>7, <1>8, <1>9, <1>10, <1>11, <1>12
  DEF Next, Step, SupervisorLogin, SupervisorRegisterDevice

\* One registration at a time, no device is ever registered to two supervisors,
\* wherever the process dies between clearing the old owner and binding the new.
THEOREM OneOwnerAlways == IsSerial /\ Spec => []OneOwner
<1>1. Init => OwnerInv
  BY DEF Init, OwnerInv, OneOwner, OwnersExist, Unclaimed, At, IdleCall, TypeOK, Call
<1>2. OwnerInv => OneOwner
  BY DEF OwnerInv
<1>3. IsSerial /\ OwnerInv /\ [Next]_vars => OwnerInv'
  BY StepOwnerInv
<1> QED
  <2> SUFFICES ASSUME IsSerial PROVE Spec => []OneOwner
    OBVIOUS
  <2>1. OwnerInv /\ [Next]_vars => OwnerInv'
    BY <1>3
  <2> QED BY <1>1, <1>2, <2>1, PTL DEF Spec

-----------------------------------------------------------------------------
(* Moves and transfers.  A call that is past the check of the code, and is *)
(* about to move an account, still holds that code; one that is about to   *)
(* clear an owner clears the device it was asked to transfer.              *)

HasCode ==
  \A h \in Handlers :
    /\ call[h].pc \in {"lookup", "clear", "bind"}
    /\ registered[call[h].q.s] \notin {NoDevice, call[h].q.d}
    => otp[call[h].q.s] # "none"
TransferAsked ==
  \A h \in Handlers :
    At(h, "clear") => /\ call[h].other # call[h].q.s
                      /\ call[h].q.confirm
                      /\ registered[call[h].other] = call[h].q.d
MoveInv == TypeOK /\ HasCode /\ TransferAsked

\* A step after which no call is on its way to a binding.
LEMMA RestingStep ==
  ASSUME TypeOK', \A h \in Handlers : call'[h].pc \notin {"lookup", "clear", "bind"}
  PROVE  MoveInv'
BY DEF MoveInv, HasCode, TransferAsked, At

LEMMA StepMoveInv == IsSerial /\ MoveInv /\ [Next]_vars => MoveInv'
<1> SUFFICES ASSUME IsSerial, MoveInv, [Next]_vars PROVE MoveInv'
  OBVIOUS
<1>a. TypeOK /\ TypeOK'
  BY StepTypeOK DEF MoveInv
<1>b. registered \in [Supervisors -> Devices \cup {NoDevice}] /\ call \in [Handlers -> Call]
      /\ otp \in [Supervisors -> {"none", "valid", "expired"}]
  BY <1>a DEF TypeOK
<1>1. ASSUME NEW h \in Handlers, NEW q \in Request, ReadSupervisor(h, q) PROVE MoveInv'
  <2>1. \A g \in Handlers : g = h
    BY DEF IsSerial
  <2>2. CASE registered[q.s] = NoDevice /\ To(h, "lookup", q)
    <3>1. call'[h] = [pc |-> "lookup", q |-> q] /\ UNCHANGED <<registered, otp>>
      BY <1>1, <1>b, <2>2 DEF ReadSupervisor, To, Goto
    <3> QED BY <1>a, <2>1, <2>2, <3>1 DEF MoveInv, HasCode, TransferAsked, At
  <2>3. CASE To(h, "verify", q) \/ Goto(h, Settled(q))
    <3>1. call'[h].pc \notin {"lookup", "clear", "bind"}
      BY <1>b, <2>3 DEF To, Goto, Settled, IdleCall
    <3> QED BY <1>a, <2>1, <3>1, RestingStep
  <2> QED BY <1>1, <2>2, <2>3 DEF ReadSupervisor
<1>2. ASSUME NEW h \in Handlers, Verify(h) PROVE MoveInv'
  <2> DEFINE q == call[h].q
  <2>1. \A g \in Handlers : g = h
    BY DEF IsSerial
  <2>2. CASE otp[q.s] = "valid" /\ To(h, "lookup", q)
    <3>1. call'[h] = [pc |-> "lookup", q |-> q] /\ UNCHANGED <<registered, otp>>
      BY <1>2, <1>b, <2>2 DEF Verify, To, Goto
    <3> QED BY <1>a, <2>1, <2>2, <3>1 DEF MoveInv, HasCode, TransferAsked, At
  <2>3. CASE Goto(h, IdleCall)
    <3>1. call'[h].pc \notin {"lookup", "clear", "bind"}
      BY <1>b, <2>3 DEF Goto, IdleCall
    <3> QED BY <1>a, <2>1, <3>1, RestingStep
  <2> QED BY <1>2, <2>2, <2>3 DEF Verify
<1>3. ASSUME NEW h \in Handlers, Lookup(h) PROVE MoveInv'
  <2> DEFINE q == call[h].q
  <2>1. \A g \in Handlers : g = h
    BY DEF IsSerial
  <2>2. At(h, "lookup") /\ UNCHANGED <<registered, otp>>
    BY <1>3 DEF Lookup
  <2>3. registered[q.s] \notin {NoDevice, q.d} => otp[q.s] # "none"
    BY <2>2 DEF MoveInv, HasCode, At
  <2>4. CASE To(h, "bind", q)
    <3>1. call'[h] = [pc |-> "bind", q |-> q]
      BY <1>b, <2>4 DEF To, Goto
    <3> QED BY <1>a, <2>1, <2>2, <2>3, <3>1 DEF MoveInv, HasCode, TransferAsked, At
  <2>5. ASSUME NEW t \in exists, registered[t] = q.d, t # q.s, q.confirm,
               Goto(h, [pc |-> "clear", q |-> q, other |-> t])
        PROVE  MoveInv'
    <3>1. call'[h] = [pc |-> "clear", q |-> q, other |-> t]
      BY <1>b, <2>5 DEF Goto
    <3> QED BY <1>a, <2>1, <2>2, <2>3, <2>5, <3>1 DEF MoveInv, HasCode, TransferAsked, At
  <2>6. CASE Goto(h, IdleCall)
    <3>1. call'[h].pc \notin {"lookup", "clear", "bind"}
      BY <1>b, <2>6 DEF Goto, IdleCall
    <3> QED BY <1>a, <2>1, <3>1, RestingStep
  <2> QED BY <1>3, <2>4, <2>5, <2>6 DEF Lookup
<1>4. ASSUME NEW h \in Handlers, ClearDeviceRegistration(h) PROVE MoveInv'
  <2> DEFINE q == call[h].q
             t == call[h].other
  <2>1. \A g \in Handlers : g = h
    BY DEF IsSerial
  <2>2. At(h, "clear") /\ q \in Request /\ t \in Supervisors
    BY <1>4, <1>a, CallShape DEF ClearDeviceRegistration, Idle, At
  <2>3. t # q.s /\ q.s \in Supervisors
    BY <2>2, RequestShape DEF MoveInv, TransferAsked
  <2>4. registered'[q.s] = registered[q.s] /\ otp'[q.s] = otp[q.s]
    BY <1>4, <1>b, <2>3 DEF ClearDeviceRegistration
  <2>5. call'[h] = [pc |-> "bind", q |-> q]
    BY <1>4, <1>b DEF ClearDeviceRegistration, To, Goto
  <2>6. registered[q.s] \notin {NoDevice, q.d} => otp[q.s] # "none"
    BY <2>2 DEF MoveInv, HasCode, At
  <2> QED BY <1>a, <2>1, <2>4, <2>5, <2>6 DEF MoveInv, HasCode, TransferAsked, At
<1>5. ASSUME NEW h \in Handlers, RegisterDevice(h) PROVE MoveInv'
  <2>1. call'[h].pc \notin {"lookup", "clear", "bind"}
    BY <1>5, <1>b DEF RegisterDevice, Goto, Settled, IdleCall
  <2> QED BY <1>a, <2>1, RestingStep DEF IsSerial
<1>6. ASSUME NEW h \in Handlers, CreateSupervisorSession(h) PROVE MoveInv'
  <2>1. call'[h].pc \notin {"lookup", "clear", "bind"}
    BY <1>6, <1>b DEF CreateSupervisorSession, Goto, IdleCall
  <2> QED BY <1>a, <2>1, RestingStep DEF IsSerial
<1>7. ASSUME NEW h \in Handlers, Idle(h), UNCHANGED call PROVE MoveInv'
  BY <1>a, <1>7, RestingStep DEF IsSerial, Idle, At
<1>8. ASSUME NEW s \in Supervisors, OtpExpires(s) PROVE MoveInv'
  <2>1. \A t \in Supervisors : otp[t] # "none" => otp'[t] # "none"
    BY <1>8, <1>b DEF OtpExpires
  <2>2. UNCHANGED <<registered, call>>
    BY <1>8 DEF OtpExpires
  <2>3. \A h \in Handlers : ~Idle(h) => call[h].q.s \in Supervisors
    BY <1>a, CallShape, RequestShape
  <2> QED BY <1>a, <2>1, <2>2, <2>3 DEF MoveInv, HasCode, TransferAsked, At, Idle
<1>9. CASE Crash
  BY <1>a, <1>9, RestingStep DEF Crash, IdleCall
<1>10. CASE UNCHANGED vars
  BY <1>a, <1>10 DEF vars, MoveInv, HasCode, TransferAsked, At
<1> QED
  BY <1>1, <1>2, <1>3, <1>4, <1>5, <1>6, <1>7, <1>8, <1>9, <1>10
  DEF Next, Step, SupervisorLogin, SupervisorRegisterDevice, GenerateDeviceChangeOtp,
      DeleteSupervisor, DestroySession

\* What one step may do to the bindings.
LEMMA StepMoves ==
  ASSUME MoveInv, [Next]_vars, NEW s \in Supervisors, registered[s] # NoDevice,
         registered'[s] # registered[s]
  PROVE  /\ registered'[s] # NoDevice => otp[s] # "none" /\ otp'[s] = "none"
         /\ registered'[s] = NoDevice /\ s \in exists' =>
              \E h \in Handlers : /\ At(h, "clear") /\ call[h].other = s
                                  /\ call[h].q.confirm /\ call[h].q.d = registered[s]
<1> DEFINE Goal == /\ registered'[s] # NoDevice => otp[s] # "none" /\ otp'[s] = "none"
                   /\ registered'[s] = NoDevice /\ s \in exists' =>
                        \E h \in Handlers : /\ At(h, "clear") /\ call[h].other = s
                                            /\ call[h].q.confirm /\ call[h].q.d = registered[s]
<1>b. registered \in [Supervisors -> Devices \cup {NoDevice}]
      /\ otp \in [Supervisors -> {"none", "valid", "expired"}]
  BY DEF MoveInv, TypeOK
<1>1. ASSUME NEW h \in Handlers, ClearDeviceRegistration(h) PROVE Goal
  <2>1. At(h, "clear") /\ s = call[h].other /\ registered'[s] = NoDevice
    BY <1>1, <1>b DEF ClearDeviceRegistration
  <2> QED BY <2>1 DEF MoveInv, TransferAsked
<1>2. ASSUME NEW h \in Handlers, RegisterDevice(h) PROVE Goal
  <2> DEFINE q == call[h].q
  <2>1. At(h, "bind") /\ q \in Request
    BY <1>2, CallShape DEF MoveInv, RegisterDevice, Idle, At
  <2>2. s = q.s /\ registered'[s] = q.d /\ otp'[s] = "none"
    BY <1>2, <1>b DEF RegisterDevice
  <2>3. q.d # NoDevice
    BY <2>1, RequestShape, NoDeviceAssumption
  <2>4. otp[s] # "none"
    BY <2>1, <2>2 DEF MoveInv, HasCode, At
  <2> QED BY <2>2, <2>3, <2>4
<1>3. ASSUME NEW h \in Handlers, NEW t \in Supervisors, DeleteSupervisor(h, t) PROVE Goal
  BY <1>3, <1>b DEF DeleteSupervisor
<1>4. CASE UNCHANGED registered
  BY <1>4
<1> QED
  BY <1>1, <1>2, <1>3, <1>4
  DEF Next, Step, vars, SupervisorLogin, SupervisorRegisterDevice, ReadSupervisor, Verify, Lookup,
      CreateSupervisorSession, GenerateDeviceChangeOtp, DestroySession, OtpExpires, Crash

LEMMA InitMoveInv == Init => MoveInv
BY DEF Init, MoveInv, HasCode, TransferAsked, At, IdleCall, TypeOK, Call

\* One call at a time, an account bound to a device moves to another only on a
\* code handed out for this move, and no code serves two (verifyAndRegisterDevice,
\* registerDevice), wherever the process dies.
THEOREM MoveNeedsCodeAlways == IsSerial /\ Spec => MoveNeedsCode
<1> SUFFICES ASSUME IsSerial PROVE Spec => MoveNeedsCode
  OBVIOUS
<1>1. MoveInv /\ [Next]_vars => MoveInv'
  BY StepMoveInv
<1>2. MoveInv /\ [Next]_vars =>
        [\A s \in Supervisors :
           registered[s] # NoDevice /\ registered'[s] \notin {registered[s], NoDevice}
           => otp[s] # "none" /\ otp'[s] = "none"]_vars
  BY StepMoves
<1> QED BY InitMoveInv, <1>1, <1>2, PTL DEF Spec, MoveNeedsCode

\* One call at a time, a binding is taken away only by the deletion of its
\* supervisor or by a transfer of that very device, which the caller confirmed
\* (clearDeviceRegistration): nobody loses a device to the transfer of another.
THEOREM ClearingIsAskedAlways == IsSerial /\ Spec => ClearingIsAsked
<1> SUFFICES ASSUME IsSerial PROVE Spec => ClearingIsAsked
  OBVIOUS
<1>1. MoveInv /\ [Next]_vars => MoveInv'
  BY StepMoveInv
<1>2. MoveInv /\ [Next]_vars =>
        [\A s \in exists' :
           registered[s] # NoDevice /\ registered'[s] = NoDevice
           => \E h \in Handlers : /\ At(h, "clear") /\ call[h].other = s
                                  /\ call[h].q.confirm /\ call[h].q.d = registered[s]]_vars
  BY StepMoves, StepTypeOK DEF MoveInv, TypeOK
<1> QED BY InitMoveInv, <1>1, <1>2, PTL DEF Spec, ClearingIsAsked

-----------------------------------------------------------------------------
(* Tokens, however calls interleave: what is bound has been bound, and a   *)
(* login past its binding speaks of a device that was.                     *)

BindingsRemembered ==
  \A s \in Supervisors : registered[s] # NoDevice => registered[s] \in bound[s]
LoginsBound ==
  \A h \in Handlers :
    At(h, "session") => \/ call[h].q.d \in bound[call[h].q.s]
                        \/ call[h].q.s \notin exists
TokenInv == TypeOK /\ BindingsRemembered /\ LoginsBound /\ TokenFollowsBinding

\* A step that binds nothing new, issues no token and moves to no such login.
LEMMA PlainStep ==
  ASSUME TokenInv, TypeOK', bound' = bound, exists' \subseteq exists, sessions' \subseteq sessions,
         \A s \in Supervisors : registered'[s] \in {registered[s], NoDevice},
         \A h \in Handlers : call'[h] = call[h] \/ call'[h].pc # "session"
  PROVE  TokenInv'
BY DEF TokenInv, BindingsRemembered, LoginsBound, TokenFollowsBinding, At

LEMMA StepTokenInv == TokenInv /\ [Next]_vars => TokenInv'
<1> SUFFICES ASSUME TokenInv, [Next]_vars PROVE TokenInv'
  OBVIOUS
<1>a. TypeOK /\ TypeOK'
  BY StepTypeOK DEF TokenInv
<1>b. /\ registered \in [Supervisors -> Devices \cup {NoDevice}] /\ call \in [Handlers -> Call]
      /\ bound \in [Supervisors -> SUBSET Devices]
  BY <1>a DEF TypeOK
<1>1. ASSUME NEW h \in Handlers, NEW q \in Request, ReadSupervisor(h, q) PROVE TokenInv'
  <2>0. UNCHANGED <<exists, registered, sessions, bound>>
    BY <1>1 DEF ReadSupervisor
  <2>1. CASE To(h, "verify", q) \/ To(h, "lookup", q)
    BY <1>a, <1>b, <2>0, <2>1, PlainStep DEF To, Goto
  <2>2. CASE registered[q.s] = q.d /\ Goto(h, Settled(q))
    <3>1. q.s \in Supervisors /\ q.d \in Devices /\ q.d # NoDevice
      BY RequestShape, NoDeviceAssumption
    <3>2. q.d \in bound[q.s]
      BY <2>2, <3>1 DEF TokenInv, BindingsRemembered
    <3>3. \A g \in Handlers : call'[g] = IF g = h THEN Settled(q) ELSE call[g]
      BY <1>b, <2>2 DEF Goto
    <3>4. Settled(q).pc = "session" => Settled(q).q = q
      BY DEF Settled, IdleCall
    <3> QED BY <1>a, <2>0, <3>2, <3>3, <3>4
            DEF TokenInv, BindingsRemembered, LoginsBound, TokenFollowsBinding, At
  <2> QED BY <1>1, <2>1, <2>2 DEF ReadSupervisor
<1>2. ASSUME NEW h \in Handlers, Verify(h) PROVE TokenInv'
  BY <1>a, <1>b, <1>2, PlainStep DEF Verify, To, Goto, IdleCall
<1>3. ASSUME NEW h \in Handlers, Lookup(h) PROVE TokenInv'
  BY <1>a, <1>b, <1>3, PlainStep DEF Lookup, To, Goto, IdleCall
<1>4. ASSUME NEW h \in Handlers, ClearDeviceRegistration(h) PROVE TokenInv'
  BY <1>a, <1>b, <1>4, PlainStep DEF ClearDeviceRegistration, To, Goto
<1>5. ASSUME NEW h \in Handlers, RegisterDevice(h) PROVE TokenInv'
  <2> DEFINE q == call[h].q
  <2>1. At(h, "bind") /\ q \in Request
    BY <1>5, <1>a, CallShape DEF RegisterDevice, Idle, At
  <2>2. q.s \in Supervisors /\ q.d \in Devices
    BY <2>1, RequestShape
  <2>3. \A g \in Handlers : call'[g] = IF g = h THEN Settled(q) ELSE call[g]
    BY <1>5, <1>b DEF RegisterDevice, Goto
  <2>4. Settled(q).pc = "session" => Settled(q).q = q
    BY DEF Settled, IdleCall
  <2>5. UNCHANGED <<exists, sessions>>
    BY <1>5 DEF RegisterDevice
  <2>6. CASE q.s \in exists
    <3>1. /\ \A s \in Supervisors : registered'[s] = IF s = q.s THEN q.d ELSE registered[s]
          /\ \A s \in Supervisors : bound'[s] = IF s = q.s THEN bound[s] \cup {q.d} ELSE bound[s]
      BY <1>5, <1>b, <2>2, <2>6 DEF RegisterDevice
    <3>2. \A g \in Handlers : At(g, "session") => call[g].q.s \in Supervisors
      BY <1>a, CallShape, RequestShape DEF Idle, At
    <3>3. BindingsRemembered'
      BY <3>1 DEF TokenInv, BindingsRemembered
    <3>4. LoginsBound'
      <4> SUFFICES ASSUME NEW g \in Handlers, At(g, "session")'
                   PROVE  call'[g].q.d \in bound'[call'[g].q.s] \/ call'[g].q.s \notin exists'
        BY DEF LoginsBound
      <4>1. CASE g = h
        <5>1. call'[g].q = q
          BY <2>3, <2>4, <4>1 DEF At
        <5>2. q.d \in bound'[q.s]
          BY <2>2, <3>1
        <5> QED BY <5>1, <5>2
      <4>2. CASE g # h
        <5>1. call'[g] = call[g] /\ At(g, "session")
          BY <2>3, <4>2 DEF At
        <5> QED BY <2>5, <3>1, <3>2, <5>1 DEF TokenInv, LoginsBound
      <4> QED BY <4>1, <4>2
    <3>5. TokenFollowsBinding'
      BY <1>a, <2>5, <3>1 DEF TokenInv, TokenFollowsBinding, TypeOK, Session
    <3> QED BY <1>a, <3>3, <3>4, <3>5 DEF TokenInv
  <2>7. CASE q.s \notin exists
    <3>1. UNCHANGED <<registered, bound>>
      BY <1>5, <2>7 DEF RegisterDevice
    <3> QED BY <1>a, <2>3, <2>4, <2>5, <2>7, <3>1
            DEF TokenInv, BindingsRemembered, LoginsBound, TokenFollowsBinding, At
  <2> QED BY <2>6, <2>7
<1>6. ASSUME NEW h \in Handlers, CreateSupervisorSession(h) PROVE TokenInv'
  <2>1. /\ At(h, "session") /\ UNCHANGED <<exists, registered, bound>>
        /\ sessions' = sessions \cup {[s |-> call[h].q.s, d |-> call[h].q.d]}
    BY <1>6 DEF CreateSupervisorSession
  <2>2. \A g \in Handlers : call'[g] = IF g = h THEN IdleCall ELSE call[g]
    BY <1>6, <1>b DEF CreateSupervisorSession, Goto
  <2>3. BindingsRemembered' /\ LoginsBound'
    BY <2>1, <2>2 DEF TokenInv, BindingsRemembered, LoginsBound, At, IdleCall
  <2>4. TokenFollowsBinding'
    BY <2>1 DEF TokenInv, LoginsBound, TokenFollowsBinding
  <2> QED BY <1>a, <2>3, <2>4 DEF TokenInv
<1>7. ASSUME NEW h \in Handlers, NEW s \in Supervisors, DeleteSupervisor(h, s) PROVE TokenInv'
  BY <1>a, <1>b, <1>7, PlainStep DEF DeleteSupervisor
<1>8. ASSUME NEW h \in Handlers, NEW x \in sessions, DestroySession(h, x) PROVE TokenInv'
  BY <1>a, <1>8, PlainStep DEF DestroySession
<1>9. CASE Crash
  BY <1>a, <1>9, PlainStep DEF Crash, IdleCall
<1>10. CASE UNCHANGED <<exists, registered, sessions, bound, call>>
  BY <1>a, <1>10, PlainStep
<1> QED
  BY <1>1, <1>2, <1>3, <1>4, <1>5, <1>6, <1>7, <1>8, <1>9, <1>10
  DEF Next, Step, vars, SupervisorLogin, SupervisorRegisterDevice, GenerateDeviceChangeOtp, OtpExpires

\* A token is only issued to a device that was bound to its supervisor, however
\* logins, transfers and deletions interleave and wherever the process dies
\* (supervisorLogin).
THEOREM TokenFollowsBindingAlways == Spec => []TokenFollowsBinding
<1>1. Init => TokenInv
  BY DEF Init, TokenInv, BindingsRemembered, LoginsBound, TokenFollowsBinding, At, IdleCall, TypeOK, Call
<1>2. TokenInv => TokenFollowsBinding
  BY DEF TokenInv
<1> QED BY <1>1, <1>2, StepTokenInv, PTL DEF Spec
=============================================================================
