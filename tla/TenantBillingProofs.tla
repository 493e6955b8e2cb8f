------------------------- MODULE TenantBillingProofs -------------------------
(***************************************************************************)
(* Proofs about TenantBilling, for any number of tenants, payments,        *)
(* events and crashes: its types and that an invoice needs a call that     *)
(* announced the payment, however calls overlap; and, for calls served one *)
(* at a time, that a tenant who paid is open and that a suspension is      *)
(* earned.                                                                 *)
(***************************************************************************)
EXTENDS TenantBilling, FiniteSetTheorems, TLAPS

PaymentStatus == {"pending", "success", "failed"}
SubStatus == {"trialing", "active", "past_due"}
WebhookPc == {"savePayment", "readSub", "saveActive", "openTenant", "invoice",
              "suspend", "saveFailure", "ack"}
OperatorPc == {"saveTrial", "subTrialing", "subActive", "subDelete"}

\* What a call remembers, by the await it is at.
LEMMA CallShape ==
  ASSUME NEW c \in Call
  PROVE  /\ c.pc \in {"idle"} \cup WebhookPc \cup OperatorPc
         /\ c.pc \in WebhookPc => c.event \in Event
         /\ c.pc = "savePayment" => c.was \in PaymentStatus
         /\ c.pc \in {"saveActive", "saveFailure", "suspend"} =>
              /\ c.was \in SubStatus /\ c.attempts \in Nat
              /\ c = [pc |-> c.pc, event |-> c.event, was |-> c.was, attempts |-> c.attempts]
         /\ c.pc \in OperatorPc => c.tenant \in Tenants
         /\ c.pc = "saveTrial" => c.was \in TenantStatus
BY DEF Call, IdleCall, WebhookPc, OperatorPc, PaymentStatus, SubStatus

LEMMA EventShape ==
  ASSUME NEW e \in Event
  PROVE  e.payment \in Payments /\ e.kind \in {"success", "failed"}
BY DEF Event

LEMMA PaymentShape ==
  ASSUME NEW p \in Payment
  PROVE  /\ p.status \in {"none"} \cup PaymentStatus
         /\ p.status # "none" => /\ p.tenant \in Tenants /\ p.gateway \in Gateways
                                 /\ p = [status |-> p.status, tenant |-> p.tenant,
                                         gateway |-> p.gateway]
BY DEF Payment, NoPayment, PaymentStatus

LEMMA SubShape ==
  ASSUME NEW s \in Subscription
  PROVE  /\ s.exists \in BOOLEAN /\ s.status \in SubStatus /\ s.attempts \in Nat
         /\ s = [exists |-> s.exists, status |-> s.status, attempts |-> s.attempts]
BY DEF Subscription, SubStatus

LEMMA TenantShape ==
  ASSUME NEW x \in Tenant
  PROVE  /\ x.status \in TenantStatus \cup {"deleted"} /\ x.trialOver \in BOOLEAN
         /\ x = [status |-> x.status, trialOver |-> x.trialOver]
BY DEF Tenant

-----------------------------------------------------------------------------
(* Types. An event is only sent of a payment that a checkout has made.     *)

EventsKnown ==
  /\ \A e \in outbox : payment[e.payment].status # "none"
  /\ \A h \in Handlers :
       call[h].pc \in WebhookPc => payment[call[h].event.payment].status # "none"
TypeInv == TypeOK /\ EventsKnown

\* The payer of a known event is a tenant.
LEMMA PayerIsTenant ==
  ASSUME TypeOK, NEW e \in Event, payment[e.payment].status # "none"
  PROVE  Payer(e) \in Tenants
BY EventShape, PaymentShape DEF TypeOK, Payer

LEMMA WebhookEvent ==
  ASSUME TypeInv, NEW h \in Handlers, call[h].pc \in WebhookPc
  PROVE  /\ EventOf(h) \in Event /\ EventOf(h).payment \in Payments
         /\ payment[EventOf(h).payment].status # "none"
         /\ Payer(EventOf(h)) \in Tenants
         /\ EventOf(h).kind \in {"success", "failed"}
<1>1. call[h] \in Call
  BY DEF TypeInv, TypeOK
<1>2. EventOf(h) \in Event
  BY <1>1, CallShape DEF EventOf
<1> QED BY <1>2, EventShape, PayerIsTenant DEF TypeInv, EventsKnown, EventOf

\* Handler h moves to c; nothing it or the others handle becomes unknown.
LEMMA MoveKnown ==
  ASSUME TypeInv, NEW h \in Handlers, NEW c \in Call, Goto(h, c),
         outbox' \subseteq outbox,
         \A p \in Payments : payment[p].status # "none" => payment'[p].status # "none",
         c.pc \in WebhookPc => payment'[c.event.payment].status # "none"
  PROVE  call' \in [Handlers -> Call] /\ EventsKnown'
<1>1. call \in [Handlers -> Call] /\ EventsKnown /\ outbox \subseteq Event
  BY DEF TypeInv, TypeOK
<1>2. call' = [call EXCEPT ![h] = c]
  BY DEF Goto
<1>3. call' \in [Handlers -> Call]
  BY <1>1, <1>2
<1>4. \A e \in outbox' : payment'[e.payment].status # "none"
  BY <1>1, EventShape DEF EventsKnown
<1>5. ASSUME NEW g \in Handlers, call'[g].pc \in WebhookPc
      PROVE  payment'[call'[g].event.payment].status # "none"
  <2>1. CASE g = h
    BY <1>1, <1>2, <1>5, <2>1
  <2>2. CASE g # h
    <3>1. call'[g] = call[g]
      BY <1>1, <1>2, <2>2
    <3> QED BY <1>1, <1>5, <3>1, CallShape, EventShape DEF EventsKnown
  <2> QED BY <2>1, <2>2
<1> QED BY <1>3, <1>4, <1>5 DEF EventsKnown

\* The same when the payments stay as they are.
LEMMA PlainMove ==
  ASSUME TypeInv, NEW h \in Handlers, NEW c \in Call, Goto(h, c),
         outbox' \subseteq outbox, payment' = payment,
         c.pc \in WebhookPc => payment[c.event.payment].status # "none"
  PROVE  call' \in [Handlers -> Call] /\ EventsKnown'
BY MoveKnown

\* The calls a handler may move to.
LEMMA NextCalls ==
  /\ IdleCall \in Call /\ IdleCall.pc = "idle"
  /\ \A e \in Event, w \in PaymentStatus :
       [pc |-> "savePayment", event |-> e, was |-> w] \in Call
  /\ \A e \in Event, s \in {"readSub", "openTenant", "invoice", "ack"} :
       [pc |-> s, event |-> e] \in Call
  /\ \A e \in Event, w \in SubStatus, n \in Nat, s \in {"saveActive", "saveFailure", "suspend"} :
       [pc |-> s, event |-> e, was |-> w, attempts |-> n] \in Call
  /\ \A t \in Tenants, w \in TenantStatus :
       [pc |-> "saveTrial", tenant |-> t, was |-> w] \in Call
  /\ \A t \in Tenants, s \in {"subTrialing", "subActive", "subDelete"} :
       [pc |-> s, tenant |-> t] \in Call
BY DEF Call, IdleCall, PaymentStatus, SubStatus

\* A status set on a tenant leaves tenants.
LEMMA SetStatusType ==
  ASSUME TypeOK, NEW t \in Tenants, NEW s \in TenantStatus \cup {"deleted"}, SetStatus(t, s)
  PROVE  tenant' \in [Tenants -> Tenant]
<1>1. tenant[t] = [status |-> tenant[t].status, trialOver |-> tenant[t].trialOver]
      /\ tenant[t].trialOver \in BOOLEAN
  BY TenantShape DEF TypeOK
<1>2. [tenant[t] EXCEPT !.status = s] = [status |-> s, trialOver |-> tenant[t].trialOver]
  BY <1>1
<1>3. [tenant[t] EXCEPT !.status = s] \in Tenant
  BY <1>1, <1>2 DEF Tenant
<1>4. tenant' = tenant \/ tenant' = [tenant EXCEPT ![t] = [tenant[t] EXCEPT !.status = s]]
  BY DEF SetStatus
<1> QED BY <1>3, <1>4 DEF TypeOK

LEMMA InitTypeInv == Init => TypeInv
<1> SUFFICES ASSUME Init PROVE TypeInv
  OBVIOUS
<1>1. [status |-> "trial", trialOver |-> FALSE] \in Tenant
  BY DEF Tenant, TenantStatus
<1>2. sub \in [Tenants -> Subscription]
  BY DEF Init, Subscription
<1>3. 0 \in 0..MaxOthers /\ 0 \in 0..MaxCrashes
  BY BoundsAssumption
<1>4. TypeOK
  BY <1>1, <1>2, <1>3 DEF Init, TypeOK, Payment, NoPayment, Call
<1>5. EventsKnown
  BY DEF Init, EventsKnown, IdleCall, WebhookPc
<1> QED BY <1>4, <1>5 DEF TypeInv

\* A save of a subscription leaves subscriptions.
LEMMA SavedType ==
  ASSUME sub \in [Tenants -> Subscription], NEW t \in Tenants, NEW s, NEW n \in Nat,
         s \in SubStatus
  PROVE  /\ [sub EXCEPT ![t].status = s, ![t].attempts = n] \in [Tenants -> Subscription]
         /\ [sub EXCEPT ![t].attempts = n, ![t].status = s] \in [Tenants -> Subscription]
<1> DEFINE x == [[sub[t] EXCEPT !.status = s] EXCEPT !.attempts = n]
           y == [[sub[t] EXCEPT !.attempts = n] EXCEPT !.status = s]
<1>1. sub[t] \in Subscription
  OBVIOUS
<1>2. x \in Subscription /\ y \in Subscription
  BY <1>1 DEF Subscription, SubStatus
<1>3. /\ [sub EXCEPT ![t].status = s, ![t].attempts = n] = [sub EXCEPT ![t] = x]
      /\ [sub EXCEPT ![t].attempts = n, ![t].status = s] = [sub EXCEPT ![t] = y]
  OBVIOUS
<1> HIDE DEF x, y
<1> QED BY <1>2, <1>3

\* The database keeps its types when nothing but what is named changes.
LEMMA StepTypeInv == TypeInv /\ [Next]_vars => TypeInv'
<1> SUFFICES ASSUME TypeInv, [Next]_vars PROVE TypeInv'
  OBVIOUS
<1> USE DEF dbVars, gatewayVars, historyVars
<1>a. TypeOK /\ EventsKnown
  BY DEF TypeInv
<1>b. /\ call \in [Handlers -> Call] /\ outbox \subseteq Event
      /\ payment \in [Payments -> Payment] /\ sub \in [Tenants -> Subscription]
      /\ tenant \in [Tenants -> Tenant]
  BY <1>a DEF TypeOK
<1>1. ASSUME NEW h \in Handlers, NEW t \in Tenants, NEW g, Checkout(h, t, g) PROVE TypeInv'
  <2>1. PICK p \in Payments :
          /\ payment[p].status = "none"
          /\ payment' = [payment EXCEPT ![p] = [status |-> "pending", tenant |-> t, gateway |-> g]]
    BY <1>1 DEF Checkout
  <2>2. [status |-> "pending", tenant |-> t, gateway |-> g] \in Payment
    BY <1>1 DEF Payment, Checkout
  <2>3. payment' \in [Payments -> Payment]
    BY <1>b, <2>1, <2>2
  <2>4. \A q \in Payments : payment[q].status # "none" => payment'[q].status # "none"
    BY <1>b, <2>1
  <2>5. EventsKnown'
    BY <1>a, <1>b, <1>1, <2>4, CallShape, EventShape DEF EventsKnown, Checkout
  <2> QED BY <1>a, <1>1, <2>3, <2>5 DEF TypeInv, TypeOK, Checkout
<1>2. ASSUME NEW p \in Payments, OtherEvent(p) PROVE TypeInv'
  <2> DEFINE e == [payment |-> p, kind |-> "failed", n |-> gateway[p].others + 1]
             q == [gateway[p] EXCEPT !.others = @ + 1]
  <2>1. /\ gateway[p].captured \in BOOLEAN /\ gateway[p].others \in 0..MaxOthers
        /\ gateway[p] = [captured |-> gateway[p].captured, others |-> gateway[p].others]
    BY <1>a DEF TypeOK
  <2>2. gateway[p].others + 1 \in 1..MaxOthers
    BY <1>2, <2>1, BoundsAssumption DEF OtherEvent
  <2>3. e \in Event
    BY <2>2 DEF Event
  <2>4. q = [captured |-> gateway[p].captured, others |-> gateway[p].others + 1]
    BY <2>1
  <2>5. q \in [captured: BOOLEAN, others: 0..MaxOthers]
    BY <2>1, <2>2, <2>4, BoundsAssumption
  <2>6. gateway' = [gateway EXCEPT ![p] = q] /\ outbox' = outbox \cup {e}
    BY <1>2 DEF OtherEvent
  <2>7. e.payment = p
    OBVIOUS
  <2> HIDE DEF e, q
  <2>8. EventsKnown'
    BY <1>a, <1>2, <2>6, <2>7 DEF EventsKnown, OtherEvent
  <2>9. /\ gateway' \in [Payments -> [captured: BOOLEAN, others: 0..MaxOthers]]
        /\ outbox' \subseteq Event
    BY <1>a, <2>3, <2>5, <2>6 DEF TypeOK
  <2>10. UNCHANGED <<tenant, sub, payment, invoices, announced, lastDone, unpaid, taken, operator, call, crashes>>
    BY <1>2 DEF OtherEvent
  <2> QED BY <1>a, <2>8, <2>9, <2>10 DEF TypeInv, TypeOK
<1>3. ASSUME NEW p \in Payments, Capture(p) PROVE TypeInv'
  <2> DEFINE e == [payment |-> p, kind |-> "success", n |-> 0]
             q == [gateway[p] EXCEPT !.captured = TRUE]
  <2>2. e \in Event /\ e.payment = p
    BY DEF Event
  <2>3. gateway[p] \in [captured: BOOLEAN, others: 0..MaxOthers]
    BY <1>a DEF TypeOK
  <2>4. q \in [captured: BOOLEAN, others: 0..MaxOthers]
    BY <2>3
  <2>5. gateway' = [gateway EXCEPT ![p] = q] /\ outbox' = outbox \cup {e}
    BY <1>3 DEF Capture
  <2> HIDE DEF e, q
  <2>6. EventsKnown'
    BY <1>a, <1>3, <2>2, <2>5 DEF EventsKnown, Capture
  <2>7. /\ gateway' \in [Payments -> [captured: BOOLEAN, others: 0..MaxOthers]]
        /\ outbox' \subseteq Event
    BY <1>a, <2>2, <2>4, <2>5 DEF TypeOK
  <2>8. UNCHANGED <<tenant, sub, payment, invoices, announced, lastDone, unpaid, taken, operator, call, crashes>>
    BY <1>3 DEF Capture
  <2> QED BY <1>a, <2>6, <2>7, <2>8 DEF TypeInv, TypeOK
<1>4. ASSUME NEW h \in Handlers, NEW e \in Event, ReceiveEvent(h, e) PROVE TypeInv'
  <2> DEFINE c == [pc |-> "savePayment", event |-> e, was |-> payment[e.payment].status]
  <2>1. payment[e.payment].status # "none" /\ payment[e.payment].status \in PaymentStatus
    BY <1>a, <1>b, <1>4, EventShape, PaymentShape DEF EventsKnown, ReceiveEvent
  <2>2. c \in Call /\ c.pc = "savePayment" /\ c.event = e
    BY <2>1, NextCalls
  <2>3. Goto(h, c) /\ UNCHANGED <<outbox, payment>>
    BY <1>4 DEF ReceiveEvent
  <2> HIDE DEF c
  <2>4. call' \in [Handlers -> Call] /\ EventsKnown'
    BY <2>1, <2>2, <2>3, PlainMove
  <2>5. taken' \in [Tenants -> Nat] /\ announced' \in [Payments -> Nat]
    BY <1>a, <1>4, <2>1, PayerIsTenant, EventShape DEF TypeOK, ReceiveEvent
  <2> QED BY <1>a, <1>4, <2>4, <2>5 DEF TypeInv, TypeOK, ReceiveEvent
<1>5. ASSUME NEW h \in Handlers, SavePayment(h) PROVE TypeInv'
  <2> DEFINE e == EventOf(h)
             p == e.payment
             q == [payment[p] EXCEPT !.status = e.kind]
  <2>1. /\ e \in Event /\ p \in Payments /\ payment[p].status # "none"
        /\ e.kind \in {"success", "failed"}
    BY <1>5, WebhookEvent DEF SavePayment, At, WebhookPc
  <2>2. q = [status |-> e.kind, tenant |-> payment[p].tenant, gateway |-> payment[p].gateway]
        /\ payment[p].tenant \in Tenants /\ payment[p].gateway \in Gateways
    BY <1>b, <2>1, PaymentShape
  <2>3. q \in Payment /\ q.status # "none"
    BY <2>1, <2>2 DEF Payment
  <2>4. payment' = payment \/ payment' = [payment EXCEPT ![p] = q]
    BY <1>5 DEF SavePayment
  <2>5. Goto(h, [pc |-> "readSub", event |-> e])
    BY <1>5 DEF SavePayment
  <2> HIDE DEF e, q
  <2>6. payment' \in [Payments -> Payment]
        /\ \A x \in Payments : payment[x].status # "none" => payment'[x].status # "none"
    BY <1>b, <2>3, <2>4
  <2>7. outbox' = outbox
    BY <1>5 DEF SavePayment
  <2>8. call' \in [Handlers -> Call] /\ EventsKnown'
    BY <2>1, <2>5, <2>6, <2>7, NextCalls, MoveKnown
  <2> QED BY <1>a, <1>5, <2>6, <2>8 DEF TypeInv, TypeOK, SavePayment
<1>6. ASSUME NEW h \in Handlers, ReadSubscription(h) PROVE TypeInv'
  <2> DEFINE e == EventOf(h)
             s == sub[Payer(e)]
  <2>1. e \in Event /\ payment[e.payment].status # "none" /\ Payer(e) \in Tenants
    BY <1>6, WebhookEvent DEF ReadSubscription, At, WebhookPc
  <2>2. s.status \in SubStatus /\ s.attempts \in Nat
    BY <1>b, <2>1, SubShape
  <2>3. PICK n \in {"ack", "saveActive", "suspend", "saveFailure"} :
          Goto(h, IF n = "ack" THEN [pc |-> "ack", event |-> e]
                  ELSE [pc |-> n, event |-> e, was |-> s.status, attempts |-> s.attempts])
    BY <1>6 DEF ReadSubscription
  <2>4. \E c \in Call : Goto(h, c) /\ c.event = e
    <3>1. CASE n = "ack"
      <4>1. [pc |-> "ack", event |-> e] \in Call
        BY <2>1, NextCalls
      <4> QED BY <2>3, <3>1, <4>1
    <3>2. CASE n # "ack"
      <4>1. [pc |-> n, event |-> e, was |-> s.status, attempts |-> s.attempts] \in Call
        BY <2>1, <2>2, <3>2, NextCalls
      <4> QED BY <2>3, <3>2, <4>1
    <3> QED BY <3>1, <3>2
  <2> HIDE DEF e, s
  <2>5. outbox' = outbox /\ payment' = payment
    BY <1>6 DEF ReadSubscription
  <2>6. call' \in [Handlers -> Call] /\ EventsKnown'
    BY <2>1, <2>4, <2>5, PlainMove
  <2> QED BY <1>a, <1>6, <2>6 DEF TypeInv, TypeOK, ReadSubscription
<1>7. ASSUME NEW h \in Handlers, SaveActive(h) \/ SaveFailure(h) PROVE TypeInv'
  <2> DEFINE e == EventOf(h)
             t == Payer(e)
  <2>1. e \in Event /\ payment[e.payment].status # "none" /\ t \in Tenants
    BY <1>7, WebhookEvent DEF SaveActive, SaveFailure, At, WebhookPc
  <2>2. /\ sub[t].exists \in BOOLEAN /\ sub[t].status \in SubStatus /\ sub[t].attempts \in Nat
        /\ sub[t] = [exists |-> sub[t].exists, status |-> sub[t].status,
                     attempts |-> sub[t].attempts]
    BY <1>b, <2>1, SubShape
  <2>3. call[h].attempts \in Nat
    BY <1>b, <1>7, CallShape DEF SaveActive, SaveFailure, At
  <2>4. sub' \in [Tenants -> Subscription]
    <3>1. CASE SaveActive(h) /\ sub[t].exists
      <4>1. sub' = [sub EXCEPT
               ![t].status = IF call[h].was = "active" THEN @ ELSE "active",
               ![t].attempts = IF call[h].attempts = 0 THEN @ ELSE 0]
        BY <3>1 DEF SaveActive
      <4> QED BY <1>b, <2>1, <2>2, <4>1, SavedType DEF SubStatus
    <3>2. CASE SaveFailure(h) /\ sub[t].exists
      <4> DEFINE n == call[h].attempts + 1
                 st == IF n >= SuspensionThreshold /\ call[h].was # "past_due"
                       THEN "past_due" ELSE sub[t].status
      <4>1. sub' = [sub EXCEPT ![t].attempts = n, ![t].status = st]
        BY <1>b, <2>1, <3>2 DEF SaveFailure
      <4>2. n \in Nat /\ st \in SubStatus
        BY <2>2, <2>3 DEF SubStatus
      <4> HIDE DEF n, st
      <4> QED BY <1>b, <2>1, <4>1, <4>2, SavedType
    <3>3. CASE ~sub[t].exists
      BY <1>7, <1>b, <3>3 DEF SaveActive, SaveFailure
    <3> QED BY <1>7, <2>2, <3>1, <3>2, <3>3
  <2>5. \E c \in Call : /\ Goto(h, c)
                        /\ c.pc \in WebhookPc => c.event = e
    <3>1. PICK c \in {[pc |-> "openTenant", event |-> e], [pc |-> "ack", event |-> e], IdleCall} :
            Goto(h, c)
      BY <1>7 DEF SaveActive, SaveFailure
    <3>2. CASE c = [pc |-> "openTenant", event |-> e] \/ c = [pc |-> "ack", event |-> e]
      <4>1. PICK pc \in {"openTenant", "ack"} : c = [pc |-> pc, event |-> e]
        BY <3>2
      <4>2. c \in Call /\ c.event = e
        BY <2>1, <4>1, NextCalls
      <4> QED BY <3>1, <4>2
    <3>3. CASE c = IdleCall
      BY <3>1, <3>3, NextCalls DEF WebhookPc
    <3> QED BY <3>1, <3>2, <3>3
  <2>6. payment' = payment /\ outbox' = outbox
    BY <1>7 DEF SaveActive, SaveFailure
  <2> HIDE DEF e, t
  <2>7. call' \in [Handlers -> Call] /\ EventsKnown'
    BY <2>1, <2>5, <2>6, PlainMove
  <2> QED BY <1>a, <1>7, <2>4, <2>7 DEF TypeInv, TypeOK, SaveActive, SaveFailure
<1>8. ASSUME NEW h \in Handlers, OpenTenant(h) \/ CreateInvoice(h) \/ SuspendTenant(h) PROVE TypeInv'
  <2> DEFINE e == EventOf(h)
             t == Payer(e)
  <2>1. /\ e \in Event /\ payment[e.payment].status # "none" /\ t \in Tenants
        /\ e.payment \in Payments
    BY <1>8, WebhookEvent DEF OpenTenant, CreateInvoice, SuspendTenant, At, WebhookPc
  <2>2. tenant' \in [Tenants -> Tenant]
    <3>1. "active" \in TenantStatus /\ "suspended" \in TenantStatus
      BY DEF TenantStatus
    <3> QED BY <1>a, <1>b, <1>8, <2>1, <3>1, SetStatusType
            DEF OpenTenant, CreateInvoice, SuspendTenant
  <2>3. \E c \in Call : Goto(h, c) /\ c.event = e
    <3>1. CASE OpenTenant(h) \/ CreateInvoice(h)
      <4>1. PICK s \in {"invoice", "ack"} : Goto(h, [pc |-> s, event |-> e])
        BY <3>1 DEF OpenTenant, CreateInvoice
      <4>2. [pc |-> s, event |-> e] \in Call
        BY <2>1, NextCalls
      <4> QED BY <4>1, <4>2
    <3>2. CASE SuspendTenant(h)
      <4>1. /\ call[h] = [pc |-> "suspend", event |-> e, was |-> call[h].was,
                          attempts |-> call[h].attempts]
            /\ call[h].was \in SubStatus /\ call[h].attempts \in Nat
        BY <1>b, <3>2, CallShape DEF SuspendTenant, At, EventOf
      <4>2. [call[h] EXCEPT !.pc = "saveFailure"] =
              [pc |-> "saveFailure", event |-> e, was |-> call[h].was,
               attempts |-> call[h].attempts]
        BY <4>1
      <4>3. [call[h] EXCEPT !.pc = "saveFailure"] \in Call
        <5>1. [pc |-> "saveFailure", event |-> e, was |-> call[h].was,
               attempts |-> call[h].attempts] \in Call
          BY <2>1, <4>1, NextCalls
        <5> QED BY <4>2, <5>1
      <4> QED BY <3>2, <4>2, <4>3 DEF SuspendTenant
    <3> QED BY <1>8, <3>1, <3>2
  <2>4. payment' = payment /\ outbox' = outbox
    BY <1>8 DEF OpenTenant, CreateInvoice, SuspendTenant
  <2>5. invoices' \in [Payments -> Nat]
    BY <1>a, <1>8, <2>1 DEF OpenTenant, CreateInvoice, SuspendTenant, TypeOK
  <2> HIDE DEF e, t
  <2>6. call' \in [Handlers -> Call] /\ EventsKnown'
    BY <2>1, <2>3, <2>4, PlainMove
  <2> QED BY <1>a, <1>8, <2>2, <2>5, <2>6
          DEF TypeInv, TypeOK, OpenTenant, CreateInvoice, SuspendTenant
<1>9. ASSUME NEW h \in Handlers, Ack(h) PROVE TypeInv'
  <2>1. /\ EventOf(h) \in Event /\ Payer(EventOf(h)) \in Tenants
        /\ EventOf(h).kind \in {"success", "failed"}
    BY <1>9, WebhookEvent DEF Ack, At, WebhookPc
  <2>2. outbox' \subseteq outbox /\ payment' = payment /\ Goto(h, IdleCall)
    BY <1>9 DEF Ack
  <2>3. call' \in [Handlers -> Call] /\ EventsKnown'
    BY <2>2, NextCalls, PlainMove DEF WebhookPc
  <2>4. lastDone' \in [Tenants -> {"none", "success", "failed"}] /\ unpaid' \in [Tenants -> Nat]
    BY <1>a, <1>9, <2>1 DEF Ack, TypeOK
  <2> QED BY <1>a, <1>9, <2>2, <2>3, <2>4 DEF TypeInv, TypeOK, Ack
<1>10. ASSUME NEW h \in Handlers, NEW t \in Tenants, Operator(h, t) PROVE TypeInv'
  <2>1. CASE \E s \in TenantStatus : UpdateTenant(h, t, s)
    BY <1>a, <2>1, SetStatusType DEF UpdateTenant, TypeInv, TypeOK, EventsKnown
  <2>2. CASE ExtendTrial(h, t)
    <3>1. tenant[t].status \in TenantStatus
      BY <1>b, <2>2, TenantShape DEF ExtendTrial
    <3>2. [pc |-> "saveTrial", tenant |-> t, was |-> tenant[t].status] \in Call
      BY <3>1, NextCalls
    <3>3. call' \in [Handlers -> Call] /\ EventsKnown'
      BY <2>2, <3>2, PlainMove DEF ExtendTrial, WebhookPc
    <3> QED BY <1>a, <2>2, <3>3 DEF ExtendTrial, TypeInv, TypeOK
  <2>3. CASE AssignPlan(h, t) \/ DeleteTenant(h, t)
    <3>1. PICK s \in {"subActive", "subDelete"} : Goto(h, [pc |-> s, tenant |-> t])
      BY <2>3 DEF AssignPlan, DeleteTenant
    <3>2. [pc |-> s, tenant |-> t] \in Call
      BY NextCalls
    <3>3. call' \in [Handlers -> Call] /\ EventsKnown'
      BY <2>3, <3>1, <3>2, PlainMove DEF AssignPlan, DeleteTenant, WebhookPc
    <3>4. tenant' \in [Tenants -> Tenant]
      BY <1>a, <2>3, SetStatusType DEF AssignPlan, DeleteTenant, TenantStatus
    <3> QED BY <1>a, <2>3, <3>3, <3>4 DEF AssignPlan, DeleteTenant, TypeInv, TypeOK
  <2> QED BY <1>10, <2>1, <2>2, <2>3 DEF Operator, Suspend, Activate, TenantStatus
<1>11. ASSUME NEW h \in Handlers, SaveTrial(h) PROVE TypeInv'
  <2> DEFINE t == call[h].tenant
             x == [status |-> IF call[h].was # "trial" THEN "trial" ELSE tenant[t].status,
                   trialOver |-> FALSE]
  <2>1. t \in Tenants
    BY <1>b, <1>11, CallShape DEF SaveTrial, At, OperatorPc
  <2>2. x \in Tenant
    BY <1>b, <2>1, TenantShape DEF Tenant, TenantStatus
  <2>3. tenant' = tenant \/ tenant' = [tenant EXCEPT ![t] = x]
    <3>1. tenant[t] = [status |-> tenant[t].status, trialOver |-> tenant[t].trialOver]
      BY <1>b, <2>1, TenantShape
    <3> QED BY <1>b, <1>11, <2>1, <3>1 DEF SaveTrial
  <2>4. PICK c \in {IdleCall, [pc |-> "subTrialing", tenant |-> t]} : Goto(h, c)
    BY <1>11 DEF SaveTrial
  <2>5. c \in Call /\ c.pc \notin WebhookPc
    <3>1. [pc |-> "subTrialing", tenant |-> t] \in Call
      BY <2>1, NextCalls
    <3>2. IdleCall \in Call /\ IdleCall.pc = "idle"
      BY NextCalls
    <3> QED BY <3>1, <3>2 DEF WebhookPc
  <2>6. call' \in [Handlers -> Call] /\ EventsKnown'
    BY <1>11, <2>4, <2>5, PlainMove DEF SaveTrial
  <2> HIDE DEF x
  <2>7. tenant' \in [Tenants -> Tenant]
    BY <1>b, <2>2, <2>3
  <2> QED BY <1>a, <1>11, <2>6, <2>7 DEF SaveTrial, TypeInv, TypeOK
<1>12. ASSUME NEW h \in Handlers, SubTrialing(h) \/ SubActive(h) \/ SubDelete(h) PROVE TypeInv'
  <2> DEFINE t == call[h].tenant
  <2>1. t \in Tenants
    BY <1>b, <1>12, CallShape DEF SubTrialing, SubActive, SubDelete, At, OperatorPc
  <2>2. /\ sub[t].exists \in BOOLEAN /\ sub[t].attempts \in Nat
        /\ sub[t] = [exists |-> sub[t].exists, status |-> sub[t].status,
                     attempts |-> sub[t].attempts]
    BY <1>b, <2>1, SubShape
  <2>3. sub' = sub \/ \E x \in Subscription : sub' = [sub EXCEPT ![t] = x]
    <3>1. CASE SubTrialing(h)
      <4>1. [sub[t] EXCEPT !.status = "trialing"] =
              [exists |-> sub[t].exists, status |-> "trialing", attempts |-> sub[t].attempts]
        BY <2>2
      <4>2. [sub[t] EXCEPT !.status = "trialing"] \in Subscription
        BY <2>2, <4>1 DEF Subscription
      <4>3. sub' = sub \/ sub' = [sub EXCEPT ![t] = [sub[t] EXCEPT !.status = "trialing"]]
        BY <3>1 DEF SubTrialing
      <4> QED BY <4>2, <4>3
    <3>2. CASE SubActive(h)
      <4>1. [exists |-> TRUE, status |-> "active",
             attempts |-> IF sub[t].exists THEN sub[t].attempts ELSE 0] \in Subscription
        BY <2>2 DEF Subscription
      <4> QED BY <3>2, <4>1 DEF SubActive
    <3>3. CASE SubDelete(h)
      <4>1. [exists |-> FALSE, status |-> "trialing", attempts |-> 0] \in Subscription
        BY DEF Subscription
      <4> QED BY <3>3, <4>1 DEF SubDelete
    <3> QED BY <1>12, <3>1, <3>2, <3>3
  <2>4. sub' \in [Tenants -> Subscription]
    BY <1>b, <2>1, <2>3
  <2>5. call' \in [Handlers -> Call] /\ EventsKnown'
    BY <1>12, NextCalls, PlainMove DEF SubTrialing, SubActive, SubDelete, WebhookPc
  <2> QED BY <1>a, <1>12, <2>4, <2>5 DEF SubTrialing, SubActive, SubDelete, TypeInv, TypeOK
<1>13. ASSUME NEW t \in Tenants, TrialEnds(t) PROVE TypeInv'
  <2>1. tenant[t].status \in TenantStatus \cup {"deleted"}
        /\ tenant[t] \in Tenant
    BY <1>b, TenantShape
  <2>3. [tenant[t] EXCEPT !.trialOver = TRUE] \in Tenant
    BY <2>1 DEF Tenant
  <2>4. tenant' \in [Tenants -> Tenant]
    BY <1>b, <1>13, <2>3 DEF TrialEnds
  <2> QED BY <1>a, <1>13, <2>4 DEF TrialEnds, TypeInv, TypeOK, EventsKnown
<1>14. ASSUME Crash PROVE TypeInv'
  <2>1. call' \in [Handlers -> Call] /\ \A h \in Handlers : call'[h].pc \notin WebhookPc
    BY <1>14, NextCalls DEF Crash, WebhookPc
  <2>2. crashes' \in 0..MaxCrashes
    BY <1>a, <1>14, BoundsAssumption DEF Crash, TypeOK
  <2> QED BY <1>a, <1>14, <2>1, <2>2 DEF Crash, TypeInv, TypeOK, EventsKnown
<1>15. ASSUME UNCHANGED vars PROVE TypeInv'
  BY <1>a, <1>15 DEF vars, TypeInv, TypeOK, EventsKnown
<1>16. ASSUME NEW e \in Event, Deliver(e) PROVE TypeInv'
  BY <1>4, <1>16 DEF Deliver, HandleRazorpayWebhook, HandleStripeWebhook, HandlePayPalWebhook
<1> QED BY <1>1, <1>2, <1>3, <1>5, <1>6, <1>7, <1>8, <1>9, <1>10, <1>11, <1>12, <1>13, <1>14,
           <1>15, <1>16
        DEF Next, Step, CreateCheckoutOrder, CreateStripeCheckout, CreatePayPalCheckout

\* However calls overlap, wherever the process dies: what the handlers of
\* billing.service.ts and tenants.service.ts store and remember is well formed,
\* and a webhook only acts on a payment that a checkout made.
THEOREM TypeCorrect == Spec => []TypeOK
<1>1. TypeInv => TypeOK
  BY DEF TypeInv
<1> QED BY <1>1, InitTypeInv, StepTypeInv, PTL DEF Spec

-----------------------------------------------------------------------------
(* No invoice without a call that announces the success: of each payment   *)
(* there have been as many such calls as there are invoices and calls that *)
(* may still make one.                                                     *)

BeforeInvoice == {"savePayment", "readSub", "saveActive", "openTenant", "invoice"}
OnSuccess(c) == c.pc \in BeforeInvoice /\ c.event.kind = "success"
ToInvoice(p) == {h \in Handlers : OnSuccess(call[h]) /\ call[h].event.payment = p}
SuccessOnly ==
  \A h \in Handlers :
    call[h].pc \in {"saveActive", "openTenant", "invoice"} => call[h].event.kind = "success"
Announced(p) == invoices[p] + Cardinality(ToInvoice(p)) <= announced[p]
AnnouncedInv == TypeInv /\ SuccessOnly /\ \A p \in Payments : Announced(p)

LEMMA ToInvoiceFinite ==
  ASSUME NEW p
  PROVE  IsFiniteSet(ToInvoice(p)) /\ Cardinality(ToInvoice(p)) \in Nat
<1>1. ToInvoice(p) \subseteq Handlers
  BY DEF ToInvoice
<1> QED BY <1>1, HandlersAssumption, FS_Subset, FS_CardinalityType

\* Fewer calls that may still make an invoice, nothing invoiced.
LEMMA FewerToInvoice ==
  ASSUME NEW p \in Payments, Announced(p), TypeInv, UNCHANGED <<invoices, announced>>,
         ToInvoice(p)' \subseteq ToInvoice(p)
  PROVE  Announced(p)'
<1>1. /\ Cardinality(ToInvoice(p)') \in Nat /\ Cardinality(ToInvoice(p)) \in Nat
      /\ Cardinality(ToInvoice(p)') <= Cardinality(ToInvoice(p))
  BY ToInvoiceFinite, FS_Subset, FS_CardinalityType
<1>2. invoices[p] \in Nat /\ announced[p] \in Nat
  BY DEF TypeInv, TypeOK
<1> QED BY <1>1, <1>2 DEF Announced

\* Handler h moves on: it is among the calls that may make an invoice only if
\* it was, for the same payment.
LEMMA MoveAnnounced ==
  ASSUME AnnouncedInv, NEW h \in Handlers, NEW c, Goto(h, c), UNCHANGED <<invoices, announced>>,
         c.pc \in {"saveActive", "openTenant", "invoice"} => c.event.kind = "success",
         OnSuccess(c) => OnSuccess(call[h]) /\ c.event = call[h].event
  PROVE  SuccessOnly' /\ \A p \in Payments : Announced(p)'
<1>1. call \in [Handlers -> Call] /\ SuccessOnly
  BY DEF AnnouncedInv, TypeInv, TypeOK
<1>2. \A g \in Handlers : call'[g] = IF g = h THEN c ELSE call[g]
  BY <1>1 DEF Goto
<1>3. SuccessOnly'
  BY <1>1, <1>2 DEF SuccessOnly
<1>4. \A p \in Payments : ToInvoice(p)' \subseteq ToInvoice(p)
  BY <1>2 DEF ToInvoice, OnSuccess
<1> QED BY <1>3, <1>4, FewerToInvoice DEF AnnouncedInv

LEMMA StepAnnouncedInv == AnnouncedInv /\ [Next]_vars => AnnouncedInv'
<1> SUFFICES ASSUME AnnouncedInv, [Next]_vars PROVE AnnouncedInv'
  OBVIOUS
<1> USE DEF dbVars, gatewayVars, historyVars
<1>a. TypeInv /\ TypeInv' /\ SuccessOnly /\ \A p \in Payments : Announced(p)
  BY StepTypeInv DEF AnnouncedInv
<1>b. /\ call \in [Handlers -> Call] /\ invoices \in [Payments -> Nat]
      /\ announced \in [Payments -> Nat]
  BY <1>a DEF TypeInv, TypeOK
<1> DEFINE Kept == SuccessOnly' /\ \A p \in Payments : Announced(p)'
<1>1. ASSUME UNCHANGED <<call, invoices, announced>> PROVE Kept
  BY <1>a, <1>1 DEF SuccessOnly, Announced, ToInvoice, OnSuccess
<1>2. ASSUME NEW h \in Handlers, NEW e \in Event, ReceiveEvent(h, e) PROVE Kept
  <2> DEFINE c == [pc |-> "savePayment", event |-> e, was |-> payment[e.payment].status]
             q == e.payment
  <2>1. \A g \in Handlers : call'[g] = IF g = h THEN c ELSE call[g]
    BY <1>b, <1>2 DEF ReceiveEvent, Goto
  <2>2. /\ q \in Payments /\ invoices' = invoices
        /\ announced' = [announced EXCEPT ![q] = IF e.kind = "success" THEN @ + 1 ELSE @]
        /\ call[h].pc = "idle"
    BY <1>2, EventShape DEF ReceiveEvent, Idle
  <2>3. c.pc = "savePayment" /\ c.event = e
    OBVIOUS
  <2> HIDE DEF c
  <2>4. SuccessOnly'
    BY <1>a, <2>1, <2>3 DEF SuccessOnly
  <2>5. ASSUME NEW p \in Payments PROVE Announced(p)'
    <3>1. CASE p = q /\ e.kind = "success"
      <4>1. ToInvoice(p)' = ToInvoice(p) \cup {h} /\ h \notin ToInvoice(p)
        BY <2>1, <2>2, <2>3, <3>1 DEF ToInvoice, OnSuccess, BeforeInvoice
      <4>2. Cardinality(ToInvoice(p)') = Cardinality(ToInvoice(p)) + 1
        BY <4>1, ToInvoiceFinite, FS_AddElement
      <4>3. announced'[p] = announced[p] + 1
        BY <1>b, <2>2, <3>1
      <4>4. /\ invoices[p] \in Nat /\ announced[p] \in Nat
            /\ Cardinality(ToInvoice(p)) \in Nat
        BY <1>b, ToInvoiceFinite
      <4> QED BY <1>a, <2>2, <4>2, <4>3, <4>4 DEF Announced
    <3>2. CASE ~(p = q /\ e.kind = "success")
      <4>1. ToInvoice(p)' = ToInvoice(p)
        BY <2>1, <2>2, <2>3, <3>2 DEF ToInvoice, OnSuccess, BeforeInvoice
      <4>2. announced'[p] = announced[p] /\ invoices'[p] = invoices[p]
        BY <1>b, <2>2, <3>2
      <4> QED BY <1>a, <4>1, <4>2 DEF Announced
    <3> QED BY <3>1, <3>2
  <2> QED BY <2>4, <2>5
<1>3. ASSUME NEW h \in Handlers, SavePayment(h) PROVE Kept
  <2> DEFINE c == [pc |-> "readSub", event |-> EventOf(h)]
  <2>1. Goto(h, c) /\ UNCHANGED <<invoices, announced>> /\ call[h].pc = "savePayment"
    BY <1>3 DEF SavePayment, At
  <2>2. c.pc = "readSub" /\ c.event = call[h].event
    BY DEF EventOf
  <2> HIDE DEF c
  <2> QED BY <2>1, <2>2, MoveAnnounced DEF OnSuccess, BeforeInvoice
<1>4. ASSUME NEW h \in Handlers, ReadSubscription(h) PROVE Kept
  <2> DEFINE e == EventOf(h)
             s == sub[Payer(e)]
  <2>1. PICK n \in {"ack", "saveActive", "suspend", "saveFailure"} :
          /\ n = "saveActive" => e.kind = "success"
          /\ Goto(h, IF n = "ack" THEN [pc |-> "ack", event |-> e]
                     ELSE [pc |-> n, event |-> e, was |-> s.status, attempts |-> s.attempts])
    BY <1>4 DEF ReadSubscription
  <2>2. e = call[h].event
    BY DEF EventOf
  <2>3. call[h].pc = "readSub" /\ UNCHANGED <<invoices, announced>>
    BY <1>4 DEF ReadSubscription, At
  <2> HIDE DEF e, s
  <2>4. PICK c : Goto(h, c) /\ c.pc = n /\ c.event = e
    BY <2>1
  <2> QED BY <2>1, <2>2, <2>3, <2>4, MoveAnnounced DEF OnSuccess, BeforeInvoice
<1>5. ASSUME NEW h \in Handlers, SaveActive(h) \/ OpenTenant(h) PROVE Kept
  <2>1. call[h].pc \in {"saveActive", "openTenant"} /\ UNCHANGED <<invoices, announced>>
    BY <1>5 DEF SaveActive, OpenTenant, At
  <2>2. PICK c : /\ Goto(h, c) /\ c.pc \in {"openTenant", "invoice", "idle"}
                 /\ c.pc # "idle" => c.event = call[h].event
    BY <1>5 DEF SaveActive, OpenTenant, EventOf, IdleCall
  <2>3. call[h].event.kind = "success"
    BY <1>a, <2>1 DEF SuccessOnly
  <2> QED BY <2>1, <2>2, <2>3, MoveAnnounced DEF OnSuccess, BeforeInvoice
<1>6. ASSUME NEW h \in Handlers, CreateInvoice(h) PROVE Kept
  <2> DEFINE q == call[h].event.payment
             c == [pc |-> "ack", event |-> EventOf(h)]
  <2>1. /\ call[h].pc = "invoice" /\ announced' = announced
        /\ invoices' = [invoices EXCEPT ![q] = @ + 1]
    BY <1>6 DEF CreateInvoice, At, EventOf
  <2>2. \A g \in Handlers : call'[g] = IF g = h THEN c ELSE call[g]
    BY <1>b, <1>6 DEF CreateInvoice, Goto
  <2>3. c.pc = "ack"
    OBVIOUS
  <2>4. h \in ToInvoice(q) /\ q \in Payments
    BY <1>a, <1>b, <2>1, CallShape, EventShape DEF SuccessOnly, ToInvoice, OnSuccess, BeforeInvoice, WebhookPc
  <2> HIDE DEF c, q
  <2>5. SuccessOnly'
    BY <1>a, <2>2, <2>3 DEF SuccessOnly
  <2>6. ASSUME NEW p \in Payments PROVE Announced(p)'
    <3>1. ToInvoice(p)' = ToInvoice(p) \ {h}
      BY <2>2, <2>3 DEF ToInvoice, OnSuccess, BeforeInvoice
    <3>2. CASE p = q
      <4>1. Cardinality(ToInvoice(p)') = Cardinality(ToInvoice(p)) - 1
        BY <2>4, <3>1, <3>2, ToInvoiceFinite, FS_RemoveElement
      <4>2. invoices'[p] = invoices[p] + 1
        BY <1>b, <2>1, <3>2
      <4>3. /\ invoices[p] \in Nat /\ announced[p] \in Nat
            /\ Cardinality(ToInvoice(p)) \in Nat
        BY <1>b, ToInvoiceFinite
      <4> QED BY <1>a, <2>1, <4>1, <4>2, <4>3 DEF Announced
    <3>3. CASE p # q
      <4>1. invoices'[p] = invoices[p] /\ h \notin ToInvoice(p)
        BY <1>b, <2>1, <2>4, <3>3 DEF ToInvoice
      <4>2. ToInvoice(p)' = ToInvoice(p)
        BY <3>1, <4>1
      <4> QED BY <1>a, <2>1, <4>1, <4>2 DEF Announced
    <3> QED BY <3>2, <3>3
  <2> QED BY <2>5, <2>6
<1>7. ASSUME NEW h \in Handlers, SuspendTenant(h) \/ SaveFailure(h) PROVE Kept
  <2>1. call[h].pc \in {"suspend", "saveFailure"} /\ UNCHANGED <<invoices, announced>>
    BY <1>7 DEF SuspendTenant, SaveFailure, At
  <2>2. PICK c \in {[call[h] EXCEPT !.pc = "saveFailure"],
                    [pc |-> "ack", event |-> call[h].event], IdleCall} : Goto(h, c)
    BY <1>7 DEF SuspendTenant, SaveFailure, EventOf
  <2>3. c.pc \in {"saveFailure", "ack", "idle"}
    <3>1. call[h] = [pc |-> call[h].pc, event |-> call[h].event, was |-> call[h].was,
                     attempts |-> call[h].attempts]
      BY <1>b, <2>1, CallShape
    <3>2. [call[h] EXCEPT !.pc = "saveFailure"].pc = "saveFailure"
      BY <3>1
    <3>3. [pc |-> "ack", event |-> call[h].event].pc = "ack" /\ IdleCall.pc = "idle"
      BY DEF IdleCall
    <3> QED BY <2>2, <3>2, <3>3
  <2> QED BY <2>1, <2>2, <2>3, MoveAnnounced DEF OnSuccess, BeforeInvoice
<1>8. ASSUME NEW h \in Handlers, Ack(h) \/ SaveTrial(h) \/ SubTrialing(h) \/ SubActive(h)
                                 \/ SubDelete(h)
      PROVE Kept
  <2>1. /\ UNCHANGED <<invoices, announced>>
        /\ \E c : Goto(h, c) /\ c.pc \in {"idle", "subTrialing"}
    BY <1>8 DEF Ack, SaveTrial, SubTrialing, SubActive, SubDelete, IdleCall
  <2> QED BY <2>1, MoveAnnounced DEF OnSuccess, BeforeInvoice
<1>9. ASSUME NEW h \in Handlers, NEW t \in Tenants, Operator(h, t) PROVE Kept
  <2>1. UNCHANGED <<invoices, announced>>
    BY <1>9 DEF Operator, Suspend, Activate, UpdateTenant, ExtendTrial, AssignPlan, DeleteTenant
  <2>2. call' = call \/ \E c : Goto(h, c) /\ c.pc \in OperatorPc
    <3>1. CASE ExtendTrial(h, t)
      BY <3>1 DEF ExtendTrial, OperatorPc
    <3>2. CASE AssignPlan(h, t)
      BY <3>2 DEF AssignPlan, OperatorPc
    <3>3. CASE DeleteTenant(h, t)
      BY <3>3 DEF DeleteTenant, OperatorPc
    <3>4. CASE \E s : UpdateTenant(h, t, s)
      BY <3>4 DEF UpdateTenant
    <3> QED BY <1>9, <3>1, <3>2, <3>3, <3>4 DEF Operator, Suspend, Activate
  <2>3. CASE \E c : Goto(h, c) /\ c.pc \in OperatorPc
    BY <2>1, <2>3, MoveAnnounced DEF OnSuccess, BeforeInvoice, OperatorPc
  <2> QED BY <1>1, <2>1, <2>2, <2>3
<1>10. ASSUME Crash PROVE Kept
  <2>1. UNCHANGED <<invoices, announced>> /\ \A h \in Handlers : call'[h].pc = "idle"
    BY <1>10 DEF Crash, IdleCall
  <2>2. \A p \in Payments : ToInvoice(p)' \subseteq ToInvoice(p)
    BY <2>1 DEF ToInvoice, OnSuccess, BeforeInvoice
  <2> QED BY <1>a, <2>1, <2>2, FewerToInvoice DEF SuccessOnly
<1>11. ASSUME \/ \E h \in Handlers, t \in Tenants : \E g : Checkout(h, t, g)
              \/ \E p \in Payments : OtherEvent(p) \/ Capture(p)
              \/ \E t \in Tenants : TrialEnds(t)
              \/ UNCHANGED vars
       PROVE Kept
  BY <1>1, <1>11 DEF Checkout, OtherEvent, Capture, TrialEnds, vars
<1>12. ASSUME NEW e \in Event, Deliver(e) PROVE Kept
  BY <1>2, <1>12 DEF Deliver, HandleRazorpayWebhook, HandleStripeWebhook, HandlePayPalWebhook
<1>13. Kept
  BY <1>3, <1>4, <1>5, <1>6, <1>7, <1>8, <1>9, <1>10, <1>11, <1>12
     DEF Next, Step, CreateCheckoutOrder, CreateStripeCheckout, CreatePayPalCheckout
<1> QED BY <1>a, <1>13 DEF AnnouncedInv

\* However webhooks, checkouts and the operator's calls overlap, wherever the
\* process dies and however often an event is delivered: a payment has no more
\* invoices than webhook calls that announced its success, so no call makes two
\* and an event that announces no payment makes none (activateSubscription).
THEOREM InvoicesAreAnnouncedAlways == Spec => []InvoicesAreAnnounced
<1>1. Init => AnnouncedInv
  <2> SUFFICES ASSUME Init PROVE AnnouncedInv
    OBVIOUS
  <2>1. \A h \in Handlers : call[h].pc = "idle"
    BY DEF Init, IdleCall
  <2>2. \A p : ToInvoice(p) = {}
    BY <2>1 DEF ToInvoice, OnSuccess, BeforeInvoice
  <2>3. ASSUME NEW p \in Payments PROVE Announced(p)
    <3>1. Cardinality(ToInvoice(p)) = 0
      BY <2>2, FS_EmptySet
    <3>2. invoices[p] = 0 /\ announced[p] = 0
      BY DEF Init
    <3> QED BY <3>1, <3>2 DEF Announced
  <2> QED BY <2>1, <2>3, InitTypeInv DEF AnnouncedInv, SuccessOnly
<1>2. AnnouncedInv => InvoicesAreAnnounced
  <2> SUFFICES ASSUME AnnouncedInv, NEW p \in Payments PROVE invoices[p] <= announced[p]
    BY DEF InvoicesAreAnnounced
  <2>1. /\ invoices[p] \in Nat /\ announced[p] \in Nat /\ Announced(p)
        /\ Cardinality(ToInvoice(p)) \in Nat
    BY ToInvoiceFinite DEF AnnouncedInv, TypeInv, TypeOK
  <2> QED BY <2>1 DEF Announced
<1> QED BY <1>1, <1>2, StepAnnouncedInv, PTL DEF Spec

-----------------------------------------------------------------------------
(* Calls served one at a time, without the operator: what a webhook        *)
(* remembers of the subscription is what is stored, and the gateway keeps  *)
(* the event until the webhook has answered it.                            *)

IsSerial == \A g, h \in Handlers : g = h

CopyOK(c) ==
  LET t == Payer(c.event)
  IN /\ c.pc \notin OperatorPc
     /\ c.pc \in WebhookPc => c.event \in outbox
     /\ c.pc \in {"saveActive", "suspend", "saveFailure"} =>
          sub[t].exists /\ c.was = sub[t].status /\ c.attempts = sub[t].attempts
     /\ c.pc \in {"saveActive", "openTenant", "invoice"} => c.event.kind = "success"
     /\ c.pc \in {"suspend", "saveFailure"} => c.event.kind = "failed"
     /\ c.pc = "suspend" => c.attempts + 1 >= SuspensionThreshold
CopyInv ==
  ~operator => /\ \A t \in Tenants : tenant[t].status # "deleted"
               /\ \A h \in Handlers : CopyOK(call[h])
SerialInv == TypeInv /\ CopyInv

\* The operator stays or stays away, and deaths are counted.
LEMMA CrashesCounted ==
  ASSUME [Next]_vars
  PROVE  operator' = operator /\ crashes' \in {crashes, crashes + 1}
<1>1. ASSUME NEW h \in Handlers, Step(h) PROVE UNCHANGED <<operator, crashes>>
  BY <1>1 DEF historyVars, Step, SavePayment, ReadSubscription, SaveActive, OpenTenant, CreateInvoice,
     SuspendTenant, SaveFailure, Ack, SaveTrial, SubTrialing, SubActive, SubDelete
<1>2. ASSUME NEW h \in Handlers, NEW t \in Tenants,
             \/ CreateCheckoutOrder(h, t) \/ CreateStripeCheckout(h, t)
             \/ CreatePayPalCheckout(h, t)
      PROVE  UNCHANGED <<operator, crashes>>
  BY <1>2 DEF historyVars, CreateCheckoutOrder, CreateStripeCheckout, CreatePayPalCheckout, Checkout
<1>3. ASSUME NEW h \in Handlers, NEW t \in Tenants, Operator(h, t) PROVE UNCHANGED <<operator, crashes>>
  BY <1>3 DEF historyVars, Operator, Suspend, Activate, UpdateTenant, ExtendTrial, AssignPlan, DeleteTenant
<1>4. ASSUME NEW e \in Event, Deliver(e) PROVE UNCHANGED <<operator, crashes>>
  BY <1>4 DEF historyVars, Deliver, HandleRazorpayWebhook, HandleStripeWebhook, HandlePayPalWebhook, ReceiveEvent
<1>5. CASE \/ \E p \in Payments : OtherEvent(p) \/ Capture(p)
           \/ \E t \in Tenants : TrialEnds(t)
  BY <1>5 DEF historyVars, OtherEvent, Capture, TrialEnds
<1>6. CASE Crash
  BY <1>6 DEF historyVars, Crash
<1>7. CASE UNCHANGED vars
  BY <1>7 DEF historyVars, vars
<1> QED BY <1>1, <1>2, <1>3, <1>4, <1>5, <1>6, <1>7 DEF Next

LEMMA OperatorFixed == [Next]_vars => operator' = operator
BY CrashesCounted

\* What may happen while the operator stays away.
LEMMA QuietNext ==
  ASSUME SerialInv, [Next]_vars, ~operator
  PROVE  \/ \E h \in Handlers : \/ \E t \in Tenants, g \in Gateways : Checkout(h, t, g)
                                \/ \E e \in Event : ReceiveEvent(h, e)
                                \/ SavePayment(h) \/ ReadSubscription(h) \/ SaveActive(h)
                                \/ OpenTenant(h) \/ CreateInvoice(h) \/ SuspendTenant(h)
                                \/ SaveFailure(h) \/ Ack(h)
         \/ \E p \in Payments : OtherEvent(p) \/ Capture(p)
         \/ \E t \in Tenants : TrialEnds(t)
         \/ Crash
         \/ UNCHANGED vars
<1>1. \A h \in Handlers : ~SaveTrial(h) /\ ~SubTrialing(h) /\ ~SubActive(h) /\ ~SubDelete(h)
  BY DEF SerialInv, CopyInv, CopyOK, OperatorPc, SaveTrial, SubTrialing, SubActive, SubDelete, At
<1>2. \A h \in Handlers, t \in Tenants : ~Operator(h, t)
  BY DEF Operator
<1>3. \A g : \A h \in Handlers, t \in Tenants : Checkout(h, t, g) => g \in Gateways
  BY DEF Checkout
<1> QED BY <1>1, <1>2, <1>3 DEF Next, Step, Deliver, CreateCheckoutOrder, CreateStripeCheckout,
        CreatePayPalCheckout, HandleRazorpayWebhook, HandleStripeWebhook, HandlePayPalWebhook

\* A payment keeps its payer.
LEMMA PayerStable ==
  ASSUME SerialInv, [Next]_vars, ~operator,
         NEW e \in Event, payment[e.payment].status # "none"
  PROVE  payment'[e.payment].status # "none" /\ Payer(e)' = Payer(e)
<1> USE DEF dbVars
<1>1. payment \in [Payments -> Payment] /\ e.payment \in Payments
  BY EventShape DEF SerialInv, TypeInv, TypeOK
<1>2. CASE \E h \in Handlers : SavePayment(h)
  <2>1. PICK h \in Handlers : SavePayment(h)
    BY <1>2
  <2> DEFINE p == EventOf(h).payment
             q == [payment[p] EXCEPT !.status = EventOf(h).kind]
  <2>2. /\ p \in Payments /\ payment[p].status # "none"
        /\ EventOf(h).kind \in {"success", "failed"}
    BY <2>1, WebhookEvent DEF SavePayment, At, WebhookPc, SerialInv
  <2>3. q = [status |-> EventOf(h).kind, tenant |-> payment[p].tenant,
             gateway |-> payment[p].gateway]
    BY <1>1, <2>2, PaymentShape
  <2>4. q.status # "none" /\ q.tenant = payment[p].tenant
    BY <2>2, <2>3
  <2>5. payment' = payment \/ payment' = [payment EXCEPT ![p] = q]
    BY <2>1 DEF SavePayment
  <2> HIDE DEF p, q
  <2> QED BY <1>1, <2>4, <2>5 DEF Payer
<1>3. CASE \E h \in Handlers, t \in Tenants, g \in Gateways : Checkout(h, t, g)
  BY <1>1, <1>3 DEF Checkout, Payer
<1>4. CASE payment' = payment
  BY <1>4 DEF Payer
<1>5. CASE \E h \in Handlers, x \in Event : ReceiveEvent(h, x)
  BY <1>4, <1>5 DEF ReceiveEvent
<1> QED BY <1>2, <1>3, <1>4, <1>5, QuietNext
        DEF ReadSubscription, SaveActive, OpenTenant, CreateInvoice, SuspendTenant, SaveFailure,
            Ack, OtherEvent, Capture, TrialEnds, Crash, vars

\* One call at a time: after a step of handler h its call is all there is.
LEMMA SerialMove ==
  ASSUME IsSerial, TypeInv, NEW h \in Handlers, NEW c, Goto(h, c)
  PROVE  \A g \in Handlers : g = h /\ call'[g] = c
BY DEF IsSerial, Goto, TypeInv, TypeOK

\* A step that leaves the calls and the subscriptions alone and drops no event.
LEMMA CopiesKept ==
  ASSUME SerialInv, [Next]_vars, ~operator, call' = call, sub' = sub, outbox \subseteq outbox'
  PROVE  \A h \in Handlers : CopyOK(call[h])'
<1> SUFFICES ASSUME NEW h \in Handlers PROVE CopyOK(call[h])'
  OBVIOUS
<1>1. CopyOK(call[h])
  BY DEF SerialInv, CopyInv
<1>2. CASE call[h].pc \notin WebhookPc
  BY <1>1, <1>2 DEF CopyOK, WebhookPc
<1>3. CASE call[h].pc \in WebhookPc
  <2>1. Payer(call[h].event)' = Payer(call[h].event)
    <3>1. PICK e \in Event : e = call[h].event /\ payment[e.payment].status # "none"
      BY <1>3, WebhookEvent DEF EventOf, SerialInv
    <3>2. Payer(e)' = Payer(e)
      BY <3>1, PayerStable
    <3> QED BY <3>1, <3>2 DEF Payer
  <2> QED BY <1>1, <2>1 DEF CopyOK
<1> QED BY <1>2, <1>3

\* Who a webhook acts for, before its step and after.
LEMMA Acting ==
  ASSUME SerialInv, [Next]_vars, ~operator, NEW h \in Handlers, call[h].pc \in WebhookPc
  PROVE  /\ call[h] \in Call /\ EventOf(h) = call[h].event
         /\ call[h].event \in Event /\ call[h].event \in outbox
         /\ call[h].event.payment \in Payments
         /\ call[h].event.kind \in {"success", "failed"}
         /\ Payer(call[h].event) \in Tenants
         /\ payment'[call[h].event.payment].tenant = Payer(call[h].event)
<1>1. /\ EventOf(h) \in Event /\ payment[EventOf(h).payment].status # "none"
      /\ Payer(EventOf(h)) \in Tenants /\ EventOf(h).kind \in {"success", "failed"}
      /\ EventOf(h).payment \in Payments
  BY WebhookEvent DEF SerialInv
<1>2. PICK e \in Event : e = EventOf(h)
  BY <1>1
<1>3. Payer(e)' = Payer(e)
  BY <1>1, <1>2, PayerStable
<1>4. call[h] \in Call /\ EventOf(h) = call[h].event
  BY DEF SerialInv, TypeInv, TypeOK, EventOf
<1>5. call[h].event \in outbox
  BY DEF SerialInv, CopyInv, CopyOK
<1> QED BY <1>1, <1>2, <1>3, <1>4, <1>5 DEF Payer

LEMMA StepSerialInv == IsSerial /\ SerialInv /\ [Next]_vars => SerialInv'
<1> SUFFICES ASSUME IsSerial, SerialInv, [Next]_vars PROVE SerialInv'
  OBVIOUS
<1> USE DEF dbVars, gatewayVars, historyVars
<1>a. TypeInv' /\ TypeInv /\ CopyInv
  BY StepTypeInv DEF SerialInv
<1>b. CASE operator
  BY <1>a, <1>b, OperatorFixed DEF SerialInv, CopyInv
<1>c. SUFFICES ASSUME ~operator
               PROVE  /\ \A t \in Tenants : tenant'[t].status # "deleted"
                      /\ \A h \in Handlers : CopyOK(call[h])'
  BY <1>a, <1>b DEF SerialInv, CopyInv
<1>d. tenant \in [Tenants -> Tenant] /\ \A t \in Tenants : tenant[t].status # "deleted"
  BY <1>a, <1>c DEF CopyInv, TypeInv, TypeOK
<1>e. /\ sub \in [Tenants -> Subscription] /\ call \in [Handlers -> Call]
      /\ \A h \in Handlers : CopyOK(call[h])
  BY <1>a, <1>c DEF CopyInv, TypeInv, TypeOK
<1>f. ASSUME tenant' = tenant PROVE \A t \in Tenants : tenant'[t].status # "deleted"
  BY <1>d, <1>f
<1>g. ASSUME NEW t \in Tenants, NEW s, SetStatus(t, s), s # "deleted"
      PROVE  \A u \in Tenants : tenant'[u].status # "deleted"
  <2>1. [tenant[t] EXCEPT !.status = s].status = s
    BY <1>d, TenantShape
  <2> QED BY <1>d, <1>g, <2>1 DEF SetStatus
<1>1. ASSUME NEW h \in Handlers, NEW t \in Tenants, NEW g \in Gateways, Checkout(h, t, g)
      PROVE  /\ \A u \in Tenants : tenant'[u].status # "deleted"
             /\ \A k \in Handlers : CopyOK(call[k])'
  BY <1>c, <1>f, <1>1, CopiesKept DEF Checkout
<1>2. ASSUME NEW p \in Payments, OtherEvent(p) \/ Capture(p)
      PROVE  /\ \A u \in Tenants : tenant'[u].status # "deleted"
             /\ \A k \in Handlers : CopyOK(call[k])'
  BY <1>c, <1>f, <1>2, CopiesKept DEF OtherEvent, Capture
<1>3. ASSUME NEW t \in Tenants, TrialEnds(t)
      PROVE  /\ \A u \in Tenants : tenant'[u].status # "deleted"
             /\ \A k \in Handlers : CopyOK(call[k])'
  <2>1. [tenant[t] EXCEPT !.trialOver = TRUE].status = tenant[t].status
    <3>1. tenant[t] \in Tenant
      BY <1>d
    <3> QED BY <3>1 DEF Tenant
  <2>2. tenant' = [tenant EXCEPT ![t] = [tenant[t] EXCEPT !.trialOver = TRUE]]
    BY <1>3 DEF TrialEnds
  <2>3. \A u \in Tenants : tenant'[u].status # "deleted"
    BY <1>d, <2>1, <2>2
  <2> QED BY <1>c, <1>3, <2>3, CopiesKept DEF TrialEnds
<1>4. ASSUME NEW h \in Handlers, NEW e \in Event, ReceiveEvent(h, e)
      PROVE  /\ \A u \in Tenants : tenant'[u].status # "deleted"
             /\ \A k \in Handlers : CopyOK(call[k])'
  <2>1. \A k \in Handlers :
          k = h /\ call'[k] = [pc |-> "savePayment", event |-> e, was |-> payment[e.payment].status]
    BY <1>a, <1>4, SerialMove DEF ReceiveEvent
  <2>2. e \in outbox /\ outbox' = outbox /\ tenant' = tenant
    BY <1>4 DEF ReceiveEvent
  <2> QED BY <1>f, <2>1, <2>2 DEF CopyOK, OperatorPc
<1>5. ASSUME NEW h \in Handlers, SavePayment(h)
      PROVE  /\ \A u \in Tenants : tenant'[u].status # "deleted"
             /\ \A k \in Handlers : CopyOK(call[k])'
  <2>1. \A k \in Handlers : k = h /\ call'[k] = [pc |-> "readSub", event |-> EventOf(h)]
    BY <1>a, <1>5, SerialMove DEF SavePayment
  <2>2. EventOf(h) \in outbox
    BY <1>c, <1>5, Acting DEF SavePayment, At, WebhookPc
  <2>3. outbox' = outbox /\ tenant' = tenant
    BY <1>5 DEF SavePayment
  <2> QED BY <1>f, <2>1, <2>2, <2>3 DEF CopyOK, OperatorPc
<1>6. ASSUME NEW h \in Handlers, ReadSubscription(h)
      PROVE  /\ \A u \in Tenants : tenant'[u].status # "deleted"
             /\ \A k \in Handlers : CopyOK(call[k])'
  <2> DEFINE e == EventOf(h)
             t == Payer(e)
  <2>1. e \in outbox /\ e.kind \in {"success", "failed"} /\ payment'[e.payment].tenant = t
    BY <1>c, <1>6, Acting DEF ReadSubscription, At, WebhookPc
  <2>2. UNCHANGED <<outbox, tenant, sub>>
    BY <1>6 DEF ReadSubscription
  <2>3. CASE ~sub[t].exists
    <3>1. Goto(h, [pc |-> "ack", event |-> e])
      BY <1>6, <2>3 DEF ReadSubscription
    <3>2. \A k \in Handlers : call'[k] = [pc |-> "ack", event |-> e]
      BY <1>a, <3>1, SerialMove
    <3> QED BY <1>f, <2>1, <2>2, <3>2 DEF CopyOK, OperatorPc
  <2>4. CASE sub[t].exists
    <3>1. PICK n \in {"saveActive", "suspend", "saveFailure"} :
            /\ n = "saveActive" <=> e.kind = "success"
            /\ n = "suspend" => sub[t].attempts + 1 >= SuspensionThreshold
            /\ Goto(h, [pc |-> n, event |-> e, was |-> sub[t].status, attempts |-> sub[t].attempts])
      BY <1>6, <2>4 DEF ReadSubscription
    <3>2. \A k \in Handlers : call'[k] = [pc |-> n, event |-> e, was |-> sub[t].status,
                                          attempts |-> sub[t].attempts]
      BY <1>a, <3>1, SerialMove
    <3> HIDE DEF e, t
    <3>3. ASSUME NEW k \in Handlers PROVE CopyOK(call[k])'
      <4>1. /\ call'[k].pc = n /\ call'[k].event = e
            /\ call'[k].was = sub[t].status /\ call'[k].attempts = sub[t].attempts
        BY <3>2
      <4>2. Payer(call[k].event)' = t
        BY <2>1, <4>1 DEF Payer
      <4>3. n \notin OperatorPc /\ n \notin {"openTenant", "invoice"}
        BY DEF OperatorPc
      <4> QED BY <2>1, <2>2, <2>4, <3>1, <4>1, <4>2, <4>3 DEF CopyOK
    <3> QED BY <1>f, <2>2, <3>3
  <2> QED BY <2>3, <2>4
<1>7. ASSUME NEW h \in Handlers, SaveActive(h) \/ CreateInvoice(h) \/ SaveFailure(h)
      PROVE  /\ \A u \in Tenants : tenant'[u].status # "deleted"
             /\ \A k \in Handlers : CopyOK(call[k])'
  <2>1. /\ EventOf(h) \in outbox /\ CopyOK(call[h]) /\ EventOf(h) = call[h].event
        /\ tenant' = tenant /\ outbox' = outbox
    BY <1>c, <1>e, <1>7, Acting DEF SaveActive, CreateInvoice, SaveFailure, At, WebhookPc
  <2>2. PICK c \in {[pc |-> "openTenant", event |-> EventOf(h)],
                    [pc |-> "ack", event |-> EventOf(h)], IdleCall} :
          /\ Goto(h, c)
          /\ c.pc = "openTenant" => EventOf(h).kind = "success"
    BY <1>7, <2>1 DEF SaveActive, CreateInvoice, SaveFailure, CopyOK, At, IdleCall
  <2>3. \A k \in Handlers : call'[k] = c
    BY <1>a, <2>2, SerialMove
  <2>4. /\ c.pc \in {"openTenant", "ack", "idle"}
        /\ c.pc \in {"openTenant", "ack"} => c.event = EventOf(h)
    BY <2>2 DEF IdleCall
  <2> QED BY <1>f, <2>1, <2>2, <2>3, <2>4 DEF CopyOK, OperatorPc, WebhookPc
<1>8. ASSUME NEW h \in Handlers, OpenTenant(h)
      PROVE  /\ \A u \in Tenants : tenant'[u].status # "deleted"
             /\ \A k \in Handlers : CopyOK(call[k])'
  <2>1. /\ EventOf(h) \in outbox /\ CopyOK(call[h]) /\ EventOf(h) = call[h].event
        /\ Payer(EventOf(h)) \in Tenants /\ outbox' = outbox
    BY <1>c, <1>e, <1>8, Acting DEF OpenTenant, At, WebhookPc
  <2>2. \A k \in Handlers : call'[k] = [pc |-> "invoice", event |-> EventOf(h)]
    BY <1>a, <1>8, SerialMove DEF OpenTenant
  <2>3. \A u \in Tenants : tenant'[u].status # "deleted"
    BY <1>g, <1>8, <2>1 DEF OpenTenant
  <2> QED BY <1>8, <2>1, <2>2, <2>3 DEF OpenTenant, At, CopyOK, OperatorPc
<1>9. ASSUME NEW h \in Handlers, SuspendTenant(h)
      PROVE  /\ \A u \in Tenants : tenant'[u].status # "deleted"
             /\ \A k \in Handlers : CopyOK(call[k])'
  <2> DEFINE c == call[h]
             t == Payer(c.event)
  <2>1. /\ c.event \in outbox /\ CopyOK(c) /\ EventOf(h) = c.event
        /\ t \in Tenants /\ payment'[c.event.payment].tenant = t /\ UNCHANGED <<outbox, sub>> /\ c.pc = "suspend"
    <3>1. /\ c.event \in outbox /\ EventOf(h) = c.event /\ t \in Tenants
          /\ payment'[c.event.payment].tenant = t
      BY <1>c, <1>9, Acting DEF SuspendTenant, At, WebhookPc
    <3> QED BY <1>e, <1>9, <3>1 DEF SuspendTenant, At
  <2>2. c = [pc |-> "suspend", event |-> c.event, was |-> c.was, attempts |-> c.attempts]
    BY <1>e, <2>1, CallShape
  <2>3. [c EXCEPT !.pc = "saveFailure"] =
          [pc |-> "saveFailure", event |-> c.event, was |-> c.was, attempts |-> c.attempts]
    BY <2>2
  <2>4. ASSUME NEW k \in Handlers
        PROVE  /\ call'[k].pc = "saveFailure" /\ call'[k].event = c.event
               /\ call'[k].was = c.was /\ call'[k].attempts = c.attempts
    <3>1. call'[k] = [c EXCEPT !.pc = "saveFailure"]
      BY <1>a, <1>9, SerialMove DEF SuspendTenant
    <3> QED BY <2>3, <3>1
  <2>5. \A u \in Tenants : tenant'[u].status # "deleted"
    BY <1>g, <1>9, <2>1 DEF SuspendTenant
  <2>6. ASSUME NEW k \in Handlers PROVE CopyOK(call[k])'
    <3>1. Payer(call[k].event)' = t
      BY <2>1, <2>4 DEF Payer
    <3> HIDE DEF c, t
    <3>2. sub[t].exists /\ c.was = sub[t].status /\ c.attempts = sub[t].attempts
          /\ c.event.kind = "failed"
      BY <2>1 DEF CopyOK, t
    <3> QED BY <2>1, <2>4, <3>1, <3>2 DEF CopyOK, OperatorPc
  <2> QED BY <2>5, <2>6
<1>10. ASSUME Crash \/ (\E h \in Handlers : Ack(h))
       PROVE  /\ \A u \in Tenants : tenant'[u].status # "deleted"
              /\ \A k \in Handlers : CopyOK(call[k])'
  <2>1. tenant' = tenant
    BY <1>10 DEF Crash, Ack
  <2>2. \A k \in Handlers : call'[k] = IdleCall
    <3>1. CASE Crash
      BY <3>1 DEF Crash
    <3>2. CASE \E h \in Handlers : Ack(h)
      BY <1>a, <3>2, SerialMove DEF Ack
    <3> QED BY <1>10, <3>1, <3>2
  <2> QED BY <1>f, <2>1, <2>2 DEF CopyOK, IdleCall, OperatorPc, WebhookPc
<1>11. ASSUME UNCHANGED vars
       PROVE  /\ \A u \in Tenants : tenant'[u].status # "deleted"
              /\ \A k \in Handlers : CopyOK(call[k])'
  BY <1>c, <1>f, <1>11, CopiesKept DEF vars
<1> QED BY <1>c, <1>1, <1>2, <1>3, <1>4, <1>5, <1>6, <1>7, <1>8, <1>9, <1>10, <1>11, QuietNext

-----------------------------------------------------------------------------
(* Whoever is not in order since its last success has an event to come:    *)
(* an event is answered only after all that it does is done.               *)

SubClean(t) == sub[t].status = "active" /\ sub[t].attempts = 0
Clean(t) == tenant[t].status = "active" /\ SubClean(t)

CleanOK(c) ==
  LET t == Payer(c.event)
  IN /\ c.pc = "openTenant" => SubClean(t)
     /\ c.pc = "invoice" => Clean(t)
     /\ c.pc = "ack" /\ c.event.kind = "success" /\ sub[t].exists => Clean(t)
PaidUp(t) ==
  lastDone[t] = "success" /\ sub[t].exists => Clean(t) \/ \E e \in outbox : Payer(e) = t
Cleaning ==
  ~operator => /\ \A h \in Handlers : CleanOK(call[h])
               /\ \A t \in Tenants : PaidUp(t)
PaidInv == SerialInv /\ Cleaning

\* What the two saves of a subscription store.
LEMMA SavedActive ==
  ASSUME sub \in [Tenants -> Subscription], NEW t \in Tenants,
         sub' = [sub EXCEPT ![t].status = "active", ![t].attempts = 0]
  PROVE  /\ sub'[t].status = "active" /\ sub'[t].attempts = 0 /\ sub'[t].exists = sub[t].exists
         /\ \A u \in Tenants \ {t} : sub'[u] = sub[u]
<1> DEFINE x == [[sub[t] EXCEPT !.status = "active"] EXCEPT !.attempts = 0]
<1>1. sub[t] \in Subscription
  OBVIOUS
<1>2. x.status = "active" /\ x.attempts = 0 /\ x.exists = sub[t].exists
  BY <1>1 DEF Subscription
<1>3. sub' = [sub EXCEPT ![t] = x]
  OBVIOUS
<1> HIDE DEF x
<1> QED BY <1>2, <1>3

LEMMA SavedFailure ==
  ASSUME sub \in [Tenants -> Subscription], NEW t \in Tenants, NEW n, NEW late,
         sub' = [sub EXCEPT ![t].attempts = n, ![t].status = IF late THEN "past_due" ELSE @]
  PROVE  /\ sub'[t].attempts = n /\ sub'[t].exists = sub[t].exists
         /\ \A u \in Tenants \ {t} : sub'[u] = sub[u]
<1> DEFINE x == [[sub[t] EXCEPT !.attempts = n] EXCEPT !.status = IF late THEN "past_due" ELSE @]
<1>1. sub[t] \in Subscription
  OBVIOUS
<1>2. x.attempts = n /\ x.exists = sub[t].exists
  BY <1>1 DEF Subscription
<1>3. sub' = [sub EXCEPT ![t] = x]
  OBVIOUS
<1> HIDE DEF x
<1> QED BY <1>2, <1>3

\* What activateSubscription's save leaves, if it read what is stored: the
\* fields it skips are those that already hold what it would write.
LEMMA SaveActiveStores ==
  ASSUME sub \in [Tenants -> Subscription], NEW h \in Handlers, NEW t \in Tenants,
         SaveActive(h), CopyOK(call[h]), EventOf(h) = call[h].event, Payer(call[h].event) = t
  PROVE  /\ Goto(h, [pc |-> "openTenant", event |-> call[h].event])
         /\ sub'[t].status = "active" /\ sub'[t].attempts = 0 /\ sub'[t].exists = sub[t].exists
         /\ \A u \in Tenants \ {t} : sub'[u] = sub[u]
<1>1. sub[t].exists /\ call[h].was = sub[t].status /\ call[h].attempts = sub[t].attempts
  BY DEF SaveActive, At, CopyOK
<1>2. sub' = [sub EXCEPT ![t].status = IF call[h].was = "active" THEN @ ELSE "active",
                         ![t].attempts = IF call[h].attempts = 0 THEN @ ELSE 0]
  BY <1>1 DEF SaveActive
<1> DEFINE s == IF call[h].was = "active" THEN sub[t].status ELSE "active"
<1>3. s = "active"
  BY <1>1
<1>4. [sub EXCEPT ![t].status = s][t].attempts = sub[t].attempts
  <2>1. sub[t] \in Subscription
    OBVIOUS
  <2>2. [sub[t] EXCEPT !.status = s].attempts = sub[t].attempts
    BY <2>1 DEF Subscription
  <2> QED BY <2>2
<1>5. sub' = [[sub EXCEPT ![t].status = s]
                EXCEPT ![t].attempts = IF call[h].attempts = 0 THEN @ ELSE 0]
  BY <1>2
<1> HIDE DEF s
<1>6. sub' = [sub EXCEPT ![t].status = "active", ![t].attempts = 0]
  BY <1>1, <1>3, <1>4, <1>5
<1> QED BY <1>1, <1>6, SavedActive DEF SaveActive

\* A status set on a tenant that is not deleted, and on nobody else.
LEMMA SetStatusFields ==
  ASSUME tenant \in [Tenants -> Tenant], NEW t \in Tenants, NEW s, SetStatus(t, s),
         tenant[t].status # "deleted"
  PROVE  /\ tenant'[t].status = s
         /\ \A u \in Tenants \ {t} : tenant'[u] = tenant[u]
<1>1. [tenant[t] EXCEPT !.status = s].status = s
  BY TenantShape
<1> QED BY <1>1 DEF SetStatus

\* A tenant a step does not touch is as much in order as before.
LEMMA Untouched ==
  ASSUME SerialInv, [Next]_vars, ~operator, NEW t \in Tenants, PaidUp(t),
         tenant'[t].status = tenant[t].status, sub'[t] = sub[t], lastDone'[t] = lastDone[t],
         \A e \in outbox : Payer(e) = t => e \in outbox'
  PROVE  PaidUp(t)'
<1> SUFFICES ASSUME lastDone'[t] = "success", sub'[t].exists
             PROVE  Clean(t)' \/ \E e \in outbox' : Payer(e)' = t
  BY DEF PaidUp
<1>1. CASE Clean(t)
  BY <1>1 DEF Clean, SubClean
<1>2. CASE \E e \in outbox : Payer(e) = t
  <2>1. PICK e \in outbox : Payer(e) = t
    BY <1>2
  <2>2. e \in Event /\ payment[e.payment].status # "none"
    BY <2>1 DEF SerialInv, TypeInv, TypeOK, EventsKnown
  <2>3. Payer(e)' = Payer(e)
    BY <2>2, PayerStable
  <2> QED BY <2>1, <2>3
<1> QED BY <1>1, <1>2 DEF PaidUp

\* The tenant a webhook acts for has the event it acts on to come.
LEMMA EventToCome ==
  ASSUME SerialInv, [Next]_vars, ~operator, NEW h \in Handlers, call[h].pc \in WebhookPc,
         NEW t, t = Payer(call[h].event), outbox \subseteq outbox'
  PROVE  PaidUp(t)'
<1>1. PICK e \in outbox : e = call[h].event
  BY Acting
<1>2. payment'[e.payment].tenant = Payer(e)
  BY <1>1, Acting
<1> QED BY <1>1, <1>2 DEF PaidUp, Payer

LEMMA StepPaidInv == IsSerial /\ PaidInv /\ [Next]_vars => PaidInv'
<1> SUFFICES ASSUME IsSerial, PaidInv, [Next]_vars PROVE PaidInv'
  OBVIOUS
<1> USE DEF dbVars, gatewayVars, historyVars
<1>a. SerialInv /\ SerialInv' /\ Cleaning
  BY StepSerialInv DEF PaidInv
<1>b. CASE operator
  BY <1>a, <1>b, OperatorFixed DEF PaidInv, Cleaning
<1>c. SUFFICES ASSUME ~operator
               PROVE  /\ \A h \in Handlers : CleanOK(call[h])'
                      /\ \A t \in Tenants : PaidUp(t)'
  BY <1>a, <1>b DEF PaidInv, Cleaning
<1>d. /\ tenant \in [Tenants -> Tenant] /\ \A t \in Tenants : tenant[t].status # "deleted"
      /\ sub \in [Tenants -> Subscription] /\ call \in [Handlers -> Call]
      /\ lastDone \in [Tenants -> {"none", "success", "failed"}]
  BY <1>a, <1>c DEF SerialInv, CopyInv, TypeInv, TypeOK
<1>e. /\ \A h \in Handlers : CleanOK(call[h]) /\ CopyOK(call[h])
      /\ \A t \in Tenants : PaidUp(t)
  BY <1>a, <1>c DEF Cleaning, SerialInv, CopyInv
<1>f. ASSUME \A t \in Tenants : tenant'[t].status = tenant[t].status,
             sub' = sub, lastDone' = lastDone, outbox \subseteq outbox'
      PROVE  \A t \in Tenants : PaidUp(t)'
  BY <1>a, <1>c, <1>e, <1>f, Untouched
\* A step of the webhook h that keeps its event: the tenants it does not act for.
<1>g. ASSUME NEW h \in Handlers, call[h].pc \in WebhookPc, outbox \subseteq outbox', lastDone' = lastDone,
             \A u \in Tenants \ {Payer(call[h].event)} : tenant'[u] = tenant[u] /\ sub'[u] = sub[u]
      PROVE  \A u \in Tenants : PaidUp(u)'
  <2> TAKE u \in Tenants
  <2>1. CASE u = Payer(call[h].event)
    BY <1>a, <1>c, <1>g, <2>1, EventToCome
  <2>2. CASE u # Payer(call[h].event)
    BY <1>a, <1>c, <1>e, <1>g, <2>2, Untouched
  <2> QED BY <2>1, <2>2
\* A step that leaves the calls alone.
<1>h. ASSUME call' = call, sub' = sub, \A t \in Tenants : tenant'[t].status = tenant[t].status
      PROVE  \A h \in Handlers : CleanOK(call[h])'
  <2> TAKE h \in Handlers
  <2>1. CASE call[h].pc \notin WebhookPc
    BY <1>h, <2>1 DEF CleanOK, WebhookPc
  <2>2. CASE call[h].pc \in WebhookPc
    <3>1. /\ Payer(call[h].event) \in Tenants
          /\ payment'[call[h].event.payment].tenant = Payer(call[h].event)
      BY <1>a, <1>c, <2>2, Acting
    <3> QED BY <1>e, <1>h, <3>1 DEF CleanOK, Clean, SubClean, Payer
  <2> QED BY <2>1, <2>2
<1>1. ASSUME \/ \E h \in Handlers, t \in Tenants, g \in Gateways : Checkout(h, t, g)
             \/ \E p \in Payments : OtherEvent(p) \/ Capture(p)
             \/ \E t \in Tenants : TrialEnds(t)
             \/ UNCHANGED vars
      PROVE  (\A h \in Handlers : CleanOK(call[h])') /\ (\A t \in Tenants : PaidUp(t)')
  <2>1. UNCHANGED <<call, sub, lastDone>> /\ outbox \subseteq outbox'
    BY <1>1 DEF Checkout, OtherEvent, Capture, TrialEnds, vars
  <2>2. \A t \in Tenants : tenant'[t].status = tenant[t].status
    <3>1. CASE \E u \in Tenants : TrialEnds(u)
      <4>1. PICK u \in Tenants :
              tenant' = [tenant EXCEPT ![u] = [tenant[u] EXCEPT !.trialOver = TRUE]]
        BY <3>1 DEF TrialEnds
      <4>2. tenant[u] \in Tenant
        BY <1>d
      <4>3. [tenant[u] EXCEPT !.trialOver = TRUE].status = tenant[u].status
        BY <4>2 DEF Tenant
      <4> QED BY <1>d, <4>1, <4>3
    <3>2. CASE tenant' = tenant
      BY <3>2
    <3> QED BY <1>1, <3>1, <3>2 DEF Checkout, OtherEvent, Capture, vars
  <2> QED BY <1>f, <1>h, <2>1, <2>2
<1>2. ASSUME NEW h \in Handlers, NEW e \in Event, ReceiveEvent(h, e)
      PROVE  (\A k \in Handlers : CleanOK(call[k])') /\ (\A t \in Tenants : PaidUp(t)')
  <2>1. UNCHANGED <<tenant, sub, lastDone, outbox>>
    BY <1>2 DEF ReceiveEvent
  <2>2. \A k \in Handlers : call'[k].pc = "savePayment"
    BY <1>a, <1>2, SerialMove DEF ReceiveEvent, SerialInv
  <2> QED BY <1>f, <2>1, <2>2 DEF CleanOK
<1>3. ASSUME NEW h \in Handlers, SavePayment(h) \/ ReadSubscription(h)
      PROVE  (\A k \in Handlers : CleanOK(call[k])') /\ (\A t \in Tenants : PaidUp(t)')
  <2>1. UNCHANGED <<tenant, sub, lastDone, outbox>> /\ call[h].pc \in WebhookPc
    BY <1>3 DEF SavePayment, ReadSubscription, At, WebhookPc
  <2>2. PICK c : /\ Goto(h, c) /\ c.pc \notin {"openTenant", "invoice"}
                 /\ c.pc = "ack" => c.event = EventOf(h) /\ ~sub[Payer(EventOf(h))].exists
    BY <1>3 DEF SavePayment, ReadSubscription
  <2>3. \A k \in Handlers : call'[k] = c
    BY <1>a, <2>2, SerialMove DEF SerialInv
  <2>4. payment'[call[h].event.payment].tenant = Payer(call[h].event) /\ EventOf(h) = call[h].event
    BY <1>a, <1>c, <2>1, Acting
  <2>5. \A k \in Handlers : CleanOK(call[k])'
    BY <2>1, <2>2, <2>3, <2>4 DEF CleanOK, Payer
  <2> QED BY <1>f, <2>1, <2>5
<1>4. ASSUME NEW h \in Handlers, SaveActive(h)
      PROVE  (\A k \in Handlers : CleanOK(call[k])') /\ (\A t \in Tenants : PaidUp(t)')
  <2> DEFINE e == call[h].event
             t == Payer(e)
  <2>1. /\ call[h].pc = "saveActive" /\ call[h].pc \in WebhookPc
        /\ UNCHANGED <<tenant, lastDone, outbox>>
    BY <1>4 DEF SaveActive, At, WebhookPc
  <2>2. EventOf(h) = e /\ t \in Tenants /\ payment'[e.payment].tenant = t
    BY <1>a, <1>c, <2>1, Acting
  <2>3. sub[t].exists /\ call[h].was = sub[t].status /\ call[h].attempts = sub[t].attempts
    BY <1>e, <2>1 DEF CopyOK
  <2>4. PICK payer \in Tenants : payer = t
    BY <2>2
  <2>5. /\ sub'[t].status = "active" /\ sub'[t].attempts = 0
        /\ \A v \in Tenants \ {t} : sub'[v] = sub[v]
    BY <1>4, <1>d, <1>e, <2>1, <2>2, <2>4, SaveActiveStores
  <2>6. \A k \in Handlers : call'[k] = [pc |-> "openTenant", event |-> e]
    BY <1>a, <1>4, <2>2, <2>3, SerialMove DEF SaveActive, SerialInv
  <2> HIDE DEF t, e
  <2>7. \A k \in Handlers : CleanOK(call[k])'
    BY <2>2, <2>5, <2>6 DEF CleanOK, SubClean, Payer
  <2>8. \A u \in Tenants : PaidUp(u)'
    BY <1>g, <2>1, <2>5 DEF t, e
  <2> QED BY <2>7, <2>8
<1>5. ASSUME NEW h \in Handlers, OpenTenant(h)
      PROVE  (\A k \in Handlers : CleanOK(call[k])') /\ (\A t \in Tenants : PaidUp(t)')
  <2> DEFINE e == call[h].event
             t == Payer(e)
  <2>1. /\ call[h].pc = "openTenant" /\ call[h].pc \in WebhookPc
        /\ UNCHANGED <<sub, lastDone, outbox>>
    BY <1>5 DEF OpenTenant, At, WebhookPc
  <2>2. EventOf(h) = e /\ t \in Tenants /\ payment'[e.payment].tenant = t
    BY <1>a, <1>c, <2>1, Acting
  <2>3. SubClean(t)
    BY <1>e, <2>1 DEF CleanOK
  <2>4. tenant'[t].status = "active" /\ \A u \in Tenants \ {t} : tenant'[u] = tenant[u]
    BY <1>d, <1>5, <2>2, SetStatusFields DEF OpenTenant
  <2>5. \A k \in Handlers : call'[k] = [pc |-> "invoice", event |-> e]
    BY <1>a, <1>5, <2>2, SerialMove DEF OpenTenant, SerialInv
  <2> HIDE DEF t, e
  <2>8. tenant'[t].status = "active" /\ sub'[t].status = "active" /\ sub'[t].attempts = 0
    BY <2>1, <2>3, <2>4 DEF SubClean
  <2>9. \A k \in Handlers : call'[k].pc = "invoice" /\ call'[k].event = e
    BY <2>5
  <2>6. \A k \in Handlers : CleanOK(call[k])'
    BY <2>2, <2>8, <2>9 DEF CleanOK, Clean, SubClean, Payer
  <2>7. \A u \in Tenants : PaidUp(u)'
    BY <1>g, <2>1, <2>4 DEF t, e
  <2> QED BY <2>6, <2>7
<1>6. ASSUME NEW h \in Handlers, CreateInvoice(h)
      PROVE  (\A k \in Handlers : CleanOK(call[k])') /\ (\A t \in Tenants : PaidUp(t)')
  <2> DEFINE e == call[h].event
             t == Payer(e)
  <2>1. /\ call[h].pc = "invoice" /\ call[h].pc \in WebhookPc
        /\ UNCHANGED <<tenant, sub, lastDone, outbox>>
    BY <1>6 DEF CreateInvoice, At, WebhookPc
  <2>2. EventOf(h) = e /\ payment'[e.payment].tenant = t
    BY <1>a, <1>c, <2>1, Acting
  <2>3. Clean(t)
    BY <1>e, <2>1 DEF CleanOK
  <2>4. \A k \in Handlers : call'[k] = [pc |-> "ack", event |-> e]
    BY <1>a, <1>6, <2>2, SerialMove DEF CreateInvoice, SerialInv
  <2> HIDE DEF t, e
  <2>6. tenant'[t].status = "active" /\ sub'[t].status = "active" /\ sub'[t].attempts = 0
    BY <2>1, <2>3 DEF Clean, SubClean
  <2>7. \A k \in Handlers : call'[k].pc = "ack" /\ call'[k].event = e
    BY <2>4
  <2>5. \A k \in Handlers : CleanOK(call[k])'
    BY <2>2, <2>6, <2>7 DEF CleanOK, Clean, SubClean, Payer
  <2> QED BY <1>f, <2>1, <2>5
<1>7. ASSUME NEW h \in Handlers, SuspendTenant(h) \/ SaveFailure(h)
      PROVE  (\A k \in Handlers : CleanOK(call[k])') /\ (\A t \in Tenants : PaidUp(t)')
  <2> DEFINE e == call[h].event
             t == Payer(e)
  <2>1. /\ call[h].pc \in {"suspend", "saveFailure"} /\ call[h].pc \in WebhookPc
        /\ UNCHANGED <<lastDone, outbox>>
    BY <1>7 DEF SuspendTenant, SaveFailure, At, WebhookPc
  <2>2. EventOf(h) = e /\ t \in Tenants /\ e.kind = "failed" /\ call[h] \in Call
    BY <1>a, <1>c, <1>e, <2>1, Acting DEF CopyOK
  <2>3. \A u \in Tenants \ {t} : tenant'[u] = tenant[u] /\ sub'[u] = sub[u]
    <3>1. CASE SuspendTenant(h)
      BY <1>d, <2>2, <3>1, SetStatusFields DEF SuspendTenant
    <3>2. CASE SaveFailure(h)
      BY <1>d, <2>2, <3>2 DEF SaveFailure
    <3> QED BY <1>7, <3>1, <3>2
  <2>4. \A k \in Handlers : call'[k].pc \in {"saveFailure", "idle"} \/ call'[k] = [pc |-> "ack", event |-> e]
    <3>1. CASE SuspendTenant(h)
      <4>1. \A k \in Handlers : call'[k] = [call[h] EXCEPT !.pc = "saveFailure"]
        BY <1>a, <3>1, SerialMove DEF SuspendTenant, SerialInv
      <4>2. call[h] = [pc |-> call[h].pc, event |-> call[h].event, was |-> call[h].was,
                       attempts |-> call[h].attempts]
        BY <2>1, <2>2, CallShape
      <4>3. [call[h] EXCEPT !.pc = "saveFailure"].pc = "saveFailure"
        BY <4>2
      <4> QED BY <4>1, <4>3
    <3>2. CASE SaveFailure(h)
      <4>1. PICK c \in {[pc |-> "ack", event |-> e], IdleCall} : Goto(h, c)
        BY <2>2, <3>2 DEF SaveFailure
      <4>2. \A k \in Handlers : call'[k] = c
        BY <1>a, <4>1, SerialMove DEF SerialInv
      <4> QED BY <4>1, <4>2 DEF IdleCall
    <3> QED BY <1>7, <3>1, <3>2
  <2> HIDE DEF t, e
  <2>5. \A k \in Handlers : CleanOK(call[k])'
    BY <2>2, <2>4 DEF CleanOK
  <2>6. \A u \in Tenants : PaidUp(u)'
    BY <1>g, <2>1, <2>3 DEF t, e
  <2> QED BY <2>5, <2>6
<1>8. ASSUME NEW h \in Handlers, Ack(h)
      PROVE  (\A k \in Handlers : CleanOK(call[k])') /\ (\A t \in Tenants : PaidUp(t)')
  <2> DEFINE e == call[h].event
             t == Payer(e)
  <2>1. call[h].pc = "ack" /\ call[h].pc \in WebhookPc /\ UNCHANGED <<tenant, sub>>
    BY <1>8 DEF Ack, At, WebhookPc
  <2>2. EventOf(h) = e /\ t \in Tenants
    BY <1>a, <1>c, <2>1, Acting
  <2>3. outbox' = outbox \ {e} /\ lastDone' = [lastDone EXCEPT ![t] = e.kind]
    BY <1>8, <2>2 DEF Ack
  <2>4. \A k \in Handlers : call'[k] = IdleCall
    BY <1>a, <1>8, SerialMove DEF Ack, SerialInv
  <2>5. CleanOK(call[h])
    BY <1>e
  <2>6. e.kind = "success" /\ sub[t].exists => Clean(t)
    BY <2>1, <2>5 DEF CleanOK
  <2>7. \A x \in outbox : Payer(x) # t => x \in outbox'
    BY <2>3
  <2> HIDE DEF t, e
  <2>8. ASSUME NEW u \in Tenants PROVE PaidUp(u)'
    <3>1. CASE u = t
      BY <1>d, <2>1, <2>2, <2>3, <2>6, <3>1 DEF PaidUp, Clean, SubClean
    <3>2. CASE u # t
      BY <1>a, <1>c, <1>d, <1>e, <2>1, <2>2, <2>3, <2>7, <3>2, Untouched
    <3> QED BY <3>1, <3>2
  <2> QED BY <2>4, <2>8 DEF CleanOK, IdleCall
<1>9. ASSUME Crash
      PROVE  (\A k \in Handlers : CleanOK(call[k])') /\ (\A t \in Tenants : PaidUp(t)')
  BY <1>f, <1>9 DEF Crash, CleanOK, IdleCall
<1> QED BY <1>a, <1>c, <1>1, <1>2, <1>3, <1>4, <1>5, <1>6, <1>7, <1>8, <1>9, QuietNext

\* Calls served one at a time, without the operator, wherever the process dies
\* and however events are repeated and reordered: once the gateway has nothing
\* more to say of a tenant whose last answered event was a success, the tenant
\* is open and its subscription in order (activateSubscription,
\* handleFailedPayment and the order of their writes).
THEOREM PaidTenantIsOpenAlways == IsSerial /\ Spec => []PaidTenantIsOpen
<1>1. Init => PaidInv
  BY InitTypeInv
     DEF Init, PaidInv, SerialInv, CopyInv, CopyOK, Cleaning, CleanOK, PaidUp, IdleCall,
         WebhookPc, OperatorPc
<1>2. PaidInv => PaidTenantIsOpen
  BY DEF PaidInv, Cleaning, PaidUp, Clean, SubClean, PaidTenantIsOpen, IsTenantActive, Quiet
<1>3. CASE IsSerial
  <2>1. PaidInv /\ [Next]_vars => PaidInv'
    BY <1>3, StepPaidInv
  <2> QED BY <1>1, <1>2, <2>1, PTL DEF Spec
<1> QED BY <1>3

-----------------------------------------------------------------------------
(* Suspensions are earned: without crashes a subscription counts the       *)
(* events answered since the last success, all of which announced none,    *)
(* but for the event under way.                                            *)

WorksFor(c, t) == c.pc \in WebhookPc /\ Payer(c.event) = t
Suspended(t) == tenant[t].status = "suspended"

CallTally(c) ==
  LET t == Payer(c.event)
  IN c.pc \in WebhookPc =>
       /\ c.event.kind = "failed" => taken[t] >= unpaid[t] + 1
       /\ sub[t].exists =>
            /\ c.pc \in {"openTenant", "invoice"} => sub[t].attempts = 0
            /\ c.pc = "ack" =>
                 sub[t].attempts = IF c.event.kind = "failed" THEN unpaid[t] + 1 ELSE 0
            /\ c.pc \notin {"openTenant", "invoice", "ack"} => sub[t].attempts = unpaid[t]
       /\ Suspended(t) => \/ sub[t].attempts >= SuspensionThreshold
                          \/ c.pc = "openTenant"
                          \/ c.pc = "saveFailure" /\ c.attempts + 1 >= SuspensionThreshold
TenantTally(t) ==
  /\ taken[t] >= unpaid[t]
  /\ Suspended(t) => taken[t] >= SuspensionThreshold /\ sub[t].exists
  /\ (\A h \in Handlers : ~WorksFor(call[h], t)) =>
       /\ sub[t].exists => sub[t].attempts = unpaid[t]
       /\ Suspended(t) => sub[t].attempts >= SuspensionThreshold
Tallying ==
  crashes = 0 /\ ~operator => /\ \A h \in Handlers : CallTally(call[h])
                              /\ \A t \in Tenants : TenantTally(t)
EarnedInv == SerialInv /\ Tallying

\* A tenant the only call does not work for, and the step does not touch.
LEMMA OthersTally ==
  ASSUME IsSerial, NEW h \in Handlers, NEW u \in Tenants, ~WorksFor(call[h], u), TenantTally(u),
         tenant'[u].status = tenant[u].status, sub'[u] = sub[u],
         unpaid'[u] = unpaid[u], taken'[u] = taken[u]
  PROVE  TenantTally(u)'
<1>1. \A k \in Handlers : ~WorksFor(call[k], u)
  BY DEF IsSerial
<1> QED BY <1>1 DEF TenantTally, Suspended

\* A step that leaves the calls, the counts and the statuses alone.
LEMMA TallyKept ==
  ASSUME SerialInv, [Next]_vars, ~operator, call' = call, sub' = sub,
         UNCHANGED <<unpaid, taken>>,
         \A t \in Tenants : tenant'[t].status = tenant[t].status,
         \A h \in Handlers : CallTally(call[h]), \A t \in Tenants : TenantTally(t)
  PROVE  (\A h \in Handlers : CallTally(call[h])') /\ (\A t \in Tenants : TenantTally(t)')
<1>1. \A h \in Handlers : call[h].pc \in WebhookPc =>
        /\ Payer(call[h].event) \in Tenants
        /\ payment'[call[h].event.payment].tenant = Payer(call[h].event)
  BY Acting
<1>2. ASSUME NEW h \in Handlers PROVE CallTally(call[h])'
  <2>1. CASE call[h].pc \notin WebhookPc
    BY <2>1 DEF CallTally
  <2>2. CASE call[h].pc \in WebhookPc
    <3>1. PICK t \in Tenants : t = Payer(call[h].event) /\ Payer(call[h].event)' = t
      BY <1>1, <2>2 DEF Payer
    <3>2. tenant'[t].status = tenant[t].status /\ CallTally(call[h])
      OBVIOUS
    <3> QED BY <3>1, <3>2 DEF CallTally, Suspended
  <2> QED BY <2>1, <2>2
<1>3. ASSUME NEW t \in Tenants PROVE TenantTally(t)'
  <2>1. \A h \in Handlers : WorksFor(call[h], t) => WorksFor(call[h], t)'
    BY <1>1 DEF WorksFor, Payer
  <2>2. tenant'[t].status = tenant[t].status /\ TenantTally(t)
    OBVIOUS
  <2> QED BY <2>1, <2>2 DEF TenantTally, Suspended
<1> QED BY <1>2, <1>3

LEMMA StepEarnedInv == IsSerial /\ EarnedInv /\ [Next]_vars => EarnedInv'
<1> SUFFICES ASSUME IsSerial, EarnedInv, [Next]_vars PROVE EarnedInv'
  OBVIOUS
<1> USE DEF dbVars, gatewayVars, historyVars
<1>a. SerialInv /\ SerialInv' /\ Tallying
  BY StepSerialInv DEF EarnedInv
<1>b. CASE operator \/ crashes # 0 \/ Crash
  <2>1. crashes \in Nat
    BY <1>a, BoundsAssumption DEF SerialInv, TypeInv, TypeOK
  <2>2. crashes' = crashes \/ crashes' = crashes + 1
    BY CrashesCounted
  <2>3. Crash => crashes' = crashes + 1
    BY DEF Crash
  <2>4. operator' \/ crashes' # 0
    BY <1>b, <2>1, <2>2, <2>3, OperatorFixed
  <2> QED BY <1>a, <2>4 DEF EarnedInv, Tallying
<1>c. SUFFICES ASSUME ~operator, crashes = 0, ~Crash
               PROVE  /\ \A h \in Handlers : CallTally(call[h])'
                      /\ \A t \in Tenants : TenantTally(t)'
  BY <1>a, <1>b DEF EarnedInv, Tallying
<1>d. /\ tenant \in [Tenants -> Tenant] /\ \A t \in Tenants : tenant[t].status # "deleted"
      /\ sub \in [Tenants -> Subscription] /\ call \in [Handlers -> Call]
      /\ unpaid \in [Tenants -> Nat] /\ taken \in [Tenants -> Nat]
      /\ \A t \in Tenants : sub[t].attempts \in Nat
  BY <1>a, <1>c, SubShape DEF SerialInv, CopyInv, TypeInv, TypeOK
<1>e. /\ \A h \in Handlers : CallTally(call[h]) /\ CopyOK(call[h])
      /\ \A t \in Tenants : TenantTally(t)
  BY <1>a, <1>c DEF Tallying, SerialInv, CopyInv
\* The event a webhook acts on, and its payer, before the step and after.
<1>f. ASSUME NEW h \in Handlers, call[h].pc \in WebhookPc
      PROVE  \E e \in Event, t \in Tenants :
               /\ e = call[h].event /\ EventOf(h) = e /\ Payer(e) = t
               /\ payment'[e.payment].tenant = t
               /\ \A u \in Tenants \ {t} : ~WorksFor(call[h], u)
  <2>1. PICK e \in Event : e = call[h].event
    BY <1>a, <1>c, <1>f, Acting
  <2>2. PICK t \in Tenants : t = Payer(e)
    BY <1>a, <1>c, <1>f, <2>1, Acting
  <2>3. EventOf(h) = e /\ payment'[e.payment].tenant = t
    BY <1>a, <1>c, <1>f, <2>1, <2>2, Acting
  <2> QED BY <2>1, <2>2, <2>3 DEF WorksFor
<1>1. ASSUME \/ \E h \in Handlers, t \in Tenants, g \in Gateways : Checkout(h, t, g)
             \/ \E p \in Payments : OtherEvent(p) \/ Capture(p)
             \/ \E t \in Tenants : TrialEnds(t)
             \/ UNCHANGED vars
      PROVE  (\A h \in Handlers : CallTally(call[h])') /\ (\A t \in Tenants : TenantTally(t)')
  <2>1. UNCHANGED <<call, sub, unpaid, taken>>
    BY <1>1 DEF Checkout, OtherEvent, Capture, TrialEnds, vars
  <2>2. \A t \in Tenants : tenant'[t].status = tenant[t].status
    <3>1. CASE \E u \in Tenants : TrialEnds(u)
      <4>1. PICK u \in Tenants :
              tenant' = [tenant EXCEPT ![u] = [tenant[u] EXCEPT !.trialOver = TRUE]]
        BY <3>1 DEF TrialEnds
      <4>2. tenant[u] \in Tenant
        BY <1>d
      <4>3. [tenant[u] EXCEPT !.trialOver = TRUE].status = tenant[u].status
        BY <4>2 DEF Tenant
      <4> QED BY <1>d, <4>1, <4>3
    <3>2. CASE tenant' = tenant
      BY <3>2
    <3> QED BY <1>1, <3>1, <3>2 DEF Checkout, OtherEvent, Capture, vars
  <2> QED BY <1>a, <1>c, <1>e, <2>1, <2>2, TallyKept
<1>2. ASSUME NEW h \in Handlers, NEW e \in Event, ReceiveEvent(h, e)
      PROVE  (\A k \in Handlers : CallTally(call[k])') /\ (\A u \in Tenants : TenantTally(u)')
  <2>1. /\ call[h].pc = "idle" /\ e \in outbox /\ UNCHANGED <<tenant, sub, payment, unpaid>>
        /\ taken' = [taken EXCEPT ![Payer(e)] = IF e.kind = "failed" THEN @ + 1 ELSE @]
    BY <1>2 DEF ReceiveEvent, Idle
  <2>2. PICK t \in Tenants : t = Payer(e)
    BY <1>a, <2>1, PayerIsTenant DEF SerialInv, TypeInv, EventsKnown
  <2>3. payment'[e.payment].tenant = t
    BY <2>1, <2>2 DEF Payer
  <2>4. \A k \in Handlers : ~WorksFor(call[k], t) /\ call'[k].pc = "savePayment" /\ call'[k].event = e
    BY <1>a, <1>2, <2>1, SerialMove DEF ReceiveEvent, SerialInv, WorksFor, WebhookPc
  <2>5. /\ taken[t] >= unpaid[t]
        /\ sub[t].exists => sub[t].attempts = unpaid[t]
        /\ Suspended(t) => /\ sub[t].attempts >= SuspensionThreshold
                           /\ taken[t] >= SuspensionThreshold /\ sub[t].exists
    BY <1>e, <2>4 DEF TenantTally
  <2>6. /\ taken'[t] >= taken[t] /\ (e.kind = "failed" => taken'[t] = taken[t] + 1)
        /\ \A u \in Tenants \ {t} : taken'[u] = taken[u]
    BY <1>d, <2>1, <2>2
  <2>7. ASSUME NEW k \in Handlers PROVE CallTally(call[k])'
    <3>1. Payer(call[k].event)' = t
      BY <2>3, <2>4 DEF Payer
    <3>2. taken'[t] \in Nat /\ taken[t] \in Nat /\ unpaid[t] \in Nat
      BY <1>d, <2>1, <2>2
    <3> QED BY <2>1, <2>4, <2>5, <2>6, <3>1, <3>2 DEF CallTally, Suspended
  <2>8. ASSUME NEW u \in Tenants PROVE TenantTally(u)'
    <3>1. CASE u = t
      <4>1. \A k \in Handlers : WorksFor(call[k], t)'
        BY <2>3, <2>4 DEF WorksFor, WebhookPc, Payer
      <4>2. taken'[t] \in Nat /\ taken[t] \in Nat /\ unpaid[t] \in Nat
        BY <1>d, <2>1, <2>2
      <4>3. taken'[t] >= unpaid[t] /\ (Suspended(t) => taken'[t] >= SuspensionThreshold)
        BY <2>5, <2>6, <4>2 DEF SuspensionThreshold
      <4> QED BY <1>2, <2>1, <2>5, <3>1, <4>1, <4>3 DEF TenantTally, Suspended
    <3>2. CASE u # t
      <4>1. ~WorksFor(call[h], u) /\ TenantTally(u)
        BY <1>e, <2>1 DEF WorksFor, WebhookPc
      <4> QED BY <1>2, <2>1, <2>6, <3>2, <4>1, OthersTally
    <3> QED BY <3>1, <3>2
  <2> QED BY <2>7, <2>8
\* A step of the webhook h that leaves it working for the same tenant.
<1>g. ASSUME NEW h \in Handlers, NEW e \in Event, NEW t \in Tenants, NEW c,
             call[h].event = e, WorksFor(call[h], t), payment'[e.payment].tenant = t,
             Goto(h, c), c.event = e, c.pc \in WebhookPc, UNCHANGED <<unpaid, taken>>,
             \A u \in Tenants \ {t} : tenant'[u] = tenant[u] /\ sub'[u] = sub[u],
             sub'[t].exists = sub[t].exists,
             Suspended(t)' => /\ \/ Suspended(t)
                                 \/ taken[t] >= SuspensionThreshold /\ sub[t].exists
                              /\ \/ sub'[t].attempts >= SuspensionThreshold
                                 \/ c.pc = "openTenant"
                                 \/ c.pc = "saveFailure" /\ c.attempts + 1 >= SuspensionThreshold,
             sub[t].exists =>
               /\ c.pc \in {"openTenant", "invoice"} => sub'[t].attempts = 0
               /\ c.pc = "ack" /\ e.kind = "failed" => sub'[t].attempts = unpaid[t] + 1
               /\ c.pc = "ack" /\ e.kind # "failed" => sub'[t].attempts = 0
               /\ c.pc \notin {"openTenant", "invoice", "ack"} => sub'[t].attempts = unpaid[t]
      PROVE  (\A k \in Handlers : CallTally(call[k])') /\ (\A u \in Tenants : TenantTally(u)')
  <2>1. \A k \in Handlers : call'[k] = c
    BY <1>a, <1>g, SerialMove DEF SerialInv
  <2>2. /\ e.kind = "failed" => taken[t] >= unpaid[t] + 1
        /\ taken[t] >= unpaid[t]
        /\ Suspended(t) => taken[t] >= SuspensionThreshold /\ sub[t].exists
    BY <1>e, <1>g DEF CallTally, TenantTally, WorksFor
  <2>3. ASSUME NEW k \in Handlers PROVE CallTally(call[k])'
    <3>1. Payer(call[k].event)' = t
      BY <1>g, <2>1 DEF Payer
    <3> QED BY <1>g, <2>1, <2>2, <3>1 DEF CallTally, Suspended
  <2>4. ASSUME NEW u \in Tenants PROVE TenantTally(u)'
    <3>1. CASE u = t
      <4>1. \A k \in Handlers : WorksFor(call[k], t)'
        BY <1>g, <2>1 DEF WorksFor, Payer
      <4> QED BY <1>g, <2>2, <3>1, <4>1 DEF TenantTally, Suspended
    <3>2. CASE u # t
      <4>1. ~WorksFor(call[h], u) /\ TenantTally(u)
        BY <1>e, <1>g, <3>2 DEF WorksFor
      <4> QED BY <1>g, <3>2, <4>1, OthersTally
    <3> QED BY <3>1, <3>2
  <2> QED BY <2>3, <2>4
<1>3. ASSUME NEW h \in Handlers, SavePayment(h)
      PROVE  (\A k \in Handlers : CallTally(call[k])') /\ (\A u \in Tenants : TenantTally(u)')
  <2>1. call[h].pc = "savePayment" /\ call[h].pc \in WebhookPc /\ UNCHANGED <<tenant, sub, unpaid, taken>>
    BY <1>3 DEF SavePayment, At, WebhookPc
  <2>2. PICK e \in Event, t \in Tenants :
          /\ e = call[h].event /\ EventOf(h) = e /\ Payer(e) = t /\ payment'[e.payment].tenant = t
    BY <1>f, <2>1
  <2>3. WorksFor(call[h], t) /\ CallTally(call[h]) /\ TenantTally(t)
    BY <1>e, <2>1, <2>2 DEF WorksFor
  <2>4. PICK c : Goto(h, c) /\ c.event = e /\ c.pc = "readSub"
    BY <1>3, <2>2 DEF SavePayment
  <2>5. /\ Suspended(t) => sub[t].attempts >= SuspensionThreshold /\ sub[t].exists
        /\ sub[t].exists => sub[t].attempts = unpaid[t]
    BY <2>1, <2>2, <2>3 DEF CallTally, TenantTally
  <2> QED BY <1>g, <2>1, <2>2, <2>3, <2>4, <2>5 DEF WebhookPc, Suspended
<1>4. ASSUME NEW h \in Handlers, ReadSubscription(h)
      PROVE  (\A k \in Handlers : CallTally(call[k])') /\ (\A u \in Tenants : TenantTally(u)')
  <2>1. call[h].pc = "readSub" /\ call[h].pc \in WebhookPc /\ UNCHANGED <<tenant, sub, unpaid, taken>>
    BY <1>4 DEF ReadSubscription, At, WebhookPc
  <2>2. PICK e \in Event, t \in Tenants :
          /\ e = call[h].event /\ EventOf(h) = e /\ Payer(e) = t /\ payment'[e.payment].tenant = t
    BY <1>f, <2>1
  <2>3. WorksFor(call[h], t) /\ CallTally(call[h]) /\ TenantTally(t)
    BY <1>e, <2>1, <2>2 DEF WorksFor
  <2>4. PICK c : /\ Goto(h, c) /\ c.event = e
                 /\ c.pc \in {"ack", "saveActive", "suspend", "saveFailure"}
                 /\ c.pc = "ack" => ~sub[t].exists
    BY <1>4, <2>2 DEF ReadSubscription
  <2>5. /\ Suspended(t) => sub[t].attempts >= SuspensionThreshold /\ sub[t].exists
        /\ sub[t].exists => sub[t].attempts = unpaid[t]
    BY <2>1, <2>2, <2>3 DEF CallTally, TenantTally
  <2> QED BY <1>g, <2>1, <2>2, <2>3, <2>4, <2>5 DEF WebhookPc, Suspended
<1>5. ASSUME NEW h \in Handlers, SaveActive(h)
      PROVE  (\A k \in Handlers : CallTally(call[k])') /\ (\A u \in Tenants : TenantTally(u)')
  <2>1. call[h].pc = "saveActive" /\ call[h].pc \in WebhookPc /\ UNCHANGED <<tenant, unpaid, taken>>
    BY <1>5 DEF SaveActive, At, WebhookPc
  <2>2. PICK e \in Event, t \in Tenants :
          /\ e = call[h].event /\ EventOf(h) = e /\ Payer(e) = t /\ payment'[e.payment].tenant = t
    BY <1>f, <2>1
  <2>3. WorksFor(call[h], t) /\ TenantTally(t) /\ sub[t].exists
    BY <1>e, <2>1, <2>2 DEF WorksFor, CopyOK
  <2>4. /\ Goto(h, [pc |-> "openTenant", event |-> e])
        /\ sub'[t].attempts = 0 /\ sub'[t].exists = sub[t].exists
        /\ \A u \in Tenants \ {t} : sub'[u] = sub[u]
    BY <1>d, <1>e, <1>5, <2>1, <2>2, <2>3, SaveActiveStores
  <2> QED BY <1>g, <2>1, <2>2, <2>3, <2>4 DEF WebhookPc, TenantTally, Suspended
<1>6. ASSUME NEW h \in Handlers, OpenTenant(h)
      PROVE  (\A k \in Handlers : CallTally(call[k])') /\ (\A u \in Tenants : TenantTally(u)')
  <2>1. call[h].pc = "openTenant" /\ call[h].pc \in WebhookPc /\ UNCHANGED <<sub, unpaid, taken>>
    BY <1>6 DEF OpenTenant, At, WebhookPc
  <2>2. PICK e \in Event, t \in Tenants :
          /\ e = call[h].event /\ EventOf(h) = e /\ Payer(e) = t /\ payment'[e.payment].tenant = t
    BY <1>f, <2>1
  <2>3. WorksFor(call[h], t) /\ CallTally(call[h])
    BY <1>e, <2>1, <2>2 DEF WorksFor
  <2>4. tenant'[t].status = "active" /\ \A u \in Tenants \ {t} : tenant'[u] = tenant[u]
    BY <1>d, <1>6, <2>2, SetStatusFields DEF OpenTenant
  <2>5. Goto(h, [pc |-> "invoice", event |-> e])
    BY <1>6, <2>2 DEF OpenTenant
  <2> QED BY <1>g, <2>1, <2>2, <2>3, <2>4, <2>5 DEF WebhookPc, CallTally, Suspended
<1>7. ASSUME NEW h \in Handlers, CreateInvoice(h)
      PROVE  (\A k \in Handlers : CallTally(call[k])') /\ (\A u \in Tenants : TenantTally(u)')
  <2>1. call[h].pc = "invoice" /\ call[h].pc \in WebhookPc /\ UNCHANGED <<tenant, sub, unpaid, taken>>
    BY <1>7 DEF CreateInvoice, At, WebhookPc
  <2>2. PICK e \in Event, t \in Tenants :
          /\ e = call[h].event /\ EventOf(h) = e /\ Payer(e) = t /\ payment'[e.payment].tenant = t
    BY <1>f, <2>1
  <2>3. WorksFor(call[h], t) /\ CallTally(call[h]) /\ TenantTally(t) /\ e.kind # "failed"
    BY <1>e, <2>1, <2>2 DEF WorksFor, CopyOK
  <2>4. PICK c : Goto(h, c) /\ c.event = e /\ c.pc = "ack"
    BY <1>7, <2>2 DEF CreateInvoice
  <2>5. /\ Suspended(t) => sub[t].attempts >= SuspensionThreshold /\ sub[t].exists
        /\ sub[t].exists => sub[t].attempts = 0
    BY <2>1, <2>2, <2>3 DEF CallTally, TenantTally
  <2> QED BY <1>g, <2>1, <2>2, <2>3, <2>4, <2>5 DEF WebhookPc, Suspended
<1>8. ASSUME NEW h \in Handlers, SuspendTenant(h)
      PROVE  (\A k \in Handlers : CallTally(call[k])') /\ (\A u \in Tenants : TenantTally(u)')
  <2>1. call[h].pc = "suspend" /\ call[h].pc \in WebhookPc /\ UNCHANGED <<sub, unpaid, taken>>
    BY <1>8 DEF SuspendTenant, At, WebhookPc
  <2>2. PICK e \in Event, t \in Tenants :
          /\ e = call[h].event /\ EventOf(h) = e /\ Payer(e) = t /\ payment'[e.payment].tenant = t
    BY <1>f, <2>1
  <2>3. /\ WorksFor(call[h], t) /\ CallTally(call[h]) /\ e.kind = "failed"
        /\ sub[t].exists /\ call[h].attempts = sub[t].attempts
        /\ call[h].attempts + 1 >= SuspensionThreshold
    BY <1>e, <2>1, <2>2 DEF WorksFor, CopyOK
  <2>4. \A u \in Tenants \ {t} : tenant'[u] = tenant[u]
    BY <1>d, <1>8, <2>2, SetStatusFields DEF SuspendTenant
  <2>5. PICK c : /\ Goto(h, c) /\ c.pc = "saveFailure" /\ c.event = e
                 /\ c.attempts = call[h].attempts
    <3>1. call[h] = [pc |-> call[h].pc, event |-> e, was |-> call[h].was,
                     attempts |-> call[h].attempts]
      BY <1>d, <2>1, <2>2, CallShape
    <3>2. [call[h] EXCEPT !.pc = "saveFailure"] =
            [pc |-> "saveFailure", event |-> e, was |-> call[h].was, attempts |-> call[h].attempts]
      BY <3>1
    <3> QED BY <1>8, <3>2 DEF SuspendTenant
  <2>6. /\ sub[t].attempts = unpaid[t] /\ taken[t] >= unpaid[t] + 1
    BY <2>1, <2>2, <2>3 DEF CallTally
  <2>7. taken[t] >= SuspensionThreshold /\ c.attempts + 1 >= SuspensionThreshold
    <3>1. taken[t] \in Nat /\ unpaid[t] \in Nat
      BY <1>d
    <3> QED BY <2>3, <2>5, <2>6, <3>1 DEF SuspensionThreshold
  <2> QED BY <1>g, <2>1, <2>2, <2>3, <2>4, <2>5, <2>6, <2>7 DEF WebhookPc
<1>9. ASSUME NEW h \in Handlers, SaveFailure(h)
      PROVE  (\A k \in Handlers : CallTally(call[k])') /\ (\A u \in Tenants : TenantTally(u)')
  <2>1. call[h].pc = "saveFailure" /\ call[h].pc \in WebhookPc /\ UNCHANGED <<tenant, unpaid, taken>>
    BY <1>9 DEF SaveFailure, At, WebhookPc
  <2>2. PICK e \in Event, t \in Tenants :
          /\ e = call[h].event /\ EventOf(h) = e /\ Payer(e) = t /\ payment'[e.payment].tenant = t
    BY <1>f, <2>1
  <2>3. /\ WorksFor(call[h], t) /\ CallTally(call[h]) /\ TenantTally(t) /\ e.kind = "failed"
        /\ sub[t].exists /\ call[h].attempts = sub[t].attempts
    BY <1>e, <2>1, <2>2 DEF WorksFor, CopyOK
  <2>4. /\ Goto(h, [pc |-> "ack", event |-> e])
        /\ sub'[t].attempts = sub[t].attempts + 1 /\ sub'[t].exists = sub[t].exists
        /\ \A u \in Tenants \ {t} : sub'[u] = sub[u]
    <3>1. PICK late :
            sub' = [sub EXCEPT ![t].attempts = call[h].attempts + 1,
                               ![t].status = IF late THEN "past_due" ELSE @]
      BY <1>9, <2>2, <2>3 DEF SaveFailure
    <3>2. PICK n : n = call[h].attempts + 1
      OBVIOUS
    <3>3. sub' = [sub EXCEPT ![t].attempts = n, ![t].status = IF late THEN "past_due" ELSE @]
      BY <3>1, <3>2
    <3>4. sub \in [Tenants -> Subscription]
      BY <1>d
    <3>5. /\ sub'[t].attempts = n /\ sub'[t].exists = sub[t].exists
          /\ \A u \in Tenants \ {t} : sub'[u] = sub[u]
      BY <3>3, <3>4, SavedFailure
    <3> QED BY <1>9, <2>2, <2>3, <3>2, <3>5 DEF SaveFailure
  <2>5. /\ sub'[t].attempts = unpaid[t] + 1
        /\ Suspended(t) => sub'[t].attempts >= SuspensionThreshold
    <3>1. sub[t].attempts \in Nat
      BY <1>d
    <3>2. sub[t].attempts = unpaid[t]
      BY <2>1, <2>2, <2>3 DEF CallTally
    <3>3. Suspended(t) => \/ sub[t].attempts >= SuspensionThreshold
                          \/ sub[t].attempts + 1 >= SuspensionThreshold
      BY <2>1, <2>2, <2>3 DEF CallTally
    <3> QED BY <2>4, <3>1, <3>2, <3>3 DEF SuspensionThreshold
  <2> QED BY <1>g, <2>1, <2>2, <2>3, <2>4, <2>5 DEF WebhookPc, Suspended
<1>10. ASSUME NEW h \in Handlers, Ack(h)
       PROVE  (\A k \in Handlers : CallTally(call[k])') /\ (\A u \in Tenants : TenantTally(u)')
  <2>1. call[h].pc = "ack" /\ call[h].pc \in WebhookPc /\ UNCHANGED <<tenant, sub, taken>>
    BY <1>10 DEF Ack, At, WebhookPc
  <2>2. PICK e \in Event, t \in Tenants :
          /\ e = call[h].event /\ EventOf(h) = e /\ Payer(e) = t
          /\ \A u \in Tenants \ {t} : ~WorksFor(call[h], u)
    BY <1>f, <2>1
  <2>3. unpaid' = [unpaid EXCEPT ![t] = IF e.kind = "failed" THEN @ + 1 ELSE 0]
    BY <1>10, <2>2 DEF Ack
  <2>4. \A k \in Handlers : call'[k] = IdleCall
    BY <1>a, <1>10, SerialMove DEF Ack, SerialInv
  <2>5. CallTally(call[h]) /\ TenantTally(t)
    BY <1>e
  <2>6. TenantTally(t)'
    <3>1. unpaid'[t] = IF e.kind = "failed" THEN unpaid[t] + 1 ELSE 0
      BY <1>d, <2>3
    <3>2. taken[t] >= unpaid'[t] /\ (sub[t].exists => sub[t].attempts = unpaid'[t])
      <4>1. taken[t] \in Nat /\ unpaid[t] \in Nat
        BY <1>d
      <4> QED BY <2>1, <2>2, <2>5, <3>1, <4>1 DEF CallTally
    <3>3. Suspended(t) => /\ sub[t].attempts >= SuspensionThreshold
                          /\ taken[t] >= SuspensionThreshold /\ sub[t].exists
      BY <2>1, <2>2, <2>5 DEF CallTally, TenantTally
    <3> QED BY <2>1, <3>2, <3>3 DEF TenantTally, Suspended
  <2>7. ASSUME NEW u \in Tenants, u # t PROVE TenantTally(u)'
    <3>1. unpaid'[u] = unpaid[u]
      BY <1>d, <2>3, <2>7
    <3> QED BY <1>e, <2>1, <2>2, <2>7, <3>1, OthersTally
  <2> QED BY <2>4, <2>6, <2>7 DEF CallTally, IdleCall, WebhookPc
<1> QED BY <1>c, <1>a, <1>1, <1>2, <1>3, <1>4, <1>5, <1>6, <1>7, <1>8, <1>9, <1>10, QuietNext

\* Calls served one at a time, no crash, no operator, but events repeated and
\* reordered at will: whoever is suspended has had three events that announce no
\* payment - failed attempts or any other - with no success between them, and none
\* is suspended that had fewer (handleFailedPayment counts in the subscription
\* what the gateway sent, before a capture and after it).
THEOREM SuspensionIsEarnedAlways == IsSerial /\ Spec => []SuspensionIsEarned
<1>1. Init => EarnedInv
  <2> SUFFICES ASSUME Init PROVE EarnedInv
    OBVIOUS
  <2>1. SerialInv
    BY InitTypeInv DEF Init, SerialInv, CopyInv, CopyOK, IdleCall, WebhookPc, OperatorPc
  <2>2. \A h \in Handlers : CallTally(call[h])
    BY DEF Init, CallTally, IdleCall, WebhookPc
  <2>3. \A t \in Tenants : TenantTally(t)
    BY DEF Init, TenantTally, Suspended
  <2> QED BY <2>1, <2>2, <2>3 DEF EarnedInv, Tallying
<1>2. EarnedInv => SuspensionIsEarned
  <2> SUFFICES ASSUME EarnedInv, crashes = 0, ~operator, NEW t \in Tenants, Suspended(t)
               PROVE  /\ (\A h \in Handlers : Idle(h)) => unpaid[t] >= SuspensionThreshold
                      /\ taken[t] >= SuspensionThreshold
    BY DEF SuspensionIsEarned, Suspended
  <2>1. TenantTally(t)
    BY DEF EarnedInv, Tallying
  <2>2. (\A h \in Handlers : Idle(h)) => \A h \in Handlers : ~WorksFor(call[h], t)
    BY DEF Idle, WorksFor, WebhookPc
  <2> QED BY <2>1, <2>2 DEF TenantTally
<1>3. CASE IsSerial
  <2>1. EarnedInv /\ [Next]_vars => EarnedInv'
    BY <1>3, StepEarnedInv
  <2> QED BY <1>1, <1>2, <2>1, PTL DEF Spec
<1> QED BY <1>3
=============================================================================
