---------------------------- MODULE TenantBilling ----------------------------
(***************************************************************************)
(* Payments, subscriptions and the status of a tenant: the checkout calls  *)
(* and gateway webhooks of billing.service.ts, the platform operator's     *)
(* calls of tenants.service.ts, and the test requests outside the platform *)
(* pass (tenant-context.service.ts).                                       *)
(*                                                                         *)
(* A gateway delivers each event at least once: an event stays in the      *)
(* outbox until the webhook call that handles it has answered, so a crash  *)
(* or a slow answer makes the gateway deliver it again, in any order.      *)
(*                                                                         *)
(* Two things are assumed of the calls the webhooks receive.  They are the *)
(* gateways' own: of Stripe and PayPal the code verifies no signature, of  *)
(* Razorpay only when a secret is set (billing.controller.ts:118).  And an *)
(* event names its payment by the transaction id the checkout stored: one  *)
(* that names no known payment is answered and changes nothing             *)
(* (`if (!payment) return`, billing.service.ts:100, :309, :323).           *)
(***************************************************************************)
EXTENDS Integers, FiniteSets

CONSTANTS
  Handlers,       \* calls the process serves at the same time
  Tenants,        \* tenant ids other than the default one
  Payments,       \* payment transaction ids (bounds the checkouts)
  Gateways,       \* gateways in use, of "razorpay", "stripe", "paypal"
  MaxOthers,      \* events without a payment that Razorpay sends per order (bound)
  MaxCrashes      \* how often the process may die (bound)

ASSUME HandlersAssumption == IsFiniteSet(Handlers)
ASSUME GatewaysAssumption == Gateways \subseteq {"razorpay", "stripe", "paypal"}
ASSUME BoundsAssumption == MaxOthers \in Nat /\ MaxCrashes \in Nat

VARIABLES
  tenant,         \* tenants, by id
  sub,            \* the subscription of each tenant
  payment,        \* payment_transactions, by id
  gateway,        \* what the gateway has done with each payment
  outbox,         \* gateway events not yet answered
  invoices,       \* history: invoices created on behalf of each payment
  announced,      \* history: deliveries begun that announce a success, by payment
  lastDone,       \* history: kind of the last event answered, by tenant
  unpaid,         \* history: events answered since the last success that announce none
  taken,          \* history: deliveries begun that announce no payment, by tenant
  operator,       \* whether the platform operator acts in this behaviour
  call,           \* what each handler remembers between two awaits
  crashes         \* how often the process has died

dbVars == <<tenant, sub, payment, invoices>>
gatewayVars == <<gateway, outbox>>
historyVars == <<announced, lastDone, unpaid, taken, operator>>
vars == <<dbVars, gatewayVars, historyVars, call, crashes>>

SuspensionThreshold == 3

TenantStatus == {"trial", "active", "suspended", "cancelled"}
Tenant == [status: TenantStatus \cup {"deleted"}, trialOver: BOOLEAN]
Subscription ==
  [exists: BOOLEAN, status: {"trialing", "active", "past_due"}, attempts: Nat]
NoPayment == [status |-> "none"]
Payment ==
  {NoPayment} \cup
  [status: {"pending", "success", "failed"}, tenant: Tenants, gateway: Gateways]
\* The kind of an event is the status the webhook records for it: "failed" is
\* every Razorpay event whose name has neither "captured" nor "paid" in it.
Event == [payment: Payments, kind: {"success"}, n: {0}]
           \cup [payment: Payments, kind: {"failed"}, n: 1..MaxOthers]

IdleCall == [pc |-> "idle"]
Call ==
  {IdleCall}
    \cup [pc: {"savePayment"}, event: Event, was: {"pending", "success", "failed"}]
    \cup [pc: {"readSub", "openTenant", "invoice", "ack"}, event: Event]
    \cup [pc: {"saveActive", "saveFailure", "suspend"}, event: Event,
          was: {"trialing", "active", "past_due"}, attempts: Nat]
    \cup [pc: {"saveTrial"}, tenant: Tenants, was: TenantStatus]
    \cup [pc: {"subTrialing", "subActive", "subDelete"}, tenant: Tenants]

TypeOK ==
  /\ tenant \in [Tenants -> Tenant]
  /\ sub \in [Tenants -> Subscription]
  /\ payment \in [Payments -> Payment]
  /\ gateway \in [Payments -> [captured: BOOLEAN, others: 0..MaxOthers]]
  /\ outbox \subseteq Event
  /\ invoices \in [Payments -> Nat]
  /\ announced \in [Payments -> Nat]
  /\ lastDone \in [Tenants -> {"none", "success", "failed"}]
  /\ unpaid \in [Tenants -> Nat]
  /\ operator \in BOOLEAN
  /\ taken \in [Tenants -> Nat]
  /\ call \in [Handlers -> Call]
  /\ crashes \in 0..MaxCrashes

\* A company just registered; registerCompany may have died before it created
\* the subscription.
Init ==
  /\ tenant = [t \in Tenants |-> [status |-> "trial", trialOver |-> FALSE]]
  /\ sub \in [Tenants -> [exists: BOOLEAN, status: {"trialing"}, attempts: {0}]]
  /\ payment = [p \in Payments |-> NoPayment]
  /\ gateway = [p \in Payments |-> [captured |-> FALSE, others |-> 0]]
  /\ outbox = {}
  /\ invoices = [p \in Payments |-> 0]
  /\ announced = [p \in Payments |-> 0]
  /\ lastDone = [t \in Tenants |-> "none"]
  /\ operator \in BOOLEAN
  /\ unpaid = [t \in Tenants |-> 0]
  /\ taken = [t \in Tenants |-> 0]
  /\ call = [h \in Handlers |-> IdleCall]
  /\ crashes = 0

-----------------------------------------------------------------------------
Idle(h) == call[h].pc = "idle"
At(h, pc) == call[h].pc = pc
Goto(h, c) == call' = [call EXCEPT ![h] = c]

\* The event a webhook call is handling, and the tenant who pays.
EventOf(h) == call[h].event
Payer(e) == payment[e.payment].tenant

\* isTenantActive: every request outside /api/platform/ is refused without it.
\* The checkout is inside.
IsTenantActive(t) ==
  \/ tenant[t].status = "active"
  \/ tenant[t].status = "trial" /\ ~tenant[t].trialOver

\* resolveTenantId: a tenant that is gone or cancelled is not found, and its
\* request is served as the default tenant's.
Resolves(t) == tenant[t].status \notin {"cancelled", "deleted"}

-----------------------------------------------------------------------------
(* Checkout, and what the gateway does on its own.                         *)

\* Each checkout call leaves a pending transaction for the gateway to refer to;
\* a suspended tenant, and one whose trial is over, can pay.
Checkout(h, t, g) ==
  /\ g \in Gateways
  /\ Idle(h)
  /\ Resolves(t)
  /\ \E p \in Payments :
       /\ payment[p].status = "none"
       /\ payment' = [payment EXCEPT ![p] =
                        [status |-> "pending", tenant |-> t, gateway |-> g]]
  /\ UNCHANGED <<tenant, sub, invoices, gatewayVars, historyVars, call, crashes>>

CreateCheckoutOrder(h, t) == Checkout(h, t, "razorpay")
CreateStripeCheckout(h, t) == Checkout(h, t, "stripe")
CreatePayPalCheckout(h, t) == Checkout(h, t, "paypal")

\* Any event of Razorpay's that announces no payment: a failed attempt, but also
\* an authorization, a refund or a dispute, before the capture or after it.  The
\* Stripe and PayPal webhooks ignore every event but a completed payment.
OtherEvent(p) ==
  /\ payment[p].status # "none"
  /\ payment[p].gateway = "razorpay"
  /\ gateway[p].others < MaxOthers
  /\ gateway' = [gateway EXCEPT ![p].others = @ + 1]
  /\ outbox' = outbox \cup
       {[payment |-> p, kind |-> "failed", n |-> gateway[p].others + 1]}
  /\ UNCHANGED <<dbVars, historyVars, call, crashes>>

Capture(p) ==
  /\ payment[p].status # "none"
  /\ ~gateway[p].captured
  /\ gateway' = [gateway EXCEPT ![p].captured = TRUE]
  /\ outbox' = outbox \cup {[payment |-> p, kind |-> "success", n |-> 0]}
  /\ UNCHANGED <<dbVars, historyVars, call, crashes>>

-----------------------------------------------------------------------------
(* The webhook handlers, one action per database call.                     *)

\* Mutant: the event is answered before it is handled.
ReceiveEventEarlyMutant(h, e) ==
  /\ Idle(h)
  /\ e \in outbox
  /\ outbox' = outbox \ {e}
  /\ Goto(h, [pc |-> "savePayment", event |-> e, was |-> payment[e.payment].status])
  /\ UNCHANGED <<dbVars, gateway, historyVars, crashes>>

\* Mutant: an event that announces no payment is taken for a success.
ReceiveEventMutant(h, e) ==
  /\ Idle(h)
  /\ e \in outbox
  /\ Goto(h, [pc |-> "savePayment", event |-> [e EXCEPT !.kind = "success", !.n = 0],
              was |-> payment[e.payment].status])
  /\ announced' = [announced EXCEPT ![e.payment] = IF e.kind = "success" THEN @ + 1 ELSE @]
  /\ UNCHANGED <<dbVars, gatewayVars, lastDone, unpaid, taken, operator, crashes>>

\* findOne by gateway transaction id: the payment the event names.
ReceiveEvent(h, e) ==
  /\ Idle(h)
  /\ e \in outbox
  /\ Goto(h, [pc |-> "savePayment", event |-> e, was |-> payment[e.payment].status])
  /\ announced' = [announced EXCEPT ![e.payment] = IF e.kind = "success" THEN @ + 1 ELSE @]
  /\ taken' = [taken EXCEPT ![Payer(e)] = IF e.kind = "failed" THEN @ + 1 ELSE @]
  /\ UNCHANGED <<dbVars, gatewayVars, lastDone, unpaid, operator, crashes>>

HandleRazorpayWebhook(h, e) ==
  e \in outbox /\ payment[e.payment].gateway = "razorpay" /\ ReceiveEvent(h, e)

HandleStripeWebhook(h, e) ==
  e \in outbox /\ payment[e.payment].gateway = "stripe" /\ e.kind = "success" /\ ReceiveEvent(h, e)

HandlePayPalWebhook(h, e) ==
  e \in outbox /\ payment[e.payment].gateway = "paypal" /\ e.kind = "success" /\ ReceiveEvent(h, e)

\* payment.save() writes the status only if it differs from the one read.
SavePayment(h) ==
  /\ At(h, "savePayment")
  /\ LET e == EventOf(h)
     IN /\ payment' = IF e.kind = call[h].was THEN payment
                      ELSE [payment EXCEPT ![e.payment].status = e.kind]
        /\ Goto(h, [pc |-> "readSub", event |-> e])
  /\ UNCHANGED <<tenant, sub, invoices, gatewayVars, historyVars, crashes>>

\* Mutant: the second event without a payment already suspends.
ReadSubscriptionMutant(h) ==
  /\ At(h, "readSub")
  /\ LET e == EventOf(h)
         s == sub[Payer(e)]
         next == IF e.kind = "success" THEN "saveActive"
                 ELSE IF s.attempts + 1 >= 2 THEN "suspend" ELSE "saveFailure"
     IN Goto(h, [pc |-> next, event |-> e, was |-> s.status, attempts |-> s.attempts])
  /\ UNCHANGED <<dbVars, gatewayVars, historyVars, crashes>>

\* activateSubscription and handleFailedPayment begin with the same findOne;
\* without a subscription either returns and the webhook answers.
ReadSubscription(h) ==
  /\ At(h, "readSub")
  /\ LET e == EventOf(h)
         s == sub[Payer(e)]
         next == IF ~s.exists THEN "ack"
                 ELSE IF e.kind = "success" THEN "saveActive"
                 ELSE IF s.attempts + 1 >= SuspensionThreshold THEN "suspend"
                 ELSE "saveFailure"
     IN Goto(h, IF next = "ack" THEN [pc |-> "ack", event |-> e]
                ELSE [pc |-> next, event |-> e, was |-> s.status, attempts |-> s.attempts])
  /\ UNCHANGED <<dbVars, gatewayVars, historyVars, crashes>>

\* Mutant: a successful payment leaves the count of failures as it was.
SaveActiveMutant(h) ==
  /\ At(h, "saveActive")
  /\ sub' = [sub EXCEPT ![Payer(EventOf(h))].status = "active"]
  /\ Goto(h, [pc |-> "openTenant", event |-> EventOf(h)])
  /\ UNCHANGED <<tenant, payment, invoices, gatewayVars, historyVars, crashes>>

\* activateSubscription: subscription.save() writes the fields that changed since
\* they were read; if the document is gone it throws and the event goes unanswered.
SaveActive(h) ==
  /\ At(h, "saveActive")
  /\ LET t == Payer(EventOf(h))
     IN IF sub[t].exists
          THEN /\ sub' = [sub EXCEPT
                      ![t].status = IF call[h].was = "active" THEN @ ELSE "active",
                      ![t].attempts = IF call[h].attempts = 0 THEN @ ELSE 0]
               /\ Goto(h, [pc |-> "openTenant", event |-> EventOf(h)])
          ELSE UNCHANGED sub /\ Goto(h, IdleCall)
  /\ UNCHANGED <<tenant, payment, invoices, gatewayVars, historyVars, crashes>>

\* tenantModel.updateOne({ id }, { status }): nothing happens to a deleted one.
SetStatus(t, status) ==
  tenant' = IF tenant[t].status = "deleted" THEN tenant
            ELSE [tenant EXCEPT ![t].status = status]

OpenTenant(h) ==
  /\ At(h, "openTenant")
  /\ SetStatus(Payer(EventOf(h)), "active")
  /\ Goto(h, [pc |-> "invoice", event |-> EventOf(h)])
  /\ UNCHANGED <<sub, payment, invoices, gatewayVars, historyVars, crashes>>

CreateInvoice(h) ==
  /\ At(h, "invoice")
  /\ invoices' = [invoices EXCEPT ![EventOf(h).payment] = @ + 1]
  /\ Goto(h, [pc |-> "ack", event |-> EventOf(h)])
  /\ UNCHANGED <<tenant, sub, payment, gatewayVars, historyVars, crashes>>

\* handleFailedPayment at the third attempt: the tenant is suspended before the
\* subscription is saved.
SuspendTenant(h) ==
  /\ At(h, "suspend")
  /\ SetStatus(Payer(EventOf(h)), "suspended")
  /\ Goto(h, [call[h] EXCEPT !.pc = "saveFailure"])
  /\ UNCHANGED <<sub, payment, invoices, gatewayVars, historyVars, crashes>>

SaveFailure(h) ==
  /\ At(h, "saveFailure")
  /\ LET t == Payer(EventOf(h))
         n == call[h].attempts + 1
         pastDue == n >= SuspensionThreshold /\ call[h].was # "past_due"
     IN IF sub[t].exists
          THEN /\ sub' = [sub EXCEPT ![t].attempts = n,
                                     ![t].status = IF pastDue THEN "past_due" ELSE @]
               /\ Goto(h, [pc |-> "ack", event |-> EventOf(h)])
          ELSE UNCHANGED sub /\ Goto(h, IdleCall)
  /\ UNCHANGED <<tenant, payment, invoices, gatewayVars, historyVars, crashes>>

\* { received: true }: the gateway delivers the event no more.
Ack(h) ==
  /\ At(h, "ack")
  /\ LET e == EventOf(h)
         t == Payer(e)
     IN /\ outbox' = outbox \ {e}
        /\ lastDone' = [lastDone EXCEPT ![t] = e.kind]
        /\ unpaid' = [unpaid EXCEPT ![t] = IF e.kind = "failed" THEN @ + 1 ELSE 0]
  /\ Goto(h, IdleCall)
  /\ UNCHANGED <<dbVars, gateway, announced, taken, operator, crashes>>

-----------------------------------------------------------------------------
(* The platform operator.                                                  *)

\* Each of these calls sets the status in one update.
UpdateTenant(h, t, status) ==
  /\ Idle(h)
  /\ tenant[t].status # "deleted"
  /\ SetStatus(t, status)
  /\ UNCHANGED <<sub, payment, invoices, gatewayVars, historyVars, call, crashes>>

Suspend(h, t) == UpdateTenant(h, t, "suspended")
Activate(h, t) == UpdateTenant(h, t, "active")

\* extendTrial reads the tenant, ...
ExtendTrial(h, t) ==
  /\ Idle(h)
  /\ tenant[t].status # "deleted"
  /\ Goto(h, [pc |-> "saveTrial", tenant |-> t, was |-> tenant[t].status])
  /\ UNCHANGED <<dbVars, gatewayVars, historyVars, crashes>>

\* ... saves a later end, and the status unless it already read "trial" (a save
\* of a deleted tenant throws), ...
SaveTrial(h) ==
  /\ At(h, "saveTrial")
  /\ LET t == call[h].tenant
         changed == call[h].was # "trial"
     IN IF tenant[t].status = "deleted"
          THEN UNCHANGED tenant /\ Goto(h, IdleCall)
          ELSE /\ tenant' = [tenant EXCEPT ![t].trialOver = FALSE,
                                           ![t].status = IF changed THEN "trial" ELSE @]
               /\ Goto(h, [pc |-> "subTrialing", tenant |-> t])
  /\ UNCHANGED <<sub, payment, invoices, gatewayVars, historyVars, crashes>>

\* ... and updates the subscription, if there is one.
SubTrialing(h) ==
  /\ At(h, "subTrialing")
  /\ LET t == call[h].tenant
     IN sub' = IF sub[t].exists THEN [sub EXCEPT ![t].status = "trialing"] ELSE sub
  /\ Goto(h, IdleCall)
  /\ UNCHANGED <<tenant, payment, invoices, gatewayVars, historyVars, crashes>>

AssignPlan(h, t) ==
  /\ Idle(h)
  /\ tenant[t].status # "deleted"
  /\ SetStatus(t, "active")
  /\ Goto(h, [pc |-> "subActive", tenant |-> t])
  /\ UNCHANGED <<sub, payment, invoices, gatewayVars, historyVars, crashes>>

\* assignPlan's upsert: a missing subscription is created, an existing one
\* keeps its count of failures.
SubActive(h) ==
  /\ At(h, "subActive")
  /\ sub' = [sub EXCEPT ![call[h].tenant] =
               [exists |-> TRUE, status |-> "active",
                attempts |-> IF @.exists THEN @.attempts ELSE 0]]
  /\ Goto(h, IdleCall)
  /\ UNCHANGED <<tenant, payment, invoices, gatewayVars, historyVars, crashes>>

DeleteTenant(h, t) ==
  /\ Idle(h)
  /\ tenant[t].status # "deleted"
  /\ SetStatus(t, "deleted")
  /\ Goto(h, [pc |-> "subDelete", tenant |-> t])
  /\ UNCHANGED <<sub, payment, invoices, gatewayVars, historyVars, crashes>>

SubDelete(h) ==
  /\ At(h, "subDelete")
  /\ sub' = [sub EXCEPT ![call[h].tenant] =
               [exists |-> FALSE, status |-> "trialing", attempts |-> 0]]
  /\ Goto(h, IdleCall)
  /\ UNCHANGED <<tenant, payment, invoices, gatewayVars, historyVars, crashes>>

TrialEnds(t) ==
  /\ tenant[t].status = "trial" /\ ~tenant[t].trialOver
  /\ tenant' = [tenant EXCEPT ![t].trialOver = TRUE]
  /\ UNCHANGED <<sub, payment, invoices, gatewayVars, historyVars, call, crashes>>

Crash ==
  /\ crashes < MaxCrashes
  /\ \E h \in Handlers : ~Idle(h)
  /\ call' = [h \in Handlers |-> IdleCall]
  /\ crashes' = crashes + 1
  /\ UNCHANGED <<dbVars, gatewayVars, historyVars>>

-----------------------------------------------------------------------------
Step(h) ==
  \/ SavePayment(h) \/ ReadSubscription(h) \/ SaveActive(h) \/ OpenTenant(h)
  \/ CreateInvoice(h) \/ SuspendTenant(h) \/ SaveFailure(h) \/ Ack(h)
  \/ SaveTrial(h) \/ SubTrialing(h) \/ SubActive(h) \/ SubDelete(h)

Deliver(e) ==
  \E h \in Handlers : \/ HandleRazorpayWebhook(h, e)
                     \/ HandleStripeWebhook(h, e)
                     \/ HandlePayPalWebhook(h, e)

Operator(h, t) ==
  /\ operator
  /\ \/ Suspend(h, t) \/ Activate(h, t)
     \/ \E status \in TenantStatus : UpdateTenant(h, t, status)
     \/ ExtendTrial(h, t)
     \/ AssignPlan(h, t)
     \/ DeleteTenant(h, t)

Next ==
  \/ \E h \in Handlers :
       \/ \E t \in Tenants : \/ CreateCheckoutOrder(h, t)
                            \/ CreateStripeCheckout(h, t)
                            \/ CreatePayPalCheckout(h, t)
                            \/ Operator(h, t)
       \/ Step(h)
  \/ \E e \in Event : Deliver(e)
  \/ \E p \in Payments : OtherEvent(p) \/ Capture(p)
  \/ \E t \in Tenants : TrialEnds(t)
  \/ Crash

Spec == Init /\ [][Next]_vars

\* The event loop resumes answered calls; a gateway redelivers what it got no
\* answer for.  Handlers are reused, so delivery needs strong fairness.
FairSpec ==
  /\ Spec
  /\ \A h \in Handlers : WF_vars(Step(h))
  /\ \A e \in Event : SF_vars(Deliver(e))

-----------------------------------------------------------------------------
Quiet(t) ==
  /\ \A e \in outbox : Payer(e) # t
  /\ \A h \in Handlers : Idle(h)

\* Once the gateway has nothing more to say of a tenant whose last answered
\* event was a success, its requests are served and its subscription is clean,
\* whatever crashed on the way (handleRazorpayWebhook and its two fellows find the
\* payment the event names).  Handlers one at a time, no operator.
PaidTenantIsOpen ==
  ~operator => \A t \in Tenants :
    Quiet(t) /\ lastDone[t] = "success" /\ sub[t].exists =>
      /\ IsTenantActive(t)
      /\ sub[t].status = "active" /\ sub[t].attempts = 0

\* Billing suspends a tenant only after three events that announce no payment
\* with no success between them.  A failed attempt is one such event, but
\* handleRazorpayWebhook counts an authorization, a refund or a dispute just as
\* well, after the capture too.  Handlers one at a time, no crash, no operator.
SuspensionIsEarned ==
  crashes = 0 /\ ~operator => \A t \in Tenants :
    /\ (\A h \in Handlers : Idle(h)) /\ tenant[t].status = "suspended" =>
         unpaid[t] >= SuspensionThreshold
    /\ tenant[t].status = "suspended" => taken[t] >= SuspensionThreshold

\* A payment has no more invoices than webhook calls that announced its success:
\* one call never makes two, and an event that announces no payment makes none,
\* however calls overlap, whatever the operator does to the tenant meanwhile and
\* wherever the process dies (activateSubscription; a repeated event does make
\* another invoice).
InvoicesAreAnnounced ==
  \A p \in Payments : invoices[p] <= announced[p]

\* Money collected is eventually invoiced, through crashes and redelivery,
\* unless the operator deletes the tenant and its subscription; the event names
\* the payment by the id its checkout stored, so that the webhook finds it.
CaptureIsInvoiced ==
  \A p \in Payments :
    gateway[p].captured /\ sub[payment[p].tenant].exists /\ ~operator ~> invoices[p] > 0

=============================================================================
