-------------------------- MODULE SupervisorRequests --------------------------
(***************************************************************************)
(* The request desk of supervisor-requests.service.ts: a supervisor asks,  *)
(* an administrator answers or closes, the supervisor replies,             *)
(* acknowledges or escalates, the super admin resolves. Every call reads   *)
(* the request, works on its copy (a reply first uploads its photos),      *)
(* saves it and then sends a notification; listing requests first closes   *)
(* the responses nobody acknowledged.                                      *)
(***************************************************************************)
EXTENDS Integers, MongoDocument

CONSTANTS
  Handlers,       \* calls the process serves at the same time
  Requests,       \* ids of the requests that may be created (bound)
  AckDays,        \* SUPERVISOR_ACK_DAYS
  MaxReplies,     \* follow-ups per request (bound)
  MaxCrashes      \* how often the process may die (bound)

ASSUME AckDaysAssumption == AckDays \in Nat \ {0}
ASSUME BoundsAssumption == MaxReplies \in Nat /\ MaxCrashes \in Nat

VARIABLES
  request,        \* supervisor_requests, by id
  told,           \* the last response of each request has been notified
  call,           \* what each handler remembers between two awaits
  crashes         \* how often the process has died

vars == <<request, told, call, crashes>>

Status == {"none", "pending", "responded", "closed", "escalated"}
Request ==
  [status: Status, answered: BOOLEAN, age: 0..AckDays, read: BOOLEAN, followUps: Nat]
NoRequest ==
  [status |-> "none", answered |-> FALSE, age |-> 0, read |-> FALSE, followUps |-> 0]
NewRequest ==
  [status |-> "pending", answered |-> FALSE, age |-> 0, read |-> FALSE, followUps |-> 0]

Op == {"respond", "reply", "close", "escalate", "resolve", "markRead"}
IdleCall == [pc |-> "idle"]
Call ==
  {IdleCall}
    \cup [pc: {"save"}, op: Op, r: Requests, seen: Request, doc: Request]
    \cup [pc: {"notify"}, op: Op \cup {"create"}, r: Requests]
    \cup [pc: {"sweep"}, todo: SUBSET Requests]
    \cup [pc: {"sweepNotify"}, r: Requests, todo: SUBSET Requests]

TypeOK ==
  /\ request \in [Requests -> Request]
  /\ told \in [Requests -> BOOLEAN]
  /\ call \in [Handlers -> Call]
  /\ crashes \in Nat

Init ==
  /\ request = [r \in Requests |-> NoRequest]
  /\ told = [r \in Requests |-> FALSE]
  /\ call = [h \in Handlers |-> IdleCall]
  /\ crashes = 0

-----------------------------------------------------------------------------
At(h, pc) == call[h].pc = pc
Idle(h) == At(h, "idle")
Goto(h, c) == call' = [call EXCEPT ![h] = c]

\* Every call on an existing request starts by reading it, and knows from then
\* on only its copy.
Begin(h, op, r, doc) ==
  /\ Idle(h)
  /\ Goto(h, [pc |-> "save", op |-> op, r |-> r, seen |-> request[r], doc |-> doc])
  /\ UNCHANGED <<request, told, crashes>>

Create(h, r) ==
  /\ Idle(h)
  /\ request[r].status = "none"
  /\ request' = [request EXCEPT ![r] = NewRequest]
  /\ Goto(h, [pc |-> "notify", op |-> "create", r |-> r])
  /\ UNCHANGED <<told, crashes>>

\* What an answer makes of a request: the supervisor has not read it yet.
Answered(d, status) ==
  [d EXCEPT !.status = status, !.answered = TRUE, !.age = 0, !.read = FALSE]

\* Refused for a closed or an escalated request.
Respond(h, r) ==
  /\ request[r].status \in {"pending", "responded"}
  /\ \E s \in {"responded", "closed"} :
       Begin(h, "respond", r, Answered(request[r], s))

\* Mutant: a closed request still takes replies.
ReplyMutant(h, r) ==
  /\ request[r].status \in {"pending", "responded", "closed"}
  /\ request[r].followUps < MaxReplies
  /\ Begin(h, "reply", r, [request[r] EXCEPT !.followUps = @ + 1, !.status = "pending"])

Reply(h, r) ==
  /\ request[r].status \in {"pending", "responded"}
  /\ request[r].followUps < MaxReplies
  /\ Begin(h, "reply", r, [request[r] EXCEPT !.followUps = @ + 1, !.status = "pending"])

\* A note is kept as the answer when the request has none.
Close(h, r) ==
  /\ request[r].status \in {"pending", "responded"}
  /\ \/ Begin(h, "close", r, [request[r] EXCEPT !.status = "closed"])
     \/ /\ ~request[r].answered
        /\ Begin(h, "close", r,
             [request[r] EXCEPT !.status = "closed", !.answered = TRUE, !.age = 0])

Escalate(h, r) ==
  /\ request[r].status = "closed"
  /\ Begin(h, "escalate", r, [request[r] EXCEPT !.status = "escalated"])

ResolveEscalation(h, r) ==
  /\ request[r].status = "escalated"
  /\ \E s \in {"responded", "closed"} :
       Begin(h, "resolve", r, Answered(request[r], s))

MarkRead(h, r) ==
  /\ request[r].status # "none"
  /\ Begin(h, "markRead", r, [request[r] EXCEPT !.read = TRUE])

\* doc.save(): the changed fields are written; a pushed follow-up is appended
\* to the array that is stored by then.
Store(stored, seen, doc) ==
  [Saved(stored, seen, doc) EXCEPT
     !.followUps = stored.followUps + (doc.followUps - seen.followUps)]

\* Mutant: the supervisor is only told of an answer that leaves the request open.
SaveSilentMutant(h) ==
  /\ At(h, "save")
  /\ LET c == call[h] IN
     /\ request' = [request EXCEPT ![c.r] = Store(@, c.seen, c.doc)]
     /\ told' = [told EXCEPT ![c.r] = IF c.op = "respond" THEN FALSE ELSE @]
     /\ Goto(h, IF c.op \in {"markRead", "resolve"} THEN IdleCall
                ELSE [pc |-> "notify", op |-> c.op, r |-> c.r])
  /\ UNCHANGED crashes

Save(h) ==
  /\ At(h, "save")
  /\ LET c == call[h] IN
     /\ request' = [request EXCEPT ![c.r] = Store(@, c.seen, c.doc)]
     /\ told' = [told EXCEPT ![c.r] = IF c.op \in {"respond", "resolve"} THEN FALSE ELSE @]
     /\ Goto(h, IF c.op = "markRead" THEN IdleCall
                ELSE [pc |-> "notify", op |-> c.op, r |-> c.r])
  /\ UNCHANGED crashes

\* The notification about the call, for the supervisor or the administrators.
Notify(h) ==
  /\ At(h, "notify")
  /\ told' = [told EXCEPT ![call[h].r] =
                IF call[h].op \in {"respond", "resolve"} THEN TRUE ELSE @]
  /\ Goto(h, IdleCall)
  /\ UNCHANGED <<request, crashes>>

\* One updateMany.
MarkAllRead(h) ==
  /\ Idle(h)
  /\ request' = [r \in Requests |->
       IF request[r].status \in {"responded", "closed"} /\ request[r].answered
         THEN [request[r] EXCEPT !.read = TRUE] ELSE request[r]]
  /\ UNCHANGED <<told, call, crashes>>

-----------------------------------------------------------------------------
(* closeStaleRespondedRequests, at the start of every listing and lookup.  *)

IsStale(r) ==
  /\ request[r].status = "responded"
  /\ request[r].age = AckDays
  /\ ~request[r].read

SweepOrFinish(todo) == IF todo = {} THEN IdleCall ELSE [pc |-> "sweep", todo |-> todo]

FindAll(h) ==
  /\ Idle(h)
  /\ \E r \in Requests : IsStale(r)
  /\ Goto(h, [pc |-> "sweep", todo |-> {r \in Requests : IsStale(r)}])
  /\ UNCHANGED <<request, told, crashes>>

\* The documents of the list were all read at once; only status is assigned.
CloseStale(h) ==
  /\ At(h, "sweep")
  /\ \E r \in call[h].todo :
       /\ request' = [request EXCEPT ![r].status = "closed"]
       /\ Goto(h, [pc |-> "sweepNotify", r |-> r, todo |-> call[h].todo \ {r}])
  /\ UNCHANGED <<told, crashes>>

NotifyStale(h) ==
  /\ At(h, "sweepNotify")
  /\ Goto(h, SweepOrFinish(call[h].todo))
  /\ UNCHANGED <<request, told, crashes>>

-----------------------------------------------------------------------------
\* A day goes by between calls: no call lasts that long.
DayPasses ==
  /\ \A h \in Handlers : Idle(h)
  /\ request' = [r \in Requests |->
       [request[r] EXCEPT !.age =
          IF request[r].status = "none" \/ @ = AckDays THEN @ ELSE @ + 1]]
  /\ UNCHANGED <<told, call, crashes>>

\* The process dies: what is saved stays, what was to be notified is lost.
Crash ==
  /\ crashes < MaxCrashes
  /\ \E h \in Handlers : ~Idle(h)
  /\ call' = [h \in Handlers |-> IdleCall]
  /\ crashes' = crashes + 1
  /\ UNCHANGED <<request, told>>

Supervisor(h, r) ==
  Create(h, r) \/ Reply(h, r) \/ Escalate(h, r) \/ MarkRead(h, r)
Administrator(h, r) ==
  Respond(h, r) \/ Close(h, r) \/ ResolveEscalation(h, r)
Step(h) == Save(h) \/ Notify(h) \/ CloseStale(h) \/ NotifyStale(h)

Next ==
  \/ \E h \in Handlers, r \in Requests : Supervisor(h, r) \/ Administrator(h, r)
  \/ \E h \in Handlers : Step(h) \/ MarkAllRead(h) \/ FindAll(h)
  \/ DayPasses
  \/ Crash

Spec == Init /\ [][Next]_vars

-----------------------------------------------------------------------------
(* Properties.                                                             *)

IsSerial == \A g, h \in Handlers : g = h

\* One call at a time, the desk keeps its promises even when the process dies
\* in the middle of a call: an escalation ends only by a resolution, only a
\* response left unread for AckDays days expires, an answer is always unread.
View(q) == [status |-> q.status, age |-> q.age, read |-> q.read]
Ticket == INSTANCE RequestTicket WITH ticket <- [r \in Requests |-> View(request[r])]
ImplementsTicket == Ticket!Spec

\* A response is closed for want of an acknowledgment only if the supervisor
\* was ever told about it (findAll's sweep against respond's notification).
\* A crash between the save and the notification breaks this, so it is stated
\* for a process that has not died.
ExpiryWasAnnounced ==
  [][\A h \in Handlers, r \in Requests :
       /\ crashes = 0 /\ At(h, "sweep")
       /\ call'[h] = [pc |-> "sweepNotify", r |-> r, todo |-> call[h].todo \ {r}]
       => told[r]]_vars

\* What respond and close tell the administrator of an escalated request, that
\* it "must be resolved there": nothing else ends an escalation.
EscalationStands ==
  [][\A r \in Requests :
       request[r].status = "escalated" /\ request'[r].status # "escalated"
       => \E h \in Handlers : At(h, "save") /\ call[h].op = "resolve"
                              /\ call[h].r = r /\ ~(call'[h] = call[h])]_vars
=============================================================================
