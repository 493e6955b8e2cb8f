----------------------------- MODULE FieldVisits -----------------------------
(***************************************************************************)
(* Field supervisors commit themselves to visits, plan them and report     *)
(* them (commitment-diary, planned-visits and school-visits services),     *)
(* while every poll for notifications first turns what is due, missed or   *)
(* overdue into notices (syncDynamicNotifications). A report settles the   *)
(* plans and commitments it fulfils and takes their notices back. Visits   *)
(* are dated in India, everything else by the server's own clock, which    *)
(* after an Indian midnight may still be a day behind. "active" stands for *)
(* the statuses committed and in_progress; of the notices only those that  *)
(* ask for a visit are kept, one for all its recipients, and a look-up of  *)
(* an earlier notice and its insertion are one step.                       *)
(***************************************************************************)
EXTENDS VisitEvidence, MongoDocument

CONSTANTS
  Handlers,       \* calls the process serves at the same time
  Supervisors,    \* supervisor ids
  Schools,        \* school ids; each is a block of its own
  Visits,         \* ids of the visits that may be reported (bound)
  Commitments,    \* ids of the commitments that may be made (bound)
  Plans,          \* ids of the planned visits that may be made (bound)
  NoCommitment,   \* the empty commitmentId
  LastDay,        \* days of a behaviour (bound)
  MaxUpsets       \* edits by hand and deaths of the process (bound)

ASSUME NoCommitmentAssumption == NoCommitment \notin Commitments
ASSUME BoundsAssumption == LastDay \in Nat /\ MaxUpsets \in Nat

VARIABLES
  day,            \* the date in India
  lag,            \* the server's date is still the day before
  star,           \* supervisors exempt from the cooldown
  blocks,         \* assignedBlocks, as the schools in them
  visit,          \* school_visits, by id
  commitment,     \* commitment_diary, by id
  planned,        \* planned_visits, by id
  sent,           \* notifications ever created
  unread,         \* those without readAt
  call,           \* what each handler remembers between two awaits
  changes,        \* edits made so far
  crashes         \* how often the process has died

people == <<star, blocks>>
clock == <<day, lag>>
store == <<visit, commitment, planned>>
notices == <<sent, unread>>
bounds == <<changes, crashes>>
vars == <<clock, people, store, notices, call, bounds>>

Days == 0..LastDay
Pair == [s: Supervisors, w: Schools]
Visit ==
  {[status |-> "none"]}
    \cup [status: {"submitted", "reviewed"}, s: Supervisors, w: Schools,
          date: Days, link: Commitments \cup {NoCommitment}]
Commitment ==
  {[status |-> "none"]}
    \cup [status: {"active", "completed", "cancelled"}, s: Supervisors, w: Schools,
          from: Days, to: Days]
Plan ==
  {[status |-> "none"]}
    \cup [status: {"planned", "completed", "cancelled"}, s: Supervisors, w: Schools, date: Days]
Notice ==
  [kind: {"reminder", "overdue"}, ref: Commitments, on: Days]
    \cup [kind: {"due", "missed"}, ref: Plans]

IdleCall == [pc |-> "idle"]
Call ==
  {IdleCall}
    \cup [pc: {"link"}, at: Pair, date: Days]
    \cup [pc: {"store"}, at: Pair, date: Days, link: Commitments \cup {NoCommitment}]
    \cup [pc: {"findPlans", "findCommitments"}, at: Pair, date: Days]
    \cup [pc: {"settlePlan"}, at: Pair, date: Days, todo: SUBSET Plans]
    \cup [pc: {"resolvePlan"}, at: Pair, date: Days, p: Plans, todo: SUBSET Plans]
    \cup [pc: {"settle"}, at: Pair, date: Days, todo: SUBSET Commitments]
    \cup [pc: {"resolve"}, at: Pair, date: Days, c: Commitments, todo: SUBSET Commitments]
    \cup [pc: {"insert"}, at: Pair, from: Days, to: Days]
    \cup [pc: {"plan"}, at: Pair, todo: SUBSET Days]
    \cup [pc: {"update"}, c: Commitments, seen: Commitment, doc: Commitment]
    \cup [pc: {"updated"}, c: Commitments]
    \cup [pc: {"syncReminders", "syncOverdue"}, today: Days, todo: SUBSET Commitments]
    \cup [pc: {"findOverdue", "findDue"}]
    \cup [pc: {"syncPlans"}, today: Days, todo: SUBSET [p: Plans, date: Days]]
    \cup [pc: {"syncNotice", "syncSettle", "syncResolve"}, today: Days,
          now: [p: Plans, date: Days], todo: SUBSET [p: Plans, date: Days]]

TypeOK ==
  /\ day \in Days /\ lag \in BOOLEAN
  /\ star \subseteq Supervisors /\ blocks \in [Supervisors -> SUBSET Schools]
  /\ visit \in [Visits -> Visit]
  /\ commitment \in [Commitments -> Commitment]
  /\ planned \in [Plans -> Plan]
  /\ sent \subseteq Notice /\ unread \subseteq sent
  /\ call \in [Handlers -> Call]
  /\ changes \in Nat /\ crashes \in Nat

Init ==
  /\ day = 0 /\ lag = FALSE
  /\ star \in SUBSET Supervisors
  /\ blocks = [s \in Supervisors |-> Schools]
  /\ visit = [v \in Visits |-> [status |-> "none"]]
  /\ commitment = [c \in Commitments |-> [status |-> "none"]]
  /\ planned = [p \in Plans |-> [status |-> "none"]]
  /\ sent = {} /\ unread = {}
  /\ call = [h \in Handlers |-> IdleCall]
  /\ changes = 0 /\ crashes = 0

-----------------------------------------------------------------------------
At(h, pc) == call[h].pc = pc
Idle(h) == At(h, "idle")
Goto(h, c) == call' = [call EXCEPT ![h] = c]
MayUpset == changes + crashes < MaxUpsets

\* todayIsoDate: the server's date.
Today == IF lag THEN day - 1 ELSE day

Reported(v) == visit[v].status # "none"
IsOf(x, at) == x.status # "none" /\ x.s = at.s /\ x.w = at.w

\* getEffectiveLastVisitInfo: the latest visit that counts for this supervisor.
\* Mutant: everybody has a cooldown of their own.
LastVisitDateMutant(at) ==
  LET counted == {visit[v].date : v \in {u \in Visits : IsOf(visit[u], at)}}
  IN  IF counted = {} THEN NoVisitYet ELSE CHOOSE d \in counted : \A e \in counted : e <= d

LastVisitDate(at) ==
  LET shared == IsSchoolSharedVisitCooldown(at.w, blocks)
      counted == {visit[v].date : v \in {u \in Visits :
                    Reported(u) /\ visit[u].w = at.w /\ (shared \/ visit[u].s = at.s)}}
  IN  IF counted = {} THEN NoVisitYet ELSE CHOOSE d \in counted : \A e \in counted : e <= d

\* Mutant: a school is listed with the supervisor's own visits only.
ShownLastVisitMutant(at) ==
  LET dates == {visit[v].date : v \in {u \in Visits : IsOf(visit[u], at)}}
  IN  IF at.s \in star \/ dates = {} THEN NoVisitYet ELSE CHOOSE d \in dates : \A e \in dates : e <= d

\* getSupervisorSchoolCooldowns: the same for the list the app shows, with one
\* query for the shared schools and one for the others.
ShownLastVisit(at) ==
  LET sharedRows == {u \in Visits : Reported(u) /\ visit[u].w = at.w
                                    /\ IsSchoolSharedVisitCooldown(visit[u].w, blocks)}
      soloRows == {u \in Visits : IsOf(visit[u], at)
                                  /\ ~IsSchoolSharedVisitCooldown(visit[u].w, blocks)}
      dates == {visit[v].date : v \in sharedRows \cup soloRows}
  IN  IF at.s \in star \/ dates = {} THEN NoVisitYet ELSE CHOOSE d \in dates : \A e \in dates : e <= d

\* assertSchoolVisitAllowed and the same test of commitment-diary create.
MayVisitOn(at, date) == at.s \in star \/ ~CooldownActive(LastVisitDate(at), date)

Covers(c, at, date) ==
  /\ commitment[c].status = "active" /\ IsOf(commitment[c], at)
  /\ commitment[c].from <= date /\ date <= commitment[c].to

-----------------------------------------------------------------------------
(* createVisit.                                                            *)

\* Access, cooldown and date are decided before the photos are uploaded.
CreateVisit(h, at) ==
  /\ Idle(h)
  /\ at.w \in blocks[at.s]
  /\ MayVisitOn(at, day)
  /\ Goto(h, [pc |-> "link", at |-> at, date |-> day])
  /\ UNCHANGED <<clock, people, store, notices, bounds>>

\* The matching commitment that starts first.
Link(h) ==
  /\ At(h, "link")
  /\ LET q == call[h]
         matching == {c \in Commitments : Covers(c, q.at, q.date)}
         To(c) == Goto(h, [pc |-> "store", at |-> q.at, date |-> q.date, link |-> c]) IN
       \/ matching = {} /\ To(NoCommitment)
       \/ \E c \in matching :
            /\ \A k \in matching : commitment[c].from <= commitment[k].from
            /\ To(c)
  /\ UNCHANGED <<clock, people, store, notices, bounds>>

StoreVisit(h) ==
  /\ At(h, "store")
  /\ \E v \in Visits :
       /\ ~Reported(v)
       /\ visit' = [visit EXCEPT ![v] =
            [status |-> "submitted", s |-> call[h].at.s, w |-> call[h].at.w,
             date |-> call[h].date, link |-> call[h].link]]
  /\ Goto(h, [pc |-> "findPlans", at |-> call[h].at, date |-> call[h].date])
  /\ UNCHANGED <<clock, people, commitment, planned, notices, bounds>>

\* The next plan of a list, or the commitments when it is done.
SettlePlans(q, todo) ==
  IF todo = {} THEN [pc |-> "findCommitments", at |-> q.at, date |-> q.date]
  ELSE [pc |-> "settlePlan", at |-> q.at, date |-> q.date, todo |-> todo]
SettleCommitments(q, todo) ==
  IF todo = {} THEN IdleCall
  ELSE [pc |-> "settle", at |-> q.at, date |-> q.date, todo |-> todo]

\* onVisitSubmitted.
FindPlans(h) ==
  /\ At(h, "findPlans")
  /\ LET q == call[h] IN
       Goto(h, SettlePlans(q, {p \in Plans :
         /\ planned[p].status = "planned" /\ IsOf(planned[p], q.at)
         /\ planned[p].date = q.date}))
  /\ UNCHANGED <<clock, people, store, notices, bounds>>

SettlePlan(h) ==
  /\ At(h, "settlePlan")
  /\ LET q == call[h] IN \E p \in q.todo :
       /\ planned' = [planned EXCEPT ![p].status = "completed"]
       /\ Goto(h, [pc |-> "resolvePlan", at |-> q.at, date |-> q.date, p |-> p,
                   todo |-> q.todo \ {p}])
  /\ UNCHANGED <<clock, people, visit, commitment, notices, bounds>>

\* resolveNotifications: one updateMany.
AsksFor(ref) == {n \in Notice : n.ref = ref}

ResolvePlan(h) ==
  /\ At(h, "resolvePlan")
  /\ unread' = unread \ AsksFor(call[h].p)
  /\ Goto(h, SettlePlans(call[h], call[h].todo))
  /\ UNCHANGED <<clock, people, store, sent, bounds>>

\* Mutant: whoever visits fulfils everybody's commitment.
FindCommitmentsMutant(h) ==
  /\ At(h, "findCommitments")
  /\ LET q == call[h] IN
       Goto(h, SettleCommitments(q, {c \in Commitments :
         \E s \in Supervisors : Covers(c, [s |-> s, w |-> q.at.w], q.date)}))
  /\ UNCHANGED <<clock, people, store, notices, bounds>>

\* Mutant: the last day of a commitment is not part of it.
FindCommitmentsLateMutant(h) ==
  /\ At(h, "findCommitments")
  /\ LET q == call[h] IN
       Goto(h, SettleCommitments(q, {c \in Commitments :
         Covers(c, q.at, q.date) /\ q.date < commitment[c].to}))
  /\ UNCHANGED <<clock, people, store, notices, bounds>>

\* onCommitmentVisitProgress.
FindCommitments(h) ==
  /\ At(h, "findCommitments")
  /\ LET q == call[h] IN
       Goto(h, SettleCommitments(q, {c \in Commitments : Covers(c, q.at, q.date)}))
  /\ UNCHANGED <<clock, people, store, notices, bounds>>

SettleCommitment(h) ==
  /\ At(h, "settle")
  /\ LET q == call[h] IN \E c \in q.todo :
       /\ commitment' = [commitment EXCEPT ![c].status = "completed"]
       /\ Goto(h, [pc |-> "resolve", at |-> q.at, date |-> q.date, c |-> c,
                   todo |-> q.todo \ {c}])
  /\ UNCHANGED <<clock, people, visit, planned, notices, bounds>>

ResolveCommitmentNotifications(h) ==
  /\ At(h, "resolve")
  /\ unread' = unread \ AsksFor(call[h].c)
  /\ Goto(h, SettleCommitments(call[h], call[h].todo))
  /\ UNCHANGED <<clock, people, store, sent, bounds>>

\* Approved or rejected, by one findOneAndUpdate: it still counts as a visit.
UpdateStatus(h, v) ==
  /\ Idle(h) /\ Reported(v) /\ MayUpset
  /\ visit' = [visit EXCEPT ![v].status = "reviewed"]
  /\ changes' = changes + 1
  /\ UNCHANGED <<clock, people, commitment, planned, notices, call, crashes>>

-----------------------------------------------------------------------------
(* The commitment diary and the plans.                                     *)

MayCommit(at) == blocks[at.s] = {} \/ at.w \in blocks[at.s]

CreateCommitment(h, at) ==
  /\ Idle(h)
  /\ MayCommit(at)
  /\ MayVisitOn(at, Today)
  /\ \E from \in Today..LastDay : \E to \in from..LastDay :
       /\ ~\E c \in Commitments : /\ commitment[c].status = "active"
                                  /\ IsOf(commitment[c], at) /\ commitment[c].to >= from
       /\ Goto(h, [pc |-> "insert", at |-> at, from |-> from, to |-> to])
  /\ UNCHANGED <<clock, people, store, notices, bounds>>

InsertCommitment(h) ==
  /\ At(h, "insert")
  /\ LET q == call[h] IN
     /\ \E c \in Commitments :
          /\ commitment[c].status = "none"
          /\ commitment' = [commitment EXCEPT ![c] =
               [status |-> "active", s |-> q.at.s, w |-> q.at.w, from |-> q.from, to |-> q.to]]
     /\ Goto(h, [pc |-> "plan", at |-> q.at, todo |-> q.from..q.to])
  /\ UNCHANGED <<clock, people, visit, planned, notices, bounds>>

NewPlan(p, at, date) ==
  /\ planned[p].status = "none"
  /\ planned' = [planned EXCEPT ![p] =
       [status |-> "planned", s |-> at.s, w |-> at.w, date |-> date]]

\* A plan for each date of the commitment; one that fails is skipped.
PlanNextDate(h) ==
  /\ At(h, "plan")
  /\ LET q == call[h]
         next == CHOOSE d \in q.todo : \A e \in q.todo : d <= e
         left == q.todo \ {next} IN
     /\ \/ \E p \in Plans : NewPlan(p, q.at, next)
        \/ UNCHANGED planned
     /\ Goto(h, IF left = {} THEN IdleCall ELSE [q EXCEPT !.todo = left])
  /\ UNCHANGED <<clock, people, visit, commitment, notices, bounds>>

\* The supervisor's own plan: any date.
CreatePlan(h, at) ==
  /\ Idle(h)
  /\ MayCommit(at)
  /\ \E p \in Plans, date \in Days : NewPlan(p, at, date)
  /\ UNCHANGED <<clock, people, visit, commitment, notices, call, bounds>>

\* One findOneAndUpdate: the notices of the plan stay as they are.
UpdatePlan(h, p) ==
  /\ Idle(h) /\ planned[p].status # "none" /\ MayUpset
  /\ \/ \E date \in Days : planned' = [planned EXCEPT ![p].date = date]
     \/ \E status \in {"planned", "completed", "cancelled"} :
          planned' = [planned EXCEPT ![p].status = status]
  /\ changes' = changes + 1
  /\ UNCHANGED <<clock, people, visit, commitment, notices, call, crashes>>

\* Dates and status may be changed whatever the status is; only "completed"
\* is refused.
UpdateCommitment(h, c) ==
  /\ Idle(h) /\ commitment[c].status # "none" /\ MayUpset
  /\ \E status \in {commitment[c].status, "active", "cancelled"},
        from \in Days : \E to \in from..LastDay :
       Goto(h, [pc |-> "update", c |-> c, seen |-> commitment[c],
                doc |-> [commitment[c] EXCEPT !.status = status, !.from = from, !.to = to]])
  /\ changes' = changes + 1
  /\ UNCHANGED <<clock, people, store, notices, crashes>>

\* Mutant: the notices of a cancelled commitment stay.
SaveCommitmentMutant(h) ==
  /\ At(h, "update")
  /\ LET q == call[h] IN
     /\ commitment' = [commitment EXCEPT ![q.c] = Saved(@, q.seen, q.doc)]
     /\ Goto(h, IF q.doc.status = "completed" THEN [pc |-> "updated", c |-> q.c] ELSE IdleCall)
  /\ UNCHANGED <<clock, people, visit, planned, notices, bounds>>

SaveCommitment(h) ==
  /\ At(h, "update")
  /\ LET q == call[h] IN
     /\ commitment' = [commitment EXCEPT ![q.c] = Saved(@, q.seen, q.doc)]
     /\ Goto(h, IF q.doc.status \in {"completed", "cancelled"}
                  THEN [pc |-> "updated", c |-> q.c] ELSE IdleCall)
  /\ UNCHANGED <<clock, people, visit, planned, notices, bounds>>

ResolveUpdated(h) ==
  /\ At(h, "updated")
  /\ unread' = unread \ AsksFor(call[h].c)
  /\ Goto(h, IdleCall)
  /\ UNCHANGED <<clock, people, store, sent, bounds>>

-----------------------------------------------------------------------------
(* syncDynamicNotifications, before the notices of a poll are listed.      *)

\* create: a notice about the same thing is not sent twice, read or not.
Send(n) ==
  IF n \in sent THEN UNCHANGED notices
  ELSE sent' = sent \cup {n} /\ unread' = unread \cup {n}

SyncReminders(todo, today) ==
  IF todo = {} THEN [pc |-> "findOverdue"]
  ELSE [pc |-> "syncReminders", todo |-> todo, today |-> today]
SyncOverdue(todo, today) ==
  IF todo = {} THEN [pc |-> "findDue"]
  ELSE [pc |-> "syncOverdue", todo |-> todo, today |-> today]
SyncPlans(todo, today) ==
  IF todo = {} THEN IdleCall ELSE [pc |-> "syncPlans", todo |-> todo, today |-> today]

Poll(h) ==
  /\ Idle(h)
  /\ Goto(h, SyncReminders({c \in Commitments :
       /\ commitment[c].status = "active"
       /\ commitment[c].from <= Today /\ Today <= commitment[c].to}, Today))
  /\ UNCHANGED <<clock, people, store, notices, bounds>>

Remind(h) ==
  /\ At(h, "syncReminders")
  /\ LET q == call[h] IN \E c \in q.todo :
       /\ Send([kind |-> "reminder", ref |-> c, on |-> q.today])
       /\ Goto(h, SyncReminders(q.todo \ {c}, q.today))
  /\ UNCHANGED <<clock, people, store, bounds>>

FindOverdue(h) ==
  /\ At(h, "findOverdue")
  /\ Goto(h, SyncOverdue({c \in Commitments :
       commitment[c].status = "active" /\ commitment[c].to < Today}, Today))
  /\ UNCHANGED <<clock, people, store, notices, bounds>>

NotifyOverdue(h) ==
  /\ At(h, "syncOverdue")
  /\ LET q == call[h] IN \E c \in q.todo :
       /\ Send([kind |-> "overdue", ref |-> c, on |-> q.today])
       /\ Goto(h, SyncOverdue(q.todo \ {c}, q.today))
  /\ UNCHANGED <<clock, people, store, bounds>>

FindDue(h) ==
  /\ At(h, "findDue")
  /\ LET due == {p \in Plans : planned[p].status = "planned" /\ planned[p].date <= Today} IN
       Goto(h, SyncPlans({[p |-> p, date |-> planned[p].date] : p \in due}, Today))
  /\ UNCHANGED <<clock, people, store, notices, bounds>>

\* Mutant: a plan is past due whoever visited.
LookForVisitMutant(h) ==
  /\ At(h, "syncPlans")
  /\ LET q == call[h] IN \E now \in q.todo :
       Goto(h, [pc |-> "syncNotice", today |-> q.today, now |-> now, todo |-> q.todo \ {now}])
  /\ UNCHANGED <<clock, people, store, notices, bounds>>

\* The plan was fulfilled if its supervisor visited that day.
LookForVisit(h) ==
  /\ At(h, "syncPlans")
  /\ LET q == call[h] IN \E now \in q.todo :
       LET visited == \E v \in Visits : IsOf(visit[v], planned[now.p]) /\ visit[v].date = now.date
       IN  Goto(h, [pc |-> IF visited THEN "syncSettle" ELSE "syncNotice",
                    today |-> q.today, now |-> now, todo |-> q.todo \ {now}])
  /\ UNCHANGED <<clock, people, store, notices, bounds>>

NotifyPlan(h) ==
  /\ At(h, "syncNotice")
  /\ LET q == call[h] IN
     /\ Send([kind |-> IF q.now.date = q.today THEN "due" ELSE "missed", ref |-> q.now.p])
     /\ Goto(h, SyncPlans(q.todo, q.today))
  /\ UNCHANGED <<clock, people, store, bounds>>

SyncSettle(h) ==
  /\ At(h, "syncSettle")
  /\ planned' = [planned EXCEPT ![call[h].now.p].status = "completed"]
  /\ Goto(h, [call[h] EXCEPT !.pc = "syncResolve"])
  /\ UNCHANGED <<clock, people, visit, commitment, notices, bounds>>

SyncResolve(h) ==
  /\ At(h, "syncResolve")
  /\ unread' = unread \ AsksFor(call[h].now.p)
  /\ Goto(h, SyncPlans(call[h].todo, call[h].today))
  /\ UNCHANGED <<clock, people, store, sent, bounds>>

\* One notice, or all of a supervisor's.
MarkRead(h, n) ==
  /\ Idle(h) /\ MayUpset
  /\ unread' = unread \ {n}
  /\ changes' = changes + 1
  /\ UNCHANGED <<clock, people, store, sent, call, crashes>>

OwnerOf(n) == IF n.kind \in {"reminder", "overdue"} THEN commitment[n.ref].s ELSE planned[n.ref].s
MarkAllRead(h, s) ==
  /\ Idle(h) /\ MayUpset
  /\ unread' = {n \in unread : OwnerOf(n) # s}
  /\ changes' = changes + 1
  /\ UNCHANGED <<clock, people, store, sent, call, crashes>>

-----------------------------------------------------------------------------
\* school-supervisors update: a star, or other blocks.
UpdateSupervisor(h, s) ==
  /\ Idle(h) /\ MayUpset
  /\ \/ star' \in {star \ {s}, star \cup {s}} /\ UNCHANGED blocks
     \/ \E w \in Schools : /\ blocks' \in {[blocks EXCEPT ![s] = @ \ {w}],
                                           [blocks EXCEPT ![s] = @ \cup {w}]}
                           /\ UNCHANGED star
  /\ changes' = changes + 1
  /\ UNCHANGED <<clock, store, notices, call, crashes>>

\* A call may run over one midnight, not over a whole day.
Midnight ==
  /\ ~lag /\ day < LastDay
  /\ day' = day + 1 /\ lag' = TRUE
  /\ UNCHANGED <<people, store, notices, call, bounds>>

Morning ==
  /\ lag /\ \A h \in Handlers : Idle(h)
  /\ lag' = FALSE
  /\ UNCHANGED <<day, people, store, notices, call, bounds>>

Crash ==
  /\ MayUpset
  /\ \E h \in Handlers : ~Idle(h)
  /\ call' = [h \in Handlers |-> IdleCall]
  /\ crashes' = crashes + 1
  /\ UNCHANGED <<clock, people, store, notices, changes>>

Report(h) ==
  \/ Link(h) \/ StoreVisit(h) \/ FindPlans(h) \/ SettlePlan(h) \/ ResolvePlan(h)
  \/ FindCommitments(h) \/ SettleCommitment(h) \/ ResolveCommitmentNotifications(h)
Diary(h) ==
  InsertCommitment(h) \/ PlanNextDate(h) \/ SaveCommitment(h) \/ ResolveUpdated(h)
SyncDynamicNotifications(h) ==
  \/ Remind(h) \/ FindOverdue(h) \/ NotifyOverdue(h) \/ FindDue(h) \/ LookForVisit(h)
  \/ NotifyPlan(h) \/ SyncSettle(h) \/ SyncResolve(h)

Next ==
  \/ \E h \in Handlers : Report(h) \/ Diary(h) \/ SyncDynamicNotifications(h) \/ Poll(h)
  \/ \E h \in Handlers, at \in Pair :
       CreateVisit(h, at) \/ CreateCommitment(h, at) \/ CreatePlan(h, at)
  \/ \E h \in Handlers, v \in Visits : UpdateStatus(h, v)
  \/ \E h \in Handlers, c \in Commitments : UpdateCommitment(h, c)
  \/ \E h \in Handlers, p \in Plans : UpdatePlan(h, p)
  \/ \E h \in Handlers, s \in Supervisors : UpdateSupervisor(h, s) \/ MarkAllRead(h, s)
  \/ \E h \in Handlers : \E n \in unread : MarkRead(h, n)
  \/ Midnight \/ Morning \/ Crash

Spec == Init /\ [][Next]_vars

-----------------------------------------------------------------------------
(* Properties.                                                             *)

\* Calls are served one at a time.
IsSerial == \A g, h \in Handlers : g = h
Stored(v) == visit[v].status = "none" /\ visit'[v].status # "none"

\* One call at a time, a supervisor who is not exempt finds every school rested
\* for MinDays days, whoever visited it if its block is shared (createVisit's
\* assertSchoolVisitAllowed, decided before the upload, holds at the insertion).
CooldownHolds ==
  [][\A v \in Visits :
       IsSerial /\ Stored(v) /\ visit'[v].s \notin star
       => \A u \in Visits :
            /\ Reported(u) /\ visit[u].w = visit'[v].w
            /\ visit[u].s = visit'[v].s \/ IsSchoolSharedVisitCooldown(visit'[v].w, blocks)
            => visit'[v].date - visit[u].date >= MinDays]_vars

\* The list of cooldowns lets a supervisor try exactly the schools createVisit
\* would accept from him: one rule, coded twice.
ShownIsDecided ==
  \A at \in Pair : at.w \in blocks[at.s] =>
    ~CooldownActive(ShownLastVisit(at), day) = MayVisitOn(at, day)

\* "Commitments are marked complete only when the supervisor submits a
\* geo-tagged field visit for the committed school" (commitment-diary update):
\* however calls interleave and wherever the process dies; one call at a time
\* the visit falls in the committed days.
CompletionIsEarned ==
  [][\A c \in Commitments :
       commitment[c].status # "completed" /\ commitment'[c].status = "completed"
       => \E v \in Visits : /\ IsOf(visit[v], commitment[c])
                            /\ IsSerial => visit[v].date \in commitment[c].from..commitment[c].to
    ]_vars

\* When a report has been served, alone and to its end, nothing still asks for
\* this visit: no plan of its day and no commitment over its day is open
\* (onVisitSubmitted, onCommitmentVisitProgress).
VisitSettles ==
  [][\A h \in Handlers :
       /\ IsSerial /\ crashes' = crashes
       /\ call[h].pc \in {"findCommitments", "resolve"} /\ call'[h] = IdleCall
       => LET q == call[h] IN
          /\ ~\E c \in Commitments : Covers(c, q.at, q.date)
          /\ ~\E p \in Plans : /\ planned[p].status = "planned" /\ IsOf(planned[p], q.at)
                               /\ planned[p].date = q.date]_vars

\* Nobody is told that a visit was missed which was reported, on whichever side
\* of midnight the server's clock is and wherever a report died
\* (syncPlannedVisitNotifications), one call at a time.
MissedMeansMissed ==
  [][\A n \in Notice :
       IsSerial /\ n.kind = "missed" /\ n \in sent' \ sent
       => ~\E v \in Visits : /\ IsOf(visit[v], planned[n.ref])
                             /\ visit[v].date = planned[n.ref].date]_vars

\* One call at a time and without a crash, a commitment that is completed or
\* cancelled leaves no unread reminder behind (resolveCommitmentNotifications).
SettledIsQuiet ==
  IsSerial /\ crashes = 0 /\ (\A h \in Handlers : Idle(h)) =>
    \A n \in unread : n.kind \in {"reminder", "overdue"} => commitment[n.ref].status = "active"

=============================================================================
