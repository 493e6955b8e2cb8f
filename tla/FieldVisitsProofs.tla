--------------------------- MODULE FieldVisitsProofs ---------------------------
(***************************************************************************)
(* Proofs about FieldVisits, for any number of supervisors, schools,       *)
(* visits, commitments, plans, days and any rest between visits. Whatever  *)
(* calls interleave and wherever the process dies: the types, that the     *)
(* list of cooldowns shows what createVisit decides, and that a commitment *)
(* is only completed by a visit. With calls served one at a time: that     *)
(* visits keep their distance, settle what they fulfil, and are never      *)
(* reported missed; and that what is settled asks for nothing.             *)
(***************************************************************************)
EXTENDS FieldVisits, TLAPS, WellFoundedInduction

FullVisit == [status: {"submitted", "reviewed"}, s: Supervisors, w: Schools,
              date: Days, link: Commitments \cup {NoCommitment}]
FullCommitment == [status: {"active", "completed", "cancelled"}, s: Supervisors, w: Schools,
                   from: Days, to: Days]
FullPlan == [status: {"planned", "completed", "cancelled"}, s: Supervisors, w: Schools, date: Days]

\* The stages of a call.
StoredPc == {"findPlans", "settlePlan", "resolvePlan", "findCommitments", "settle", "resolve"}
SyncPc == {"syncPlans", "syncNotice", "syncSettle", "syncResolve"}

\* What a call knows, whatever the others do meanwhile: the visit it reports is
\* stored, and what it found to settle is still somebody's.
Witnessed(q) == \E v \in Visits : IsOf(visit[v], q.at) /\ visit[v].date = q.date
CallKnown(q) ==
  /\ q.pc \in StoredPc => Witnessed(q)
  /\ q.pc \in {"settlePlan", "resolvePlan"} => \A p \in q.todo : planned[p].status # "none"
  /\ q.pc \in {"settle", "resolve"} => \A c \in q.todo : IsOf(commitment[c], q.at)
  /\ q.pc = "update" =>
       /\ commitment[q.c].status # "none"
       /\ q.seen \in FullCommitment /\ q.doc \in FullCommitment
       /\ q.doc.s = q.seen.s /\ q.doc.w = q.seen.w
       /\ q.doc.status = "completed" => q.seen.status = "completed"
  /\ q.pc = "insert" => q.from <= q.to
  /\ q.pc = "plan" => q.todo # {}
  /\ q.pc \in SyncPc => \A x \in q.todo : planned[x.p].status # "none"
  /\ q.pc \in SyncPc \ {"syncPlans"} => planned[q.now.p].status # "none"
KnownInv ==
  /\ TypeOK
  /\ lag => day # 0
  /\ \A h \in Handlers : CallKnown(call[h])

\* A visit counts for a school as it does in LastVisitDate.
Counts(u, at) ==
  /\ Reported(u) /\ visit[u].w = at.w
  /\ visit[u].s = at.s \/ IsSchoolSharedVisitCooldown(at.w, blocks)
Open(p, q) == planned[p].status = "planned" /\ IsOf(planned[p], q.at) /\ planned[p].date = q.date

\* What a call that is served alone knows besides: the store is as it read it.
Rested(q) ==
  q.pc \in {"link", "store"} /\ q.at.s \notin star =>
    \A u \in Visits : Counts(u, q.at) => q.date - visit[u].date >= MinDays
Settling(q) ==
  /\ q.pc \in {"settlePlan", "resolvePlan"} => \A p \in Plans : Open(p, q) => p \in q.todo
  /\ q.pc \in {"findCommitments", "settle", "resolve"} => \A p \in Plans : ~Open(p, q)
  /\ q.pc \in {"settle", "resolve"} =>
       \A c \in Commitments : Covers(c, q.at, q.date) <=> c \in q.todo
Syncing(q) ==
  /\ q.pc \in SyncPc => \A x \in q.todo : planned[x.p].date = x.date
  /\ q.pc = "syncNotice" =>
       /\ planned[q.now.p].date = q.now.date
       /\ ~\E v \in Visits : IsOf(visit[v], planned[q.now.p]) /\ visit[v].date = q.now.date
AsRead(q) == Rested(q) /\ Settling(q) /\ Syncing(q)
SerialInv ==
  /\ KnownInv
  /\ IsSerial => \A h \in Handlers : AsRead(call[h])

\* A reminder is unread as long as its commitment is open, but for the call that
\* has just closed it.
Reminds(n) == n.kind \in {"reminder", "overdue"}
Careful(q) ==
  /\ q.pc \in {"syncReminders", "syncOverdue"} =>
       \A c \in q.todo : commitment[c].status = "active"
  /\ q.pc = "update" => q.seen = commitment[q.c]
QuietInv ==
  /\ KnownInv
  /\ IsSerial /\ crashes = 0 =>
       /\ \A h \in Handlers : Careful(call[h])
       /\ \A n \in unread : Reminds(n) =>
            \/ commitment[n.ref].status = "active"
            \/ \E h \in Handlers : call[h].pc \in {"resolve", "updated"} /\ call[h].c = n.ref

-----------------------------------------------------------------------------
(* The earliest and the latest of some days.                               *)

LEMMA SmallestOf ==
  ASSUME NEW T, T \subseteq Nat, T # {}
  PROVE  \E x \in T : \A y \in T : x <= y
<1> DEFINE R == OpToRel(<, Nat)
<1>1. IsWellFoundedOn(R, Nat)
  BY NatLessThanWellFounded
<1>2. ASSUME NEW x \in Nat, NEW y \in Nat, <<y, x>> \notin R PROVE x <= y
  BY <1>2 DEF OpToRel
<1> HIDE DEF R
<1>3. PICK x \in T : \A y \in T : <<y, x>> \notin R
  BY <1>1, WFMin
<1>4. \A y \in T : x <= y
  BY <1>2, <1>3
<1> QED BY <1>4

LEMMA EarliestDay ==
  ASSUME NEW T, T \subseteq Days, T # {}
  PROVE  (CHOOSE d \in T : \A e \in T : d <= e) \in T
<1>1. T \subseteq Nat
  BY BoundsAssumption DEF Days
<1>2. \E d \in T : \A e \in T : d <= e
  BY <1>1, SmallestOf
<1> QED BY <1>2

LEMMA LatestDay ==
  ASSUME NEW T, T \subseteq Days, T # {}, NEW m, m = CHOOSE d \in T : \A e \in T : e <= d
  PROVE  m \in T /\ \A e \in T : e <= m
<1> DEFINE U == {LastDay - x : x \in T}
<1>1. \A x \in T : x \in Int /\ LastDay - x \in Nat
  BY BoundsAssumption DEF Days
<1>2. U \subseteq Nat /\ U # {}
  BY <1>1
<1>3. PICK u \in U : \A y \in U : u <= y
  BY <1>2, SmallestOf
<1>4. PICK x \in T : u = LastDay - x
  OBVIOUS
<1>5. \A y \in T : LastDay - x <= LastDay - y
  BY <1>3, <1>4
<1>6. \A y \in T : y <= x
  BY <1>1, <1>5, BoundsAssumption
<1> QED BY <1>6

-----------------------------------------------------------------------------
(* The shapes of what is stored and of what a call remembers.              *)

Todo == [p: Plans, date: Days]

LEMMA CallShape ==
  ASSUME NEW q \in Call
  PROVE  /\ q.pc \in {"link", "store", "insert", "plan"} \cup StoredPc => q.at \in Pair
         /\ q.pc \in {"link", "store"} \cup StoredPc => q.date \in Days
         /\ q.pc = "store" => q.link \in Commitments \cup {NoCommitment}
         /\ q.pc \in {"settlePlan", "resolvePlan"} => q.todo \subseteq Plans
         /\ q.pc = "resolvePlan" => q.p \in Plans
         /\ q.pc \in {"settle", "resolve", "syncReminders", "syncOverdue"} =>
              q.todo \subseteq Commitments
         /\ q.pc \in {"resolve", "update", "updated"} => q.c \in Commitments
         /\ q.pc = "insert" => q.from \in Days /\ q.to \in Days
         /\ q.pc = "plan" => q.todo \subseteq Days
         /\ q.pc \in {"syncReminders", "syncOverdue"} \cup SyncPc => q.today \in Days
         /\ q.pc \in SyncPc => q.todo \subseteq Todo
         /\ q.pc \in SyncPc \ {"syncPlans"} => q.now \in Todo
BY DEF Call, IdleCall, StoredPc, SyncPc, Todo

LEMMA CallFields ==
  ASSUME NEW q \in Call
  PROVE  /\ q.pc = "plan" => q = [pc |-> "plan", at |-> q.at, todo |-> q.todo]
         /\ q.pc = "syncSettle" =>
              q = [pc |-> "syncSettle", today |-> q.today, now |-> q.now, todo |-> q.todo]
BY DEF Call, IdleCall

LEMMA ReportCalls ==
  ASSUME NEW at \in Pair, NEW date \in Days
  PROVE  /\ [pc |-> "link", at |-> at, date |-> date] \in Call
         /\ \A c \in Commitments \cup {NoCommitment} :
              [pc |-> "store", at |-> at, date |-> date, link |-> c] \in Call
         /\ \A n \in {"findPlans", "findCommitments"} : [pc |-> n, at |-> at, date |-> date] \in Call
         /\ \A todo \in SUBSET Plans :
              /\ [pc |-> "settlePlan", at |-> at, date |-> date, todo |-> todo] \in Call
              /\ \A p \in Plans :
                   [pc |-> "resolvePlan", at |-> at, date |-> date, p |-> p, todo |-> todo] \in Call
         /\ \A todo \in SUBSET Commitments :
              /\ [pc |-> "settle", at |-> at, date |-> date, todo |-> todo] \in Call
              /\ \A c \in Commitments :
                   [pc |-> "resolve", at |-> at, date |-> date, c |-> c, todo |-> todo] \in Call
BY DEF Call

LEMMA DiaryCalls ==
  ASSUME NEW at \in Pair
  PROVE  /\ \A from, to \in Days : [pc |-> "insert", at |-> at, from |-> from, to |-> to] \in Call
         /\ \A todo \in SUBSET Days : [pc |-> "plan", at |-> at, todo |-> todo] \in Call
BY DEF Call

LEMMA UpdateCalls ==
  ASSUME NEW c \in Commitments
  PROVE  /\ [pc |-> "updated", c |-> c] \in Call
         /\ \A x, y \in Commitment : [pc |-> "update", c |-> c, seen |-> x, doc |-> y] \in Call
BY DEF Call

LEMMA SyncCalls ==
  ASSUME NEW today \in Days
  PROVE  /\ \A todo \in SUBSET Commitments : /\ SyncReminders(todo, today) \in Call
                                             /\ SyncOverdue(todo, today) \in Call
         /\ \A todo \in SUBSET Todo :
              /\ SyncPlans(todo, today) \in Call
              /\ \A now \in Todo, n \in {"syncNotice", "syncSettle", "syncResolve"} :
                   [pc |-> n, today |-> today, now |-> now, todo |-> todo] \in Call
BY DEF Call, IdleCall, SyncReminders, SyncOverdue, SyncPlans, Todo

LEMMA VisitShape ==
  ASSUME NEW x \in Visit, x.status # "none"
  PROVE  /\ x.s \in Supervisors /\ x.w \in Schools /\ x.date \in Days
         /\ x \in FullVisit
         /\ x = [status |-> x.status, s |-> x.s, w |-> x.w, date |-> x.date, link |-> x.link]
BY DEF Visit, FullVisit

LEMMA CommitmentShape ==
  ASSUME NEW x \in Commitment, x.status # "none"
  PROVE  /\ x \in FullCommitment
         /\ x.s \in Supervisors /\ x.w \in Schools /\ x.from \in Days /\ x.to \in Days
         /\ x = [status |-> x.status, s |-> x.s, w |-> x.w, from |-> x.from, to |-> x.to]
BY DEF Commitment, FullCommitment

LEMMA PlanShape ==
  ASSUME NEW x \in Plan, x.status # "none"
  PROVE  /\ x \in FullPlan
         /\ x.s \in Supervisors /\ x.w \in Schools /\ x.date \in Days
         /\ x = [status |-> x.status, s |-> x.s, w |-> x.w, date |-> x.date]
BY DEF Plan, FullPlan

LEMMA FullTypes ==
  /\ FullVisit \subseteq Visit /\ FullCommitment \subseteq Commitment /\ FullPlan \subseteq Plan
  /\ \A x \in FullVisit \cup FullCommitment \cup FullPlan : x.status # "none"
BY DEF FullVisit, FullCommitment, FullPlan, Visit, Commitment, Plan

\* What a save leaves of a commitment: only the paths the handler changed.
LEMMA SavedCommitment ==
  ASSUME NEW x \in FullCommitment, NEW seen \in FullCommitment, NEW doc \in FullCommitment
  PROVE  /\ Saved(x, seen, doc) \in FullCommitment
         /\ \A f \in {"status", "s", "w", "from", "to"} :
              Saved(x, seen, doc)[f] = IF doc[f] = seen[f] THEN x[f] ELSE doc[f]
<1>1. DOMAIN x = {"status", "s", "w", "from", "to"}
  BY DEF FullCommitment
<1>2. Saved(x, seen, doc) = [status |-> IF doc.status = seen.status THEN x.status ELSE doc.status,
                             s |-> IF doc.s = seen.s THEN x.s ELSE doc.s,
                             w |-> IF doc.w = seen.w THEN x.w ELSE doc.w,
                             from |-> IF doc.from = seen.from THEN x.from ELSE doc.from,
                             to |-> IF doc.to = seen.to THEN x.to ELSE doc.to]
  BY <1>1 DEF Saved
<1> QED BY <1>1, <1>2 DEF Saved, FullCommitment

-----------------------------------------------------------------------------
(* Who writes what.                                                        *)

LEMMA WritesVisits ==
  ASSUME [Next]_vars, visit' # visit
  PROVE  \E h \in Handlers : StoreVisit(h) \/ \E v \in Visits : UpdateStatus(h, v)
BY ZenonT(120) DEF Next, vars, clock, people, store, notices, bounds, Report, Diary, SyncDynamicNotifications,
   Link, FindPlans, SettlePlan, ResolvePlan, FindCommitments, SettleCommitment,
   ResolveCommitmentNotifications, InsertCommitment, PlanNextDate, SaveCommitment,
   ResolveUpdated, Remind, FindOverdue, NotifyOverdue, FindDue, LookForVisit, NotifyPlan,
   SyncSettle, SyncResolve, Poll, CreateVisit, CreateCommitment, CreatePlan, UpdateCommitment,
   UpdatePlan, UpdateSupervisor, MarkAllRead, MarkRead, Midnight, Morning, Crash

LEMMA WritesCommitments ==
  ASSUME [Next]_vars, commitment' # commitment
  PROVE  \E h \in Handlers : SettleCommitment(h) \/ InsertCommitment(h) \/ SaveCommitment(h)
BY DEF Next, vars, clock, people, store, notices, bounds, Report, Diary, SyncDynamicNotifications,
   Link, StoreVisit, FindPlans, SettlePlan, ResolvePlan, FindCommitments,
   ResolveCommitmentNotifications, PlanNextDate,
   ResolveUpdated, Remind, FindOverdue, NotifyOverdue, FindDue, LookForVisit, NotifyPlan,
   SyncSettle, SyncResolve, Poll, CreateVisit, CreateCommitment, CreatePlan, UpdateStatus,
   UpdateCommitment, UpdatePlan, UpdateSupervisor, MarkAllRead, MarkRead, Midnight, Morning, Crash

LEMMA WritesPlans ==
  ASSUME [Next]_vars, planned' # planned
  PROVE  \E h \in Handlers : \/ SettlePlan(h) \/ PlanNextDate(h) \/ SyncSettle(h)
                             \/ \E at \in Pair : CreatePlan(h, at)
                             \/ \E p \in Plans : UpdatePlan(h, p)
BY DEF Next, vars, clock, people, store, notices, bounds, Report, Diary, SyncDynamicNotifications,
   Link, StoreVisit, FindPlans, ResolvePlan, FindCommitments, SettleCommitment,
   ResolveCommitmentNotifications, InsertCommitment, SaveCommitment,
   ResolveUpdated, Remind, FindOverdue, NotifyOverdue, FindDue, LookForVisit, NotifyPlan,
   SyncResolve, Poll, CreateVisit, CreateCommitment, UpdateStatus, UpdateCommitment,
   UpdateSupervisor, MarkAllRead, MarkRead, Midnight, Morning, Crash

\* A visit stays the visit it is.
LEMMA VisitStep ==
  ASSUME KnownInv, [Next]_vars
  PROVE  /\ visit' \in [Visits -> Visit]
         /\ \A v \in Visits : Reported(v) =>
              /\ visit'[v].status # "none" /\ visit'[v].s = visit[v].s
              /\ visit'[v].w = visit[v].w /\ visit'[v].date = visit[v].date
<1>1. visit \in [Visits -> Visit] /\ call \in [Handlers -> Call]
  BY DEF KnownInv, TypeOK
<1>2. CASE \E h \in Handlers : StoreVisit(h)
  <2>1. PICK h \in Handlers : StoreVisit(h)
    BY <1>2
  <2>2. PICK v \in Visits : ~Reported(v) /\ visit' = [visit EXCEPT ![v] =
            [status |-> "submitted", s |-> call[h].at.s, w |-> call[h].at.w,
             date |-> call[h].date, link |-> call[h].link]]
    BY <2>1 DEF StoreVisit
  <2>3. call[h].at \in Pair /\ call[h].date \in Days /\ call[h].link \in Commitments \cup {NoCommitment}
    BY <1>1, <2>1, CallShape DEF StoreVisit, At
  <2>4. [status |-> "submitted", s |-> call[h].at.s, w |-> call[h].at.w,
         date |-> call[h].date, link |-> call[h].link] \in Visit
    BY <2>3 DEF Pair, Visit
  <2> QED BY <1>1, <2>2, <2>4 DEF Reported
<1>3. CASE \E h \in Handlers, v \in Visits : UpdateStatus(h, v)
  <2>1. PICK v \in Visits : Reported(v) /\ visit' = [visit EXCEPT ![v].status = "reviewed"]
    BY <1>3 DEF UpdateStatus
  <2> DEFINE x == [visit[v] EXCEPT !.status = "reviewed"]
  <2>2. x = [status |-> "reviewed", s |-> visit[v].s, w |-> visit[v].w,
             date |-> visit[v].date, link |-> visit[v].link]
    BY <1>1, <2>1, VisitShape DEF Reported
  <2>3. visit[v] \in FullVisit
    BY <1>1, <2>1, VisitShape DEF Reported
  <2>4. x \in Visit
    BY <2>2, <2>3 DEF FullVisit, Visit
  <2>5. visit' = [visit EXCEPT ![v] = x]
    BY <2>1
  <2> HIDE DEF x
  <2> QED BY <1>1, <2>1, <2>2, <2>3, <2>4, <2>5 DEF Reported, FullVisit
<1>4. CASE visit' = visit
  BY <1>1, <1>4 DEF Reported
<1> QED BY <1>2, <1>3, <1>4, WritesVisits

\* A commitment keeps its supervisor and its school.
LEMMA CommitmentStep ==
  ASSUME KnownInv, [Next]_vars
  PROVE  /\ commitment' \in [Commitments -> Commitment]
         /\ \A c \in Commitments : commitment[c].status # "none" =>
              /\ commitment'[c].status # "none" /\ commitment'[c].s = commitment[c].s
              /\ commitment'[c].w = commitment[c].w
<1>1. /\ commitment \in [Commitments -> Commitment] /\ call \in [Handlers -> Call]
      /\ \A h \in Handlers : CallKnown(call[h])
  BY DEF KnownInv, TypeOK
<1>2. CASE \E h \in Handlers : SettleCommitment(h)
  <2>1. PICK h \in Handlers : SettleCommitment(h)
    BY <1>2
  <2>2. PICK c \in call[h].todo : commitment' = [commitment EXCEPT ![c].status = "completed"]
    BY <2>1 DEF SettleCommitment
  <2>3. c \in Commitments /\ commitment[c].status # "none"
    BY <1>1, <2>1, CallShape DEF SettleCommitment, At, CallKnown, IsOf
  <2> DEFINE x == [commitment[c] EXCEPT !.status = "completed"]
  <2>4. /\ commitment[c] \in FullCommitment
        /\ x = [status |-> "completed", s |-> commitment[c].s, w |-> commitment[c].w,
                from |-> commitment[c].from, to |-> commitment[c].to]
    BY <1>1, <2>3, CommitmentShape
  <2>5. x \in Commitment
    BY <2>4 DEF FullCommitment, Commitment
  <2>6. commitment' = [commitment EXCEPT ![c] = x]
    BY <2>2
  <2> HIDE DEF x
  <2> QED BY <1>1, <2>3, <2>4, <2>5, <2>6
<1>3. CASE \E h \in Handlers : InsertCommitment(h)
  <2>1. PICK h \in Handlers : InsertCommitment(h)
    BY <1>3
  <2>2. PICK c \in Commitments : /\ commitment[c].status = "none"
          /\ commitment' = [commitment EXCEPT ![c] =
               [status |-> "active", s |-> call[h].at.s, w |-> call[h].at.w,
                from |-> call[h].from, to |-> call[h].to]]
    BY <2>1 DEF InsertCommitment
  <2>3. call[h].at \in Pair /\ call[h].from \in Days /\ call[h].to \in Days
    BY <1>1, <2>1, CallShape DEF InsertCommitment, At
  <2>4. [status |-> "active", s |-> call[h].at.s, w |-> call[h].at.w,
         from |-> call[h].from, to |-> call[h].to] \in Commitment
    BY <2>3 DEF Pair, Commitment
  <2> QED BY <1>1, <2>2, <2>4
<1>4. CASE \E h \in Handlers : SaveCommitment(h)
  <2>1. PICK h \in Handlers : SaveCommitment(h)
    BY <1>4
  <2> DEFINE q == call[h]
             c == q.c
             x == Saved(commitment[c], q.seen, q.doc)
  <2>2. q.pc = "update" /\ commitment' = [commitment EXCEPT ![c] = x]
    BY <2>1 DEF SaveCommitment, At
  <2>3. c \in Commitments /\ CallKnown(q)
    BY <1>1, <2>2, CallShape
  <2>4. /\ commitment[c].status # "none" /\ q.seen \in FullCommitment /\ q.doc \in FullCommitment
        /\ q.doc.s = q.seen.s /\ q.doc.w = q.seen.w
    BY <2>2, <2>3 DEF CallKnown
  <2>5. commitment[c] \in FullCommitment
    BY <1>1, <2>3, <2>4, CommitmentShape
  <2>6. /\ x \in FullCommitment /\ x["s"] = commitment[c].s /\ x["w"] = commitment[c].w
    BY <2>4, <2>5, SavedCommitment
  <2>7. x \in Commitment /\ x.status # "none"
    BY <2>6, FullTypes
  <2> HIDE DEF q, c, x
  <2> QED BY <1>1, <2>2, <2>3, <2>6, <2>7
<1>5. CASE commitment' = commitment
  BY <1>1, <1>5
<1> QED BY <1>2, <1>3, <1>4, <1>5, WritesCommitments

\* A plan keeps its supervisor and its school.
LEMMA PlanStep ==
  ASSUME KnownInv, [Next]_vars
  PROVE  /\ planned' \in [Plans -> Plan]
         /\ \A p \in Plans : planned[p].status # "none" =>
              /\ planned'[p].status # "none" /\ planned'[p].s = planned[p].s
              /\ planned'[p].w = planned[p].w
<1>1. /\ planned \in [Plans -> Plan] /\ call \in [Handlers -> Call]
      /\ \A h \in Handlers : CallKnown(call[h])
  BY DEF KnownInv, TypeOK
<1>a. ASSUME NEW p \in Plans, NEW st \in {"planned", "completed", "cancelled"},
             planned[p].status # "none", planned' = [planned EXCEPT ![p].status = st]
      PROVE  /\ planned' \in [Plans -> Plan]
             /\ \A k \in Plans : planned[k].status # "none" =>
                  /\ planned'[k].status # "none" /\ planned'[k].s = planned[k].s
                  /\ planned'[k].w = planned[k].w
  <2> DEFINE x == [planned[p] EXCEPT !.status = st]
  <2>1. /\ planned[p] \in FullPlan
        /\ x = [status |-> st, s |-> planned[p].s, w |-> planned[p].w, date |-> planned[p].date]
    BY <1>1, <1>a, PlanShape
  <2>2. x \in Plan
    BY <2>1 DEF FullPlan, Plan
  <2>3. planned' = [planned EXCEPT ![p] = x]
    BY <1>a
  <2> HIDE DEF x
  <2> QED BY <1>1, <2>1, <2>2, <2>3
<1>b. ASSUME NEW p \in Plans, NEW at \in Pair, NEW date \in Days, NewPlan(p, at, date)
      PROVE  /\ planned' \in [Plans -> Plan]
             /\ \A k \in Plans : planned[k].status # "none" => planned'[k] = planned[k]
  <2>1. [status |-> "planned", s |-> at.s, w |-> at.w, date |-> date] \in Plan
    BY DEF Pair, Plan
  <2> QED BY <1>1, <1>b, <2>1 DEF NewPlan
<1>2. CASE \E h \in Handlers : SettlePlan(h)
  <2>1. PICK h \in Handlers : SettlePlan(h)
    BY <1>2
  <2>2. PICK p \in call[h].todo : planned' = [planned EXCEPT ![p].status = "completed"]
    BY <2>1 DEF SettlePlan
  <2>3. p \in Plans /\ planned[p].status # "none"
    BY <1>1, <2>1, CallShape DEF SettlePlan, At, CallKnown
  <2> QED BY <1>a, <2>2, <2>3
<1>3. CASE \E h \in Handlers : SyncSettle(h)
  <2>1. PICK h \in Handlers : SyncSettle(h)
    BY <1>3
  <2>2. planned' = [planned EXCEPT ![call[h].now.p].status = "completed"]
    BY <2>1 DEF SyncSettle
  <2>3. call[h].now \in Todo /\ planned[call[h].now.p].status # "none"
    BY <1>1, <2>1, CallShape DEF SyncSettle, At, CallKnown, SyncPc
  <2>4. PICK p \in Plans : p = call[h].now.p
    BY <2>3 DEF Todo
  <2> QED BY <1>a, <2>2, <2>3, <2>4
<1>4. CASE \E h \in Handlers : PlanNextDate(h)
  <2>1. PICK h \in Handlers : PlanNextDate(h)
    BY <1>4
  <2> DEFINE todo == call[h].todo
             next == CHOOSE d \in todo : \A e \in todo : d <= e
  <2>2. (\E p \in Plans : NewPlan(p, call[h].at, next)) \/ UNCHANGED planned
    BY <2>1 DEF PlanNextDate
  <2>3. call[h].at \in Pair /\ todo \subseteq Days /\ todo # {}
    BY <1>1, <2>1, CallShape DEF PlanNextDate, At, CallKnown
  <2>4. next \in Days
    BY <2>3, EarliestDay
  <2> HIDE DEF todo, next
  <2> QED BY <1>1, <1>b, <2>2, <2>3, <2>4
<1>5. CASE \E h \in Handlers, at \in Pair : CreatePlan(h, at)
  BY <1>5, <1>b DEF CreatePlan
<1>6. CASE \E h \in Handlers, p \in Plans : UpdatePlan(h, p)
  <2>1. PICK p \in Plans : /\ planned[p].status # "none"
                           /\ \/ \E date \in Days : planned' = [planned EXCEPT ![p].date = date]
                              \/ \E status \in {"planned", "completed", "cancelled"} :
                                   planned' = [planned EXCEPT ![p].status = status]
    BY <1>6 DEF UpdatePlan
  <2>2. ASSUME NEW date \in Days, planned' = [planned EXCEPT ![p].date = date]
        PROVE  /\ planned' \in [Plans -> Plan]
               /\ \A k \in Plans : planned[k].status # "none" =>
                    /\ planned'[k].status # "none" /\ planned'[k].s = planned[k].s
                    /\ planned'[k].w = planned[k].w
    <3> DEFINE x == [planned[p] EXCEPT !.date = date]
    <3>1. /\ planned[p] \in FullPlan
          /\ x = [status |-> planned[p].status, s |-> planned[p].s, w |-> planned[p].w, date |-> date]
      BY <1>1, <2>1, PlanShape
    <3>2. x \in Plan
      BY <3>1 DEF FullPlan, Plan
    <3>3. planned' = [planned EXCEPT ![p] = x]
      BY <2>2
    <3> HIDE DEF x
    <3> QED BY <1>1, <2>1, <3>1, <3>2, <3>3
  <2> QED BY <1>a, <2>1, <2>2
<1>7. CASE planned' = planned
  BY <1>1, <1>7
<1> QED BY <1>2, <1>3, <1>4, <1>5, <1>6, <1>7, WritesPlans

-----------------------------------------------------------------------------
(* What the calls know stays true, whatever they interleave with.          *)

CallsOK == call \in [Handlers -> Call] /\ \A h \in Handlers : CallKnown(call[h])

LEMMA WitnessKept ==
  ASSUME KnownInv, [Next]_vars, NEW q, NEW c, Witnessed(q), c.at = q.at, c.date = q.date
  PROVE  Witnessed(c)'
<1>1. PICK v \in Visits : IsOf(visit[v], q.at) /\ visit[v].date = q.date
  BY DEF Witnessed
<1> QED BY <1>1, VisitStep DEF IsOf, Reported, Witnessed

LEMMA CallKnownStable ==
  ASSUME KnownInv, [Next]_vars, NEW q \in Call, CallKnown(q)
  PROVE  CallKnown(q)'
<1>1. q.pc \in StoredPc => Witnessed(q)'
  BY WitnessKept DEF CallKnown
<1>2. q.pc \in {"settle", "resolve"} => \A c \in q.todo : IsOf(commitment'[c], q.at)
  BY CallShape, CommitmentStep DEF CallKnown, IsOf
<1>3. q.pc \in {"settlePlan", "resolvePlan"} => \A p \in q.todo : planned'[p].status # "none"
  BY CallShape, PlanStep DEF CallKnown
<1>4. q.pc = "update" => commitment'[q.c].status # "none"
  BY CallShape, CommitmentStep DEF CallKnown
<1>5. /\ q.pc \in SyncPc => \A x \in q.todo : planned'[x.p].status # "none"
      /\ q.pc \in SyncPc \ {"syncPlans"} => planned'[q.now.p].status # "none"
  BY CallShape, PlanStep DEF CallKnown, Todo
<1> QED BY <1>1, <1>2, <1>3, <1>4, <1>5 DEF CallKnown, IsOf

LEMMA Moves ==
  ASSUME KnownInv, [Next]_vars, NEW h \in Handlers, NEW c \in Call, Goto(h, c), CallKnown(c)'
  PROVE  CallsOK'
<1>1. call \in [Handlers -> Call] /\ \A k \in Handlers : CallKnown(call[k])
  BY DEF KnownInv, TypeOK
<1>2. call' \in [Handlers -> Call] /\ \A k \in Handlers : call'[k] = IF k = h THEN c ELSE call[k]
  BY <1>1 DEF Goto
<1>3. ASSUME NEW k \in Handlers PROVE CallKnown(call[k])'
  <2>1. PICK q \in Call : q = call'[k] /\ CallKnown(q)'
    <3>1. CASE k = h
      BY <1>2, <3>1
    <3>2. CASE k # h
      <4>1. PICK q \in Call : q = call[k]
        BY <1>1
      <4>2. CallKnown(q)'
        BY <1>1, <4>1, CallKnownStable
      <4> QED BY <1>2, <3>2, <4>1, <4>2
    <3> QED BY <3>1, <3>2
  <2> QED BY <2>1 DEF CallKnown, Witnessed
<1> QED BY <1>2, <1>3 DEF CallsOK

LEMMA Stays ==
  ASSUME KnownInv, [Next]_vars, call' = call
  PROVE  CallsOK'
<1>1. call \in [Handlers -> Call] /\ \A k \in Handlers : CallKnown(call[k])
  BY DEF KnownInv, TypeOK
<1>2. ASSUME NEW k \in Handlers PROVE CallKnown(call[k])'
  <2>1. PICK q \in Call : q = call[k]
    BY <1>1
  <2>2. CallKnown(q)'
    BY <1>1, <2>1, CallKnownStable
  <2> QED BY <2>1, <2>2 DEF CallKnown, Witnessed
<1> QED BY <1>1, <1>2 DEF CallsOK

\* The calls a handler moves on to know what they should, if their lists do.
LEMMA SettlePlansKnown ==
  ASSUME KnownInv, [Next]_vars, NEW q \in Call, q.pc \in StoredPc, CallKnown(q),
         NEW todo \in SUBSET Plans, \A p \in todo : planned'[p].status # "none"
  PROVE  SettlePlans(q, todo) \in Call /\ CallKnown(SettlePlans(q, todo))'
<1>1. q.at \in Pair /\ q.date \in Days
  BY CallShape
<1>2. PICK c \in Call : /\ c = SettlePlans(q, todo) /\ c.at = q.at /\ c.date = q.date
                        /\ \/ c.pc = "findCommitments"
                           \/ c.pc = "settlePlan" /\ c.todo = todo
  BY <1>1, ReportCalls DEF SettlePlans
<1>3. Witnessed(c)'
  BY <1>2, WitnessKept DEF CallKnown
<1>4. CallKnown(c)'
  BY <1>2, <1>3 DEF CallKnown, SyncPc
<1> QED BY <1>2, <1>4

LEMMA SettleCommitmentsKnown ==
  ASSUME KnownInv, [Next]_vars, NEW q \in Call, q.pc \in StoredPc, CallKnown(q),
         NEW todo \in SUBSET Commitments, \A c \in todo : IsOf(commitment'[c], q.at)
  PROVE  SettleCommitments(q, todo) \in Call /\ CallKnown(SettleCommitments(q, todo))'
<1>1. q.at \in Pair /\ q.date \in Days
  BY CallShape
<1>2. PICK c \in Call : /\ c = SettleCommitments(q, todo)
                        /\ \/ c.pc = "idle"
                           \/ /\ c.at = q.at /\ c.date = q.date
                              /\ c.pc = "settle" /\ c.todo = todo
  <2>1. SettleCommitments(q, todo) \in Call
    BY <1>1, ReportCalls DEF SettleCommitments, Call
  <2> QED BY <2>1 DEF SettleCommitments, IdleCall
<1>3. c.pc = "settle" => Witnessed(c)'
  BY <1>2, WitnessKept DEF CallKnown
<1>4. CallKnown(c)'
  BY <1>2, <1>3 DEF CallKnown, SyncPc, StoredPc
<1> QED BY <1>2, <1>4

LEMMA SyncPlansKnown ==
  ASSUME NEW today \in Days, NEW todo \in SUBSET Todo,
         \A x \in todo : planned'[x.p].status # "none"
  PROVE  SyncPlans(todo, today) \in Call /\ CallKnown(SyncPlans(todo, today))'
<1>1. PICK c \in Call : /\ c = SyncPlans(todo, today)
                        /\ \/ c.pc = "idle"
                           \/ c.pc = "syncPlans" /\ c.todo = todo
  BY SyncCalls DEF SyncPlans, IdleCall
<1>2. CallKnown(c)'
  BY <1>1 DEF CallKnown, SyncPc, StoredPc
<1> QED BY <1>1, <1>2

LEMMA ChangedCommitment ==
  ASSUME NEW x \in FullCommitment, NEW st, NEW from, NEW to
  PROVE  [x EXCEPT !.status = st, !.from = from, !.to = to] =
           [status |-> st, s |-> x.s, w |-> x.w, from |-> from, to |-> to]
<1> DEFINE y == [x EXCEPT !.status = st]
           z == [y EXCEPT !.from = from]
<1>1. y = [status |-> st, s |-> x.s, w |-> x.w, from |-> x.from, to |-> x.to]
  BY DEF FullCommitment
<1> HIDE DEF y
<1>2. z = [status |-> st, s |-> x.s, w |-> x.w, from |-> from, to |-> x.to]
  BY <1>1
<1> HIDE DEF z
<1>3. [z EXCEPT !.to = to] = [status |-> st, s |-> x.s, w |-> x.w, from |-> from, to |-> to]
  BY <1>2
<1> QED BY <1>3 DEF y, z

LEMMA TodayIsDay ==
  ASSUME KnownInv
  PROVE  Today \in Days /\ Today <= day /\ day \in Days
BY BoundsAssumption DEF KnownInv, TypeOK, Today, Days

LEMMA StepReport ==
  ASSUME KnownInv, [Next]_vars, NEW h \in Handlers, Report(h)
  PROVE  CallsOK'
<1>1. PICK q \in Call : q = call[h] /\ CallKnown(q)
  BY DEF KnownInv, TypeOK
<1>2. planned \in [Plans -> Plan] /\ commitment \in [Commitments -> Commitment]
  BY DEF KnownInv, TypeOK
<1>3. CASE Link(h)
  <2>1. PICK k \in Commitments \cup {NoCommitment} :
          Goto(h, [pc |-> "store", at |-> q.at, date |-> q.date, link |-> k])
    BY <1>1, <1>3 DEF Link
  <2>2. q.at \in Pair /\ q.date \in Days
    BY <1>1, <1>3, CallShape DEF Link, At
  <2>3. PICK c \in Call : Goto(h, c) /\ c.pc = "store"
    BY <2>1, <2>2, ReportCalls
  <2> QED BY <2>3, Moves DEF CallKnown, StoredPc, SyncPc
<1>4. CASE StoreVisit(h)
  <2>1. PICK v \in Visits : visit' = [visit EXCEPT ![v] =
          [status |-> "submitted", s |-> q.at.s, w |-> q.at.w, date |-> q.date, link |-> q.link]]
    BY <1>1, <1>4 DEF StoreVisit
  <2>2. q.at \in Pair /\ q.date \in Days
    BY <1>1, <1>4, CallShape DEF StoreVisit, At
  <2>3. PICK c \in Call : Goto(h, c) /\ c.pc = "findPlans" /\ c.at = q.at /\ c.date = q.date
    BY <1>1, <1>4, <2>2, ReportCalls DEF StoreVisit
  <2>4. visit'[v].status = "submitted" /\ visit'[v].s = q.at.s /\ visit'[v].w = q.at.w
        /\ visit'[v].date = q.date
    BY <2>1 DEF KnownInv, TypeOK
  <2>5. Witnessed(c)'
    BY <2>3, <2>4 DEF Witnessed, IsOf
  <2> QED BY <2>3, <2>5, Moves DEF CallKnown, StoredPc, SyncPc
<1>5. CASE FindPlans(h)
  <2>1. PICK todo \in SUBSET Plans : /\ Goto(h, SettlePlans(q, todo))
                                     /\ \A p \in todo : planned[p].status # "none"
    <3> DEFINE S == {p \in Plans : /\ planned[p].status = "planned" /\ IsOf(planned[p], q.at)
                                   /\ planned[p].date = q.date}
    <3>1. S \in SUBSET Plans /\ Goto(h, SettlePlans(q, S)) /\ \A p \in S : planned[p].status # "none"
      BY <1>1, <1>5 DEF FindPlans
    <3> HIDE DEF S
    <3> QED BY <3>1
  <2>2. \A p \in todo : planned'[p].status # "none"
    BY <2>1, PlanStep
  <2>3. q.pc \in StoredPc
    BY <1>1, <1>5 DEF FindPlans, At, StoredPc
  <2> QED BY <1>1, <2>1, <2>2, <2>3, SettlePlansKnown, Moves
<1>6. CASE SettlePlan(h)
  <2>1. q.pc = "settlePlan" /\ q.at \in Pair /\ q.date \in Days /\ q.todo \subseteq Plans
    BY <1>1, <1>6, CallShape DEF SettlePlan, At, StoredPc
  <2>2. PICK p \in q.todo : Goto(h, [pc |-> "resolvePlan", at |-> q.at, date |-> q.date, p |-> p,
                                     todo |-> q.todo \ {p}])
    BY <1>1, <1>6 DEF SettlePlan
  <2>3. PICK c \in Call : /\ Goto(h, c) /\ c.pc = "resolvePlan" /\ c.at = q.at /\ c.date = q.date
                          /\ c.todo = q.todo \ {p}
    <3>1. PICK k \in Plans, left \in SUBSET Plans : k = p /\ left = q.todo \ {p}
      BY <2>1
    <3> QED BY <2>1, <2>2, <3>1, ReportCalls
  <2>4. Witnessed(c)'
    BY <1>1, <2>1, <2>3, WitnessKept DEF CallKnown, StoredPc
  <2>5. \A k \in c.todo : planned'[k].status # "none"
    BY <1>1, <2>1, <2>3, PlanStep DEF CallKnown
  <2> QED BY <2>3, <2>4, <2>5, Moves DEF CallKnown, SyncPc
<1>7. CASE ResolvePlan(h)
  <2>1. q.pc = "resolvePlan" /\ q.todo \in SUBSET Plans /\ q.pc \in StoredPc
    BY <1>1, <1>7, CallShape DEF ResolvePlan, At, StoredPc
  <2>2. \A p \in q.todo : planned'[p].status # "none"
    BY <1>1, <2>1, PlanStep DEF CallKnown
  <2>3. Goto(h, SettlePlans(q, q.todo))
    BY <1>1, <1>7 DEF ResolvePlan
  <2> QED BY <1>1, <2>1, <2>2, <2>3, SettlePlansKnown, Moves
<1>8. CASE FindCommitments(h)
  <2>1. PICK todo \in SUBSET Commitments : /\ Goto(h, SettleCommitments(q, todo))
                                           /\ \A c \in todo : IsOf(commitment[c], q.at)
    <3> DEFINE S == {c \in Commitments : Covers(c, q.at, q.date)}
    <3>1. S \in SUBSET Commitments /\ Goto(h, SettleCommitments(q, S)) /\ \A c \in S : IsOf(commitment[c], q.at)
      BY <1>1, <1>8 DEF FindCommitments, Covers
    <3> HIDE DEF S
    <3> QED BY <3>1
  <2>2. \A c \in todo : IsOf(commitment'[c], q.at)
    BY <2>1, CommitmentStep DEF IsOf
  <2>3. q.pc \in StoredPc
    BY <1>1, <1>8 DEF FindCommitments, At, StoredPc
  <2> QED BY <1>1, <2>1, <2>2, <2>3, SettleCommitmentsKnown, Moves
<1>9. CASE SettleCommitment(h)
  <2>1. q.pc = "settle" /\ q.at \in Pair /\ q.date \in Days /\ q.todo \subseteq Commitments
    BY <1>1, <1>9, CallShape DEF SettleCommitment, At, StoredPc
  <2>2. PICK k \in q.todo : Goto(h, [pc |-> "resolve", at |-> q.at, date |-> q.date, c |-> k,
                                     todo |-> q.todo \ {k}])
    BY <1>1, <1>9 DEF SettleCommitment
  <2>3. PICK c \in Call : /\ Goto(h, c) /\ c.pc = "resolve" /\ c.at = q.at /\ c.date = q.date
                          /\ c.todo = q.todo \ {k}
    <3>1. PICK j \in Commitments, left \in SUBSET Commitments : j = k /\ left = q.todo \ {k}
      BY <2>1
    <3> QED BY <2>1, <2>2, <3>1, ReportCalls
  <2>4. Witnessed(c)'
    BY <1>1, <2>1, <2>3, WitnessKept DEF CallKnown, StoredPc
  <2>5. \A j \in c.todo : IsOf(commitment'[j], c.at)
    BY <1>1, <2>1, <2>3, CommitmentStep DEF CallKnown, IsOf
  <2> QED BY <2>3, <2>4, <2>5, Moves DEF CallKnown, SyncPc
<1>10. CASE ResolveCommitmentNotifications(h)
  <2>1. q.pc = "resolve" /\ q.todo \in SUBSET Commitments /\ q.pc \in StoredPc
    BY <1>1, <1>10, CallShape DEF ResolveCommitmentNotifications, At, StoredPc
  <2>2. \A c \in q.todo : IsOf(commitment'[c], q.at)
    BY <1>1, <2>1, CommitmentStep DEF CallKnown, IsOf
  <2>3. Goto(h, SettleCommitments(q, q.todo))
    BY <1>1, <1>10 DEF ResolveCommitmentNotifications
  <2> QED BY <1>1, <2>1, <2>2, <2>3, SettleCommitmentsKnown, Moves
<1> QED BY <1>3, <1>4, <1>5, <1>6, <1>7, <1>8, <1>9, <1>10 DEF Report

LEMMA StepDiary ==
  ASSUME KnownInv, [Next]_vars, NEW h \in Handlers,
         \/ Diary(h)
         \/ \E at \in Pair : CreateVisit(h, at) \/ CreateCommitment(h, at)
         \/ \E c \in Commitments : UpdateCommitment(h, c)
  PROVE  CallsOK'
<1>1. PICK q \in Call : q = call[h] /\ CallKnown(q)
  BY DEF KnownInv, TypeOK
<1>2. commitment \in [Commitments -> Commitment] /\ IdleCall \in Call
  BY DEF KnownInv, TypeOK, Call
<1>3. ASSUME NEW at \in Pair, CreateVisit(h, at) PROVE CallsOK'
  <2>1. PICK c \in Call : Goto(h, c) /\ c.pc = "link"
    BY <1>3, TodayIsDay, ReportCalls DEF CreateVisit
  <2> QED BY <2>1, Moves DEF CallKnown, StoredPc, SyncPc
<1>4. ASSUME NEW at \in Pair, CreateCommitment(h, at) PROVE CallsOK'
  <2>0. PICK from \in Today..LastDay : \E to \in from..LastDay :
          Goto(h, [pc |-> "insert", at |-> at, from |-> from, to |-> to])
    BY <1>4 DEF CreateCommitment
  <2>1. PICK to \in from..LastDay :
          Goto(h, [pc |-> "insert", at |-> at, from |-> from, to |-> to])
    BY <2>0
  <2>2. from \in Days /\ to \in Days /\ from <= to
    BY <2>1, TodayIsDay, BoundsAssumption DEF Days
  <2>3. PICK c \in Call : Goto(h, c) /\ c.pc = "insert" /\ c.from <= c.to
    BY <2>1, <2>2, DiaryCalls
  <2> QED BY <2>3, Moves DEF CallKnown, StoredPc, SyncPc
<1>5. CASE InsertCommitment(h)
  <2>1. q.pc = "insert" /\ q.at \in Pair /\ q.from \in Days /\ q.to \in Days /\ q.from <= q.to
    BY <1>1, <1>5, CallShape DEF InsertCommitment, At, CallKnown
  <2>2. q.from..q.to \in SUBSET Days /\ q.from \in q.from..q.to
    BY <2>1, BoundsAssumption DEF Days
  <2>3. Goto(h, [pc |-> "plan", at |-> q.at, todo |-> q.from..q.to])
    BY <1>1, <1>5 DEF InsertCommitment
  <2>4. PICK todo \in SUBSET Days : todo = q.from..q.to
    BY <2>2
  <2>5. PICK c \in Call : Goto(h, c) /\ c.pc = "plan" /\ c.todo # {}
    BY <2>1, <2>2, <2>3, <2>4, DiaryCalls
  <2> QED BY <2>5, Moves DEF CallKnown, StoredPc, SyncPc
<1>6. CASE PlanNextDate(h)
  <2>1. /\ q.pc = "plan" /\ q.at \in Pair /\ q.todo \subseteq Days
        /\ q = [pc |-> "plan", at |-> q.at, todo |-> q.todo]
    BY <1>1, <1>6, CallShape, CallFields DEF PlanNextDate, At
  <2>2. PICK left \in SUBSET Days : Goto(h, IF left = {} THEN IdleCall ELSE [q EXCEPT !.todo = left])
    BY <1>1, <1>6, <2>1 DEF PlanNextDate
  <2>3. [q EXCEPT !.todo = left] = [pc |-> "plan", at |-> q.at, todo |-> left]
    BY <2>1
  <2>4. PICK c \in Call : Goto(h, c) /\ (c.pc = "idle" \/ (c.pc = "plan" /\ c.todo # {}))
    BY <1>2, <2>1, <2>2, <2>3, DiaryCalls DEF IdleCall
  <2> QED BY <2>4, Moves DEF CallKnown, StoredPc, SyncPc
<1>7. ASSUME NEW k \in Commitments, UpdateCommitment(h, k) PROVE CallsOK'
  <2>1. commitment[k].status # "none" /\ commitment[k] \in FullCommitment
    BY <1>2, <1>7, CommitmentShape DEF UpdateCommitment
  <2>0. PICK st \in {commitment[k].status, "active", "cancelled"}, from \in Days :
          \E to \in from..LastDay :
            Goto(h, [pc |-> "update", c |-> k, seen |-> commitment[k],
                     doc |-> [commitment[k] EXCEPT !.status = st, !.from = from, !.to = to]])
    BY <1>7 DEF UpdateCommitment
  <2>2. PICK to \in from..LastDay :
          Goto(h, [pc |-> "update", c |-> k, seen |-> commitment[k],
                   doc |-> [commitment[k] EXCEPT !.status = st, !.from = from, !.to = to]])
    BY <2>0
  <2> DEFINE x == [commitment[k] EXCEPT !.status = st, !.from = from, !.to = to]
  <2>3. x = [status |-> st, s |-> commitment[k].s, w |-> commitment[k].w, from |-> from, to |-> to]
    BY <2>1, ChangedCommitment
  <2>4. to \in Days
    BY <2>2, BoundsAssumption DEF Days
  <2>5. x \in FullCommitment /\ commitment[k] \in Commitment /\ x \in Commitment
    BY <2>1, <2>2, <2>3, <2>4, FullTypes DEF FullCommitment
  <2>6. /\ x.s = commitment[k].s /\ x.w = commitment[k].w
        /\ x.status = "completed" => commitment[k].status = "completed"
    BY <2>2, <2>3
  <2> HIDE DEF x
  <2>7. PICK c \in Call : /\ Goto(h, c) /\ c.pc = "update" /\ c.c = k /\ c.seen = commitment[k]
                          /\ c.doc = x
    BY <2>2, <2>5, UpdateCalls DEF x
  <2>8. commitment'[k].status # "none"
    BY <2>1, CommitmentStep
  <2> QED BY <2>1, <2>5, <2>6, <2>7, <2>8, Moves DEF CallKnown, StoredPc, SyncPc
<1>8. CASE SaveCommitment(h)
  <2>1. q.c \in Commitments
    BY <1>1, <1>8, CallShape DEF SaveCommitment, At
  <2>2. PICK c \in Call : Goto(h, c) /\ c.pc \in {"idle", "updated"}
    BY <1>1, <1>2, <1>8, <2>1, UpdateCalls DEF SaveCommitment, IdleCall
  <2> QED BY <2>2, Moves DEF CallKnown, StoredPc, SyncPc
<1>9. CASE ResolveUpdated(h)
  BY <1>2, <1>9, Moves DEF ResolveUpdated, CallKnown, StoredPc, SyncPc, IdleCall
<1> QED BY <1>3, <1>4, <1>5, <1>6, <1>7, <1>8, <1>9 DEF Diary


LEMMA StepSync ==
  ASSUME KnownInv, [Next]_vars, NEW h \in Handlers, SyncDynamicNotifications(h) \/ Poll(h)
  PROVE  CallsOK'
<1>1. PICK q \in Call : q = call[h] /\ CallKnown(q)
  BY DEF KnownInv, TypeOK
<1>2. IdleCall \in Call /\ [pc |-> "findOverdue"] \in Call /\ [pc |-> "findDue"] \in Call
  BY DEF Call
<1>3. ASSUME NEW todo \in SUBSET Commitments, NEW today \in Days,
             Goto(h, SyncReminders(todo, today)) \/ Goto(h, SyncOverdue(todo, today))
      PROVE  CallsOK'
  <2>1. PICK c \in Call : /\ Goto(h, c)
                          /\ c.pc \in {"findOverdue", "findDue", "syncReminders", "syncOverdue"}
    BY <1>3, SyncCalls DEF SyncReminders, SyncOverdue
  <2> QED BY <2>1, Moves DEF CallKnown, StoredPc, SyncPc
<1>4. CASE Poll(h)
  <2> DEFINE S == {c \in Commitments : /\ commitment[c].status = "active"
                                       /\ commitment[c].from <= Today /\ Today <= commitment[c].to}
  <2>1. S \in SUBSET Commitments /\ Goto(h, SyncReminders(S, Today))
    BY <1>4 DEF Poll
  <2> HIDE DEF S
  <2> QED BY <1>3, <2>1, TodayIsDay
<1>5. CASE Remind(h)
  <2>1. q.todo \subseteq Commitments /\ q.today \in Days
    BY <1>1, <1>5, CallShape DEF Remind, At
  <2>2. PICK k \in q.todo : Goto(h, SyncReminders(q.todo \ {k}, q.today))
    BY <1>1, <1>5 DEF Remind
  <2> QED BY <1>3, <2>1, <2>2
<1>6. CASE FindOverdue(h)
  <2> DEFINE S == {c \in Commitments : commitment[c].status = "active" /\ commitment[c].to < Today}
  <2>1. S \in SUBSET Commitments /\ Goto(h, SyncOverdue(S, Today))
    BY <1>6 DEF FindOverdue
  <2> HIDE DEF S
  <2> QED BY <1>3, <2>1, TodayIsDay
<1>7. CASE NotifyOverdue(h)
  <2>1. q.todo \subseteq Commitments /\ q.today \in Days
    BY <1>1, <1>7, CallShape DEF NotifyOverdue, At
  <2>2. PICK k \in q.todo : Goto(h, SyncOverdue(q.todo \ {k}, q.today))
    BY <1>1, <1>7 DEF NotifyOverdue
  <2> QED BY <1>3, <2>1, <2>2
<1>8. ASSUME NEW todo \in SUBSET Todo, NEW today \in Days, Goto(h, SyncPlans(todo, today)),
             \A x \in todo : planned[x.p].status # "none"
      PROVE  CallsOK'
  <2>1. \A x \in todo : planned'[x.p].status # "none"
    BY <1>8, PlanStep DEF Todo
  <2> QED BY <1>8, <2>1, SyncPlansKnown, Moves
<1>9. CASE FindDue(h)
  <2>1. PICK due \in SUBSET Plans : /\ \A p \in due : planned[p].status = "planned"
            /\ Goto(h, SyncPlans({[p |-> p, date |-> planned[p].date] : p \in due}, Today))
    <3> DEFINE S == {p \in Plans : planned[p].status = "planned" /\ planned[p].date <= Today}
    <3>1. /\ S \in SUBSET Plans /\ \A p \in S : planned[p].status = "planned"
          /\ Goto(h, SyncPlans({[p |-> p, date |-> planned[p].date] : p \in S}, Today))
      BY <1>9 DEF FindDue
    <3> HIDE DEF S
    <3> QED BY <3>1
  <2> DEFINE todo == {[p |-> p, date |-> planned[p].date] : p \in due}
  <2>2. \A p \in due : planned[p].date \in Days
    BY <2>1, PlanShape DEF KnownInv, TypeOK
  <2>3. todo \in SUBSET Todo /\ \A x \in todo : planned[x.p].status # "none"
    BY <2>1, <2>2 DEF Todo
  <2>4. Goto(h, SyncPlans(todo, Today))
    BY <2>1
  <2> HIDE DEF todo
  <2> QED BY <1>8, <2>3, <2>4, TodayIsDay
<1>10. CASE LookForVisit(h)
  <2>1. q.pc = "syncPlans" /\ q.todo \subseteq Todo /\ q.today \in Days
    BY <1>1, <1>10, CallShape DEF LookForVisit, At, SyncPc
  <2>2. PICK now \in q.todo, n \in {"syncSettle", "syncNotice"} :
          Goto(h, [pc |-> n, today |-> q.today, now |-> now, todo |-> q.todo \ {now}])
    BY <1>1, <1>10 DEF LookForVisit
  <2>3. PICK left \in SUBSET Todo : left = q.todo \ {now}
    BY <2>1
  <2>4. PICK c \in Call : /\ Goto(h, c) /\ c.pc \in {"syncSettle", "syncNotice"}
                          /\ c.now = now /\ c.todo = left
    BY <2>1, <2>2, <2>3, SyncCalls
  <2>5. \A x \in q.todo : planned'[x.p].status # "none"
    BY <1>1, <2>1, PlanStep DEF CallKnown, SyncPc, Todo
  <2>6. planned'[c.now.p].status # "none" /\ \A x \in c.todo : planned'[x.p].status # "none"
    BY <2>2, <2>3, <2>4, <2>5
  <2> QED BY <2>4, <2>6, Moves DEF CallKnown, StoredPc, SyncPc
<1>11. CASE NotifyPlan(h) \/ SyncResolve(h)
  <2>1. q.pc \in SyncPc
    BY <1>1, <1>11 DEF NotifyPlan, SyncResolve, At, SyncPc
  <2>2. Goto(h, SyncPlans(q.todo, q.today))
    BY <1>1, <1>11 DEF NotifyPlan, SyncResolve
  <2>3. q.todo \in SUBSET Todo /\ q.today \in Days
    BY <2>1, CallShape
  <2> QED BY <1>1, <1>8, <2>1, <2>2, <2>3 DEF CallKnown
<1>12. CASE SyncSettle(h)
  <2>1. /\ q.pc = "syncSettle" /\ q.todo \in SUBSET Todo /\ q.today \in Days /\ q.now \in Todo
        /\ q = [pc |-> "syncSettle", today |-> q.today, now |-> q.now, todo |-> q.todo]
    BY <1>1, <1>12, CallShape, CallFields DEF SyncSettle, At, SyncPc
  <2>2. [q EXCEPT !.pc = "syncResolve"] =
          [pc |-> "syncResolve", today |-> q.today, now |-> q.now, todo |-> q.todo]
    BY <2>1
  <2>3. Goto(h, [q EXCEPT !.pc = "syncResolve"])
    BY <1>1, <1>12 DEF SyncSettle
  <2>4. PICK c \in Call : Goto(h, c) /\ c.pc = "syncResolve" /\ c.now = q.now /\ c.todo = q.todo
    BY <2>1, <2>2, <2>3, SyncCalls
  <2>5. \A x \in q.todo : planned'[x.p].status # "none"
    BY <1>1, <2>1, PlanStep DEF CallKnown, SyncPc, Todo
  <2>6. planned'[q.now.p].status # "none"
    BY <1>1, <2>1, PlanStep DEF CallKnown, SyncPc, Todo
  <2> QED BY <2>4, <2>5, <2>6, Moves DEF CallKnown, StoredPc, SyncPc
<1> QED BY <1>4, <1>5, <1>6, <1>7, <1>9, <1>10, <1>11, <1>12 DEF SyncDynamicNotifications

LEMMA StepCalls ==
  ASSUME KnownInv, [Next]_vars
  PROVE  CallsOK'
<1>1. CASE \E h \in Handlers : Report(h)
  BY <1>1, StepReport
<1>2. CASE \E h \in Handlers : Diary(h) \/ \E at \in Pair : CreateVisit(h, at) \/ CreateCommitment(h, at)
  BY <1>2, StepDiary
<1>3. CASE \E h \in Handlers, c \in Commitments : UpdateCommitment(h, c)
  BY <1>3, StepDiary
<1>4. CASE \E h \in Handlers : SyncDynamicNotifications(h) \/ Poll(h)
  BY <1>4, StepSync
<1>5. CASE Crash
  <2>1. call' = [h \in Handlers |-> IdleCall] /\ IdleCall \in Call
    BY <1>5 DEF Crash, Call
  <2> QED BY <2>1 DEF CallsOK, CallKnown, IdleCall, StoredPc, SyncPc
<1>6. CASE call' = call
  BY <1>6, Stays
<1>7. CASE \/ \E h \in Handlers, at \in Pair : CreatePlan(h, at)
           \/ \E h \in Handlers, v \in Visits : UpdateStatus(h, v)
           \/ \E h \in Handlers, p \in Plans : UpdatePlan(h, p)
           \/ \E h \in Handlers, s \in Supervisors : UpdateSupervisor(h, s) \/ MarkAllRead(h, s)
           \/ \E h \in Handlers : \E n \in unread : MarkRead(h, n)
           \/ Midnight \/ Morning
  BY <1>6, <1>7 DEF CreatePlan, UpdateStatus, UpdatePlan, UpdateSupervisor, MarkAllRead, MarkRead,
     Midnight, Morning
<1> QED BY <1>1, <1>2, <1>3, <1>4, <1>5, <1>6, <1>7 DEF Next, vars

LEMMA StepClock ==
  ASSUME KnownInv, [Next]_vars
  PROVE  day' \in Days /\ lag' \in BOOLEAN /\ (lag' => day' # 0)
<1>1. day \in Days /\ lag \in BOOLEAN /\ (lag => day # 0)
  BY DEF KnownInv, TypeOK
<1>2. CASE Midnight
  BY <1>1, <1>2, BoundsAssumption DEF Midnight, Days
<1>3. CASE Morning
  BY <1>1, <1>3 DEF Morning
<1>4. CASE UNCHANGED clock
  BY <1>1, <1>4 DEF clock
<1>5. Midnight \/ Morning \/ UNCHANGED clock
  BY ZenonT(120) DEF Next, vars, clock, Report, Diary, SyncDynamicNotifications, CreateVisit, Link, StoreVisit,
     FindPlans, SettlePlan, ResolvePlan, FindCommitments, SettleCommitment,
     ResolveCommitmentNotifications, UpdateStatus, CreateCommitment, InsertCommitment,
     PlanNextDate, CreatePlan, UpdatePlan, UpdateCommitment, SaveCommitment, ResolveUpdated, Poll,
     Remind, FindOverdue, NotifyOverdue, FindDue, LookForVisit, NotifyPlan, SyncSettle,
     SyncResolve, MarkRead, MarkAllRead, UpdateSupervisor, Crash
<1> QED BY <1>2, <1>3, <1>4, <1>5

\* Stars and blocks are only written between calls of the handler that does it.
LEMMA WritesPeople ==
  ASSUME [Next]_vars
  PROVE  UNCHANGED people \/ \E h \in Handlers, s \in Supervisors : UpdateSupervisor(h, s)
BY ZenonT(120) DEF Next, vars, people, Report, Diary, SyncDynamicNotifications, CreateVisit, Link, StoreVisit,
   FindPlans, SettlePlan, ResolvePlan, FindCommitments, SettleCommitment,
   ResolveCommitmentNotifications, UpdateStatus, CreateCommitment, InsertCommitment,
   PlanNextDate, CreatePlan, UpdatePlan, UpdateCommitment, SaveCommitment, ResolveUpdated, Poll,
   Remind, FindOverdue, NotifyOverdue, FindDue, LookForVisit, NotifyPlan, SyncSettle,
   SyncResolve, MarkRead, MarkAllRead, Midnight, Morning, Crash

LEMMA StepPeople ==
  ASSUME KnownInv, [Next]_vars
  PROVE  star' \subseteq Supervisors /\ blocks' \in [Supervisors -> SUBSET Schools]
<1>1. star \subseteq Supervisors /\ blocks \in [Supervisors -> SUBSET Schools]
  BY DEF KnownInv, TypeOK
<1>2. ASSUME NEW h \in Handlers, NEW s \in Supervisors, UpdateSupervisor(h, s)
      PROVE  star' \subseteq Supervisors /\ blocks' \in [Supervisors -> SUBSET Schools]
  BY <1>1, <1>2 DEF UpdateSupervisor
<1> QED BY <1>1, <1>2, WritesPeople DEF people

LEMMA WritesNotices ==
  ASSUME [Next]_vars
  PROVE  \/ UNCHANGED notices
         \/ /\ sent' = sent
            /\ \E h \in Handlers : \/ ResolvePlan(h) \/ ResolveCommitmentNotifications(h)
                                   \/ ResolveUpdated(h) \/ SyncResolve(h)
                                   \/ \E n \in unread : MarkRead(h, n)
                                   \/ \E s \in Supervisors : MarkAllRead(h, s)
         \/ \E h \in Handlers : Remind(h) \/ NotifyOverdue(h) \/ NotifyPlan(h)
BY ZenonT(120) DEF Next, vars, notices, Report, Diary, SyncDynamicNotifications, CreateVisit, Link, StoreVisit,
   FindPlans, SettlePlan, ResolvePlan, FindCommitments, SettleCommitment,
   ResolveCommitmentNotifications, UpdateStatus, CreateCommitment, InsertCommitment,
   PlanNextDate, CreatePlan, UpdatePlan, UpdateCommitment, SaveCommitment, ResolveUpdated, Poll,
   FindOverdue, FindDue, LookForVisit, SyncSettle, store, bounds,
   SyncResolve, MarkRead, MarkAllRead, UpdateSupervisor, Midnight, Morning, Crash

\* The notice a poll sends.
LEMMA Notices ==
  ASSUME KnownInv, NEW h \in Handlers, NEW q \in Call, q = call[h]
  PROVE  /\ Remind(h) => \E c \in q.todo : /\ c \in Commitments
                                           /\ Send([kind |-> "reminder", ref |-> c, on |-> q.today])
                                           /\ [kind |-> "reminder", ref |-> c, on |-> q.today] \in Notice
         /\ NotifyOverdue(h) => \E c \in q.todo : /\ c \in Commitments
                                           /\ Send([kind |-> "overdue", ref |-> c, on |-> q.today])
                                           /\ [kind |-> "overdue", ref |-> c, on |-> q.today] \in Notice
         /\ NotifyPlan(h) => \E k \in {"due", "missed"} :
                               /\ k = "missed" => q.now.date # q.today
                               /\ Send([kind |-> k, ref |-> q.now.p])
                               /\ [kind |-> k, ref |-> q.now.p] \in Notice
<1>1. CASE Remind(h)
  <2>1. q.pc = "syncReminders" /\ q.todo \subseteq Commitments /\ q.today \in Days
    BY <1>1, CallShape DEF Remind, At
  <2>2. PICK c \in q.todo : Send([kind |-> "reminder", ref |-> c, on |-> q.today])
    BY <1>1 DEF Remind
  <2>3. [kind |-> "reminder", ref |-> c, on |-> q.today] \in Notice
    BY <2>1 DEF Notice
  <2> QED BY <2>1, <2>2, <2>3 DEF NotifyOverdue, NotifyPlan, At
<1>2. CASE NotifyOverdue(h)
  <2>1. q.pc = "syncOverdue" /\ q.todo \subseteq Commitments /\ q.today \in Days
    BY <1>2, CallShape DEF NotifyOverdue, At
  <2>2. PICK c \in q.todo : Send([kind |-> "overdue", ref |-> c, on |-> q.today])
    BY <1>2 DEF NotifyOverdue
  <2>3. [kind |-> "overdue", ref |-> c, on |-> q.today] \in Notice
    BY <2>1 DEF Notice
  <2> QED BY <2>1, <2>2, <2>3 DEF Remind, NotifyPlan, At
<1>3. CASE NotifyPlan(h)
  <2>1. q.pc = "syncNotice" /\ q.now \in Todo
    BY <1>3, CallShape DEF NotifyPlan, At, SyncPc
  <2>2. PICK k \in {"due", "missed"} : /\ k = "missed" => q.now.date # q.today
                                       /\ Send([kind |-> k, ref |-> q.now.p])
    BY <1>3 DEF NotifyPlan
  <2>3. [kind |-> k, ref |-> q.now.p] \in Notice
    BY <2>1 DEF Notice, Todo
  <2> QED BY <2>1, <2>2, <2>3 DEF Remind, NotifyOverdue, At
<1> QED BY <1>1, <1>2, <1>3

LEMMA StepNotices ==
  ASSUME KnownInv, [Next]_vars
  PROVE  sent' \subseteq Notice /\ unread' \subseteq sent'
<1>1. sent \subseteq Notice /\ unread \subseteq sent
  BY DEF KnownInv, TypeOK
<1>2. ASSUME NEW n \in Notice, Send(n)
      PROVE  sent' \subseteq Notice /\ unread' \subseteq sent'
  BY <1>1, <1>2 DEF Send, notices
<1>3. CASE \E h \in Handlers : Remind(h) \/ NotifyOverdue(h) \/ NotifyPlan(h)
  <2>1. PICK h \in Handlers : Remind(h) \/ NotifyOverdue(h) \/ NotifyPlan(h)
    BY <1>3
  <2>2. PICK q \in Call : q = call[h]
    BY DEF KnownInv, TypeOK
  <2> QED BY <1>2, <2>1, <2>2, Notices
<1>4. CASE /\ sent' = sent
           /\ \E h \in Handlers : \/ ResolvePlan(h) \/ ResolveCommitmentNotifications(h)
                                  \/ ResolveUpdated(h) \/ SyncResolve(h)
                                  \/ \E n \in unread : MarkRead(h, n)
                                  \/ \E s \in Supervisors : MarkAllRead(h, s)
  <2>1. unread' \subseteq unread
    BY <1>4 DEF ResolvePlan, ResolveCommitmentNotifications, ResolveUpdated, SyncResolve, MarkRead,
       MarkAllRead
  <2> QED BY <1>1, <1>4, <2>1
<1> QED BY <1>1, <1>3, <1>4, WritesNotices DEF notices

LEMMA StepBounds ==
  ASSUME KnownInv, [Next]_vars
  PROVE  /\ changes' \in Nat /\ crashes' \in Nat
         /\ crashes' = crashes \/ (Crash /\ crashes' = crashes + 1)
<1>1. changes \in Nat /\ crashes \in Nat
  BY DEF KnownInv, TypeOK
<1>2. /\ changes' \in {changes, changes + 1}
      /\ crashes' = crashes \/ (Crash /\ crashes' = crashes + 1)
  BY DEF Next, vars, bounds, Report, Diary, SyncDynamicNotifications, CreateVisit, Link, StoreVisit,
     FindPlans, SettlePlan, ResolvePlan, FindCommitments, SettleCommitment,
     ResolveCommitmentNotifications, UpdateStatus, CreateCommitment, InsertCommitment,
     PlanNextDate, CreatePlan, UpdatePlan, UpdateCommitment, SaveCommitment, ResolveUpdated, Poll,
     Remind, FindOverdue, NotifyOverdue, FindDue, LookForVisit, NotifyPlan, SyncSettle,
     SyncResolve, MarkRead, MarkAllRead, UpdateSupervisor, Midnight, Morning, Crash
<1> QED BY <1>1, <1>2

LEMMA InitKnown ==
  ASSUME Init
  PROVE  KnownInv /\ \A h \in Handlers : call[h] = IdleCall
<1>1. IdleCall \in Call /\ IdleCall.pc = "idle"
  BY DEF Call, IdleCall
<1>2. TypeOK
  <2>1. day \in Days /\ changes \in Nat /\ crashes \in Nat
    BY BoundsAssumption DEF Init, Days
  <2>4. /\ lag \in BOOLEAN /\ star \subseteq Supervisors
        /\ blocks \in [Supervisors -> SUBSET Schools]
        /\ sent \subseteq Notice /\ unread \subseteq sent
    BY DEF Init
  <2>2. /\ visit \in [Visits -> Visit]
        /\ commitment \in [Commitments -> Commitment]
        /\ planned \in [Plans -> Plan]
    BY DEF Init, Visit, Commitment, Plan
  <2>3. call \in [Handlers -> Call]
    BY <1>1 DEF Init
  <2> QED BY <2>1, <2>2, <2>3, <2>4 DEF TypeOK
<1>3. \A h \in Handlers : call[h] = IdleCall
  BY DEF Init
<1>4. \A h \in Handlers : CallKnown(call[h])
  BY <1>1, <1>3 DEF CallKnown, StoredPc, SyncPc
<1>5. lag = FALSE
  BY DEF Init
<1> QED BY <1>2, <1>3, <1>4, <1>5 DEF KnownInv

LEMMA StepKnown ==
  ASSUME KnownInv, [Next]_vars
  PROVE  KnownInv'
<1>1. TypeOK'
  BY StepClock, StepPeople, VisitStep, CommitmentStep, PlanStep, StepNotices, StepCalls, StepBounds
     DEF TypeOK, CallsOK
<1> QED BY <1>1, StepClock, StepCalls DEF KnownInv, CallsOK

\* Whatever calls interleave and wherever the process dies, every document,
\* notice and call has its shape, and what a call found to settle is still
\* there: for every number of handlers, supervisors and documents.
THEOREM KnownAlways == Spec => []KnownInv
<1>1. Init => KnownInv
  BY InitKnown
<1>2. KnownInv /\ [Next]_vars => KnownInv'
  BY StepKnown
<1> QED BY <1>1, <1>2, PTL DEF Spec

\* The types of FieldVisits, as part of that.
THEOREM TypeCorrect == Spec => []TypeOK
<1>1. KnownInv => TypeOK
  BY DEF KnownInv
<1> QED BY <1>1, KnownAlways, PTL

-----------------------------------------------------------------------------
(* The list of cooldowns.                                                  *)

\* The list the app shows and createVisit look at the same visits.
LEMMA SameDates ==
  ASSUME NEW at \in Pair, at.s \notin star
  PROVE  ShownLastVisit(at) = LastVisitDate(at)
<1> DEFINE shared == IsSchoolSharedVisitCooldown(at.w, blocks)
           counted == {u \in Visits : Reported(u) /\ visit[u].w = at.w /\ (shared \/ visit[u].s = at.s)}
           sharedRows == {u \in Visits : Reported(u) /\ visit[u].w = at.w
                                         /\ IsSchoolSharedVisitCooldown(visit[u].w, blocks)}
           soloRows == {u \in Visits : IsOf(visit[u], at)
                                       /\ ~IsSchoolSharedVisitCooldown(visit[u].w, blocks)}
           Latest(d) == IF d = {} THEN NoVisitYet ELSE CHOOSE x \in d : \A e \in d : e <= x
<1>1. sharedRows \cup soloRows = counted
  <2>1. ASSUME NEW u \in Visits PROVE u \in counted <=> u \in sharedRows \cup soloRows
    <3>1. CASE visit[u].w = at.w
      <4>1. IsSchoolSharedVisitCooldown(visit[u].w, blocks) <=> shared
        BY <3>1
      <4> HIDE DEF shared
      <4> QED BY <3>1, <4>1 DEF IsOf, Reported
    <3>2. CASE visit[u].w # at.w
      BY <3>2 DEF IsOf
    <3> QED BY <3>1, <3>2
  <2> QED BY <2>1
<1>2. LastVisitDate(at) = Latest({visit[v].date : v \in counted})
  BY DEF LastVisitDate
<1> DEFINE dates == {visit[v].date : v \in sharedRows \cup soloRows}
<1>3. ShownLastVisit(at) = IF at.s \in star \/ dates = {} THEN NoVisitYet
                           ELSE CHOOSE x \in dates : \A e \in dates : e <= x
  BY DEF ShownLastVisit
<1>4. dates = {visit[v].date : v \in counted}
  BY <1>1
<1> HIDE DEF dates
<1>5. ShownLastVisit(at) = Latest(dates)
  BY <1>3
<1> QED BY <1>2, <1>4, <1>5

\* For every number of supervisors, schools and visits, the list of cooldowns
\* (getSupervisorSchoolCooldowns) lets a supervisor try exactly the schools
\* that createVisit accepts from him (assertSchoolVisitAllowed).
THEOREM ShownIsDecidedAlways == Spec => []ShownIsDecided
<1>1. ShownIsDecided
  <2>1. ASSUME NEW at \in Pair, at.s \in star
        PROVE  ~CooldownActive(ShownLastVisit(at), day) = MayVisitOn(at, day)
    <3>1. ShownLastVisit(at) = NoVisitYet
      BY <2>1 DEF ShownLastVisit
    <3>2. MayVisitOn(at, day) = TRUE
      BY <2>1 DEF MayVisitOn
    <3>3. CooldownActive(NoVisitYet, day) = FALSE
      BY DEF CooldownActive
    <3> QED BY <3>1, <3>2, <3>3
  <2>2. ASSUME NEW at \in Pair, at.s \notin star
        PROVE  ~CooldownActive(ShownLastVisit(at), day) = MayVisitOn(at, day)
    <3>1. MayVisitOn(at, day) = ~CooldownActive(LastVisitDate(at), day)
      BY <2>2 DEF MayVisitOn
    <3> QED BY <2>2, <3>1, SameDates
  <2> QED BY <2>1, <2>2 DEF ShownIsDecided
<1> QED BY <1>1, PTL

-----------------------------------------------------------------------------
(* Calls served one at a time.                                             *)

\* What the handler does next, when it is the only one.
LEMMA Alone ==
  ASSUME IsSerial, [Next]_vars, NEW h \in Handlers
  PROVE  \/ call' = call /\ (Idle(h) \/ UNCHANGED <<people, store, notices>>)
         \/ Report(h) \/ Diary(h) \/ SyncDynamicNotifications(h) \/ Poll(h) \/ Crash
         \/ \E at \in Pair : CreateVisit(h, at) \/ CreateCommitment(h, at)
         \/ \E c \in Commitments : UpdateCommitment(h, c)
<1>1. \A g \in Handlers : g = h
  BY DEF IsSerial
<1>2. CASE \/ \E g \in Handlers : Report(g) \/ Diary(g) \/ SyncDynamicNotifications(g) \/ Poll(g)
           \/ \E g \in Handlers, at \in Pair : CreateVisit(g, at) \/ CreateCommitment(g, at)
           \/ \E g \in Handlers, c \in Commitments : UpdateCommitment(g, c)
           \/ Crash
  BY <1>1, <1>2
<1>3. CASE \/ \E g \in Handlers, at \in Pair : CreatePlan(g, at)
           \/ \E g \in Handlers, v \in Visits : UpdateStatus(g, v)
           \/ \E g \in Handlers, p \in Plans : UpdatePlan(g, p)
           \/ \E g \in Handlers, s \in Supervisors : UpdateSupervisor(g, s) \/ MarkAllRead(g, s)
           \/ \E g \in Handlers : \E n \in unread : MarkRead(g, n)
  BY <1>1, <1>3 DEF CreatePlan, UpdateStatus, UpdatePlan, UpdateSupervisor, MarkAllRead, MarkRead
<1>4. CASE Midnight \/ Morning \/ UNCHANGED vars
  BY <1>4 DEF Midnight, Morning, vars, people, store, notices
<1> QED BY <1>2, <1>3, <1>4 DEF Next

LEMMA Arrives ==
  ASSUME KnownInv, NEW h \in Handlers, NEW c, Goto(h, c)
  PROVE  call'[h] = c
BY DEF KnownInv, TypeOK, Goto

\* The calls that rely on nothing they read.
LEMMA ReliesOnNothing ==
  ASSUME NEW c, c.pc \notin {"link", "store", "settlePlan", "resolvePlan", "findCommitments",
                             "settle", "resolve"} \cup SyncPc
  PROVE  AsRead(c)'
BY DEF AsRead, Rested, Settling, Syncing, SyncPc

\* No visit of the last MinDays days is counted where a visit is allowed.
LEMMA AllowedIsRested ==
  ASSUME KnownInv, NEW at \in Pair, NEW date \in Days, MayVisitOn(at, date), at.s \notin star,
         NEW u \in Visits, Counts(u, at)
  PROVE  date - visit[u].date >= MinDays
<1> DEFINE counted == {visit[v].date : v \in {w \in Visits :
             Reported(w) /\ visit[w].w = at.w
             /\ (IsSchoolSharedVisitCooldown(at.w, blocks) \/ visit[w].s = at.s)}}
           latest == CHOOSE d \in counted : \A e \in counted : e <= d
<1>1. visit[u].date \in counted
  BY DEF Counts
<1>2. counted \subseteq Days
  BY VisitShape DEF KnownInv, TypeOK, Reported
<1>3. LastVisitDate(at) = latest
  BY <1>1 DEF LastVisitDate
<1> HIDE DEF counted
<1>4. latest \in counted /\ visit[u].date <= latest
  BY <1>1, <1>2, LatestDay
<1> HIDE DEF latest
<1>7. latest \in Days /\ visit[u].date \in Days
  BY <1>1, <1>2, <1>4
<1>5. latest \in Int /\ visit[u].date \in Int /\ date \in Int /\ latest >= 0
  BY <1>7, BoundsAssumption DEF Days
<1>6. ~CooldownActive(latest, date)
  BY <1>3 DEF MayVisitOn
<1> QED BY <1>4, <1>5, <1>6, MinDaysAssumption DEF CooldownActive, NoVisitYet

\* The lists a lone report goes through are complete, if nothing else is open.
LEMMA SettlePlansAsRead ==
  ASSUME NEW q, NEW todo, \A p \in Plans : Open(p, q)' => p \in todo
  PROVE  AsRead(SettlePlans(q, todo))'
<1>0. PICK c : c = SettlePlans(q, todo)
  OBVIOUS
<1>1. /\ c.at = q.at /\ c.date = q.date
      /\ \/ c.pc = "findCommitments" /\ todo = {}
         \/ c.pc = "settlePlan" /\ c.todo = todo
  BY <1>0 DEF SettlePlans
<1>2. \A p \in Plans : Open(p, c)' => p \in todo
  BY <1>1 DEF Open, IsOf
<1>3. AsRead(c)'
  BY <1>1, <1>2 DEF AsRead, Rested, Settling, Syncing, SyncPc
<1> QED BY <1>0, <1>3 DEF AsRead, Rested, Settling, Syncing, Open, Covers, Counts

LEMMA SettleCommitmentsAsRead ==
  ASSUME NEW q, NEW todo, \A p \in Plans : ~Open(p, q)',
         \A c \in Commitments : Covers(c, q.at, q.date)' <=> c \in todo
  PROVE  AsRead(SettleCommitments(q, todo))'
<1>0. PICK c : c = SettleCommitments(q, todo)
  OBVIOUS
<1>1. \/ c.pc = "idle"
      \/ c.pc = "settle" /\ c.todo = todo /\ c.at = q.at /\ c.date = q.date
  BY <1>0 DEF SettleCommitments, IdleCall
<1>2. c.pc = "settle" => /\ \A p \in Plans : ~Open(p, c)'
                         /\ \A k \in Commitments : Covers(k, c.at, c.date)' <=> k \in c.todo
  BY <1>1 DEF Open, IsOf, Covers
<1>3. AsRead(c)'
  BY <1>1, <1>2 DEF AsRead, Rested, Settling, Syncing, SyncPc
<1> QED BY <1>0, <1>3 DEF AsRead, Rested, Settling, Syncing, Open, Covers, Counts

LEMMA SyncPlansAsRead ==
  ASSUME NEW todo, NEW today, \A x \in todo : planned'[x.p].date = x.date
  PROVE  AsRead(SyncPlans(todo, today))'
<1>0. PICK c : c = SyncPlans(todo, today)
  OBVIOUS
<1>1. c.pc = "idle" \/ (c.pc = "syncPlans" /\ c.todo = todo)
  BY <1>0 DEF SyncPlans, IdleCall
<1>2. AsRead(c)'
  BY <1>1 DEF AsRead, Rested, Settling, Syncing, SyncPc
<1> QED BY <1>0, <1>2 DEF AsRead, Rested, Settling, Syncing, Open, Covers, Counts

LEMMA AloneReport ==
  ASSUME KnownInv, [Next]_vars, NEW h \in Handlers, Report(h), AsRead(call[h])
  PROVE  \E c : c = call'[h] /\ AsRead(c)'
<1>1. PICK q \in Call : q = call[h] /\ AsRead(q) /\ CallKnown(q)
  BY DEF KnownInv, TypeOK
<1>2. planned \in [Plans -> Plan] /\ commitment \in [Commitments -> Commitment]
  BY DEF KnownInv, TypeOK
<1>3. CASE Link(h)
  <2>1. q.pc = "link" /\ UNCHANGED <<visit, star, blocks>>
    BY <1>1, <1>3 DEF Link, At, store, people
  <2>6. PICK k : Goto(h, [pc |-> "store", at |-> q.at, date |-> q.date, link |-> k])
    BY <1>1, <1>3 DEF Link
  <2>2. PICK c : Goto(h, c) /\ c.pc = "store" /\ c.at = q.at /\ c.date = q.date
    BY <2>6
  <2>3. c.at.s \notin star => \A u \in Visits : Counts(u, c.at) => c.date - visit[u].date >= MinDays
    BY <1>1, <2>1, <2>2 DEF AsRead, Rested
  <2>4. \A u \in Visits : Counts(u, c.at)' <=> Counts(u, c.at)
    BY <2>1 DEF Counts, Reported
  <2>5. AsRead(c)'
    BY <2>1, <2>2, <2>3, <2>4 DEF AsRead, Rested, Settling, Syncing, SyncPc
  <2> QED BY <2>2, <2>5, Arrives
<1>4. CASE StoreVisit(h)
  <2>1. PICK c : Goto(h, c) /\ c.pc = "findPlans"
    BY <1>4 DEF StoreVisit
  <2>2. AsRead(c)'
    BY <2>1, ReliesOnNothing DEF SyncPc
  <2> QED BY <2>1, <2>2, Arrives
<1>5. CASE FindPlans(h)
  <2> DEFINE S == {p \in Plans : /\ planned[p].status = "planned" /\ IsOf(planned[p], q.at)
                                 /\ planned[p].date = q.date}
  <2>1. Goto(h, SettlePlans(q, S)) /\ planned' = planned
    BY <1>1, <1>5 DEF FindPlans, store
  <2>2. \A p \in Plans : Open(p, q)' => p \in S
    BY <2>1 DEF Open, IsOf
  <2> HIDE DEF S
  <2> QED BY <2>1, <2>2, SettlePlansAsRead, Arrives
<1>6. CASE SettlePlan(h)
  <2>1. q.pc = "settlePlan" /\ q.todo \subseteq Plans
    BY <1>1, <1>6, CallShape DEF SettlePlan, At
  <2>2. PICK p \in q.todo : /\ planned' = [planned EXCEPT ![p].status = "completed"]
                            /\ Goto(h, [pc |-> "resolvePlan", at |-> q.at, date |-> q.date, p |-> p,
                                        todo |-> q.todo \ {p}])
    BY <1>1, <1>6 DEF SettlePlan
  <2>3. PICK c : /\ Goto(h, c) /\ c.pc = "resolvePlan" /\ c.at = q.at /\ c.date = q.date
                 /\ c.todo = q.todo \ {p}
    BY <2>2
  <2>4. planned'[p].status = "completed" /\ \A k \in Plans \ {p} : planned'[k] = planned[k]
    BY <1>2, <2>1, <2>2
  <2>5. \A k \in Plans : Open(k, q) => k \in q.todo
    BY <1>1, <2>1 DEF AsRead, Settling
  <2>6. \A k \in Plans : Open(k, c)' => k \in c.todo
    BY <2>3, <2>4, <2>5 DEF Open, IsOf
  <2>7. AsRead(c)'
    BY <2>3, <2>6 DEF AsRead, Rested, Settling, Syncing, SyncPc
  <2> QED BY <2>3, <2>7, Arrives
<1>7. CASE ResolvePlan(h)
  <2>1. q.pc = "resolvePlan" /\ Goto(h, SettlePlans(q, q.todo)) /\ planned' = planned
    BY <1>1, <1>7 DEF ResolvePlan, At, store
  <2>2. \A p \in Plans : Open(p, q)' => p \in q.todo
    BY <1>1, <2>1 DEF AsRead, Settling, Open, IsOf
  <2> QED BY <2>1, <2>2, SettlePlansAsRead, Arrives
<1>8. CASE FindCommitments(h)
  <2> DEFINE S == {c \in Commitments : Covers(c, q.at, q.date)}
  <2>1. /\ q.pc = "findCommitments" /\ Goto(h, SettleCommitments(q, S))
        /\ planned' = planned /\ commitment' = commitment
    BY <1>1, <1>8 DEF FindCommitments, At, store
  <2>2. \A p \in Plans : ~Open(p, q)'
    BY <1>1, <2>1 DEF AsRead, Settling, Open, IsOf
  <2>3. \A c \in Commitments : Covers(c, q.at, q.date)' <=> c \in S
    BY <2>1 DEF Covers, IsOf
  <2> HIDE DEF S
  <2> QED BY <2>1, <2>2, <2>3, SettleCommitmentsAsRead, Arrives
<1>9. CASE SettleCommitment(h)
  <2>1. q.pc = "settle" /\ q.todo \subseteq Commitments /\ planned' = planned
    BY <1>1, <1>9, CallShape DEF SettleCommitment, At
  <2>2. PICK k \in q.todo : /\ commitment' = [commitment EXCEPT ![k].status = "completed"]
                            /\ Goto(h, [pc |-> "resolve", at |-> q.at, date |-> q.date, c |-> k,
                                        todo |-> q.todo \ {k}])
    BY <1>1, <1>9 DEF SettleCommitment
  <2>3. PICK c : /\ Goto(h, c) /\ c.pc = "resolve" /\ c.at = q.at /\ c.date = q.date
                 /\ c.todo = q.todo \ {k}
    BY <2>2
  <2>4. commitment'[k].status = "completed" /\ \A j \in Commitments \ {k} : commitment'[j] = commitment[j]
    BY <1>2, <2>1, <2>2
  <2>5. \A p \in Plans : ~Open(p, c)'
    BY <1>1, <2>1, <2>3 DEF AsRead, Settling, Open, IsOf
  <2>6. \A j \in Commitments : Covers(j, q.at, q.date) <=> j \in q.todo
    BY <1>1, <2>1 DEF AsRead, Settling
  <2>7. ASSUME NEW j \in Commitments PROVE Covers(j, c.at, c.date)' <=> j \in c.todo
    <3>1. CASE j = k
      BY <2>3, <2>4, <3>1 DEF Covers
    <3>2. CASE j # k
      <4>1. commitment'[j] = commitment[j]
        BY <2>4, <3>2
      <4>2. Covers(j, q.at, q.date) <=> j \in c.todo
        BY <2>3, <2>6, <3>2
      <4> QED BY <2>3, <4>1, <4>2 DEF Covers, IsOf
    <3> QED BY <3>1, <3>2
  <2>8. AsRead(c)'
    BY <2>3, <2>5, <2>7 DEF AsRead, Rested, Settling, Syncing, SyncPc
  <2> QED BY <2>3, <2>8, Arrives
<1>10. CASE ResolveCommitmentNotifications(h)
  <2>1. /\ q.pc = "resolve" /\ Goto(h, SettleCommitments(q, q.todo))
        /\ planned' = planned /\ commitment' = commitment
    BY <1>1, <1>10 DEF ResolveCommitmentNotifications, At, store
  <2>2. \A p \in Plans : ~Open(p, q)'
    BY <1>1, <2>1 DEF AsRead, Settling, Open, IsOf
  <2>3. \A c \in Commitments : Covers(c, q.at, q.date)' <=> c \in q.todo
    BY <1>1, <2>1 DEF AsRead, Settling, Covers, IsOf
  <2> QED BY <2>1, <2>2, <2>3, SettleCommitmentsAsRead, Arrives
<1> QED BY <1>3, <1>4, <1>5, <1>6, <1>7, <1>8, <1>9, <1>10 DEF Report

LEMMA AloneSync ==
  ASSUME KnownInv, [Next]_vars, NEW h \in Handlers, SyncDynamicNotifications(h) \/ Poll(h),
         AsRead(call[h])
  PROVE  \E c : c = call'[h] /\ AsRead(c)'
<1>1. PICK q \in Call : q = call[h] /\ AsRead(q) /\ CallKnown(q)
  BY DEF KnownInv, TypeOK
<1>2. planned \in [Plans -> Plan]
  BY DEF KnownInv, TypeOK
<1>3. CASE Poll(h) \/ Remind(h) \/ FindOverdue(h) \/ NotifyOverdue(h)
  <2>3. \E todo, today : Goto(h, SyncReminders(todo, today)) \/ Goto(h, SyncOverdue(todo, today))
    BY <1>3 DEF Poll, Remind, FindOverdue, NotifyOverdue
  <2>1. PICK c : Goto(h, c) /\ c.pc \in {"findOverdue", "findDue", "syncReminders", "syncOverdue"}
    BY <2>3 DEF SyncReminders, SyncOverdue
  <2>2. AsRead(c)'
    BY <2>1, ReliesOnNothing DEF SyncPc
  <2> QED BY <2>1, <2>2, Arrives
<1>4. CASE FindDue(h)
  <2> DEFINE S == {p \in Plans : planned[p].status = "planned" /\ planned[p].date <= Today}
             todo == {[p |-> p, date |-> planned[p].date] : p \in S}
  <2>1. Goto(h, SyncPlans(todo, Today)) /\ planned' = planned
    BY <1>4 DEF FindDue, store
  <2>2. \A x \in todo : planned'[x.p].date = x.date
    BY <2>1
  <2> HIDE DEF S, todo
  <2>3. PICK today : today = Today
    OBVIOUS
  <2> QED BY <2>1, <2>2, <2>3, SyncPlansAsRead, Arrives
<1>5. CASE LookForVisit(h)
  <2>1. q.pc = "syncPlans" /\ planned' = planned /\ visit' = visit
    BY <1>1, <1>5 DEF LookForVisit, At, store
  <2>2. PICK now \in q.todo, n \in {"syncSettle", "syncNotice"} :
          /\ Goto(h, [pc |-> n, today |-> q.today, now |-> now, todo |-> q.todo \ {now}])
          /\ n = "syncNotice" =>
               ~\E v \in Visits : IsOf(visit[v], planned[now.p]) /\ visit[v].date = now.date
    BY <1>1, <1>5 DEF LookForVisit
  <2>3. PICK c : Goto(h, c) /\ c.pc = n /\ c.now = now /\ c.todo = q.todo \ {now}
    BY <2>2
  <2>4. \A x \in q.todo : planned'[x.p].date = x.date
    BY <1>1, <2>1 DEF AsRead, Syncing, SyncPc
  <2>5. n = "syncNotice" =>
          ~\E v \in Visits : IsOf(visit'[v], planned'[c.now.p]) /\ visit'[v].date = c.now.date
    BY <2>1, <2>2, <2>3 DEF IsOf
  <2>6. AsRead(c)'
    BY <2>2, <2>3, <2>4, <2>5 DEF AsRead, Rested, Settling, Syncing, SyncPc, IsOf
  <2> QED BY <2>3, <2>6, Arrives
<1>6. CASE NotifyPlan(h) \/ SyncResolve(h)
  <2>1. q.pc \in SyncPc /\ Goto(h, SyncPlans(q.todo, q.today)) /\ planned' = planned
    BY <1>1, <1>6 DEF NotifyPlan, SyncResolve, At, SyncPc, store
  <2>2. \A x \in q.todo : planned'[x.p].date = x.date
    BY <1>1, <2>1 DEF AsRead, Syncing
  <2> QED BY <2>1, <2>2, SyncPlansAsRead, Arrives
<1>7. CASE SyncSettle(h)
  <2>1. /\ q.pc = "syncSettle" /\ q.todo \subseteq Todo /\ q.now \in Todo
        /\ planned[q.now.p].status # "none"
        /\ q = [pc |-> "syncSettle", today |-> q.today, now |-> q.now, todo |-> q.todo]
    BY <1>1, <1>7, CallShape, CallFields DEF SyncSettle, At, SyncPc, CallKnown
  <2>2. PICK c : Goto(h, c) /\ c.pc = "syncResolve" /\ c.todo = q.todo
    BY <1>1, <1>7, <2>1 DEF SyncSettle
  <2>3. planned' = [planned EXCEPT ![q.now.p].status = "completed"]
    BY <1>1, <1>7 DEF SyncSettle
  <2>4. PICK k \in Plans : k = q.now.p
    BY <2>1 DEF Todo
  <2>5. PICK x \in FullPlan : x = planned[k]
    BY <1>2, <2>1, <2>4, PlanShape
  <2>6. [x EXCEPT !.status = "completed"].date = x.date
    BY DEF FullPlan
  <2>7. \A p \in Plans : planned'[p].date = planned[p].date
    BY <1>2, <2>3, <2>4, <2>5, <2>6
  <2>8. \A y \in q.todo : y.p \in Plans /\ planned[y.p].date = y.date
    BY <1>1, <2>1 DEF AsRead, Syncing, SyncPc, Todo
  <2>9. AsRead(c)'
    BY <2>2, <2>7, <2>8 DEF AsRead, Rested, Settling, Syncing, SyncPc
  <2> QED BY <2>2, <2>9, Arrives
<1> QED BY <1>3, <1>4, <1>5, <1>6, <1>7 DEF SyncDynamicNotifications

LEMMA AloneStep ==
  ASSUME SerialInv, [Next]_vars, IsSerial, NEW h \in Handlers
  PROVE  AsRead(call[h])'
<1>1. PICK q \in Call : q = call[h] /\ AsRead(q) /\ KnownInv
  BY DEF SerialInv, KnownInv, TypeOK
<1>2. SUFFICES \E c : c = call'[h] /\ AsRead(c)'
  BY DEF AsRead, Rested, Settling, Syncing, Open, Covers, Counts
<1>3. CASE Report(h)
  BY <1>1, <1>3, AloneReport
<1>4. CASE SyncDynamicNotifications(h) \/ Poll(h)
  BY <1>1, <1>4, AloneSync
<1>5. ASSUME NEW c, Goto(h, c), c.pc \in {"idle", "insert", "plan", "update", "updated"}
      PROVE  \E k : k = call'[h] /\ AsRead(k)'
  BY <1>1, <1>5, Arrives, ReliesOnNothing DEF SyncPc
<1>6. CASE Diary(h)
  <2>1. q.pc = "plan" => q = [pc |-> "plan", at |-> q.at, todo |-> q.todo]
    BY CallFields
  <2>2. CASE InsertCommitment(h) \/ SaveCommitment(h) \/ ResolveUpdated(h)
    BY <1>5, <2>2 DEF InsertCommitment, SaveCommitment, ResolveUpdated, IdleCall
  <2>3. CASE PlanNextDate(h)
    <3>1. PICK left : Goto(h, IF left = {} THEN IdleCall ELSE [q EXCEPT !.todo = left])
      BY <1>1, <2>3 DEF PlanNextDate
    <3>2. [q EXCEPT !.todo = left].pc = "plan"
      BY <1>1, <2>1, <2>3 DEF PlanNextDate, At
    <3> QED BY <1>5, <3>1, <3>2 DEF IdleCall
  <2> QED BY <1>6, <2>2, <2>3 DEF Diary
<1>7. ASSUME NEW at \in Pair, CreateVisit(h, at)
      PROVE  \E c : c = call'[h] /\ AsRead(c)'
  <2>1. PICK c : Goto(h, c) /\ c.pc = "link" /\ c.at = at /\ c.date = day
    BY <1>7 DEF CreateVisit
  <2>2. UNCHANGED <<visit, star, blocks>> /\ MayVisitOn(at, day)
    BY <1>7 DEF CreateVisit, store, people
  <2>3. c.at.s \notin star => \A u \in Visits : Counts(u, c.at) => c.date - visit[u].date >= MinDays
    BY <1>1, <2>1, <2>2, AllowedIsRested, TodayIsDay
  <2>4. \A u \in Visits : Counts(u, c.at)' <=> Counts(u, c.at)
    BY <2>2 DEF Counts, Reported
  <2>5. AsRead(c)'
    BY <2>1, <2>2, <2>3, <2>4 DEF AsRead, Rested, Settling, Syncing, SyncPc
  <2> QED BY <1>1, <2>1, <2>5, Arrives
<1>8. CASE \/ \E at \in Pair : CreateCommitment(h, at)
           \/ \E c \in Commitments : UpdateCommitment(h, c)
  BY <1>5, <1>8 DEF CreateCommitment, UpdateCommitment
<1>9. CASE Crash
  <2>1. PICK c : c = call'[h] /\ c.pc = "idle"
    BY <1>9 DEF Crash, IdleCall
  <2> QED BY <2>1, ReliesOnNothing DEF SyncPc
<1>10. CASE call' = call /\ Idle(h)
  BY <1>1, <1>10, ReliesOnNothing DEF SyncPc, Idle, At
<1>11. CASE call' = call /\ UNCHANGED <<people, store, notices>>
  <2>1. q = call'[h]
    BY <1>1, <1>11
  <2>2. UNCHANGED <<star, blocks, visit, commitment, planned>>
    BY <1>11 DEF people, store
  <2>3. /\ \A u \in Visits : Counts(u, q.at)' <=> Counts(u, q.at)
        /\ \A p \in Plans : Open(p, q)' <=> Open(p, q)
        /\ \A c \in Commitments : Covers(c, q.at, q.date)' <=> Covers(c, q.at, q.date)
    BY <2>2 DEF Counts, Reported, Open, Covers, IsOf
  <2>4. Rested(q)'
    BY <1>1, <2>2, <2>3 DEF AsRead, Rested
  <2>5. Settling(q)'
    BY <1>1, <2>3 DEF AsRead, Settling
  <2>6. Syncing(q)'
    BY <1>1, <2>2 DEF AsRead, Syncing, IsOf
  <2> QED BY <2>1, <2>4, <2>5, <2>6 DEF AsRead
<1> QED BY <1>3, <1>4, <1>6, <1>7, <1>8, <1>9, <1>10, <1>11, Alone

LEMMA StepSerial ==
  ASSUME SerialInv, [Next]_vars
  PROVE  SerialInv'
<1>1. KnownInv'
  BY StepKnown DEF SerialInv
<1>2. IsSerial' <=> IsSerial
  BY DEF IsSerial
<1> QED BY <1>1, <1>2, AloneStep DEF SerialInv

LEMMA SerialAlways == Spec => []SerialInv
<1>1. Init => SerialInv
  BY InitKnown DEF SerialInv, AsRead, Rested, Settling, Syncing, SyncPc, IdleCall
<1>2. SerialInv /\ [Next]_vars => SerialInv'
  BY StepSerial
<1> QED BY <1>1, <1>2, PTL DEF Spec

-----------------------------------------------------------------------------
(* What follows for the visits, the commitments and the notices.           *)

LEMMA KnownOf ==
  ASSUME SerialInv, NEW h \in Handlers
  PROVE  /\ KnownInv /\ call[h] \in Call /\ CallKnown(call[h])
         /\ IsSerial => AsRead(call[h])
BY DEF SerialInv, KnownInv, TypeOK

\* With calls served one at a time and for any rest MinDays, a supervisor who
\* is not exempt only reports a visit of a school that nobody whose visits
\* count for him has visited in the MinDays days before (createVisit decides
\* before the photos are uploaded and inserts after it).
THEOREM CooldownHoldsAlways == Spec => CooldownHolds
<1>1. ASSUME SerialInv, [Next]_vars, IsSerial, NEW v \in Visits, Stored(v),
             visit'[v].s \notin star, NEW u \in Visits, Reported(u),
             visit[u].w = visit'[v].w,
             visit[u].s = visit'[v].s \/ IsSchoolSharedVisitCooldown(visit'[v].w, blocks)
      PROVE  visit'[v].date - visit[u].date >= MinDays
  <2>1. visit \in [Visits -> Visit]
    BY <1>1 DEF SerialInv, KnownInv, TypeOK
  <2>2. PICK h \in Handlers : StoreVisit(h) \/ \E w \in Visits : UpdateStatus(h, w)
    BY <1>1, WritesVisits DEF Stored
  <2>3. StoreVisit(h)
    BY <1>1, <2>1, <2>2 DEF UpdateStatus, Stored, Reported
  <2>4. PICK q \in Call : q = call[h] /\ AsRead(q) /\ q.pc = "store"
    BY <1>1, <2>3, KnownOf DEF StoreVisit, At
  <2>5. PICK w \in Visits : visit' = [visit EXCEPT ![w] =
          [status |-> "submitted", s |-> q.at.s, w |-> q.at.w, date |-> q.date, link |-> q.link]]
    BY <2>3, <2>4 DEF StoreVisit
  <2>6. v = w
    BY <1>1, <2>1, <2>5 DEF Stored
  <2>7. visit'[v].s = q.at.s /\ visit'[v].w = q.at.w /\ visit'[v].date = q.date
    BY <2>1, <2>5, <2>6
  <2>8. Counts(u, q.at)
    BY <1>1, <2>7 DEF Counts
  <2>9. q.date - visit[u].date >= MinDays
    BY <1>1, <2>4, <2>7, <2>8 DEF AsRead, Rested
  <2> QED BY <2>7, <2>9
<1>2. SerialInv /\ [Next]_vars =>
        [\A v \in Visits :
            IsSerial /\ Stored(v) /\ visit'[v].s \notin star
            => \A u \in Visits :
                 /\ Reported(u) /\ visit[u].w = visit'[v].w
                 /\ visit[u].s = visit'[v].s \/ IsSchoolSharedVisitCooldown(visit'[v].w, blocks)
                 => visit'[v].date - visit[u].date >= MinDays]_vars
  BY <1>1
<1> QED BY <1>2, SerialAlways, PTL DEF Spec, CooldownHolds

\* A commitment is only completed when its supervisor has visited its school,
\* whatever calls interleave and wherever the process dies; with calls served
\* one at a time he did so in the committed days (onCommitmentVisitProgress,
\* and the update that refuses "completed").
THEOREM CompletionIsEarnedAlways == Spec => CompletionIsEarned
<1>1. ASSUME SerialInv, [Next]_vars, NEW c \in Commitments,
             commitment[c].status # "completed", commitment'[c].status = "completed"
      PROVE  \E v \in Visits : /\ IsOf(visit[v], commitment[c])
                               /\ IsSerial => visit[v].date \in commitment[c].from..commitment[c].to
  <2>1. commitment \in [Commitments -> Commitment] /\ visit \in [Visits -> Visit]
    BY <1>1 DEF SerialInv, KnownInv, TypeOK
  <2>2. PICK h \in Handlers : SettleCommitment(h) \/ InsertCommitment(h) \/ SaveCommitment(h)
    BY <1>1, WritesCommitments
  <2>3. PICK q \in Call : q = call[h] /\ CallKnown(q) /\ (IsSerial => AsRead(q))
    BY <1>1, KnownOf
  <2>4. CASE SettleCommitment(h)
    <3>1. PICK k \in q.todo : commitment' = [commitment EXCEPT ![k].status = "completed"]
      BY <2>3, <2>4 DEF SettleCommitment
    <3>2. q.pc = "settle" /\ q.todo \subseteq Commitments /\ q.date \in Days
      BY <2>3, <2>4, CallShape DEF SettleCommitment, At, StoredPc
    <3>3. k = c
      BY <1>1, <2>1, <3>1, <3>2
    <3>4. IsOf(commitment[c], q.at)
      BY <2>3, <3>1, <3>2, <3>3 DEF CallKnown
    <3>5. PICK v \in Visits : IsOf(visit[v], q.at) /\ visit[v].date = q.date
      BY <2>3, <3>2 DEF CallKnown, StoredPc, Witnessed
    <3>6. IsOf(visit[v], commitment[c])
      BY <3>4, <3>5 DEF IsOf
    <3>7. IsSerial => Covers(c, q.at, q.date)
      BY <2>3, <3>1, <3>2, <3>3 DEF AsRead, Settling
    <3>8. commitment[c].from \in Int /\ commitment[c].to \in Int /\ q.date \in Int
      BY <2>1, <3>2, <3>4, CommitmentShape, BoundsAssumption DEF IsOf, Days
    <3>9. IsSerial => q.date \in commitment[c].from..commitment[c].to
      BY <3>7, <3>8 DEF Covers
    <3> QED BY <3>5, <3>6, <3>9
  <2>5. CASE InsertCommitment(h)
    <3>1. PICK k \in Commitments : commitment' = [commitment EXCEPT ![k] =
            [status |-> "active", s |-> q.at.s, w |-> q.at.w, from |-> q.from, to |-> q.to]]
      BY <2>3, <2>5 DEF InsertCommitment
    <3> QED BY <1>1, <2>1, <3>1
  <2>6. CASE SaveCommitment(h)
    <3>1. q.pc = "update" /\ commitment' = [commitment EXCEPT ![q.c] = Saved(@, q.seen, q.doc)]
      BY <2>3, <2>6 DEF SaveCommitment, At
    <3>2. q.c \in Commitments /\ commitment[q.c] \in FullCommitment
      BY <2>1, <2>3, <3>1, CallShape, CommitmentShape DEF CallKnown
    <3>3. q.c = c
      BY <1>1, <2>1, <3>1, <3>2
    <3>4. q.seen \in FullCommitment /\ q.doc \in FullCommitment
          /\ (q.doc.status = "completed" => q.seen.status = "completed")
      BY <2>3, <3>1 DEF CallKnown
    <3>5. Saved(commitment[c], q.seen, q.doc)["status"] =
            IF q.doc["status"] = q.seen["status"] THEN commitment[c]["status"] ELSE q.doc["status"]
      BY <3>2, <3>3, <3>4, SavedCommitment
    <3>6. commitment'[c] = Saved(commitment[c], q.seen, q.doc)
      BY <2>1, <3>1, <3>3
    <3> QED BY <1>1, <3>4, <3>5, <3>6
  <2> QED BY <2>2, <2>4, <2>5, <2>6
<1>2. SerialInv /\ [Next]_vars =>
        [\A c \in Commitments :
            commitment[c].status # "completed" /\ commitment'[c].status = "completed"
            => \E v \in Visits : /\ IsOf(visit[v], commitment[c])
                                 /\ IsSerial => visit[v].date \in commitment[c].from..commitment[c].to]_vars
  BY <1>1
<1> QED BY <1>2, SerialAlways, PTL DEF Spec, CompletionIsEarned

\* With calls served one at a time, a report that runs to its end leaves no
\* commitment over its day and no plan of its day open (onVisitSubmitted,
\* onCommitmentVisitProgress).
THEOREM VisitSettlesAlways == Spec => VisitSettles
<1>1. ASSUME SerialInv, [Next]_vars, NEW h \in Handlers, IsSerial, crashes' = crashes,
             call[h].pc \in {"findCommitments", "resolve"}, call'[h] = IdleCall
      PROVE  /\ ~\E c \in Commitments : Covers(c, call[h].at, call[h].date)
             /\ ~\E p \in Plans : /\ planned[p].status = "planned" /\ IsOf(planned[p], call[h].at)
                                  /\ planned[p].date = call[h].date
  <2>1. PICK q \in Call : q = call[h] /\ AsRead(q)
    BY <1>1, KnownOf
  <2>2. ~Crash
    BY <1>1 DEF Crash, SerialInv, KnownInv, TypeOK
  <2>3. FindCommitments(h) \/ ResolveCommitmentNotifications(h)
    <3>1. call' # call /\ ~Idle(h)
      BY <1>1 DEF IdleCall, Idle, At
    <3>2. Report(h) \/ Diary(h) \/ SyncDynamicNotifications(h)
      BY <1>1, <2>2, <3>1, Alone DEF Poll, CreateVisit, CreateCommitment, UpdateCommitment
    <3>3. ~Diary(h) /\ ~SyncDynamicNotifications(h)
      BY <1>1 DEF Diary, SyncDynamicNotifications, At, InsertCommitment, PlanNextDate,
         SaveCommitment, ResolveUpdated, Remind, FindOverdue, NotifyOverdue, FindDue,
         LookForVisit, NotifyPlan, SyncSettle, SyncResolve
    <3> QED BY <1>1, <3>2, <3>3 DEF Report, At, Link, StoreVisit, FindPlans, SettlePlan,
         ResolvePlan, SettleCommitment
  <2>4. \A todo : call'[h] = SettleCommitments(q, todo) => todo = {}
    BY <1>1 DEF SettleCommitments, IdleCall
  <2>5. \A p \in Plans : ~Open(p, q)
    BY <1>1, <2>1 DEF AsRead, Settling
  <2>6. \A c \in Commitments : ~Covers(c, q.at, q.date)
    <3>1. CASE FindCommitments(h)
      <4>1. Goto(h, SettleCommitments(q, {c \in Commitments : Covers(c, q.at, q.date)}))
        BY <2>1, <3>1 DEF FindCommitments
      <4>2. PICK todo : todo = {c \in Commitments : Covers(c, q.at, q.date)}
        OBVIOUS
      <4>3. call'[h] = SettleCommitments(q, todo)
        BY <1>1, <4>1, <4>2, Arrives DEF SerialInv
      <4> QED BY <2>4, <4>2, <4>3
    <3>2. CASE ResolveCommitmentNotifications(h)
      <4>1. q.pc = "resolve" /\ Goto(h, SettleCommitments(q, q.todo))
        BY <2>1, <3>2 DEF ResolveCommitmentNotifications, At
      <4>2. call'[h] = SettleCommitments(q, q.todo)
        BY <1>1, <4>1, Arrives DEF SerialInv
      <4>3. q.todo = {}
        BY <2>4, <4>2
      <4> QED BY <2>1, <4>1, <4>3 DEF AsRead, Settling
    <3> QED BY <2>3, <3>1, <3>2
  <2> QED BY <2>1, <2>5, <2>6 DEF Open
<1>2. SerialInv /\ [Next]_vars =>
        [\A h \in Handlers :
            /\ IsSerial /\ crashes' = crashes
            /\ call[h].pc \in {"findCommitments", "resolve"} /\ call'[h] = IdleCall
            => LET q == call[h] IN
               /\ ~\E c \in Commitments : Covers(c, q.at, q.date)
               /\ ~\E p \in Plans : /\ planned[p].status = "planned" /\ IsOf(planned[p], q.at)
                                    /\ planned[p].date = q.date]_vars
  BY <1>1
<1> QED BY <1>2, SerialAlways, PTL DEF Spec, VisitSettles

\* With calls served one at a time, nobody is told that he missed a visit he
\* reported, whatever the server's clock says and wherever an earlier report
\* died (syncPlannedVisitNotifications).
THEOREM MissedMeansMissedAlways == Spec => MissedMeansMissed
<1>1. ASSUME SerialInv, [Next]_vars, NEW n \in Notice, IsSerial, n.kind = "missed", n \in sent' \ sent
      PROVE  ~\E v \in Visits : /\ IsOf(visit[v], planned[n.ref])
                                /\ visit[v].date = planned[n.ref].date
  <2>1. PICK h \in Handlers : Remind(h) \/ NotifyOverdue(h) \/ NotifyPlan(h)
    BY <1>1, WritesNotices DEF notices
  <2>2. PICK q \in Call : q = call[h] /\ AsRead(q)
    BY <1>1, KnownOf
  <2>3. ASSUME NEW m, Send(m) PROVE m = n
    BY <1>1, <2>3 DEF Send, notices
  <2>4. NotifyPlan(h)
    <3>1. Remind(h) => \E c : Send([kind |-> "reminder", ref |-> c, on |-> q.today])
      BY <1>1, <2>2, Notices DEF SerialInv
    <3>2. NotifyOverdue(h) => \E c : Send([kind |-> "overdue", ref |-> c, on |-> q.today])
      BY <1>1, <2>2, Notices DEF SerialInv
    <3>3. \A k, c : Send([kind |-> k, ref |-> c, on |-> q.today]) => k = "missed"
      BY <1>1, <2>3
    <3> QED BY <2>1, <3>1, <3>2, <3>3
  <2>5. PICK k \in {"due", "missed"} : Send([kind |-> k, ref |-> q.now.p])
    BY <1>1, <2>2, <2>4, Notices DEF SerialInv
  <2>6. n.ref = q.now.p
    BY <2>3, <2>5
  <2>7. q.pc = "syncNotice"
    BY <2>2, <2>4 DEF NotifyPlan, At
  <2> QED BY <2>2, <2>6, <2>7 DEF AsRead, Syncing
<1>2. SerialInv /\ [Next]_vars =>
        [\A n \in Notice :
            IsSerial /\ n.kind = "missed" /\ n \in sent' \ sent
            => ~\E v \in Visits : /\ IsOf(visit[v], planned[n.ref])
                                  /\ visit[v].date = planned[n.ref].date]_vars
  BY <1>1
<1> QED BY <1>2, SerialAlways, PTL DEF Spec, MissedMeansMissed

-----------------------------------------------------------------------------
(* What is settled asks for nothing.                                       *)

\* The commitment whose reminders the call still has to take back.
Closing(n) == \E h \in Handlers : call[h].pc \in {"resolve", "updated"} /\ call[h].c = n.ref

LEMMA ReminderShape ==
  ASSUME NEW n \in Notice, Reminds(n)
  PROVE  n.ref \in Commitments
BY DEF Notice, Reminds

\* A call alone keeps what it read, and writes nobody's status unseen.
LEMMA CarefulStep ==
  ASSUME KnownInv, [Next]_vars, IsSerial, NEW h \in Handlers, Careful(call[h]), ~Crash
  PROVE  \E c : c = call'[h] /\ Careful(c)'
<1>1. PICK q \in Call : q = call[h] /\ Careful(q)
  BY DEF KnownInv, TypeOK
<1>2. ASSUME NEW c, Goto(h, c), c.pc \notin {"syncReminders", "syncOverdue", "update"}
      PROVE  \E k : k = call'[h] /\ Careful(k)'
  BY <1>2, Arrives DEF Careful
<1>3. ASSUME NEW todo, NEW today, Goto(h, SyncReminders(todo, today)) \/ Goto(h, SyncOverdue(todo, today)),
             commitment' = commitment, \A c \in todo : commitment[c].status = "active"
      PROVE  \E k : k = call'[h] /\ Careful(k)'
  <2>1. PICK c : /\ Goto(h, c)
                 /\ \/ c.pc \in {"findOverdue", "findDue"}
                    \/ c.pc \in {"syncReminders", "syncOverdue"} /\ c.todo = todo
    BY <1>3 DEF SyncReminders, SyncOverdue
  <2>2. Careful(c)'
    BY <1>3, <2>1 DEF Careful
  <2> QED BY <2>1, <2>2, Arrives
<1>4. CASE Poll(h)
  <2> DEFINE S == {c \in Commitments : /\ commitment[c].status = "active"
                                       /\ commitment[c].from <= Today /\ Today <= commitment[c].to}
  <2>1. Goto(h, SyncReminders(S, Today)) /\ commitment' = commitment
    BY <1>4 DEF Poll, store
  <2>2. \A c \in S : commitment[c].status = "active"
    OBVIOUS
  <2> HIDE DEF S
  <2> QED BY <1>3, <2>1, <2>2
<1>5. CASE FindOverdue(h)
  <2> DEFINE S == {c \in Commitments : commitment[c].status = "active" /\ commitment[c].to < Today}
  <2>1. Goto(h, SyncOverdue(S, Today)) /\ commitment' = commitment
    BY <1>5 DEF FindOverdue, store
  <2>2. \A c \in S : commitment[c].status = "active"
    OBVIOUS
  <2> HIDE DEF S
  <2> QED BY <1>3, <2>1, <2>2
<1>6. CASE Remind(h) \/ NotifyOverdue(h)
  <2>1. /\ q.pc \in {"syncReminders", "syncOverdue"} /\ commitment' = commitment
        /\ \E k \in q.todo : \/ Goto(h, SyncReminders(q.todo \ {k}, q.today))
                             \/ Goto(h, SyncOverdue(q.todo \ {k}, q.today))
    BY <1>1, <1>6 DEF Remind, NotifyOverdue, At, store
  <2>2. \A c \in q.todo : commitment[c].status = "active"
    BY <1>1, <2>1 DEF Careful
  <2> QED BY <1>3, <2>1, <2>2
<1>7. ASSUME NEW k \in Commitments, UpdateCommitment(h, k)
      PROVE  \E c : c = call'[h] /\ Careful(c)'
  <2>1. PICK d : Goto(h, [pc |-> "update", c |-> k, seen |-> commitment[k], doc |-> d])
    BY <1>7 DEF UpdateCommitment
  <2>2. PICK c : Goto(h, c) /\ c.pc = "update" /\ c.c = k /\ c.seen = commitment[k]
    BY <2>1
  <2>3. Careful(c)'
    BY <1>7, <2>2 DEF Careful, UpdateCommitment, store
  <2> QED BY <2>2, <2>3, Arrives
<1>8. CASE call' = call /\ (Idle(h) \/ UNCHANGED <<people, store, notices>>)
  <2>1. q = call'[h]
    BY <1>1, <1>8
  <2>2. Careful(q)'
    BY <1>1, <1>8 DEF Careful, Idle, At, store
  <2> QED BY <2>1, <2>2
<1>9. CASE Report(h)
  <2>1. CASE Link(h)
    <3>1. PICK k : Goto(h, [pc |-> "store", at |-> q.at, date |-> q.date, link |-> k])
      BY <1>1, <2>1 DEF Link
    <3> QED BY <1>2, <3>1
  <2>2. CASE StoreVisit(h)
    BY <1>2, <2>2 DEF StoreVisit
  <2>3. CASE FindPlans(h) \/ ResolvePlan(h)
    <3>1. \E k, todo : Goto(h, SettlePlans(k, todo))
      BY <2>3 DEF FindPlans, ResolvePlan
    <3> QED BY <1>2, <3>1 DEF SettlePlans
  <2>4. CASE FindCommitments(h) \/ ResolveCommitmentNotifications(h)
    <3>1. \E k, todo : Goto(h, SettleCommitments(k, todo))
      BY <2>4 DEF FindCommitments, ResolveCommitmentNotifications
    <3> QED BY <1>2, <3>1 DEF SettleCommitments, IdleCall
  <2>5. CASE SettlePlan(h) \/ SettleCommitment(h)
    BY <1>2, <2>5 DEF SettlePlan, SettleCommitment
  <2> QED BY <1>9, <2>1, <2>2, <2>3, <2>4, <2>5 DEF Report
<1>10. CASE Diary(h)
  <2>1. q.pc = "plan" => q = [pc |-> "plan", at |-> q.at, todo |-> q.todo]
    BY CallFields
  <2>2. CASE InsertCommitment(h) \/ SaveCommitment(h) \/ ResolveUpdated(h)
    BY <1>2, <2>2 DEF InsertCommitment, SaveCommitment, ResolveUpdated, IdleCall
  <2>3. CASE PlanNextDate(h)
    <3>1. PICK left : Goto(h, IF left = {} THEN IdleCall ELSE [q EXCEPT !.todo = left])
      BY <1>1, <2>3 DEF PlanNextDate
    <3>2. [q EXCEPT !.todo = left].pc = "plan"
      BY <1>1, <2>1, <2>3 DEF PlanNextDate, At
    <3> QED BY <1>2, <3>1, <3>2 DEF IdleCall
  <2> QED BY <1>10, <2>2, <2>3 DEF Diary
<1>11. CASE FindDue(h) \/ LookForVisit(h) \/ NotifyPlan(h) \/ SyncResolve(h) \/ SyncSettle(h)
  <2>1. q.pc = "syncSettle" =>
          q = [pc |-> "syncSettle", today |-> q.today, now |-> q.now, todo |-> q.todo]
    BY CallFields
  <2>2. CASE FindDue(h) \/ NotifyPlan(h) \/ SyncResolve(h)
    <3>1. \E todo, today : Goto(h, SyncPlans(todo, today))
      BY <2>2 DEF FindDue, NotifyPlan, SyncResolve
    <3> QED BY <1>2, <3>1 DEF SyncPlans, IdleCall
  <2>3. CASE LookForVisit(h)
    <3>1. PICK now \in q.todo, n \in {"syncSettle", "syncNotice"} :
            Goto(h, [pc |-> n, today |-> q.today, now |-> now, todo |-> q.todo \ {now}])
      BY <1>1, <2>3 DEF LookForVisit
    <3> QED BY <1>2, <3>1
  <2>4. CASE SyncSettle(h)
    <3>1. Goto(h, [q EXCEPT !.pc = "syncResolve"]) /\ q.pc = "syncSettle"
      BY <1>1, <2>4 DEF SyncSettle, At
    <3>2. [q EXCEPT !.pc = "syncResolve"].pc = "syncResolve"
      BY <2>1, <3>1
    <3> QED BY <1>2, <3>1, <3>2
  <2> QED BY <1>11, <2>2, <2>3, <2>4
<1>12. CASE \E at \in Pair : CreateVisit(h, at) \/ CreateCommitment(h, at)
  BY <1>2, <1>12 DEF CreateVisit, CreateCommitment
<1> QED BY <1>4, <1>5, <1>6, <1>7, <1>8, <1>9, <1>10, <1>11, <1>12, Alone
     DEF SyncDynamicNotifications

\* An unread reminder waits for a commitment that is open or being closed.
LEMMA WaitingStep ==
  ASSUME KnownInv, [Next]_vars, IsSerial, NEW h \in Handlers, Careful(call[h]), ~Crash,
         \A n \in unread : Reminds(n) => commitment[n.ref].status = "active" \/ Closing(n),
         NEW n \in unread', Reminds(n)
  PROVE  commitment'[n.ref].status = "active" \/ Closing(n)'
<1>1. PICK q \in Call : q = call[h] /\ Careful(q) /\ CallKnown(q)
  BY DEF KnownInv, TypeOK
<1>2. /\ commitment \in [Commitments -> Commitment] /\ unread \subseteq Notice /\ unread' \subseteq Notice
      /\ \A g \in Handlers : g = h
  BY StepNotices DEF KnownInv, TypeOK, IsSerial
<1>3. n.ref \in Commitments
  BY <1>2, ReminderShape
\* What the step leaves as it was, and what it sends.
<1>4. \/ n \in unread
      \/ commitment[n.ref].status = "active" /\ commitment' = commitment
  <2>1. CASE UNCHANGED notices
    BY <2>1 DEF notices
  <2>2. CASE \E g \in Handlers : \/ ResolvePlan(g) \/ ResolveCommitmentNotifications(g)
                                 \/ ResolveUpdated(g) \/ SyncResolve(g)
                                 \/ \E m \in unread : MarkRead(g, m)
                                 \/ \E s \in Supervisors : MarkAllRead(g, s)
    BY <2>2 DEF ResolvePlan, ResolveCommitmentNotifications, ResolveUpdated, SyncResolve, MarkRead,
       MarkAllRead
  <2>3. CASE Remind(h) \/ NotifyOverdue(h)
    <3>1. q.pc \in {"syncReminders", "syncOverdue"} /\ commitment' = commitment
      BY <1>1, <2>3 DEF Remind, NotifyOverdue, At, store
    <3>2. PICK k \in q.todo, kind \in {"reminder", "overdue"} :
            Send([kind |-> kind, ref |-> k, on |-> q.today])
      BY <1>1, <2>3, Notices
    <3>3. n \in unread \/ n.ref = k
      BY <3>2 DEF Send, notices
    <3> QED BY <1>1, <3>1, <3>3 DEF Careful
  <2>4. CASE NotifyPlan(h)
    <3>1. PICK kind \in {"due", "missed"} : Send([kind |-> kind, ref |-> q.now.p])
      BY <1>1, <2>4, Notices
    <3> QED BY <3>1 DEF Send, notices, Reminds
  <2>5. CASE \E g \in Handlers : Remind(g) \/ NotifyOverdue(g) \/ NotifyPlan(g)
    BY <1>2, <2>3, <2>4, <2>5
  <2>6. \/ UNCHANGED notices
        \/ \E g \in Handlers : Remind(g) \/ NotifyOverdue(g) \/ NotifyPlan(g)
        \/ \E g \in Handlers : \/ ResolvePlan(g) \/ ResolveCommitmentNotifications(g)
                               \/ ResolveUpdated(g) \/ SyncResolve(g)
                               \/ \E m \in unread : MarkRead(g, m)
                               \/ \E s \in Supervisors : MarkAllRead(g, s)
    BY WritesNotices
  <2> QED BY <2>1, <2>2, <2>5, <2>6
<1>5. CASE n \in unread /\ q.pc \notin {"resolve", "updated"}
  <2>1. commitment[n.ref].status = "active"
    BY <1>1, <1>2, <1>5 DEF Closing
  <2>2. CASE commitment' = commitment
    BY <2>1, <2>2
  <2>3. CASE SettleCommitment(h)
    <3>1. PICK k \in q.todo : /\ commitment' = [commitment EXCEPT ![k].status = "completed"]
                              /\ Goto(h, [pc |-> "resolve", at |-> q.at, date |-> q.date, c |-> k,
                                          todo |-> q.todo \ {k}])
      BY <1>1, <2>3 DEF SettleCommitment
    <3>2. call'[h].pc = "resolve" /\ call'[h].c = k
      BY <3>1, Arrives
    <3>3. n.ref # k => commitment'[n.ref] = commitment[n.ref]
      BY <1>2, <1>3, <3>1
    <3> QED BY <2>1, <3>2, <3>3 DEF Closing
  <2>4. CASE InsertCommitment(h)
    <3>1. PICK k \in Commitments : commitment' = [commitment EXCEPT ![k] =
            [status |-> "active", s |-> q.at.s, w |-> q.at.w, from |-> q.from, to |-> q.to]]
      BY <1>1, <2>4 DEF InsertCommitment
    <3> QED BY <1>2, <1>3, <2>1, <3>1
  <2>5. CASE SaveCommitment(h)
    <3>1. /\ q.pc = "update" /\ commitment' = [commitment EXCEPT ![q.c] = Saved(@, q.seen, q.doc)]
          /\ Goto(h, IF q.doc.status \in {"completed", "cancelled"}
                       THEN [pc |-> "updated", c |-> q.c] ELSE IdleCall)
      BY <1>1, <2>5 DEF SaveCommitment, At
    <3>2. q.c \in Commitments /\ q.seen \in FullCommitment /\ q.doc \in FullCommitment
          /\ q.seen = commitment[q.c]
      BY <1>1, <3>1, CallShape DEF CallKnown, Careful
    <3>3. CASE n.ref # q.c
      BY <1>2, <1>3, <2>1, <3>1, <3>3
    <3>4. CASE n.ref = q.c
      <4>1. commitment'[n.ref] = Saved(commitment[q.c], q.seen, q.doc)
        BY <1>2, <3>1, <3>2, <3>4
      <4>2. commitment'[n.ref]["status"] = q.doc["status"]
        BY <3>2, <4>1, SavedCommitment
      <4>3. CASE q.doc.status \in {"completed", "cancelled"}
        <5>1. call'[h] = [pc |-> "updated", c |-> q.c]
          BY <3>1, <4>3, Arrives
        <5> QED BY <3>4, <5>1 DEF Closing
      <4>4. CASE q.doc.status = "active"
        BY <4>2, <4>4
      <4> QED BY <3>2, <4>3, <4>4 DEF FullCommitment
    <3> QED BY <3>3, <3>4
  <2> QED BY <1>2, <2>2, <2>3, <2>4, <2>5, WritesCommitments
<1>6. CASE n \in unread /\ q.pc \in {"resolve", "updated"}
  <2>1. commitment[n.ref].status = "active" \/ n.ref = q.c
    BY <1>1, <1>2, <1>6 DEF Closing
  <2>2. CASE call' = call /\ UNCHANGED <<people, store, notices>>
    <3>1. commitment' = commitment /\ (n.ref = q.c => Closing(n)')
      BY <1>1, <1>6, <2>2 DEF Closing, store
    <3> QED BY <2>1, <3>1
  <2>3. CASE ResolveCommitmentNotifications(h) \/ ResolveUpdated(h)
    <3>1. unread' = unread \ AsksFor(q.c) /\ commitment' = commitment
      BY <1>1, <2>3 DEF ResolveCommitmentNotifications, ResolveUpdated, store
    <3>2. n.ref # q.c
      BY <1>2, <3>1 DEF AsksFor
    <3> QED BY <2>1, <3>1, <3>2
  <2>4. ~Idle(h) /\ ~SyncDynamicNotifications(h)
    BY <1>1, <1>6 DEF Idle, At, SyncDynamicNotifications, Remind, FindOverdue, NotifyOverdue,
       FindDue, LookForVisit, NotifyPlan, SyncSettle, SyncResolve
  <2>5. Report(h) => ResolveCommitmentNotifications(h)
    BY <1>1, <1>6 DEF Report, At, Link, StoreVisit, FindPlans, SettlePlan, ResolvePlan,
       FindCommitments, SettleCommitment
  <2>6. Diary(h) => ResolveUpdated(h)
    BY <1>1, <1>6 DEF Diary, At, InsertCommitment, PlanNextDate, SaveCommitment
  <2> QED BY <2>2, <2>3, <2>4, <2>5, <2>6, Alone DEF Poll, CreateVisit, CreateCommitment,
       UpdateCommitment
<1> QED BY <1>4, <1>5, <1>6

LEMMA StepQuiet ==
  ASSUME QuietInv, [Next]_vars
  PROVE  QuietInv'
<1>1. KnownInv'
  BY StepKnown DEF QuietInv
<1>2. ASSUME IsSerial, crashes' = 0
      PROVE  /\ \A h \in Handlers : Careful(call[h])'
             /\ \A n \in unread' : Reminds(n) => commitment'[n.ref].status = "active" \/ Closing(n)'
  <2>1. crashes = 0 /\ ~Crash
    BY <1>2, StepBounds DEF Crash, QuietInv, KnownInv, TypeOK
  <2>2. /\ KnownInv /\ \A h \in Handlers : Careful(call[h])
        /\ \A n \in unread : Reminds(n) => commitment[n.ref].status = "active" \/ Closing(n)
    BY <1>2, <2>1 DEF QuietInv, Closing
  <2>3. ASSUME NEW h \in Handlers PROVE Careful(call[h])'
    <3>1. PICK c : c = call'[h] /\ Careful(c)'
      BY <1>2, <2>1, <2>2, CarefulStep
    <3> QED BY <3>1 DEF Careful
  <2>4. ASSUME NEW n \in unread', Reminds(n)
        PROVE  commitment'[n.ref].status = "active" \/ Closing(n)'
    <3>1. CASE \E h \in Handlers : TRUE
      <4>1. PICK h \in Handlers : TRUE
        BY <3>1
      <4> QED BY <1>2, <2>1, <2>2, <2>4, <4>1, WaitingStep
    <3>2. CASE ~\E h \in Handlers : TRUE
      <4>1. unread' = unread /\ commitment' = commitment
        BY <3>2, WritesNotices, WritesCommitments DEF notices
      <4> QED BY <2>2, <2>4, <3>2, <4>1 DEF Closing
    <3> QED BY <3>1, <3>2
  <2> QED BY <2>3, <2>4
<1>3. IsSerial' <=> IsSerial
  BY DEF IsSerial
<1> QED BY <1>1, <1>2, <1>3 DEF QuietInv, Closing, Reminds

\* With calls served one at a time and until the process dies, no reminder of a
\* commitment that is completed or cancelled is unread between two calls,
\* however many polls, reports and edits went before
\* (resolveCommitmentNotifications).
THEOREM SettledIsQuietAlways == Spec => []SettledIsQuiet
<1>1. Init => QuietInv
  <2> SUFFICES ASSUME Init PROVE QuietInv
    OBVIOUS
  <2>1. KnownInv /\ \A h \in Handlers : call[h].pc = "idle"
    BY InitKnown DEF IdleCall
  <2>2. unread = {}
    BY DEF Init
  <2> QED BY <2>1, <2>2 DEF QuietInv, Careful
<1>2. QuietInv /\ [Next]_vars => QuietInv'
  BY StepQuiet
<1>3. QuietInv => SettledIsQuiet
  BY DEF QuietInv, SettledIsQuiet, Reminds, Idle, At
<1> QED BY <1>1, <1>2, <1>3, PTL DEF Spec
=============================================================================
