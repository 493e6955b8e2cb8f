--------------------------- MODULE SchoolRegister ---------------------------
(***************************************************************************)
(* The schools a tenant keeps, their serial numbers, and the payment       *)
(* record (school partner) that follows each of them                       *)
(* (school-works.controller.ts, school-works.service.ts,                   *)
(* school-partners.service.ts).  The controller changes the school first   *)
(* and its partner afterwards, each in database calls of its own.          *)
(***************************************************************************)
EXTENDS Integers, FiniteSets

CONSTANTS
    Udises,         \* the schools' codes, which are their ids
    Handlers,       \* requests in progress
    Pays,           \* monthly pays
    MaxSerial,      \* bound: the largest serial number a request may give
    MaxCrashes      \* bound: process restarts

VARIABLES
    school,         \* per code: the row, or NoSchool
    partner,        \* per code: the partner of that school, or NoPartner
    call,
    disturbed,      \* history: a given number or a crash has disturbed the
                    \* numbering since the last renumbering
    apart,          \* history: schools whose partner somebody edited, or a
                    \* crash left behind, since it was last written from them
    crashes

vars == <<school, partner, call, disturbed, apart, crashes>>

NoSchool == [srNo |-> 0]
NoPartner == [pay |-> 0]
IdleCall == [pc |-> "idle"]
Goto(h, c) == call' = [call EXCEPT ![h] = c]
At(h, pc) == call[h].pc = pc
Idle(h) == At(h, "idle")

Registered == {u \in Udises : school[u] # NoSchool}
count == Cardinality(Registered)
existsByUdise(u) == u \in Registered

\* Mutant: an upsert that does not touch a partner that is there.
partnerFromSchoolMutant(u, s) ==
    IF partner[u] = NoPartner THEN [pay |-> s.pay, paid |-> FALSE] ELSE partner[u]

\* A sync writes the school's fields and leaves the payment marks.
partnerFromSchool(u, s) ==
    [pay |-> s.pay, paid |-> partner[u] # NoPartner /\ partner[u].paid]

-----------------------------------------------------------------------------
(* POST /school-works.                                                     *)

create(h, u, pay, given) ==
    /\ Idle(h)
    /\ ~existsByUdise(u)
    /\ Goto(h, [pc |-> "number", u |-> u, pay |-> pay, given |-> given])
    /\ UNCHANGED <<school, partner, disturbed, apart, crashes>>

\* count, then create under the unique index on the code.
number(h) ==
    /\ At(h, "number")
    /\ LET c == call[h]
       IN Goto(h, [pc |-> "insert", u |-> c.u, pay |-> c.pay, given |-> c.given > 0,
                   srNo |-> IF c.given > 0 THEN c.given ELSE count + 1])
    /\ UNCHANGED <<school, partner, disturbed, apart, crashes>>

insert(h) ==
    /\ At(h, "insert")
    /\ LET c == call[h]
           row == [srNo |-> c.srNo, pay |-> c.pay]
       IN IF existsByUdise(c.u)
          THEN Goto(h, IdleCall) /\ UNCHANGED <<school, disturbed>>
          ELSE /\ school' = [school EXCEPT ![c.u] = row]
               /\ disturbed' = (disturbed \/ c.given)
               /\ Goto(h, [pc |-> "partner", u |-> c.u, row |-> row])
    /\ UNCHANGED <<partner, apart, crashes>>

\* upsertFromSchoolRecord: with the record the handler holds.
upsertFromSchoolRecord(h) ==
    /\ At(h, "partner")
    /\ LET c == call[h]
       IN /\ partner' = [partner EXCEPT ![c.u] = partnerFromSchool(c.u, c.row)]
          /\ apart' = apart \ {c.u}
    /\ Goto(h, IdleCall)
    /\ UNCHANGED <<school, disturbed, crashes>>

-----------------------------------------------------------------------------
(* POST /school-works/bulk counts once; a code that exists is skipped.     *)

bulkInsert(h, items, pay) ==
    /\ Idle(h)
    /\ items # {}
    /\ Goto(h, [pc |-> "bulk", items |-> items, pay |-> pay, srNo |-> count, added |-> FALSE])
    /\ UNCHANGED <<school, partner, disturbed, apart, crashes>>

bulkItem(h, u) ==
    /\ At(h, "bulk") /\ u \in call[h].items
    /\ LET c == call[h] IN
         IF existsByUdise(u)
         THEN Goto(h, [c EXCEPT !.items = @ \ {u}]) /\ UNCHANGED school
         ELSE /\ school' = [school EXCEPT ![u] = [srNo |-> c.srNo + 1, pay |-> c.pay]]
              /\ Goto(h, [c EXCEPT !.items = @ \ {u}, !.srNo = @ + 1, !.added = TRUE])
    /\ UNCHANGED <<partner, disturbed, apart, crashes>>

bulkEnd(h) ==
    /\ At(h, "bulk") /\ call[h].items = {}
    /\ Goto(h, IF call[h].added THEN [pc |-> "sync"] ELSE IdleCall)
    /\ UNCHANGED <<school, partner, disturbed, apart, crashes>>

\* syncFromSchools reads every school, then upserts partner after partner.
syncFromSchools(h) ==
    /\ At(h, "sync")
    /\ Goto(h, [pc |-> "syncing", rows |-> [u \in Registered |-> school[u]], left |-> Registered])
    /\ UNCHANGED <<school, partner, disturbed, apart, crashes>>

syncOne(h, u) ==
    /\ At(h, "syncing") /\ u \in call[h].left
    /\ partner' = [partner EXCEPT ![u] = partnerFromSchool(u, call[h].rows[u])]
    /\ apart' = apart \ {u}
    /\ Goto(h, [call[h] EXCEPT !.left = @ \ {u}])
    /\ UNCHANGED <<school, disturbed, crashes>>

syncEnd(h) ==
    /\ At(h, "syncing") /\ call[h].left = {}
    /\ Goto(h, IdleCall)
    /\ UNCHANGED <<school, partner, disturbed, apart, crashes>>

-----------------------------------------------------------------------------
(* PUT /school-works/:id and the bulk update.                              *)

\* Only the keys of the body are set, so 0 stands for a key it lacks.
Patched(row, pay, given) ==
    [srNo |-> IF given > 0 THEN given ELSE row.srNo, pay |-> IF pay > 0 THEN pay ELSE row.pay]

update(h, u, pay, given) ==
    /\ Idle(h)
    /\ u \in Registered
    /\ LET row == Patched(school[u], pay, given)
       IN /\ school' = [school EXCEPT ![u] = row]
          /\ Goto(h, [pc |-> "partner", u |-> u, row |-> row])
    /\ disturbed' = (disturbed \/ given > 0)
    /\ UNCHANGED <<partner, apart, crashes>>

\* One school after the other; an id that matches none is passed over.
bulkUpdate(h, some, pay) ==
    /\ Idle(h)
    /\ some # {}
    /\ Goto(h, [pc |-> "patch", items |-> some, pay |-> pay, changed |-> FALSE])
    /\ UNCHANGED <<school, partner, disturbed, apart, crashes>>

patchItem(h, u) ==
    /\ At(h, "patch") /\ u \in call[h].items
    /\ IF u \in Registered
       THEN /\ school' = [school EXCEPT ![u] = Patched(@, call[h].pay, 0)]
            /\ Goto(h, [call[h] EXCEPT !.items = @ \ {u}, !.changed = TRUE])
       ELSE Goto(h, [call[h] EXCEPT !.items = @ \ {u}]) /\ UNCHANGED school
    /\ UNCHANGED <<partner, disturbed, apart, crashes>>

patchEnd(h) ==
    /\ At(h, "patch") /\ call[h].items = {}
    /\ Goto(h, IF call[h].changed THEN [pc |-> "sync"] ELSE IdleCall)
    /\ UNCHANGED <<school, partner, disturbed, apart, crashes>>

-----------------------------------------------------------------------------
(* POST /school-works/delete.                                              *)

deleteByIds(h, some) ==
    /\ Idle(h)
    /\ some \cap Registered # {}
    /\ school' = [u \in Udises |-> IF u \in some THEN NoSchool ELSE school[u]]
    /\ Goto(h, [pc |-> "list", some |-> some])
    /\ UNCHANGED <<partner, disturbed, apart, crashes>>

\* The numbers 1 .. n in the order of the old ones; equal ones keep any order.
Orders ==
    {o \in [Registered -> 1..count] :
        \A a, b \in Registered : a # b =>
            /\ o[a] # o[b]
            /\ school[a].srNo < school[b].srNo => o[a] < o[b]}

\* The list is read; the numbers are written by one bulkWrite.
renumberSerialNumbers(h) ==
    /\ At(h, "list")
    /\ \E o \in Orders :
         Goto(h, [pc |-> "renumber", some |-> call[h].some, order |-> o])
    /\ UNCHANGED <<school, partner, disturbed, apart, crashes>>

renumber(h) ==
    /\ At(h, "renumber")
    /\ LET o == call[h].order
       IN school' = [u \in Udises |-> IF u \in DOMAIN o /\ u \in Registered
                                      THEN [school[u] EXCEPT !.srNo = o[u]] ELSE school[u]]
    /\ disturbed' = FALSE
    /\ Goto(h, [pc |-> "partners", some |-> call[h].some])
    /\ UNCHANGED <<partner, apart, crashes>>

deleteBySchoolWorkIds(h) ==
    /\ At(h, "partners")
    /\ partner' = [u \in Udises |-> IF u \in call[h].some THEN NoPartner ELSE partner[u]]
    /\ apart' = apart \ call[h].some
    /\ Goto(h, IdleCall)
    /\ UNCHANGED <<school, disturbed, crashes>>

-----------------------------------------------------------------------------
(* The partners' own endpoints.                                            *)

\* Listing no partner at all makes them from the schools.
findAllPartners(h) ==
    /\ Idle(h)
    /\ \A u \in Udises : partner[u] = NoPartner
    /\ Goto(h, [pc |-> "sync"])
    /\ UNCHANGED <<school, partner, disturbed, apart, crashes>>

requestSync(h) ==
    /\ Idle(h)
    /\ Goto(h, [pc |-> "sync"])
    /\ UNCHANGED <<school, partner, disturbed, apart, crashes>>

createPartner(u, pay) ==
    /\ partner[u] = NoPartner
    /\ partner' = [partner EXCEPT ![u] = [pay |-> pay, paid |-> FALSE]]
    /\ apart' = apart \cup {u}
    /\ UNCHANGED <<school, call, disturbed, crashes>>

updatePartner(u, pay) ==
    /\ partner[u] # NoPartner
    /\ partner' = [partner EXCEPT ![u].pay = pay]
    /\ apart' = apart \cup {u}
    /\ UNCHANGED <<school, call, disturbed, crashes>>

bulkUpdatePayLedger(u, paid) ==
    /\ partner[u] # NoPartner
    /\ partner' = [partner EXCEPT ![u].paid = paid]
    /\ UNCHANGED <<school, call, disturbed, apart, crashes>>

deletePartners(some) ==
    /\ partner' = [u \in Udises |-> IF u \in some THEN NoPartner ELSE partner[u]]
    /\ apart' = apart \cup some
    /\ UNCHANGED <<school, call, disturbed, crashes>>

\* A request that has changed schools and not yet their partners.
Unfinished(c) ==
    CASE c.pc = "partner"                              -> {c.u}
      [] c.pc \in {"list", "renumber", "partners"}     -> c.some
      [] c.pc \in {"sync", "syncing", "bulk", "patch"} -> Udises
      [] OTHER                                         -> {}

Crash ==
    /\ crashes < MaxCrashes
    /\ crashes' = crashes + 1
    /\ call' = [h \in Handlers |-> IdleCall]
    /\ disturbed' = (disturbed \/ \E h \in Handlers : call[h].pc \in {"list", "renumber"})
    /\ apart' = apart \cup UNION {Unfinished(call[h]) : h \in Handlers}
    /\ UNCHANGED <<school, partner>>

Init ==
    /\ school = [u \in Udises |-> NoSchool]
    /\ partner = [u \in Udises |-> NoPartner]
    /\ call = [h \in Handlers |-> IdleCall]
    /\ disturbed = FALSE /\ apart = {} /\ crashes = 0

Ask(h) ==
    \/ \E u \in Udises, pay \in Pays, given \in 0..MaxSerial : create(h, u, pay, given)
    \/ \E some \in SUBSET Udises, pay \in Pays : bulkInsert(h, some, pay) \/ bulkUpdate(h, some, pay)
    \/ \E u \in Udises, pay \in Pays \cup {0}, given \in 0..MaxSerial : update(h, u, pay, given)
    \/ \E some \in SUBSET Udises : deleteByIds(h, some)
    \/ findAllPartners(h) \/ requestSync(h)

Work(h) ==
    \/ number(h) \/ insert(h) \/ upsertFromSchoolRecord(h)
    \/ \E u \in Udises : bulkItem(h, u) \/ patchItem(h, u) \/ syncOne(h, u)
    \/ bulkEnd(h) \/ patchEnd(h) \/ syncFromSchools(h) \/ syncEnd(h)
    \/ renumberSerialNumbers(h) \/ renumber(h) \/ deleteBySchoolWorkIds(h)

Partners ==
    \/ \E u \in Udises, pay \in Pays : createPartner(u, pay) \/ updatePartner(u, pay)
    \/ \E u \in Udises, paid \in BOOLEAN : bulkUpdatePayLedger(u, paid)
    \/ \E some \in SUBSET Udises : deletePartners(some)

Next == (\E h \in Handlers : Ask(h) \/ Work(h)) \/ Partners \/ Crash

Spec == Init /\ [][Next]_vars
-----------------------------------------------------------------------------
TypeOK ==
    /\ \A u \in Udises : school[u] = NoSchool \/ school[u] \in [srNo : Nat \ {0}, pay : Pays]
    /\ \A u \in Udises : partner[u] = NoPartner \/ partner[u] \in [pay : Pays, paid : BOOLEAN]
    /\ apart \subseteq Udises

Quiet == \A h \in Handlers : Idle(h)

\* Between requests the schools are numbered 1 .. n: create and bulkInsert
\* number by the count, deleteByIds closes the gaps it makes.
SerialsAreContiguous ==
    Quiet /\ ~disturbed => {school[u].srNo : u \in Registered} = 1..count

\* Between requests every school has its partner with its pay, and no partner
\* outlives its school: each school handler ends by writing the partners.
PartnersFollowSchools ==
    Quiet => \A u \in Udises \ apart :
        /\ u \in Registered => partner[u] # NoPartner /\ partner[u].pay = school[u].pay
        /\ u \notin Registered => partner[u] = NoPartner
=============================================================================
