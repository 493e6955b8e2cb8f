-------------------------- MODULE EmployeeRegister --------------------------
(***************************************************************************)
(* The employees collection: who is in it, under which serial number and   *)
(* with which exit status, as employees.service.ts keeps it for several    *)
(* tenants in one collection.                                              *)
(*                                                                         *)
(* Mongoose middleware adds the request's tenant to find, updateOne,       *)
(* updateMany and deleteMany, but not to bulkWrite, and `id` (the employee *)
(* code) is unique within a tenant only.  Profile fields other than the    *)
(* exit, and the files of an employee, are left out.                       *)
(***************************************************************************)
EXTENDS Integers, FiniteSets

CONSTANTS
    Tenants,
    Ids,            \* employee codes, which are the ids
    Handlers,       \* requests in progress
    MaxEmployees,   \* subscription plan: maxEmployees
    MaxSerial,      \* bound: the largest serial number a request may give
    MaxCrashes      \* bound: process restarts

VARIABLES
    employees,      \* per tenant, per id: the row, or NoRow
    call,           \* what each request in progress remembers
    disturbed,      \* history: tenants whose numbering a request's own serial
                    \* number or a crash disturbed since the last renumbering
    crashes

vars == <<employees, call, disturbed, crashes>>

NoRow == [srNo |-> 0]
Row == [srNo : Nat \ {0}, exitDate : BOOLEAN, status : {"active", "exited"}]

IdleCall == [pc |-> "idle"]
Goto(h, c) == call' = [call EXCEPT ![h] = c]
At(h, pc) == call[h].pc = pc
IsSerial == \A g, h \in Handlers : g = h

Registered(t) == {i \in Ids : employees[t][i] # NoRow}
countEmployees(t) == Cardinality(Registered(t))
-----------------------------------------------------------------------------
(* create: the controller looks the code up; the service counts, asks the   *)
(* plan, and inserts under the unique index on (tenantId, employeeCode).    *)

existsByCode(t, i) == employees[t][i] # NoRow

\* `given` is raw.srNo, 0 when the request leaves the number to the server.
create(h, t, i, given) ==
    /\ call[h] = IdleCall
    /\ ~existsByCode(t, i)
    /\ Goto(h, [pc |-> "count", tenant |-> t, id |-> i, given |-> given])
    /\ UNCHANGED <<employees, disturbed, crashes>>

assertCanAddEmployee(currentCount) == currentCount < MaxEmployees

countForCreate(h) ==
    /\ At(h, "count")
    /\ LET c == call[h]
           n == countEmployees(c.tenant)
       IN IF assertCanAddEmployee(n)
          THEN Goto(h, [pc |-> "insert", tenant |-> c.tenant, id |-> c.id,
                        srNo |-> IF c.given > 0 THEN c.given ELSE n + 1,
                        given |-> c.given > 0])
          ELSE Goto(h, IdleCall)
    /\ UNCHANGED <<employees, disturbed, crashes>>

\* A row may carry an exit date from the start; its status is the default.
NewRow(n, exitDate) == [srNo |-> n, exitDate |-> exitDate, status |-> "active"]

insert(h, exitDate) ==
    /\ At(h, "insert")
    /\ LET c == call[h]
       IN IF existsByCode(c.tenant, c.id)
          THEN UNCHANGED <<employees, disturbed>>
          ELSE /\ employees' = [employees EXCEPT ![c.tenant][c.id] = NewRow(c.srNo, exitDate)]
               /\ disturbed' = IF c.given THEN disturbed \cup {c.tenant} ELSE disturbed
    /\ Goto(h, IdleCall)
    /\ UNCHANGED crashes
-----------------------------------------------------------------------------
(* bulkInsert counts once and then numbers the items itself; it never asks  *)
(* the plan.  A code that exists is skipped.                                *)

bulkInsert(h, t, items) ==
    /\ call[h] = IdleCall
    /\ items # {}
    /\ Goto(h, [pc |-> "bulk", tenant |-> t, todo |-> items, srNo |-> countEmployees(t)])
    /\ UNCHANGED <<employees, disturbed, crashes>>

\* Mutant: the number is taken for codes that are skipped, too.
bulkCheckMutant(h, i) ==
    /\ At(h, "bulk")
    /\ i \in call[h].todo
    /\ LET c == call[h] IN
         IF existsByCode(c.tenant, i)
         THEN Goto(h, [c EXCEPT !.todo = @ \ {i}, !.srNo = @ + 1])
         ELSE Goto(h, [pc |-> "bulkCreate", tenant |-> c.tenant, todo |-> c.todo \ {i},
                       srNo |-> c.srNo + 1, id |-> i])
    /\ UNCHANGED <<employees, disturbed, crashes>>

bulkCheck(h, i) ==
    /\ At(h, "bulk")
    /\ i \in call[h].todo
    /\ LET c == call[h] IN
         IF existsByCode(c.tenant, i)
         THEN Goto(h, [c EXCEPT !.todo = @ \ {i}])
         ELSE Goto(h, [pc |-> "bulkCreate", tenant |-> c.tenant, todo |-> c.todo \ {i},
                       srNo |-> c.srNo + 1, id |-> i])
    /\ UNCHANGED <<employees, disturbed, crashes>>

bulkCreate(h, exitDate) ==
    /\ At(h, "bulkCreate")
    /\ LET c == call[h] IN
         IF existsByCode(c.tenant, c.id)
         THEN UNCHANGED employees /\ Goto(h, IdleCall)
         ELSE /\ employees' = [employees EXCEPT ![c.tenant][c.id] = NewRow(c.srNo, exitDate)]
              /\ Goto(h, [pc |-> "bulk", tenant |-> c.tenant, todo |-> c.todo, srNo |-> c.srNo])
    /\ UNCHANGED <<disturbed, crashes>>

bulkDone(h) ==
    /\ At(h, "bulk") /\ call[h].todo = {}
    /\ Goto(h, IdleCall)
    /\ UNCHANGED <<employees, disturbed, crashes>>
-----------------------------------------------------------------------------
(* update: also what bulkApplyUpdates and an approved change request call,  *)
(* employee by employee.                                                    *)

\* `exit` is what the body says of exitDate: "unsaid", "set" or "clear".
mergedStatus(row, exit) ==
    CASE exit = "set"   -> "exited"
      [] exit = "clear" -> "active"
      [] OTHER          -> row.status

update(h, t, i, exit) ==
    /\ call[h] = IdleCall
    /\ employees[t][i] # NoRow
    /\ Goto(h, [pc |-> "setPatch", tenant |-> t, id |-> i, exit |-> exit,
                status |-> mergedStatus(employees[t][i], exit)])
    /\ UNCHANGED <<employees, disturbed, crashes>>

\* The patch always carries the status it derived, the exit date if given.
setPatch(h) ==
    /\ At(h, "setPatch")
    /\ LET c == call[h]
           row == employees[c.tenant][c.id]
       IN IF row = NoRow THEN UNCHANGED employees
          ELSE employees' = [employees EXCEPT ![c.tenant][c.id] =
                 [row EXCEPT !.status = c.status,
                             !.exitDate = IF c.exit = "unsaid" THEN row.exitDate ELSE c.exit = "set"]]
    /\ Goto(h, IdleCall)
    /\ UNCHANGED <<disturbed, crashes>>

\* One updateMany; the reads around it only count and report.
markExitByIds(h, t, S) ==
    /\ call[h] = IdleCall
    /\ S # {} /\ S \subseteq Registered(t)
    /\ employees' = [employees EXCEPT ![t] =
          [i \in Ids |-> IF i \in S
                         THEN [@[i] EXCEPT !.exitDate = TRUE, !.status = "exited"]
                         ELSE @[i]]]
    /\ UNCHANGED <<call, disturbed, crashes>>
-----------------------------------------------------------------------------
(* deleteByIds, then renumberSerialNumbers *)

deleteByIds(h, t, S) ==
    /\ call[h] = IdleCall
    /\ S # {}
    /\ employees' = [employees EXCEPT ![t] =
          [i \in Ids |-> IF i \in S THEN NoRow ELSE @[i]]]
    /\ Goto(h, [pc |-> "readRemaining", tenant |-> t])
    /\ UNCHANGED <<disturbed, crashes>>

\* The remaining rows sorted by srNo; equal numbers come in any order.
Orders(t) ==
    LET S == Registered(t)
    IN {p \in [S -> 1..Cardinality(S)] :
          \A i, j \in S : i # j =>
            /\ p[i] # p[j]
            /\ employees[t][i].srNo < employees[t][j].srNo => p[i] < p[j]}

readRemaining(h) ==
    /\ At(h, "readRemaining")
    /\ \E p \in Orders(call[h].tenant) :
         Goto(h, [pc |-> "bulkWrite", tenant |-> call[h].tenant, position |-> p])
    /\ UNCHANGED <<employees, disturbed, crashes>>

\* updateOne: { filter: { id } } finds one row with that id, of any tenant.
bulkWrite(h) ==
    /\ At(h, "bulkWrite")
    /\ LET c == call[h]
           S == DOMAIN c.position
           Matches(i) == {t \in Tenants : employees[t][i] # NoRow}
       IN \E hit \in [S -> Tenants] :
            /\ \A i \in S : Matches(i) # {} => hit[i] \in Matches(i)
            /\ employees' = [t \in Tenants |-> [i \in Ids |->
                 IF i \in S /\ hit[i] = t /\ t \in Matches(i)
                 THEN [employees[t][i] EXCEPT !.srNo = c.position[i]]
                 ELSE employees[t][i]]]
    /\ disturbed' = disturbed \ {call[h].tenant}
    /\ Goto(h, IdleCall)
    /\ UNCHANGED crashes

\* The process restarts: every call is forgotten, the collection stays.
Crash ==
    /\ crashes < MaxCrashes
    /\ crashes' = crashes + 1
    /\ disturbed' = disturbed \cup
         {call[h].tenant : h \in {g \in Handlers : call[g].pc \in {"readRemaining", "bulkWrite"}}}
    /\ call' = [h \in Handlers |-> IdleCall]
    /\ UNCHANGED employees
-----------------------------------------------------------------------------
Init ==
    /\ employees = [t \in Tenants |-> [i \in Ids |-> NoRow]]
    /\ call = [h \in Handlers |-> IdleCall]
    /\ disturbed = {}
    /\ crashes = 0

Next ==
    \/ \E h \in Handlers :
         \/ \E t \in Tenants, i \in Ids :
              \/ \E given \in 0..MaxSerial : create(h, t, i, given)
              \/ \E exit \in {"unsaid", "set", "clear"} : update(h, t, i, exit)
         \/ \E t \in Tenants, S \in SUBSET Ids :
              bulkInsert(h, t, S) \/ markExitByIds(h, t, S) \/ deleteByIds(h, t, S)
         \/ countForCreate(h)
         \/ \E exitDate \in BOOLEAN : insert(h, exitDate) \/ bulkCreate(h, exitDate)
         \/ \E i \in Ids : bulkCheck(h, i)
         \/ bulkDone(h)
         \/ setPatch(h)
         \/ readRemaining(h) \/ bulkWrite(h)
    \/ Crash

Spec == Init /\ [][Next]_vars
-----------------------------------------------------------------------------
\* Rows are numbered from one and carry an exit status.
TypeOK ==
    /\ employees \in [Tenants -> [Ids -> Row \cup {NoRow}]]
    /\ disturbed \subseteq Tenants
    /\ crashes \in 0..MaxCrashes
    /\ \A h \in Handlers : \/ call[h] = IdleCall
                           \/ call[h].tenant \in Tenants

Renumbering(t) == \E h \in Handlers :
    call[h].pc \in {"readRemaining", "bulkWrite"} /\ call[h].tenant = t

\* While requests are handled one at a time, a tenant's serial numbers are
\* exactly 1..n: creation and import number on from the count, and a deletion
\* closes the gap it leaves.  A number given by the request and a crash before
\* the renumbering disturb them, until the next deletion puts them right.
SerialsAreContiguous ==
    IsSerial => \A t \in Tenants \ disturbed :
      Renumbering(t) \/ {employees[t][i].srNo : i \in Registered(t)} = 1..countEmployees(t)

\* "Automatically scopes all Mongoose queries to the current request tenant":
\* a request changes rows of its own tenant only.
RequestsStayInTheirTenant ==
    [][\A h \in Handlers : At(h, "bulkWrite") /\ call'[h] = IdleCall =>
         \A t \in Tenants \ {call[h].tenant} : employees'[t] = employees[t]]_vars
=============================================================================
