----------------------------- MODULE Attendance -----------------------------
(***************************************************************************)
(* The attendance grid of a tenant (attendance.service.ts): one cell per   *)
(* employee and day, marked by administrators, by punches within the       *)
(* office fences (attendance-punch.service.ts), by the biometric device    *)
(* (ESSL) and by the agents' logins (agent.service.ts); and the list of    *)
(* employees to be let go, read from it.  A month is one day.  The server  *)
(* keeps UTC, in which the agents' log counts its days.  A punch's own     *)
(* row, which nothing here reads again, is left out.                       *)
(***************************************************************************)
EXTENDS Integers, FiniteSets

CONSTANTS
    Handlers,       \* calls in progress
    Employees,
    Places,         \* where an office fence may be drawn
    First, Last,    \* the clock (bound), in months since a January
    Windows         \* months an exit list looks back (bound)

VARIABLES
    now,
    standing,       \* of each employee
    fences,         \* office_geofences
    cell,           \* attendance_records: status by employee and time
    synced,         \* attendance_sync_logs, by employee and time
    worked,         \* history: days somebody or something was told are present
    corrected,      \* history: days an administrator marked otherwise since
    call

vars == <<now, standing, fences, cell, synced, worked, corrected, call>>
office == <<now, standing, fences>>

Times == First..Last
Days == Employees \X Times
Blank == ""                                 \* no row in attendance_records
Statuses == {"P", "A"}
\* A sync log is missing, was made by a logout (it has no id then), or by a login.
Log == {"none", "pending", "synced"}

IdleCall == [pc |-> "idle"]
Goto(h, c) == call' = [call EXCEPT ![h] = c]
At(h, pc) == call[h].pc = pc
Idle(h) == At(h, "idle")

TypeOK ==
    /\ now \in Times
    /\ standing \in [Employees -> {"active", "exited", "removed"}]
    /\ fences \subseteq Places
    /\ cell \in [Days -> Statuses \cup {Blank}]
    /\ synced \in [Days -> Log]
    /\ worked \subseteq Days /\ corrected \subseteq Days

Init ==
    /\ now = First
    /\ standing = [e \in Employees |-> "active"]
    /\ fences = {}
    /\ cell = [d \in Days |-> Blank]
    /\ synced = [d \in Days |-> "none"]
    /\ worked = {} /\ corrected = {}
    /\ call = [h \in Handlers |-> IdleCall]

-----------------------------------------------------------------------------
\* Around the grid: time, geofences, and the employee register.
Tick == now < Last /\ now' = now + 1 /\ UNCHANGED <<standing, fences, cell, synced, worked, corrected, call>>

createGeofence(p) ==
    /\ fences' = fences \cup {p}
    /\ UNCHANGED <<now, standing, cell, synced, worked, corrected, call>>

markExit(e) ==
    /\ standing[e] = "active"
    /\ standing' = [standing EXCEPT ![e] = "exited"]
    /\ UNCHANGED <<now, fences, cell, synced, worked, corrected, call>>

remove(e) ==
    /\ standing[e] # "removed"
    /\ standing' = [standing EXCEPT ![e] = "removed"]
    /\ UNCHANGED <<now, fences, cell, synced, worked, corrected, call>>

-----------------------------------------------------------------------------
\* A cell is written whole, whatever it held.
upsertCell(d, status) ==
    /\ cell' = [cell EXCEPT ![d] = status]
    /\ IF status = "P" THEN worked' = worked \cup {d} /\ corrected' = corrected \ {d}
       ELSE worked' = worked /\ corrected' = corrected \cup {d}

\* An administrator marks a day, or the days of a list or an imported grid, one
\* after the other.
bulkUpsert(h) ==
    /\ Idle(h)
    /\ \E days \in SUBSET Days, s \in Statuses :
         Cardinality(days) \in 1..2 /\ Goto(h, [pc |-> "bulk", days |-> days, status |-> s])
    /\ UNCHANGED <<office, cell, synced, worked, corrected>>

nextEntry(h) ==
    /\ At(h, "bulk")
    /\ \E d \in call[h].days :
         /\ upsertCell(d, call[h].status)
         /\ Goto(h, IF call[h].days = {d} THEN IdleCall ELSE [call[h] EXCEPT !.days = @ \ {d}])
    /\ UNCHANGED <<office, synced>>

\* The device's punches, each day once; a code nobody has is skipped.
syncEsslPunches(h) ==
    /\ Idle(h)
    /\ \E days \in SUBSET {d \in Days : d[2] <= now} :
         Cardinality(days) \in 1..2 /\ Goto(h, [pc |-> "essl", days |-> days])
    /\ UNCHANGED <<office, cell, synced, worked, corrected>>

esslEmployee(h) ==
    /\ At(h, "essl")
    /\ \E d \in call[h].days :
         LET rest == [call[h] EXCEPT !.days = @ \ {d}] IN
         Goto(h, IF standing[d[1]] # "removed" THEN [pc |-> "esslCell", day |-> d, then |-> rest]
                 ELSE IF rest.days = {} THEN IdleCall ELSE rest)
    /\ UNCHANGED <<office, cell, synced, worked, corrected>>

esslCell(h) ==
    /\ At(h, "esslCell")
    /\ upsertCell(call[h].day, "P")
    /\ Goto(h, IF call[h].then.days = {} THEN IdleCall ELSE call[h].then)
    /\ UNCHANGED <<office, synced>>

\* A punch, refused outside of the fences when the caller asks for that; the
\* day of a punch in is marked after its row is created.
WithinGeofence(p) == fences = {} \/ p \in fences

punch(h, e, type, p, requireGeofence) ==
    /\ Idle(h)
    /\ standing[e] = "active"
    /\ requireGeofence => WithinGeofence(p)
    /\ Goto(h, IF type = "in" THEN [pc |-> "punched", day |-> <<e, now>>] ELSE IdleCall)
    /\ UNCHANGED <<office, cell, synced, worked, corrected>>

syncDailyAttendance(h) ==
    /\ At(h, "punched")
    /\ upsertCell(call[h].day, "P")
    /\ Goto(h, IdleCall)
    /\ UNCHANGED <<office, synced>>

-----------------------------------------------------------------------------
\* The agent sends, and sends again, when its employee logged in and out; a
\* logout may be of another day than the login.
ingest(h, e, login, logout) ==
    /\ Idle(h)
    /\ Goto(h, [pc |-> "login", day |-> <<e, login>>, out |-> <<e, logout>>])
    /\ UNCHANGED <<office, cell, synced, worked, corrected>>

syncAttendancePunchIn(h) ==
    /\ At(h, "login")
    /\ LET c == call[h] IN
       IF synced[c.day] = "synced" \/ standing[c.day[1]] = "removed"
       THEN /\ Goto(h, [c EXCEPT !.pc = "logout"])
            /\ worked' = IF synced[c.day] = "synced" THEN worked \cup {c.day} ELSE worked
       ELSE Goto(h, [c EXCEPT !.pc = "mark"]) /\ UNCHANGED worked
    /\ UNCHANGED <<office, cell, synced, corrected>>

\* Mutant: the day is logged as synced before it is marked.
markMutant(h) ==
    /\ At(h, "mark")
    /\ synced' = [synced EXCEPT ![call[h].day] = "synced"]
    /\ Goto(h, [call[h] EXCEPT !.pc = "log"])
    /\ UNCHANGED <<office, cell, worked, corrected>>
\* A day that is marked already stays as it is.
mark(h) ==
    /\ At(h, "mark")
    /\ cell' = [cell EXCEPT ![call[h].day] = IF @ = Blank THEN "P" ELSE @]
    /\ Goto(h, [call[h] EXCEPT !.pc = "log"])
    /\ UNCHANGED <<office, synced, worked, corrected>>

log(h) ==
    /\ At(h, "log")
    /\ synced' = [synced EXCEPT ![call[h].day] = "synced"]
    /\ worked' = worked \cup {call[h].day}
    /\ Goto(h, [call[h] EXCEPT !.pc = "logout"])
    /\ UNCHANGED <<office, cell, corrected>>

\* The index on the logs' ids lets one row be without: a second fails the call.
syncAttendancePunchOut(h) ==
    /\ At(h, "logout")
    /\ LET d == call[h].out IN
       synced' = IF synced[d] = "none" /\ ~\E other \in Days : synced[other] = "pending"
                 THEN [synced EXCEPT ![d] = "pending"] ELSE synced
    /\ Goto(h, IdleCall)
    /\ UNCHANGED <<office, cell, worked, corrected>>

-----------------------------------------------------------------------------
\* The list of employees to be let go: active, and not present in the last months.
Key(t) == [month |-> t % 12, year |-> t \div 12]

getLastNMonthKeys(reference, count) ==
    LET keys[i \in 1..count] ==
          IF i = 1 THEN reference
          ELSE IF keys[i - 1].month = 0 THEN [month |-> 11, year |-> keys[i - 1].year - 1]
          ELSE [keys[i - 1] EXCEPT !.month = @ - 1]
    IN {keys[i] : i \in 1..count}

Unread == {"unread"}

getExitEligibility(h, reference, months) ==
    /\ Idle(h)
    /\ Goto(h, [pc |-> "exits", window |-> (reference - months + 1)..reference,
                checkedMonths |-> getLastNMonthKeys(Key(reference), months),
                known |-> worked \ corrected, active |-> Unread, present |-> Unread, last |-> {}])
    /\ UNCHANGED <<office, cell, synced, worked, corrected>>

\* Promise.all: in either order.
activeEmployees(h) ==
    /\ At(h, "exits") /\ call[h].active = Unread
    /\ Goto(h, [call[h] EXCEPT !.active = {e \in Employees : standing[e] = "active"}])
    /\ UNCHANGED <<office, cell, synced, worked, corrected>>

presentInWindow(h) ==
    /\ At(h, "exits") /\ call[h].present = Unread
    /\ Goto(h, [call[h] EXCEPT !.present =
                 {d[1] : d \in {d \in Days : Key(d[2]) \in call[h].checkedMonths /\ cell[d] = "P"}}])
    /\ UNCHANGED <<office, cell, synced, worked, corrected>>

\* The last day each was present on.
getLastPresentDates(h) ==
    /\ At(h, "exits") /\ call[h].active # Unread /\ call[h].present # Unread
    /\ LET eligible == call[h].active \ call[h].present
           Present(e) == {t \in Times : cell[<<e, t>>] = "P"}
       IN Goto(h, [call[h] EXCEPT !.pc = "listed", !.active = eligible,
                    !.last = {d \in eligible \X Times :
                                d[2] \in Present(d[1]) /\ \A u \in Present(d[1]) : u <= d[2]}])
    /\ UNCHANGED <<office, cell, synced, worked, corrected>>

listed(h) == At(h, "listed") /\ Goto(h, IdleCall) /\ UNCHANGED <<office, cell, synced, worked, corrected>>

-----------------------------------------------------------------------------
Crash == call' = [h \in Handlers |-> IdleCall] /\ UNCHANGED <<office, cell, synced, worked, corrected>>

Handle(h) ==
    \/ bulkUpsert(h) \/ nextEntry(h) \/ syncEsslPunches(h) \/ esslEmployee(h) \/ esslCell(h)
    \/ \E e \in Employees, type \in {"in", "out"}, p \in Places, r \in BOOLEAN : punch(h, e, type, p, r)
    \/ syncDailyAttendance(h)
    \/ \E e \in Employees, in, out \in First..now : in <= out /\ ingest(h, e, in, out)
    \/ syncAttendancePunchIn(h) \/ mark(h) \/ log(h) \/ syncAttendancePunchOut(h)
    \/ \E t \in Times, n \in Windows : getExitEligibility(h, t, n)
    \/ activeEmployees(h) \/ presentInWindow(h) \/ getLastPresentDates(h) \/ listed(h)

Next ==
    \/ Tick \/ Crash
    \/ \E p \in Places : createGeofence(p)
    \/ \E e \in Employees : markExit(e) \/ remove(e)
    \/ \E h \in Handlers : Handle(h)

Spec == Init /\ [][Next]_vars

-----------------------------------------------------------------------------
\* With calls served one at a time, wherever one is cut off: nobody is listed to
\* be let go who is known - by an administrator, a punch, the device or the
\* agent - to have been present in the months looked at, unless an
\* administrator has marked the day otherwise; what he marks, nothing an agent
\* sends again undoes; the last day shown lies outside of those months.
ExitListIsJust ==
    /\ \A d \in corrected : cell[d] = "A"
    /\ \A h \in Handlers : At(h, "listed") =>
         \A e \in call[h].active, t \in Times : t \in call[h].window =>
           <<e, t>> \notin call[h].known \/ <<e, t>> \in corrected
    /\ \A h \in Handlers : At(h, "listed") => \A d \in call[h].last : d[2] \notin call[h].window
=============================================================================
