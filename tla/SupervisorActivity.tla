------------------------- MODULE SupervisorActivity -------------------------
(***************************************************************************)
(* When a supervisor was online: logins, requests and logouts start,       *)
(* extend and end spans of activity, in calls nobody waits for             *)
(* (supervisor-activity.service.ts, sessions.service.ts).  Supervisors     *)
(* share no rows; an administrator's own use of the portal                 *)
(* (impersonation) touches neither.                                        *)
(***************************************************************************)
EXTENDS Integers, FiniteSets

CONSTANTS
    Handlers,       \* calls in progress
    Tokens,         \* sessions of the supervisor (bound)
    Online,         \* SUPERVISOR_ONLINE_THRESHOLD_MS, in touch intervals
    LastTime,       \* the clock (bound)
    MaxSpans        \* rows of supervisor_activity_sessions (bound)

VARIABLES
    now,            \* in units of SUPERVISOR_ACTIVITY_TOUCH_INTERVAL_MS
    token,          \* lastActiveAt of each session, or Gone
    span,           \* supervisor_activity_sessions, or NoSpan
    seen,           \* history: when the supervisor logged in or asked for something
    call

vars == <<now, token, span, seen, call>>

Times == 0..LastTime
Gone == -1
Open == -1          \* endedAt: null
Span == [startedAt: Times, lastActiveAt: Times, endedAt: Times \cup {Open}]
NoSpan == [startedAt |-> -1, lastActiveAt |-> -1, endedAt |-> 0]
Rows == {i \in 1..MaxSpans : span[i] # NoSpan}
OpenRows == {i \in Rows : span[i].endedAt = Open}

IdleCall == [pc |-> "idle"]
Goto(h, c) == call' = [call EXCEPT ![h] = c]
At(h, pc) == call[h].pc = pc
Idle(h) == At(h, "idle")

TypeOK ==
    /\ now \in Times
    /\ token \in [Tokens -> Times \cup {Gone}]
    /\ span \in [1..MaxSpans -> Span \cup {NoSpan}]
    /\ seen \subseteq Times

Init ==
    /\ now = 0
    /\ token = [k \in Tokens |-> Gone]
    /\ span = [i \in 1..MaxSpans |-> NoSpan]
    /\ seen = {}
    /\ call = [h \in Handlers |-> IdleCall]

Tick ==
    /\ now < LastTime
    /\ now' = now + 1
    /\ UNCHANGED <<token, span, seen, call>>

-----------------------------------------------------------------------------
\* Sessions: a login starts a span, a request at most once an interval extends
\* it, a logout ends it; each in a call of its own.
createSession(h, k) ==
    /\ Idle(h)
    /\ token[k] = Gone
    /\ token' = [token EXCEPT ![k] = now]
    /\ seen' = seen \cup {now}
    /\ Goto(h, [pc |-> "endAll", at |-> now])
    /\ UNCHANGED <<now, span>>

touchSupervisorActivity(h, k) ==
    /\ Idle(h)
    /\ token[k] # Gone /\ token[k] < now
    /\ token' = [token EXCEPT ![k] = now]
    /\ seen' = seen \cup {now}
    /\ Goto(h, [pc |-> "find", at |-> now])
    /\ UNCHANGED <<now, span>>

destroySession(h, k) ==
    /\ Idle(h)
    /\ token[k] # Gone
    /\ token' = [token EXCEPT ![k] = Gone]
    /\ Goto(h, [pc |-> "findLast"])
    /\ UNCHANGED <<now, span, seen>>

-----------------------------------------------------------------------------
\* The newest open row.
Newest(i) == i \in OpenRows /\ \A j \in OpenRows : span[j].startedAt <= span[i].startedAt

\* A row as it was read: the time it is closed with.
Read(rows) == {[row |-> i, last |-> span[i].lastActiveAt] : i \in rows}

Insert(at) == [pc |-> "insert", at |-> at]
Close(rows, then) == [pc |-> "close", rows |-> Read(rows), then |-> then]

\* Mutant: the row is extended whatever the gap.
recordActivityMutant(h) ==
    /\ At(h, "find")
    /\ \/ OpenRows = {} /\ Goto(h, Insert(call[h].at))
       \/ \E i \in OpenRows :
            /\ Newest(i)
            /\ Goto(h, [pc |-> "extend", row |-> i, at |-> call[h].at])
    /\ UNCHANGED <<now, token, span, seen>>
recordActivity(h) ==
    /\ At(h, "find")
    /\ LET at == call[h].at IN
       \/ OpenRows = {} /\ Goto(h, Insert(at))
       \/ \E i \in OpenRows :
            /\ Newest(i)
            /\ Goto(h, IF at - span[i].lastActiveAt > Online THEN Close({i}, Insert(at))
                       ELSE [pc |-> "extend", row |-> i, at |-> at])
    /\ UNCHANGED <<now, token, span, seen>>

extend(h) ==
    /\ At(h, "extend")
    /\ span' = [span EXCEPT ![call[h].row].lastActiveAt = call[h].at]
    /\ Goto(h, IdleCall)
    /\ UNCHANGED <<now, token, seen>>

endSession(h) ==
    /\ At(h, "findLast")
    /\ \/ OpenRows = {} /\ Goto(h, IdleCall)
       \/ \E i \in OpenRows : Newest(i) /\ Goto(h, Close({i}, IdleCall))
    /\ UNCHANGED <<now, token, span, seen>>

startSessionOnLogin(h) ==
    /\ At(h, "endAll")
    /\ Goto(h, Close(OpenRows, Insert(call[h].at)))
    /\ UNCHANGED <<now, token, span, seen>>

\* The administrator opens the history: rows nobody has touched for long end.
closeStaleOpenSessions(h) ==
    /\ Idle(h)
    /\ Goto(h, Close({i \in OpenRows : span[i].lastActiveAt < now - Online}, IdleCall))
    /\ UNCHANGED <<now, token, span, seen>>

\* One row after the other ends when it was last active.
close(h) ==
    /\ At(h, "close")
    /\ LET c == call[h] IN
       \/ c.rows = {} /\ Goto(h, c.then) /\ UNCHANGED span
       \/ \E r \in c.rows :
            /\ span' = [span EXCEPT ![r.row].endedAt = r.last]
            /\ Goto(h, [c EXCEPT !.rows = @ \ {r}])
    /\ UNCHANGED <<now, token, seen>>

insert(h) ==
    /\ At(h, "insert")
    /\ \E i \in (1..MaxSpans) \ Rows :
         /\ \A j \in 1..(i - 1) : j \in Rows
         /\ span' = [span EXCEPT ![i] = [startedAt |-> call[h].at, lastActiveAt |-> call[h].at,
                                         endedAt |-> Open]]
    /\ Goto(h, IdleCall)
    /\ UNCHANGED <<now, token, seen>>

Crash ==
    /\ call' = [h \in Handlers |-> IdleCall]
    /\ UNCHANGED <<now, token, span, seen>>

Handle(h) ==
    \/ recordActivity(h) \/ extend(h) \/ endSession(h) \/ startSessionOnLogin(h)
    \/ closeStaleOpenSessions(h) \/ close(h) \/ insert(h)
    \/ \E k \in Tokens : createSession(h, k) \/ touchSupervisorActivity(h, k) \/ destroySession(h, k)

Next == Tick \/ Crash \/ \E h \in Handlers : Handle(h)

Spec == Init /\ [][Next]_vars

-----------------------------------------------------------------------------
\* The history adds up the lengths of the rows (getHistory).  With the calls
\* served one at a time, wherever one is cut off: at most one row is open, no
\* time is counted twice, and no row covers more than the threshold during
\* which the supervisor did nothing.
PresenceIsSeen ==
    /\ Cardinality(OpenRows) <= 1
    /\ \A i, j \in Rows : i # j => \/ span[i].lastActiveAt <= span[j].startedAt
                                   \/ span[j].lastActiveAt <= span[i].startedAt
    /\ \A i \in Rows : \A t \in span[i].startedAt..span[i].lastActiveAt :
         \E s \in seen : s <= t /\ t <= s + Online
=============================================================================
