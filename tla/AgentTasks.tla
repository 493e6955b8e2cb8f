----------------------------- MODULE AgentTasks -----------------------------
(***************************************************************************)
(* The to-do lists of the desktop agent (agent-workspace.service.ts): what *)
(* administrators give out by hand, what an employee completes or reports, *)
(* and the monthly tasks a timer issues from templates, on a calendar with *)
(* months of different lengths.                                            *)
(***************************************************************************)
EXTENDS Naturals, Sequences

CONSTANTS
    Handlers,       \* requests and timer passes in progress
    Employees,
    Templates,      \* ids of the templates that may be made (bound)
    Tasks,          \* ids of the tasks that may be made (bound)
    Months,         \* the lengths of the months the calendar runs through (bound)
    IssueDays,      \* days of the month a template may name
    Lines,          \* lines a description given out by hand may have
    None            \* the template of a task given out by hand

VARIABLES
    today,          \* the date, and whether a whole pass has been made on it
    employed,       \* employees in the register
    template,       \* agent_recurring_tasks
    task,           \* agent_tasks, or NoTask
    steady,         \* history: templates active and unchanged since the month began
    issued,         \* history: <<template, employee>> a task of this month was made for
    overlapped,     \* history: two passes have been under way at the same time
    call

docs == <<employed, template, task>>
vars == <<today, docs, steady, issued, overlapped, call>>

AgentTask == [template: Templates \cup {None}, employee: Employees, period: 0..Len(Months),
              status: {"pending", "done", "cancelled"}]
NoTask == [status |-> "none"]
NoTemplate == [status |-> "none", employees |-> {}]
AgentRecurringTask ==
    {NoTemplate} \cup
    [status: {"active", "paused"}, issueDay: IssueDays, employees: (SUBSET Employees) \ {{}}]
Date == UNION {[month: {m}, day: 1..Months[m], passed: BOOLEAN] : m \in DOMAIN Months}

IdleCall == [pc |-> "idle"]
Goto(h, c) == call' = [call EXCEPT ![h] = c]
At(h, pc) == call[h].pc = pc
Idle(h) == At(h, "idle")
Passing == {h \in Handlers : call[h].pc \in {"find", "next", "issue"}}

TypeOK ==
    /\ today \in Date
    /\ employed \subseteq Employees
    /\ template \in [Templates -> AgentRecurringTask]
    /\ task \in [Tasks -> AgentTask \cup {NoTask}]
    /\ steady \subseteq Templates
    /\ issued \subseteq Templates \X Employees
    /\ overlapped \in BOOLEAN

Init ==
    /\ today = [month |-> 1, day |-> 1, passed |-> FALSE]
    /\ employed = Employees
    /\ template \in [Templates -> {NoTemplate} \cup
                        [status: {"active"}, issueDay: IssueDays, employees: (SUBSET Employees) \ {{}}]]
    /\ task = [k \in Tasks |-> NoTask]
    /\ steady = {t \in Templates : template[t].status = "active"}
    /\ issued = {}
    /\ overlapped = FALSE
    /\ call = [h \in Handlers |-> IdleCall]

-----------------------------------------------------------------------------
Unused == {k \in Tasks : task[k] = NoTask}
\* Ids are never used twice: not while a save of the task before is under way.
\* Which id a task gets makes no difference.
Free == {k \in Unused : \A h \in Handlers : ~(At(h, "save") /\ call[h].k = k)}

effectiveDayOfMonthMutant(month, day) == day   \* Mutant: not clamped to the month.
effectiveDayOfMonth(month, day) == IF day > Months[month] THEN Months[month] ELSE day

isRecurringIssueToday(month, day, issueDay) == day = effectiveDayOfMonth(month, issueDay)

\* One task for an employee who is found in the register.
createOneAdminTask(e, t, period) ==
    /\ Free # {}
    /\ task' = [task EXCEPT ![CHOOSE k \in Free : TRUE] = [template |-> t, employee |-> e, period |-> period, status |-> "pending"]]

\* A pass reads the clock first: at start-up, every hour, for the list of
\* an administrator and after a template is made.
materializeRecurringTasks(h) ==
    /\ Idle(h)
    /\ Goto(h, [pc |-> "find", month |-> today.month, day |-> today.day])
    /\ overlapped' = (overlapped \/ Passing # {})
    /\ UNCHANGED <<today, docs, steady, issued>>

findTemplates(h) ==
    /\ At(h, "find")
    /\ LET c == call[h]
           due == {t \in Templates : template[t].status = "active"
                                     /\ isRecurringIssueToday(c.month, c.day, template[t].issueDay)}
       IN Goto(h, [pc |-> "next", month |-> c.month, day |-> c.day, whole |-> TRUE,
                   todo |-> UNION {{t} \X template[t].employees : t \in due}])
    /\ UNCHANGED <<today, docs, steady, issued, overlapped>>

\* Mutant: a task that is done or cancelled does not count.
TaskOfMonthMutant(t, e, month) ==
    \E k \in Tasks \ Unused : task[k].template = t /\ task[k].employee = e /\ task[k].period = month
                              /\ task[k].status = "pending"
TaskOfMonth(t, e, month) ==
    \E k \in Tasks \ Unused : task[k].template = t /\ task[k].employee = e /\ task[k].period = month

\* The loop's next employee: has the month's task, or is looked up.
checkExists(h, t, e) ==
    /\ At(h, "next")
    /\ <<t, e>> \in call[h].todo
    /\ LET c == call[h] IN
       IF TaskOfMonth(t, e, c.month) \/ e \notin employed
       THEN Goto(h, [c EXCEPT !.todo = @ \ {<<t, e>>}])
       ELSE Goto(h, [pc |-> "issue", month |-> c.month, day |-> c.day, whole |-> c.whole,
                     todo |-> c.todo, t |-> t, e |-> e])
    /\ UNCHANGED <<today, docs, steady, issued, overlapped>>

NextEmployee(c) ==
    [pc |-> "next", month |-> c.month, day |-> c.day, whole |-> c.whole, todo |-> c.todo \ {<<c.t, c.e>>}]

issueTask(h) ==
    /\ At(h, "issue")
    /\ LET c == call[h] IN
       /\ createOneAdminTask(c.e, c.t, c.month)
       /\ issued' = IF c.month = today.month THEN issued \cup {<<c.t, c.e>>} ELSE issued
       /\ Goto(h, NextEmployee(c))
    /\ UNCHANGED <<today, employed, template, steady, overlapped>>

\* The task cannot be made: the pass goes on without it.
issueFails(h) ==
    /\ At(h, "issue")
    /\ Goto(h, [NextEmployee(call[h]) EXCEPT !.whole = FALSE])
    /\ UNCHANGED <<today, docs, steady, issued, overlapped>>

endPass(h) ==
    /\ At(h, "next")
    /\ call[h].todo = {}
    /\ Goto(h, IdleCall)
    /\ LET c == call[h]
       IN today' = [today EXCEPT !.passed = @ \/ (c.whole /\ c.month = today.month /\ c.day = today.day)]
    /\ UNCHANGED <<docs, steady, issued, overlapped>>

\* The database fails: the pass logs it and ends; the next hour tries again.
passFails(h) ==
    /\ h \in Passing
    /\ Goto(h, IdleCall)
    /\ UNCHANGED <<today, docs, steady, issued, overlapped>>

-----------------------------------------------------------------------------
\* A template for known employees; a pass follows before the answer.
createRecurringTask(h, t, es, d) ==
    /\ Idle(h)
    /\ template[t].status = "none"
    /\ es # {}
    /\ es \subseteq employed
    /\ template' = [template EXCEPT ![t] = [status |-> "active", issueDay |-> d, employees |-> es]]
    /\ Goto(h, [pc |-> "find", month |-> today.month, day |-> today.day])
    /\ overlapped' = (overlapped \/ Passing # {})
    /\ UNCHANGED <<today, employed, task, steady, issued>>

\* Its day, its employees, or a pause.  (Whole values replace whole values:
\* the order of two such saves decides.)
patchRecurringTask(t, es, d, status) ==
    /\ template[t].status # "none"
    /\ es # {}
    /\ es = template[t].employees \/ es \subseteq employed
    /\ template' = [template EXCEPT ![t] = [status |-> status, issueDay |-> d, employees |-> es]]
    /\ steady' = steady \ {t}
    /\ UNCHANGED <<today, employed, task, issued, overlapped, call>>

\* Its tasks stay.
deleteRecurringTask(t) ==
    /\ template[t].status # "none"
    /\ template' = [template EXCEPT ![t] = NoTemplate]
    /\ steady' = steady \ {t}
    /\ UNCHANGED <<today, employed, task, issued, overlapped, call>>

-----------------------------------------------------------------------------
\* Lines of a description that are tasks of their own; one if there are fewer than two.
splitTaskBulletLines(lines) == IF lines > 1 THEN 1..lines ELSE {1}

createAdminTask(h, es, lines) ==
    /\ Idle(h)
    /\ es # {}
    /\ Goto(h, [pc |-> "give", todo |-> es \X splitTaskBulletLines(lines)])
    /\ UNCHANGED <<today, docs, steady, issued, overlapped>>

\* One employee after the other; an unknown one ends the request, and what
\* was made before stays.
giveTask(h, e) ==
    /\ At(h, "give")
    /\ \E n \in {x[2] : x \in call[h].todo} :
         /\ <<e, n>> \in call[h].todo
         /\ IF e \in employed
            THEN /\ createOneAdminTask(e, None, 0)
                 /\ LET left == call[h].todo \ {<<e, n>>}
                    IN Goto(h, IF left = {} THEN IdleCall ELSE [pc |-> "give", todo |-> left])
            ELSE Goto(h, IdleCall) /\ UNCHANGED task
    /\ UNCHANGED <<today, employed, template, steady, issued, overlapped>>

\* The employee's own device: done, or done without having been asked.
completeTask(h, k) ==
    /\ Idle(h)
    /\ task[k].status = "pending"
    /\ Goto(h, [pc |-> "save", k |-> k, to |-> "done"])
    /\ UNCHANGED <<today, docs, steady, issued, overlapped>>

reportSelfCompletedTask(e) ==
    /\ Free # {}
    /\ task' = [task EXCEPT ![CHOOSE k \in Free : TRUE] = [template |-> None, employee |-> e, period |-> 0, status |-> "done"]]
    /\ UNCHANGED <<today, employed, template, steady, issued, overlapped, call>>

\* Cancelled at any time; pending again from cancelled or done.
patchAdminTask(h, k, to) ==
    /\ Idle(h)
    /\ k \notin Unused
    /\ \/ to = "cancelled"
       \/ to = "pending" /\ task[k].status \in {"cancelled", "done"}
    /\ to # task[k].status
    /\ Goto(h, [pc |-> "save", k |-> k, to |-> to])
    /\ UNCHANGED <<today, docs, steady, issued, overlapped>>

\* The save of a task that has been deleted finds nothing and fails.
saveTask(h) ==
    /\ At(h, "save")
    /\ LET c == call[h]
       IN task' = IF c.k \in Unused THEN task ELSE [task EXCEPT ![c.k].status = c.to]
    /\ Goto(h, IdleCall)
    /\ UNCHANGED <<today, employed, template, steady, issued, overlapped>>

\* A monthly task deleted on its day is issued again by the next pass.
deleteAdminTask(k) ==
    /\ k \notin Unused
    /\ task' = [task EXCEPT ![k] = NoTask]
    /\ UNCHANGED <<today, employed, template, steady, issued, overlapped, call>>

-----------------------------------------------------------------------------
\* An employee leaves the register.
EmployeeDeleted(e) ==
    /\ employed' = employed \ {e}
    /\ e \in employed
    /\ UNCHANGED <<today, template, task, steady, issued, overlapped, call>>

\* Midnight.  The timer runs hourly: no day ends before a pass of it has
\* come to its end (a whole day without one is left out).
Midnight ==
    /\ today.passed
    /\ IF today.day < Months[today.month]
       THEN /\ today' = [month |-> today.month, day |-> today.day + 1, passed |-> FALSE]
            /\ UNCHANGED <<steady, issued>>
       ELSE /\ today.month < Len(Months)
            /\ today' = [month |-> today.month + 1, day |-> 1, passed |-> FALSE]
            /\ steady' = {t \in Templates : template[t].status = "active"}
            /\ issued' = {}
    /\ UNCHANGED <<docs, overlapped, call>>

\* The process dies, as often as it likes.
Crash ==
    /\ call' = [h \in Handlers |-> IdleCall]
    /\ UNCHANGED <<today, docs, steady, issued, overlapped>>

Handle(h) ==
    \/ materializeRecurringTasks(h) \/ findTemplates(h) \/ issueFails(h) \/ endPass(h) \/ passFails(h) \/ saveTask(h)
    \/ \E t \in Templates, e \in Employees : checkExists(h, t, e)
    \/ issueTask(h)
    \/ \E k \in Tasks : completeTask(h, k)
    \/ \E t \in Templates, es \in SUBSET Employees, d \in IssueDays : createRecurringTask(h, t, es, d)
    \/ \E es \in SUBSET Employees, lines \in Lines : createAdminTask(h, es, lines)
    \/ \E e \in Employees : giveTask(h, e)
    \/ \E k \in Tasks, to \in {"pending", "cancelled"} : patchAdminTask(h, k, to)

Next ==
    \/ \E h \in Handlers : Handle(h)
    \/ \E t \in Templates, es \in SUBSET Employees, d \in IssueDays, s \in {"active", "paused"} :
         patchRecurringTask(t, es, d, s)
    \/ \E t \in Templates : deleteRecurringTask(t)
    \/ \E e \in Employees : reportSelfCompletedTask(e)
    \/ \E k \in Tasks : deleteAdminTask(k)
    \/ \E e \in Employees : EmployeeDeleted(e)
    \/ Midnight
    \/ Crash

Spec == Init /\ [][Next]_vars

-----------------------------------------------------------------------------
\* As long as no two passes overlap, an employee gets at most one task of a
\* template for a month, however often the timer, the lists and the restarts
\* run (agent-workspace.service.ts, materializeRecurringTasks).
OneTaskPerMonth ==
    overlapped \/
    \A j, k \in Tasks \ Unused :
        task[j].template # None /\ j # k =>
            <<task[j].template, task[j].employee, task[j].period>>
              # <<task[k].template, task[k].employee, task[k].period>>

\* A template that was active and unchanged all month long has given every
\* one of its employees a task by the end of it, short as the month may be and
\* whatever passes broke off or skipped, provided that one pass of every day
\* came to its end (isRecurringIssueToday, effectiveDayOfMonth; Midnight).
MonthCloses ==
    today'.month # today.month =>
        \A t \in steady : \A e \in template[t].employees \cap employed :
            <<t, e>> \in issued
EveryMonthIsIssued == [][MonthCloses]_vars
=============================================================================
