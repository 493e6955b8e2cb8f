---------------------------- MODULE MonitorLogs ----------------------------
(***************************************************************************)
(* What the desktop agents send: batches of events, with the alerts they   *)
(* raise, and screenshots, whose images lie with the media service; and    *)
(* the clean-up by age (agent.service.ts, employee-monitor.service.ts).    *)
(* An agent that got no answer sends again, so everything is written by    *)
(* the id the agent chose.  One employee on one machine.                   *)
(***************************************************************************)
EXTENDS Integers, FiniteSets

CONSTANTS
    Handlers,       \* requests in progress
    Batches,        \* 1 .. n: the i-th has events of day i
    Shots,          \* 1 .. n: the i-th screenshot is of day i
    LastDay,        \* of the model
    MaxUploads,     \* images uploaded, retries included (bound)
    MaxCounts       \* batches counted, retries included (bound)

VARIABLES
    day,            \* today
    keep,           \* settings.retention, in days
    alarmed,        \* settings.alerts
    row,            \* per kind of log: the batches whose event it holds
    keyCount,       \* of the productivity log, a batch counting one
    alert,          \* the latest alert of the employee: [status, recent]
    shot,           \* the image of each screenshot's row; NoShot without a row
    image,          \* the images at the media service
    uploads,        \* images uploaded so far
    answered,       \* history: batches and screenshots answered with success
    excused,        \* history: those that were too old once, or deleted by hand
    silenced,       \* history: batches handled while alerts were off
    call

vars == <<day, keep, alarmed, row, keyCount, alert, shot, image, uploads,
          answered, excused, silenced, call>>

\* Only websites and files (and key sequences) have a time to live.
Kinds == {"application", "website", "file"}
Aging == {"website", "file"}
NoShot == 0
Inline == -1        \* the image is in the row itself
Images == 1..MaxUploads
AlertState == [status : {"none", "open", "resolved"}, recent : BOOLEAN]
Sent == {<<"batch", b>> : b \in Batches} \cup {<<"shot", s>> : s \in Shots}

IdleCall == [pc |-> "idle"]
Goto(h, c) == call' = [call EXCEPT ![h] = c]
Onto(h, pc) == Goto(h, [call[h] EXCEPT !.pc = pc])
At(h, pc) == call[h].pc = pc
Idle(h) == At(h, "idle")

TypeOK ==
    /\ day \in 1..LastDay
    /\ keep \in 0..1
    /\ alarmed \in BOOLEAN
    /\ row \in [Kinds -> SUBSET Batches]
    /\ keyCount \in 0..MaxCounts
    /\ alert \in AlertState
    /\ shot \in [Shots -> {NoShot, Inline} \cup Images]
    /\ image \subseteq Images
    /\ uploads \in 0..MaxUploads
    /\ answered \subseteq Sent
    /\ excused \subseteq Sent
    /\ silenced \subseteq Batches

Init ==
    /\ day = 1
    /\ keep \in 0..1
    /\ alarmed \in BOOLEAN
    /\ row = [kind \in Kinds |-> {}]
    /\ keyCount = 0
    /\ alert = [status |-> "none", recent |-> FALSE]
    /\ shot = [s \in Shots |-> NoShot]
    /\ image = {}
    /\ uploads = 0
    /\ answered = {}
    /\ excused = {}
    /\ silenced = {}
    /\ call = [h \in Handlers |-> IdleCall]

time == <<day, keep, alarmed>>
logs == <<row, keyCount, alert>>
shots == <<shot, image, uploads>>
history == <<answered, excused, silenced>>

-----------------------------------------------------------------------------
\* A batch: its events are written one log after the other.
ingestAgent(h, b) ==
    /\ Idle(h)
    /\ b <= day
    /\ Goto(h, [pc |-> "application", b |-> b])
    /\ UNCHANGED <<time, logs, shots, history>>

\* By id, so that a batch that comes again changes nothing.
Upsert(kind, b) == row' = [row EXCEPT ![kind] = @ \cup {b}]

\* Idle times, breaks and applications.  A batch has one violation, a blocked
\* application; long idle times, blocked sites and USB devices alert likewise.
storeApplication(h) ==
    /\ At(h, "application")
    /\ Upsert("application", call[h].b)
    /\ Onto(h, "alert")
    /\ UNCHANGED <<time, keyCount, alert, shots, history>>

createAlert(h) ==
    /\ At(h, "alert")
    /\ Onto(h, IF alarmed THEN "recent" ELSE "website")
    /\ silenced' = IF alarmed THEN silenced ELSE silenced \cup {call[h].b}
    /\ UNCHANGED <<time, logs, shots, answered, excused>>

\* An open alert of the last 30 minutes speaks for the new violation.
findRecent(h) ==
    /\ At(h, "recent")
    /\ Onto(h, IF alert = [status |-> "open", recent |-> TRUE] THEN "website" ELSE "raise")
    /\ UNCHANGED <<time, logs, shots, history>>

raiseAlert(h) ==
    /\ At(h, "raise")
    /\ alert' = [status |-> "open", recent |-> TRUE]
    /\ Onto(h, "website")
    /\ UNCHANGED <<time, row, keyCount, shots, history>>

storeWebsite(h) ==
    /\ At(h, "website")
    /\ Upsert("website", call[h].b)
    /\ Onto(h, "count")
    /\ UNCHANGED <<time, keyCount, alert, shots, history>>

CountedAs(h, n) ==
    /\ At(h, "count")
    /\ keyCount < MaxCounts
    /\ keyCount' = n
    /\ Onto(h, "file")
    /\ UNCHANGED <<time, row, alert, shots, history>>
\* Mutant: the counts are set like the seconds, not added.
countKeysMutant(h) == CountedAs(h, 1)
\* $inc: a batch that comes again is counted again.
countKeys(h) == CountedAs(h, keyCount + 1)

\* Devices, printers and files, then the answer.
storeFiles(h) ==
    /\ At(h, "file")
    /\ Upsert("file", call[h].b)
    /\ answered' = answered \cup {<<"batch", call[h].b>>}
    /\ Goto(h, IdleCall)
    /\ UNCHANGED <<time, keyCount, alert, shots, excused, silenced>>

resolveAlert ==
    /\ alert.status = "open"
    /\ alert' = [alert EXCEPT !.status = "resolved"]
    /\ UNCHANGED <<time, row, keyCount, shots, history, call>>

HalfHourPasses ==
    /\ alert.recent
    /\ alert' = [alert EXCEPT !.recent = FALSE]
    /\ UNCHANGED <<time, row, keyCount, shots, history, call>>

-----------------------------------------------------------------------------
\* A screenshot: the image first, then the row that points to it.  (A plan without
\* screenshots refuses before anything is stored.)
uploadScreenshotAgent(h, s) ==
    /\ Idle(h)
    /\ s <= day
    /\ \/ /\ uploads < MaxUploads
          /\ uploads' = uploads + 1
          /\ image' = image \cup {uploads + 1}
          /\ Goto(h, [pc |-> "saveShot", s |-> s, image |-> uploads + 1])
       \/ /\ Goto(h, [pc |-> "saveShot", s |-> s, image |-> Inline])
          /\ UNCHANGED <<image, uploads>>
    /\ UNCHANGED <<time, logs, shot, history>>

saveShot(h) ==
    /\ At(h, "saveShot")
    /\ shot' = [shot EXCEPT ![call[h].s] = call[h].image]
    /\ answered' = answered \cup {<<"shot", call[h].s>>}
    /\ Goto(h, IdleCall)
    /\ UNCHANGED <<time, logs, image, uploads, excused, silenced>>

\* An administrator's deletion, by ids; `images` are those its rows point to.
deleteScreenshots(h, s) ==
    /\ Idle(h)
    /\ Goto(h, [pc |-> "deleteImages", images |-> {shot[s]}, gone |-> {s}, then |-> "idle"])
    /\ excused' = excused \cup {<<"shot", s>>}
    /\ UNCHANGED <<time, logs, shots, answered, silenced>>

\* The clean-up does the same to those before its cut, then goes on to the logs.
deleteImage(h) ==
    /\ At(h, "deleteImages")
    /\ \E i \in call[h].images :
        /\ image' = image \ {i}
        /\ Goto(h, [call[h] EXCEPT !.images = @ \ {i}])
    /\ UNCHANGED <<time, logs, shot, uploads, history>>

deleteRows(h) ==
    /\ At(h, "deleteImages")
    /\ call[h].images = {}
    /\ shot' = [s \in Shots |-> IF s \in call[h].gone THEN NoShot ELSE shot[s]]
    /\ Goto(h, IF call[h].then = "idle" THEN IdleCall
               ELSE [pc |-> "deleteOldWebsites", before |-> call[h].before])
    /\ UNCHANGED <<time, logs, image, uploads, history>>

-----------------------------------------------------------------------------
\* The clean-up reckons with the settings and the day it starts with.
applyRetentionPolicies(h) ==
    /\ Idle(h)
    /\ Goto(h, [pc |-> "findOldShots", before |-> day - keep])
    /\ UNCHANGED <<time, logs, shots, history>>

Before(cut, things) == {i \in things : i < cut}

findOldShots(h) ==
    /\ At(h, "findOldShots")
    /\ LET old == Before(call[h].before, Shots) IN
       Goto(h, [pc |-> "deleteImages", images |-> {shot[s] : s \in old}, gone |-> old,
                then |-> "logs", before |-> call[h].before])
    /\ UNCHANGED <<time, logs, shots, history>>

Aged(h, kind) == row' = [row EXCEPT ![kind] = @ \ Before(call[h].before, Batches)]

deleteOldWebsites(h) ==
    /\ At(h, "deleteOldWebsites")
    /\ Aged(h, "website")
    /\ Onto(h, "deleteOldFiles")
    /\ UNCHANGED <<time, keyCount, alert, shots, history>>

deleteOldFiles(h) ==
    /\ At(h, "deleteOldFiles")
    /\ Aged(h, "file")
    /\ Goto(h, IdleCall)
    /\ UNCHANGED <<time, keyCount, alert, shots, history>>

\* What is past its time is excused, today or under new settings.
Passing(today, kept) == excused' = excused \cup {x \in Sent : x[2] < today - kept}

DayPasses ==
    /\ day < LastDay
    /\ day' = day + 1
    /\ Passing(day + 1, keep)
    /\ UNCHANGED <<keep, alarmed, logs, shots, answered, silenced, call>>

updateSettings(days, on) ==
    /\ keep' = days
    /\ alarmed' = on
    /\ Passing(day, days)
    /\ UNCHANGED <<day, logs, shots, answered, silenced, call>>

Crash ==
    /\ call' = [h \in Handlers |-> IdleCall]
    /\ UNCHANGED <<time, logs, shots, history>>

Handle(h) ==
    \/ \E b \in Batches : ingestAgent(h, b)
    \/ storeApplication(h) \/ createAlert(h) \/ findRecent(h) \/ raiseAlert(h)
    \/ storeWebsite(h) \/ countKeys(h) \/ storeFiles(h)
    \/ \E s \in Shots : uploadScreenshotAgent(h, s) \/ deleteScreenshots(h, s)
    \/ saveShot(h) \/ deleteImage(h) \/ deleteRows(h)
    \/ applyRetentionPolicies(h) \/ findOldShots(h) \/ deleteOldWebsites(h) \/ deleteOldFiles(h)

Next ==
    \/ \E h \in Handlers : Handle(h)
    \/ resolveAlert \/ HalfHourPasses
    \/ DayPasses
    \/ \E days \in 0..1, on \in BOOLEAN : updateSettings(days, on)
    \/ Crash

Spec == Init /\ [][Next]_vars

-----------------------------------------------------------------------------
Answered(kind) == {x \in answered : x[1] = kind}

\* What an agent was told is stored (ingestAgent, uploadScreenshotAgent) is,
\* however often it was sent, whatever crashed and however the clean-up and an
\* administrator's deletions overlap with it: its events until they are past
\* their time, its keys, a word about its violations unless alerts were off, and
\* its screenshots with their images until they are past their time or deleted.
AnsweredIsStored ==
    /\ \A x \in Answered("batch") :
        /\ x[2] \in row["application"]
        /\ x \notin excused => \A kind \in Aging : x[2] \in row[kind]
        /\ x[2] \notin silenced => alert.status # "none"
    /\ keyCount >= Cardinality(Answered("batch"))
    /\ \A x \in Answered("shot") \ excused : shot[x[2]] \in image \cup {Inline}
=============================================================================
