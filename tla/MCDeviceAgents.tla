-------------------------- MODULE MCDeviceAgents --------------------------
(***************************************************************************)
(* The desktop agents, their to-do lists, the attendance and activity they *)
(* report and the files they share, on small instances, in one run: `part` *)
(* is chosen at the start and only that part moves.                        *)
(***************************************************************************)
EXTENDS DeviceAgents, TLC

CONSTANTS w1, w2, k1, k2, m1, m2

VARIABLES part, today, employed, template, task, steady, given, overlapped, does,
          now, standing, fences, cell, synced, worked, corrected,
          day, keep, alarmed, log, keyCount, alert, shot, image, uploads,
          answered, excused, silenced,
          file, stored, folder, uploaded, deleted, told, raced

\* January has two days, February one.
TwoHandlers == INSTANCE AgentTasks
    WITH Handlers <- {w1, w2}, Employees <- {m1}, Templates <- {"t1"}, Tasks <- {k1, k2},
         Months <- <<2, 1>>, IssueDays <- {1}, Lines <- {}, issued <- given, call <- does
TwoEmployees == INSTANCE AgentTasks
    WITH Handlers <- {w1}, Employees <- {m1, m2}, Templates <- {"t1"}, Tasks <- {k1, k2},
         Months <- <<2, 1>>, IssueDays <- {3}, Lines <- {2}, issued <- given, call <- does

\* December to February, and one month of two employees.
Months == INSTANCE Attendance
    WITH Handlers <- {w1}, Employees <- {m1}, Places <- {"office"}, First <- 11, Last <- 13,
         Windows <- {2}, call <- does
Day == INSTANCE Attendance
    WITH Handlers <- {w1}, Employees <- {m1, m2}, Places <- {"office"}, First <- 11, Last <- 11,
         Windows <- {1}, call <- does

\* Two batches one after the other, one beside the clean-up, and screenshots.
Logs == INSTANCE MonitorLogs
    WITH Handlers <- {w1}, Batches <- {1, 2}, Shots <- {}, LastDay <- 2,
         MaxUploads <- 0, MaxCounts <- 3, row <- log, call <- does
Logging == INSTANCE MonitorLogs
    WITH Handlers <- {w1, w2}, Batches <- {1}, Shots <- {}, LastDay <- 2,
         MaxUploads <- 0, MaxCounts <- 2, row <- log, call <- does
Shooting == INSTANCE MonitorLogs
    WITH Handlers <- {w1, w2}, Batches <- {}, Shots <- {1}, LastDay <- 2,
         MaxUploads <- 2, MaxCounts <- 0, row <- log, call <- does

\* Three files and a device of one employee, a device of another.
Shared == INSTANCE SharedFiles
    WITH Handlers <- {w1, w2}, Owner <- "f1" :> m1 @@ "f2" :> m1 @@ "f3" :> m1,
         DeviceOf <- "d1" :> m1 @@ "d2" :> m2, MaxFiles <- 1, NoDevice <- None, call <- does

todo == <<today, employed, template, task, steady, given, overlapped>>
attendance == <<now, standing, fences, cell, synced, worked, corrected>>
activity == <<day, keep, alarmed, log, keyCount, alert, shot, image, uploads,
              answered, excused, silenced>>
sharing == <<file, stored, folder, uploaded, deleted, told, raced>>

\* What the chosen part does not use stays 0.
NoTasks == today = 0 /\ employed = 0 /\ template = 0 /\ task = 0 /\ steady = 0 /\ given = 0
           /\ overlapped = 0
NoAttendance == now = 0 /\ standing = 0 /\ fences = 0 /\ cell = 0 /\ synced = 0 /\ worked = 0
                /\ corrected = 0
NoActivity == day = 0 /\ keep = 0 /\ alarmed = 0 /\ log = 0 /\ keyCount = 0 /\ alert = 0
              /\ shot = 0 /\ image = 0 /\ uploads = 0 /\ answered = 0 /\ excused = 0
              /\ silenced = 0
NoSharing == file = 0 /\ stored = 0 /\ folder = 0 /\ uploaded = 0 /\ deleted = 0 /\ told = 0
             /\ raced = 0

MCInit ==
    /\ Init
    /\ \/ part = "agents" /\ NoTasks /\ NoAttendance /\ NoActivity /\ NoSharing /\ does = 0
       \/ part = "handlers" /\ TwoHandlers!Init /\ NoAttendance /\ NoActivity /\ NoSharing
       \/ part = "employees" /\ TwoEmployees!Init /\ NoAttendance /\ NoActivity /\ NoSharing
       \/ part = "months" /\ Months!Init /\ NoTasks /\ NoActivity /\ NoSharing
       \/ part = "day" /\ Day!Init /\ NoTasks /\ NoActivity /\ NoSharing
       \/ part = "logs" /\ Logs!Init /\ NoTasks /\ NoAttendance /\ NoSharing
       \/ part = "logging" /\ Logging!Init /\ NoTasks /\ NoAttendance /\ NoSharing
       \/ part = "shooting" /\ Shooting!Init /\ NoTasks /\ NoAttendance /\ NoSharing
       \/ part = "shared" /\ Shared!Init /\ NoTasks /\ NoAttendance /\ NoActivity
    /\ part # "agents" => \A h \in Handlers : call[h] = IdleCall

MCNext ==
    /\ UNCHANGED part
    /\ \/ part = "agents" /\ Next /\ UNCHANGED <<todo, attendance, activity, sharing, does>>
       \/ part = "handlers" /\ TwoHandlers!Next /\ UNCHANGED <<vars, attendance, activity, sharing>>
       \/ part = "employees" /\ TwoEmployees!Next /\ UNCHANGED <<vars, attendance, activity, sharing>>
       \/ part = "months" /\ Months!Next /\ UNCHANGED <<vars, todo, activity, sharing>>
       \/ part = "day" /\ Day!Next /\ UNCHANGED <<vars, todo, activity, sharing>>
       \/ part = "logs" /\ Logs!Next /\ UNCHANGED <<vars, todo, attendance, sharing>>
       \/ part = "logging" /\ Logging!Next /\ UNCHANGED <<vars, todo, attendance, sharing>>
       \/ part = "shooting" /\ Shooting!Next /\ UNCHANGED <<vars, todo, attendance, sharing>>
       \/ part = "shared" /\ Shared!Next /\ UNCHANGED <<vars, todo, attendance, activity>>

mcvars == <<part, vars, todo, attendance, activity, sharing, does>>
MCSpec == MCInit /\ [][MCNext]_mcvars

ByHand(k) == task[k] # TwoEmployees!NoTask /\ task[k].template = None

\* Two calls at a time are explored for registrations, credentials and
\* revocations; crashes, commands and the settings switch with one at a time.
\* Tasks given out by hand: one where two employees are served one call at a
\* time and the template is for both, none beside two calls.  Templates are
\* paused beside two calls, one of two employees leaves where calls are served
\* one at a time; of attendance, they and the fences belong to the single month.
\* Several files are shared where no folder is.
Bounded ==
    /\ part = "agents" => \/ IsSerial
                          \/ /\ enabled /\ crashes = 0
                             /\ \A c \in Commands : command[c].status = "unused"
    /\ part = "handlers" => employed = {m1} /\ \A k \in {k1, k2} : ~ByHand(k)
    /\ part = "employees" => /\ m1 \in employed
                             /\ template["t1"].employees \in {{}, {m1, m2}}
                             /\ template["t1"].status # "paused"
                             /\ \E k \in {k1, k2} : ~ByHand(k)
    /\ part = "months" => fences = {} /\ standing[m1] = "active"
    /\ part = "shared" => \/ folder = None /\ told = {} /\ raced = {}
                          \/ \A f \in {"f2", "f3"} : file[f] = "none" /\ f \notin stored \cup deleted

Symmetry == Permutations(Handlers) \cup Permutations(Devices) \cup Permutations({w1, w2})
-----------------------------------------------------------------------------
\* materializeRecurringTasks makes a task once: see AgentTasks.
OneTaskPerMonth ==
    /\ part = "handlers" => TwoHandlers!TypeOK /\ TwoHandlers!OneTaskPerMonth
    /\ part = "employees" => TwoEmployees!TypeOK /\ TwoEmployees!OneTaskPerMonth
\* The attendance grid and the list read from it: see Attendance.
ExitListIsJust ==
    /\ part = "months" => Months!TypeOK /\ Months!ExitListIsJust
    /\ part = "day" => Day!TypeOK /\ Day!ExitListIsJust
\* What an agent was told is stored, is: see MonitorLogs and SharedFiles.
AnsweredIsStored ==
    /\ part = "logs" => Logs!TypeOK /\ Logs!AnsweredIsStored
    /\ part = "logging" => Logging!AnsweredIsStored
    /\ part = "shooting" => Shooting!TypeOK /\ Shooting!AnsweredIsStored
    /\ part = "shared" => Shared!TypeOK /\ Shared!AnsweredIsStored
\* A short month issues the tasks of its missing days: see AgentTasks.
EveryMonthIsIssued ==
    [][/\ part = "handlers" => TwoHandlers!MonthCloses
       /\ part = "employees" => TwoEmployees!MonthCloses]_mcvars
=============================================================================
