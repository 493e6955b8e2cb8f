---------------------------- MODULE MCLeaveLedger ----------------------------
(***************************************************************************)
(* The leave balances and the employee records - self-service, the payroll *)
(* ledger and the register -, and the accounts administrators sign in with *)
(* on small instances, in one run: `part` is chosen at the start and only  *)
(* that part moves.  Self-service and accounts are taken twice, with their *)
(* requests handled one at a time and with two racing.                     *)
(***************************************************************************)
EXTENDS LeaveLedger, TLC

CONSTANTS g1, g2, l1, l2, q1, q2, m1, m2, i1, i2, i3

VARIABLES part, does, died, profile, documents, links, requests, landed, cut,
          ledger, stamp, owed, employees, disturbed,
          account, session, code, mixed,
          attempt, block, trusted, loginMaxAttempts, wrong, most

Service == INSTANCE EmployeeSelfService
    WITH Links <- {l1}, Requests <- {q1, q2}, Handlers <- {g1}, MaxCrashes <- 1,
         call <- does, crashes <- died
Racing == INSTANCE EmployeeSelfService
    WITH Links <- {l1}, Requests <- {q1}, Handlers <- {g1, g2}, MaxCrashes <- 1,
         call <- does, crashes <- died
Ledger == INSTANCE PayrollLedger
    WITH Months <- {m1, m2}, Kinds <- {"deduction", "bonus"}, Handlers <- {g1, g2},
         MaxAmount <- 1, MaxStamp <- 3, call <- does
Register == INSTANCE EmployeeRegister
    WITH Tenants <- {"t1"}, Ids <- {i1, i2, i3}, Handlers <- {g1},
         MaxEmployees <- 2, MaxSerial <- 2, MaxCrashes <- 1, call <- does, crashes <- died

Access == INSTANCE AdminAccess
    WITH Handlers <- {g1}, Sessions <- {l1, l2}, Codes <- {q1, q2}, MaxPasswords <- 1,
         call <- does
Accesses == INSTANCE AdminAccess
    WITH Handlers <- {g1, g2}, Sessions <- {l1}, Codes <- {q1}, MaxPasswords <- 1,
         call <- does
Lock == INSTANCE LoginLock
    WITH Handlers <- {g1}, Administrators <- {g2}, MaxAttempts <- 2, MaxCrashes <- 1,
         call <- does, crashes <- died

selfService == <<documents, links, requests, landed>>
payroll == <<ledger, stamp, owed>>
register == <<employees, disturbed>>
accounts == <<account, session, code, mixed>>
lock == <<attempt, block, trusted, loginMaxAttempts, wrong, most>>

\* What the chosen part does not use stays 0.
NoSelfService == documents = 0 /\ links = 0 /\ requests = 0 /\ landed = 0
NoPayroll == ledger = 0 /\ stamp = 0 /\ owed = 0
NoRegister == employees = 0 /\ disturbed = 0
NoAccounts == account = 0 /\ session = 0 /\ code = 0 /\ mixed = 0
NoLock == /\ attempt = 0 /\ block = 0 /\ trusted = 0
          /\ loginMaxAttempts = 0 /\ wrong = 0 /\ most = 0
NoRecords == NoSelfService /\ NoPayroll /\ NoRegister /\ profile = 0

\* In the other parts no leave is asked for.
MCInit ==
    /\ Init
    /\ \/ part = "leave" /\ does = 0 /\ died = 0 /\ cut = 0 /\ NoRecords /\ NoAccounts /\ NoLock
       \/ part = "serial" /\ Service!Init /\ NoPayroll /\ NoRegister /\ NoAccounts /\ NoLock
       \/ part = "race" /\ Racing!Init /\ NoPayroll /\ NoRegister /\ NoAccounts /\ NoLock
       \/ part = "ledger" /\ Ledger!Init /\ NoSelfService /\ NoRegister /\ NoAccounts /\ NoLock
          /\ died = 0 /\ cut = 0
       \/ part = "register" /\ Register!Init /\ NoSelfService /\ NoPayroll /\ NoAccounts /\ NoLock
          /\ profile = 0 /\ cut = 0
       \/ part = "access" /\ Access!Init /\ NoRecords /\ NoLock /\ died = 0
       \/ part = "accesses" /\ Accesses!Init /\ NoRecords /\ NoLock /\ died = 0
       \/ part = "lock" /\ Lock!Init /\ NoRecords /\ NoAccounts /\ cut = 0
    /\ part # "leave" => \A h \in Handlers : call[h] = OffCall

others == <<accounts, lock>>
records == <<profile, selfService, payroll, register>>

MCNext ==
    /\ UNCHANGED part
    /\ \/ part = "leave" /\ Next /\ UNCHANGED <<does, died, cut, records, others>>
       \/ part = "serial" /\ Service!Next /\ UNCHANGED <<vars, payroll, register, others>>
       \/ part = "race" /\ Racing!Next /\ UNCHANGED <<vars, payroll, register, others>>
       \/ part = "ledger" /\ Ledger!Next
          /\ UNCHANGED <<vars, died, cut, selfService, register, others>>
       \/ part = "register" /\ Register!Next
          /\ UNCHANGED <<vars, cut, profile, selfService, payroll, others>>
       \/ part = "access" /\ Access!Next /\ UNCHANGED <<vars, died, records, lock>>
       \/ part = "accesses" /\ Accesses!Next /\ UNCHANGED <<vars, died, records, lock>>
       \/ part = "lock" /\ Lock!Next /\ UNCHANGED <<vars, cut, records, accounts>>

mcvars == <<part, vars, does, died, cut, records, others>>
MCSpec == MCInit /\ [][MCNext]_mcvars

\* Requests that take days, and one that gives a day back.
Lengths == {-1, 1, 2}

\* Handlers, and request ids, are alike.
Symmetry == Permutations(Handlers) \cup Permutations(Requests)
-----------------------------------------------------------------------------
\* approve applies before it marks, under races and crashes, and reject keeps a
\* request from the profile: see EmployeeSelfService.
ApprovedMeansApplied ==
    /\ part = "serial" => /\ Service!TypeOK /\ Service!ApprovedMeansApplied
                          /\ Service!RejectedIsUntouched
    /\ part = "race" => Racing!TypeOK /\ Racing!ApprovedMeansApplied
\* Profile updates and ledger handlers share a document: see PayrollLedger.
NoItemLost == part = "ledger" => Ledger!TypeOK /\ Ledger!NoItemLost
\* appendLedgerItem and the migration of old totals: see PayrollLedger.
AddedOnTop == [][part = "ledger" => Ledger!AddsOnTop]_mcvars
\* Numbering by create, bulkInsert and deleteByIds: see EmployeeRegister.
SerialsAreContiguous == part = "register" => Register!TypeOK /\ Register!SerialsAreContiguous
\* Password changes, deletions and updates reach the sessions: see AdminAccess.
SessionsAreCurrent ==
    /\ part = "access" => Access!TypeOK /\ Access!SessionsAreCurrent /\ Access!NoneIsLate
    /\ part = "accesses" => Accesses!SessionsAreCurrent
\* recordLoginFailure locks an address: see LoginLock.
GuessesAreBounded == part = "lock" => Lock!TypeOK /\ Lock!GuessesAreBounded
=============================================================================
