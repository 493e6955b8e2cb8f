---------------------------- MODULE MCFieldVisits ----------------------------
(***************************************************************************)
(* The visits to schools, the schools themselves - their register and      *)
(* their expenses - and the supervisors' time online, on small instances,  *)
(* in one run: `part` is chosen at the start and only that part moves.     *)
(***************************************************************************)
EXTENDS FieldVisits, TLC

CONSTANTS g1, u1, u2, u3

VARIABLES part, school, does, died, partner, disturbed,
          apart, invoice, drawn, now, token, span, seen

Expenses == INSTANCE SchoolExpenses
    WITH Schools <- {1, 2, 3}, Kinds <- {"material"}, Categories <- {}, Secondary <- {1},
         Handlers <- {g1}, Amounts <- {0, 4}, MaxInvoices <- 0, call <- does
Invoices == INSTANCE SchoolExpenses
    WITH Schools <- {1, 2}, Kinds <- {}, Categories <- {"all", "secondary"}, Secondary <- {1},
         Handlers <- {g1}, Amounts <- {}, MaxInvoices <- 2, call <- does
Register == INSTANCE SchoolRegister
    WITH Udises <- {u1, u2, u3}, Handlers <- {g1}, Pays <- {1}, MaxSerial <- 2,
         MaxCrashes <- 1, call <- does, crashes <- died
Pays == INSTANCE SchoolRegister
    WITH Udises <- {u1, u2}, Handlers <- {g1}, Pays <- {1, 2}, MaxSerial <- 0,
         MaxCrashes <- 1, call <- does, crashes <- died
Activity == INSTANCE SupervisorActivity
    WITH Handlers <- {g1}, Tokens <- {u1, u2}, Online <- 1, LastTime <- 4, MaxSpans <- 3,
         call <- does

expenses == <<invoice, drawn>>
register == <<partner, disturbed, apart, died>>
activity == <<now, token, span, seen>>

\* What the chosen part does not use stays 0.
NoExpenses == invoice = 0 /\ drawn = 0
NoRegister == partner = 0 /\ disturbed = 0 /\ apart = 0 /\ died = 0
NoActivity == now = 0 /\ token = 0 /\ span = 0 /\ seen = 0

\* In the other parts no supervisor moves, and none is exempt.
MCInit ==
    /\ Init
    /\ \/ part = "visits" /\ school = 0 /\ does = 0 /\ NoExpenses /\ NoRegister /\ NoActivity
       \/ part = "expenses" /\ Expenses!Init /\ NoRegister /\ NoActivity
       \/ part = "invoices" /\ Invoices!Init /\ NoRegister /\ NoActivity
       \/ part = "register" /\ Register!Init /\ NoExpenses /\ NoActivity
       \/ part = "pays" /\ Pays!Init /\ NoExpenses /\ NoActivity
       \/ part = "activity" /\ Activity!Init /\ school = 0 /\ NoExpenses /\ NoRegister
    /\ part # "visits" => star = {}

MCNext ==
    /\ UNCHANGED part
    /\ \/ part = "visits" /\ Next /\ UNCHANGED <<school, does, expenses, register, activity>>
       \/ part = "expenses" /\ Expenses!Next /\ UNCHANGED <<vars, register, activity>>
       \/ part = "invoices" /\ Invoices!Next /\ UNCHANGED <<vars, register, activity>>
       \/ part = "register" /\ Register!Next /\ UNCHANGED <<vars, expenses, activity>>
       \/ part = "pays" /\ Pays!Next /\ UNCHANGED <<vars, expenses, activity>>
       \/ part = "activity" /\ Activity!Next /\ UNCHANGED <<vars, school, expenses, register>>

mcvars == <<part, vars, school, does, expenses, register, activity>>
MCSpec == MCInit /\ [][MCNext]_mcvars

\* Supervisors and visit ids are alike.
Symmetry == Permutations(Supervisors) \cup Permutations(Visits)
-----------------------------------------------------------------------------
\* distributeBlockExpense hands out the whole amount: see SchoolExpenses.
SharesAddUp == part = "expenses" => Expenses!TypeOK /\ Expenses!SharesAddUp
\* Every school handler ends by writing the partners and numbers the schools:
\* see SchoolRegister.
PartnersFollowSchools ==
    /\ part = "register" => /\ Register!TypeOK /\ Register!PartnersFollowSchools
                            /\ Register!SerialsAreContiguous
    /\ part = "pays" => Pays!PartnersFollowSchools
\* Logins, requests and logouts of a supervisor: see SupervisorActivity.
PresenceIsSeen == part = "activity" => Activity!TypeOK /\ Activity!PresenceIsSeen
=============================================================================
