----------------------------- MODULE MCPlatform -----------------------------
(***************************************************************************)
(* The devices of the supervisors, the pins of their schools, the payments *)
(* of the tenants and the cold storage of old records, checked in one run: *)
(* `part` is chosen at the start and only that part moves.  The cold       *)
(* storage is taken twice, with two jobs racing and with an                *)
(* administrator's backups beside one.                                     *)
(***************************************************************************)
EXTENDS DeviceBinding, TLC

CONSTANTS g1, g2, t1, p1, v1, q1, a1, x1, x2, x3, NoPin

VARIABLES part, does, died,
          tenant, sub, payment, gateway, outbox, invoices,
          announced, lastDone, unpaid, taken, operator,
          live, archive, files, dump, archiveInProgress, replaced, backups, cut,
          school, origin, villageCache, late

Billing == INSTANCE TenantBilling
    WITH Handlers <- {g1, g2}, Tenants <- {t1}, Payments <- {p1},
         Gateways <- {"razorpay", "stripe", "paypal"},
         MaxOthers <- 1, MaxCrashes <- 1, call <- does, crashes <- died
Cold == INSTANCE ColdStorage
    WITH Handlers <- {g1, g2}, Records <- {v1, a1}, IsoRecords <- {v1, a1}, AuditLogs <- {a1},
         BatchSize <- 1, MaxBackups <- 0, MaxCrashes <- 1, call <- does, crashes <- died
Kept == INSTANCE ColdStorage
    WITH Handlers <- {g1}, Records <- {v1, q1}, IsoRecords <- {v1}, AuditLogs <- {},
         BatchSize <- 2, MaxBackups <- 3, MaxCrashes <- 1, call <- does, crashes <- died
Pins == INSTANCE SchoolPins
    WITH Schools <- {1}, Handlers <- {g1, g2}, Places <- {x1, x2, x3}, InDistrict <- {x1, x2},
         InBlock <- {x1}, Named <- {x1, x2}, call <- does

payments == <<tenant, sub, payment, gateway, outbox, invoices, announced,
              lastDone, unpaid, taken, operator>>
storage == <<live, archive, files, dump, archiveInProgress, replaced, backups, cut>>
pins == <<school, origin, villageCache, late>>

\* What the chosen part does not use stays 0; the devices stay unbound.
NoPayments == /\ tenant = 0 /\ sub = 0 /\ payment = 0 /\ gateway = 0 /\ outbox = 0
              /\ invoices = 0 /\ announced = 0 /\ lastDone = 0 /\ unpaid = 0 /\ taken = 0
              /\ operator = 0
NoStorage == /\ live = 0 /\ archive = 0 /\ files = 0 /\ dump = 0 /\ archiveInProgress = 0
             /\ replaced = 0 /\ backups = 0 /\ cut = 0
NoPins == school = 0 /\ origin = 0 /\ villageCache = 0 /\ late = 0

MCInit ==
    /\ Init
    /\ \/ part = "devices" /\ NoPayments /\ NoStorage /\ NoPins /\ does = 0 /\ died = 0
       \/ part = "billing" /\ Billing!Init /\ operator /\ NoStorage /\ NoPins
       \/ part = "cold" /\ Cold!Init /\ NoPayments /\ NoPins
       \/ part = "kept" /\ Kept!Init /\ NoPayments /\ NoPins
       \/ part = "pins" /\ Pins!Init /\ NoPayments /\ NoStorage /\ died = 0

MCNext ==
    /\ UNCHANGED part
    /\ \/ part = "devices" /\ Next /\ UNCHANGED <<does, died, payments, storage, pins>>
       \/ part = "billing" /\ Billing!Next /\ UNCHANGED <<vars, storage, pins>>
       \/ part = "cold" /\ Cold!Next /\ UNCHANGED <<vars, payments, pins>>
       \/ part = "kept" /\ Kept!Next /\ UNCHANGED <<vars, payments, pins>>
       \/ part = "pins" /\ Pins!Next /\ UNCHANGED <<vars, died, payments, storage>>

\* The requests in progress are alike in every part.
Symmetry == Permutations({g1, g2})

MCSpec == MCInit /\ [][MCNext]_<<part, does, died, vars, payments, storage, pins>>
-----------------------------------------------------------------------------
\* Webhooks of three gateways beside the operator: see TenantBilling.
InvoicesAreAnnounced == part = "billing" => Billing!TypeOK /\ Billing!InvoicesAreAnnounced
\* archiveDocument copies before it deletes, restoreRecords too, and photos leave
\* their document for a file and return: see ColdStorage.
NothingIsLost ==
    /\ part = "cold" => Cold!TypeOK /\ Cold!RecordsSurvive /\ Cold!PhotosSurvive
    /\ part = "kept" => Kept!TypeOK /\ Kept!RecordsSurvive /\ Kept!PhotosSurvive
\* The jobs that look for schools vouch for what they verify: see SchoolPins.
PinsAreVouched == part = "pins" => Pins!TypeOK /\ Pins!PinsAreVouched
=============================================================================
