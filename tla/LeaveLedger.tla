----------------------------- MODULE LeaveLedger -----------------------------
(***************************************************************************)
(* Leave requests and the yearly balances they draw on                     *)
(* (src/src/modules/leave/leave.service.ts).                               *)
(*                                                                         *)
(* A balance row is shared by every request of one (employee, leave type,  *)
(* year); such a triple is a member of Keys.  The service never locks a    *)
(* row: each handler reads a document, waits, and writes it back.  Every   *)
(* database call is one atomic step, and the calls of different handlers   *)
(* interleave.  A mongoose save() writes only the fields the handler       *)
(* assigned, with the values it computed from what it had read.            *)
(***************************************************************************)
EXTENDS Integers, Sequences, FiniteSets, FiniteSetsExt

CONSTANTS
  Handlers,       \* HTTP requests the process serves at the same time
  Keys,           \* (employee, leave type, year) triples
  LopKeys,        \* those whose leave type id is the literal "LOP"
  Requests,       \* leave request ids
  Days,           \* lengths a request may ask for; no line refuses one below zero
  Allocations,    \* allotments a balance row may be opened with; nor one of these
  MaxCrashes      \* how often the process may die (bound)

ASSUME KeysAssumption == LopKeys \subseteq Keys
ASSUME DaysAssumption == Days \subseteq Int
ASSUME AllocationsAssumption == Allocations \subseteq Int
ASSUME CrashAssumption == MaxCrashes \in Nat

VARIABLES
  balance,        \* leave_balances, by key
  request,        \* leave_requests, by id
  triggered,      \* leave_approved triggers handed to the workflow engine
  call,           \* what each handler remembers between two awaits
  crashes         \* how often the process has died

vars == <<balance, request, triggered, call, crashes>>

Verdicts == {"approved", "rejected"}

Balance == [exists: BOOLEAN, entitled: Int, used: Int, pending: Int]

NoBalance == [exists |-> FALSE, entitled |-> 0, used |-> 0, pending |-> 0]

NoRequest == [status |-> "none"]

Request ==
  {NoRequest} \cup [status: {"pending"} \cup Verdicts,
                    key: Keys, days: Days, chain: Seq(Verdicts)]

\* A handler is off when no call of the behaviour uses it.
IdleCall == [pc |-> "idle"]
OffCall == [pc |-> "off"]

Call ==
  {IdleCall, OffCall}
    \cup [pc: {"saveBalance"}, key: Keys, days: Days, pending: Int]
    \cup [pc: {"createRequest"}, key: Keys, days: Days]
    \cup [pc: {"saveDecision"}, req: Requests, verdict: Verdicts]
    \cup [pc: {"settle"}, req: Requests, verdict: Verdicts]

DataOK ==
  /\ balance \in [Keys -> Balance]
  /\ request \in [Requests -> Request]
  /\ triggered \in [Requests -> Nat]
  /\ call \in [Handlers -> Call]
  /\ crashes \in 0..MaxCrashes

DecisionsNameRequests ==
  \A h \in Handlers :
    call[h].pc \in {"saveDecision", "settle"} => request[call[h].req].status # "none"

TypeOK == DataOK /\ DecisionsNameRequests

Init ==
  /\ balance = [k \in Keys |-> NoBalance]
  /\ request = [r \in Requests |-> NoRequest]
  /\ triggered = [r \in Requests |-> 0]
  /\ call \in [Handlers -> {IdleCall, OffCall}]
  /\ crashes = 0

-----------------------------------------------------------------------------
Idle(h) == call[h].pc = "idle"
Off(h) == call[h].pc = "off"

Goto(h, c) == call' = [call EXCEPT ![h] = c]

\* allocated + carryForward - used - pending, as applyLeave computes it
Available(k) == balance[k].entitled - balance[k].used - balance[k].pending

\* An id is left for every application under way (bounds the model only).
RoomForRequest ==
  Cardinality({r \in Requests : request[r].status = "none"}) >
    Cardinality({g \in Handlers : call[g].pc \in {"saveBalance", "createRequest"}})

\* initializeBalance: an existing row is returned untouched; the unique index
\* on the key makes the find-then-create pair behave as one step.
InitializeBalance(h, k, allocated) ==
  /\ Idle(h)
  /\ ~balance[k].exists
  /\ balance' = [balance EXCEPT ![k] = [exists |-> TRUE, entitled |-> allocated,
                                        used |-> 0, pending |-> 0]]
  /\ UNCHANGED <<request, triggered, call, crashes>>

\* Mutant: the sufficiency test forgets the days other requests have reserved.
ApplyAgainstBalanceMutant(h, k, d) ==
  /\ Idle(h)
  /\ RoomForRequest
  /\ balance[k].exists
  /\ d <= balance[k].entitled - balance[k].used \/ k \in LopKeys
  /\ Goto(h, [pc |-> "saveBalance", key |-> k, days |-> d,
              pending |-> balance[k].pending + d])
  /\ UNCHANGED <<balance, request, triggered, crashes>>

\* applyLeave up to balance.save(): the sufficiency test and the new pending
\* total both come from the row as it was read here.
ApplyAgainstBalance(h, k, d) ==
  /\ Idle(h)
  /\ RoomForRequest
  /\ balance[k].exists
  /\ d <= Available(k) \/ k \in LopKeys
  /\ Goto(h, [pc |-> "saveBalance", key |-> k, days |-> d,
              pending |-> balance[k].pending + d])
  /\ UNCHANGED <<balance, request, triggered, crashes>>

\* applyLeave when findOne returns no row: nothing is reserved.
ApplyWithoutBalance(h, k, d) ==
  /\ Idle(h)
  /\ RoomForRequest
  /\ ~balance[k].exists
  /\ Goto(h, [pc |-> "createRequest", key |-> k, days |-> d])
  /\ UNCHANGED <<balance, request, triggered, crashes>>

SaveBalance(h) ==
  /\ call[h].pc = "saveBalance"
  /\ balance' = [balance EXCEPT ![call[h].key].pending = call[h].pending]
  /\ Goto(h, [pc |-> "createRequest", key |-> call[h].key, days |-> call[h].days])
  /\ UNCHANGED <<request, triggered, crashes>>

CreateRequest(h) ==
  /\ call[h].pc = "createRequest"
  /\ \E r \in Requests :
       /\ request[r].status = "none"
       /\ request' = [request EXCEPT ![r] =
                        [status |-> "pending", key |-> call[h].key,
                         days |-> call[h].days, chain |-> <<>>]]
  /\ Goto(h, IdleCall)
  /\ UNCHANGED <<balance, triggered, crashes>>

\* Mutant: a request that is not found is not turned away.
ReadForDecisionMutant(h, r, verdict) ==
  /\ Idle(h)
  /\ request[r].status \notin Verdicts
  /\ Goto(h, [pc |-> "saveDecision", req |-> r, verdict |-> verdict])
  /\ UNCHANGED <<balance, request, triggered, crashes>>

\* approveLeave / rejectLeave read the request and insist that it is pending.
ReadForDecision(h, r, verdict) ==
  /\ Idle(h)
  /\ request[r].status = "pending"
  /\ Goto(h, [pc |-> "saveDecision", req |-> r, verdict |-> verdict])
  /\ UNCHANGED <<balance, request, triggered, crashes>>

\* request.save(): $set of the status and $push on approvalChain, neither of
\* which mongoose guards with the version of the document that was read.
SaveDecision(h) ==
  /\ call[h].pc = "saveDecision"
  /\ LET r == call[h].req
         v == call[h].verdict
     IN /\ request' = [request EXCEPT ![r].status = v,
                                      ![r].chain = Append(@, v)]
        /\ Goto(h, [pc |-> "settle", req |-> r, verdict |-> v])
  /\ UNCHANGED <<balance, triggered, crashes>>

\* Mutant: a rejection leaves its reservation in place.
SettleRejectMutant(h) ==
  /\ call[h].pc = "settle"
  /\ LET r == call[h].req
         k == request[r].key
         d == request[r].days
     IN IF call[h].verdict = "approved"
          THEN /\ balance' = IF balance[k].exists
                               THEN [balance EXCEPT ![k].used = @ + d, ![k].pending = @ - d]
                               ELSE balance
               /\ triggered' = [triggered EXCEPT ![r] = @ + 1]
          ELSE UNCHANGED <<balance, triggered>>
  /\ Goto(h, IdleCall)
  /\ UNCHANGED <<request, crashes>>

\* The $inc on the balance row, a no-op when the row is missing, and then the
\* unawaited leave_approved trigger.
Settle(h) ==
  /\ call[h].pc = "settle"
  /\ LET r == call[h].req
         k == request[r].key
         d == request[r].days
         approved == call[h].verdict = "approved"
     IN /\ balance' =
             IF balance[k].exists
               THEN [balance EXCEPT ![k].used = IF approved THEN @ + d ELSE @,
                                    ![k].pending = @ - d]
               ELSE balance
        /\ triggered' = [triggered EXCEPT ![r] = IF approved THEN @ + 1 ELSE @]
  /\ Goto(h, IdleCall)
  /\ UNCHANGED <<request, crashes>>

\* The process dies: what the handlers had not yet written is lost.
Crash ==
  /\ crashes < MaxCrashes
  /\ \E h \in Handlers : ~Idle(h) /\ ~Off(h)
  /\ call' = [h \in Handlers |-> IF Off(h) THEN call[h] ELSE IdleCall]
  /\ crashes' = crashes + 1
  /\ UNCHANGED <<balance, request, triggered>>

Step(h) == SaveBalance(h) \/ CreateRequest(h) \/ SaveDecision(h) \/ Settle(h)

Next ==
  \/ \E h \in Handlers :
       \/ \E k \in Keys, a \in Allocations : InitializeBalance(h, k, a)
       \/ \E k \in Keys, d \in Days :
            ApplyAgainstBalance(h, k, d) \/ ApplyWithoutBalance(h, k, d)
       \/ \E r \in Requests, v \in Verdicts : ReadForDecision(h, r, v)
       \/ Step(h)
  \/ Crash

Spec == Init /\ [][Next]_vars

-----------------------------------------------------------------------------
\* The process serves one call at a time.
Serial == \A g, h \in Handlers : ~Off(g) /\ ~Off(h) => g = h

\* A number of days below zero counts for nothing.
Worth(days) == IF days > 0 THEN days ELSE 0

\* A request of k for less than zero days has met one of the verdicts.
Undone(k, verdicts) ==
  \E r \in Requests :
    /\ request[r].status # "none" /\ request[r].key = k /\ request[r].days < 0
    /\ \E i \in DOMAIN request[r].chain : request[r].chain[i] \in verdicts

RowsFit ==
  \A k \in Keys \ LopKeys :
    balance[k].exists /\ ~Undone(k, {"rejected"}) =>
      balance[k].used + balance[k].pending <= Worth(balance[k].entitled)

\* Rows that are not "LOP" never promise more days than they are entitled to:
\* what applyLeave's "Insufficient leave balance" test is for.  It relates the
\* row to what a suspended application is about to write, and survives crashes
\* and rows created after the first request; one call at a time.  It stops at
\* the first request below zero that is refused: nothing turns such a request
\* away when it is filed, it frees days while it is pending, and refusing it
\* takes them back from whoever was promised them meanwhile.
NoOverdraw == Serial => RowsFit

\* The strengthening that makes RowsFit inductive when calls do not overlap.
WriteWillFit ==
  \A h \in Handlers :
    call[h].pc = "saveBalance" =>
      LET k == call[h].key
      IN /\ balance[k].exists
         /\ k \notin LopKeys /\ ~Undone(k, {"rejected"}) =>
              balance[k].used + call[h].pending <= Worth(balance[k].entitled)

DaysOn(k, reqs) ==
  MapThenSumSet(LAMBDA r : Worth(request[r].days),
                {r \in reqs : request[r].status # "none" /\ request[r].key = k})

Settling == {call[h].req : h \in {g \in Handlers : call[g].pc = "settle"}}

Approvals(r) ==
  IF request[r].status = "none" THEN 0
  ELSE Cardinality({i \in DOMAIN request[r].chain : request[r].chain[i] = "approved"})

\* No day stays reserved for a request that has been settled: what a row holds
\* as pending is covered by requests still open or by the call under way.
\* One call at a time and no crash; a row created late may hold less, and no
\* more is said of a row once a request below zero on it is decided, for that
\* adds to what is pending.
ReservationsCovered ==
  Serial /\ crashes = 0 => \A k \in Keys : ~Undone(k, Verdicts) =>
    balance[k].pending <=
      DaysOn(k, {r \in Requests : request[r].status = "pending"} \cup Settling)
        + MapThenSumSet(LAMBDA h : Worth(call[h].days),
                        {h \in Handlers : call[h].pc = "createRequest" /\ call[h].key = k})

\* However calls overlap or crash, no row is charged for more than the
\* approvals recorded on the requests drawn on it ($inc loses no update);
\* those below zero count for nothing, though their approval gives days back.
UsedBackedByApprovals ==
  \A k \in Keys :
    balance[k].used <=
      MapThenSumSet(LAMBDA r : Approvals(r) * Worth(request[r].days),
                    {r \in Requests : request[r].status # "none" /\ request[r].key = k})

\* What a row holds as used and as pending is accounted for by the requests.
RowsAreBacked == ReservationsCovered /\ UsedBackedByApprovals

\* "Leave request is not pending": the guard of approveLeave and rejectLeave
\* says a request is decided once.  Two calls that read it before either saves
\* both decide it, and both settle it.
DecidedOnce ==
  \A r \in Requests : request[r].status # "none" => Len(request[r].chain) <= 1
=============================================================================
