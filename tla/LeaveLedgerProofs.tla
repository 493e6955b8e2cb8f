-------------------------- MODULE LeaveLedgerProofs --------------------------
(***************************************************************************)
(* Proofs about LeaveLedger for any number of keys, requests, days and     *)
(* allotments: its types, that a row is never overdrawn when handlers run  *)
(* one at a time, whatever crashes and late rows occur, and that what it   *)
(* holds as used and pending is backed by requests. Then about             *)
(* components beside it, each an instance under a name of its own that     *)
(* keeps its Init, Next and Spec (no theorem speaks of two of them, and    *)
(* call, Handlers, ... serve each in its turn): how an employee's          *)
(* corrections reach the profile (EmployeeSelfService), the firewall's     *)
(* lock on an address that guesses passwords (LoginLock), administrators'  *)
(* sessions and codes (AdminAccess), the months of a pay ledger            *)
(* (PayrollLedger), the two registers that number their rows from one      *)
(* on, the employees (EmployeeRegister) and the schools with their         *)
(* partners (SchoolRegister), and the schools' expenses (SchoolExpenses).  *)
(***************************************************************************)
EXTENDS LeaveLedger, FiniteSetTheorems, WellFoundedInduction, TLAPS

CONSTANTS
  Links,                                  \* of EmployeeSelfService, with Requests
  me,                                     \* the one request at a time, where one is assumed
  Tenants, Ids, MaxEmployees, MaxSerial, firm,     \* of EmployeeRegister; firm is the one tenant
  Udises, Pays,                           \* of SchoolRegister, with MaxSerial
  Schools, Categories, Secondary, Amounts, MaxInvoices,    \* of SchoolExpenses, with Kinds
  Administrators, MaxAttempts,            \* of LoginLock
  Sessions, Codes, MaxPasswords,          \* of AdminAccess
  Months, Kinds, MaxAmount, MaxStamp      \* of PayrollLedger
VARIABLES profile, documents, links, requests, landed, cut,
          employees, disturbed,
          school, partner, apart,
          attempt, block, trusted, loginMaxAttempts, wrong, most,
          account, session, code, mixed, late,
          ledger, stamp, owed,
          invoice, drawn

Service == INSTANCE EmployeeSelfService
Staff == INSTANCE EmployeeRegister
Roll == INSTANCE SchoolRegister
Lock == INSTANCE LoginLock
Access == INSTANCE AdminAccess
Payroll == INSTANCE PayrollLedger
Expenses == INSTANCE SchoolExpenses

\* What a handler remembers, by the await it is suspended at.
LEMMA CallShape ==
  ASSUME NEW c \in Call
  PROVE  /\ c.pc \in {"idle", "off", "saveBalance", "createRequest", "saveDecision", "settle"}
         /\ c.pc = "saveBalance" => c.key \in Keys /\ c.days \in Days /\ c.pending \in Int
         /\ c.pc = "createRequest" => c.key \in Keys /\ c.days \in Days
         /\ c.pc \in {"saveDecision", "settle"} => c.req \in Requests /\ c.verdict \in Verdicts
BY DEF Call, IdleCall, OffCall

LEMMA RequestShape ==
  ASSUME NEW q \in Request, q.status # "none"
  PROVE  /\ q.status \in {"pending"} \cup Verdicts /\ q.key \in Keys /\ q.days \in Days
         /\ q.chain \in Seq(Verdicts)
         /\ q = [status |-> q.status, key |-> q.key, days |-> q.days, chain |-> q.chain]
BY DEF Request, NoRequest

LEMMA InitTypeOK == Init => TypeOK
BY CrashAssumption
DEF Init, TypeOK, DataOK, DecisionsNameRequests, Balance, NoBalance, Request, NoRequest,
    Call, IdleCall, OffCall

\* A step of handler h moves it to another await and, at most, changes requests
\* that stay requests.
LEMMA GotoTypeOK ==
  ASSUME TypeOK, NEW h \in Handlers, NEW c \in Call, Goto(h, c),
         \A r \in Requests : request[r].status # "none" => request'[r].status # "none",
         c.pc \in {"saveDecision", "settle"} => request'[c.req].status # "none"
  PROVE  call' \in [Handlers -> Call] /\ DecisionsNameRequests'
<1>1. call' \in [Handlers -> Call]
  BY DEF TypeOK, DataOK, Goto
<1>2. ASSUME NEW g \in Handlers, call'[g].pc \in {"saveDecision", "settle"}
      PROVE  request'[call'[g].req].status # "none"
  <2>1. CASE g = h
    BY <1>2, <2>1 DEF TypeOK, DataOK, Goto
  <2>2. CASE g # h
    <3>1. call'[g] = call[g] /\ call[g] \in Call
      BY <2>2 DEF TypeOK, DataOK, Goto
    <3> QED BY <1>2, <3>1, CallShape DEF TypeOK, DecisionsNameRequests
  <2> QED BY <2>1, <2>2
<1> QED BY <1>1, <1>2 DEF DecisionsNameRequests

LEMMA StepTypeOK == TypeOK /\ [Next]_vars => TypeOK'
<1> SUFFICES ASSUME TypeOK, [Next]_vars PROVE TypeOK'
  OBVIOUS
<1>a. DataOK /\ DecisionsNameRequests
  BY DEF TypeOK
<1>1. ASSUME NEW h \in Handlers, NEW k \in Keys, NEW a \in Allocations,
             InitializeBalance(h, k, a)
      PROVE TypeOK'
  <2>1. [exists |-> TRUE, entitled |-> a, used |-> 0, pending |-> 0] \in Balance
    BY AllocationsAssumption DEF Balance
  <2>2. DataOK'
    BY <1>a, <1>1, <2>1 DEF InitializeBalance, DataOK
  <2>3. DecisionsNameRequests'
    BY <1>a, <1>1 DEF InitializeBalance, DecisionsNameRequests
  <2> QED BY <2>2, <2>3 DEF TypeOK
<1>2. ASSUME NEW h \in Handlers, NEW k \in Keys, NEW d \in Days,
             ApplyAgainstBalance(h, k, d)
      PROVE TypeOK'
  <2> DEFINE c == [pc |-> "saveBalance", key |-> k, days |-> d,
                   pending |-> balance[k].pending + d]
  <2>1. c \in Call
    BY <1>a, DaysAssumption DEF Call, Balance, DataOK
  <2>2. Goto(h, c) /\ UNCHANGED <<balance, request, triggered, crashes>>
    BY <1>2 DEF ApplyAgainstBalance
  <2>3. call' \in [Handlers -> Call] /\ DecisionsNameRequests'
    BY <2>1, <2>2, GotoTypeOK
  <2> QED BY <1>a, <2>2, <2>3 DEF TypeOK, DataOK
<1>3. ASSUME NEW h \in Handlers, NEW k \in Keys, NEW d \in Days,
             ApplyWithoutBalance(h, k, d)
      PROVE TypeOK'
  <2> DEFINE c == [pc |-> "createRequest", key |-> k, days |-> d]
  <2>1. c \in Call
    BY DEF Call
  <2>2. Goto(h, c) /\ UNCHANGED <<balance, request, triggered, crashes>>
    BY <1>3 DEF ApplyWithoutBalance
  <2>3. call' \in [Handlers -> Call] /\ DecisionsNameRequests'
    BY <2>1, <2>2, GotoTypeOK
  <2> QED BY <1>a, <2>2, <2>3 DEF TypeOK, DataOK
<1>4. ASSUME NEW h \in Handlers, NEW r \in Requests, NEW v \in Verdicts,
             ReadForDecision(h, r, v)
      PROVE TypeOK'
  <2> DEFINE c == [pc |-> "saveDecision", req |-> r, verdict |-> v]
  <2>1. c \in Call
    BY DEF Call
  <2>2. /\ Goto(h, c) /\ UNCHANGED <<balance, request, triggered, crashes>>
        /\ request[r].status # "none"
    BY <1>4 DEF ReadForDecision
  <2>3. call' \in [Handlers -> Call] /\ DecisionsNameRequests'
    BY <2>1, <2>2, GotoTypeOK
  <2> QED BY <1>a, <2>2, <2>3 DEF TypeOK, DataOK
<1>5. ASSUME NEW h \in Handlers, SaveBalance(h) PROVE TypeOK'
  <2> DEFINE c == [pc |-> "createRequest", key |-> call[h].key, days |-> call[h].days]
  <2>1. /\ call[h].key \in Keys /\ call[h].days \in Days
        /\ call[h].pending \in Int
    BY <1>a, <1>5, CallShape DEF SaveBalance, DataOK
  <2>2. c \in Call
    BY <2>1 DEF Call
  <2>3. Goto(h, c) /\ UNCHANGED <<request, triggered, crashes>>
    BY <1>5 DEF SaveBalance
  <2>4. balance' \in [Keys -> Balance]
    BY <1>a, <1>5, <2>1 DEF SaveBalance, DataOK, Balance
  <2>5. call' \in [Handlers -> Call] /\ DecisionsNameRequests'
    BY <2>2, <2>3, GotoTypeOK
  <2> QED BY <1>a, <2>3, <2>4, <2>5 DEF TypeOK, DataOK
<1>6. ASSUME NEW h \in Handlers, CreateRequest(h) PROVE TypeOK'
  <2>1. call[h].key \in Keys /\ call[h].days \in Days
    BY <1>a, <1>6, CallShape DEF CreateRequest, DataOK
  <2> DEFINE q == [status |-> "pending", key |-> call[h].key,
                   days |-> call[h].days, chain |-> <<>>]
  <2>2. q \in Request /\ q.status # "none"
    BY <2>1 DEF Request
  <2>3. PICK r \in Requests : request' = [request EXCEPT ![r] = q]
    BY <1>6 DEF CreateRequest
  <2>4. /\ request' \in [Requests -> Request]
        /\ \A s \in Requests : request[s].status # "none" => request'[s].status # "none"
    BY <1>a, <2>2, <2>3 DEF DataOK
  <2>5. IdleCall \in Call /\ IdleCall.pc = "idle"
    BY DEF Call, IdleCall
  <2>6. Goto(h, IdleCall) /\ UNCHANGED <<balance, triggered, crashes>>
    BY <1>6 DEF CreateRequest
  <2>7. call' \in [Handlers -> Call] /\ DecisionsNameRequests'
    BY <2>4, <2>5, <2>6, GotoTypeOK
  <2> QED BY <1>a, <2>4, <2>6, <2>7 DEF TypeOK, DataOK
<1>7. ASSUME NEW h \in Handlers, SaveDecision(h) PROVE TypeOK'
  <2> DEFINE r == call[h].req
             v == call[h].verdict
             q == [request[r] EXCEPT !.status = v, !.chain = Append(@, v)]
             c == [pc |-> "settle", req |-> r, verdict |-> v]
  <2>1. r \in Requests /\ v \in Verdicts /\ request[r].status # "none"
    BY <1>a, <1>7, CallShape DEF SaveDecision, DataOK, DecisionsNameRequests
  <2>2. c \in Call
    BY <2>1 DEF Call
  <2>3. q \in Request /\ q.status # "none"
    <3>1. request[r] \in Request
      BY <1>a, <2>1 DEF DataOK
    <3>2. request[r] \in [status: {"pending"} \cup Verdicts, key: Keys, days: Days,
                          chain: Seq(Verdicts)]
      BY <2>1, <3>1 DEF Request, NoRequest
    <3>3. Append(request[r].chain, v) \in Seq(Verdicts)
      BY <2>1, <3>2
    <3> QED BY <2>1, <3>2, <3>3 DEF Request, Verdicts
  <2>4. request' = [request EXCEPT ![r] = q]
    BY <1>7 DEF SaveDecision
  <2>5. /\ request' \in [Requests -> Request]
        /\ \A s \in Requests : request[s].status # "none" => request'[s].status # "none"
        /\ request'[r].status # "none"
    BY <1>a, <2>1, <2>3, <2>4 DEF DataOK
  <2>6. Goto(h, c) /\ UNCHANGED <<balance, triggered, crashes>>
    BY <1>7 DEF SaveDecision
  <2>7. call' \in [Handlers -> Call] /\ DecisionsNameRequests'
    BY <2>2, <2>5, <2>6, GotoTypeOK
  <2> QED BY <1>a, <2>5, <2>6, <2>7 DEF TypeOK, DataOK
<1>8. ASSUME NEW h \in Handlers, Settle(h) PROVE TypeOK'
  <2> DEFINE r == call[h].req
             k == request[r].key
             d == request[r].days
  <2>1. r \in Requests /\ request[r].status # "none"
    BY <1>a, <1>8, CallShape DEF Settle, DataOK, DecisionsNameRequests
  <2>2. k \in Keys /\ d \in Int
    BY <1>a, <2>1, RequestShape, DaysAssumption DEF DataOK
  <2>3. balance' \in [Keys -> Balance]
    <3> DEFINE u == IF call[h].verdict = "approved" THEN balance[k].used + d
                                                    ELSE balance[k].used
               b == [balance[k] EXCEPT !.used = u, !.pending = @ - d]
    <3>1. balance[k] \in Balance
      BY <1>a, <2>2 DEF DataOK
    <3>2. b \in Balance
      <4>1. u \in Int /\ balance[k].pending - d \in Int
        BY <2>2, <3>1 DEF Balance
      <4> HIDE DEF u, d, k
      <4> QED BY <3>1, <4>1 DEF Balance
    <3>3. balance' = IF balance[k].exists THEN [balance EXCEPT ![k] = b] ELSE balance
      BY <1>8 DEF Settle
    <3>4. balance \in [Keys -> Balance]
      BY <1>a DEF DataOK
    <3> HIDE DEF b
    <3> QED BY <2>2, <3>2, <3>3, <3>4
  <2>4. triggered' \in [Requests -> Nat]
    BY <1>a, <1>8, <2>1, SMTT(60) DEF Settle, DataOK
  <2>5. IdleCall \in Call /\ IdleCall.pc = "idle"
    BY DEF Call, IdleCall
  <2>6. Goto(h, IdleCall) /\ UNCHANGED <<request, crashes>>
    BY <1>8 DEF Settle
  <2>7. call' \in [Handlers -> Call] /\ DecisionsNameRequests'
    BY <2>5, <2>6, GotoTypeOK
  <2> QED BY <1>a, <2>3, <2>4, <2>6, <2>7 DEF TypeOK, DataOK
<1>9. CASE Crash
  BY <1>a, <1>9, CrashAssumption DEF Crash, Call, IdleCall, OffCall, Off, TypeOK, DataOK, DecisionsNameRequests
<1>10. CASE UNCHANGED vars
  BY <1>a, <1>10 DEF vars, TypeOK, DataOK, DecisionsNameRequests
<1> QED
  BY <1>1, <1>2, <1>3, <1>4, <1>5, <1>6, <1>7, <1>8, <1>9, <1>10 DEF Next, Step

\* Types: every reachable state is well formed, and a suspended decision always
\* names a request that exists (the service deletes no request).
THEOREM TypeCorrect == Spec => []TypeOK
BY InitTypeOK, StepTypeOK, PTL DEF Spec

-----------------------------------------------------------------------------
LEMMA WorthOf ==
  ASSUME NEW d \in Int
  PROVE  Worth(d) \in Nat /\ d <= Worth(d) /\ (d >= 0 => Worth(d) = d)
BY DEF Worth

\* A request is never deleted, its row and its length never change, and its
\* approval chain only grows.
LEMMA RequestsGrow ==
  ASSUME TypeOK, [Next]_vars, NEW r \in Requests, request[r].status # "none"
  PROVE  /\ request'[r].status # "none" /\ request'[r].key = request[r].key
         /\ request'[r].days = request[r].days
         /\ \A i \in DOMAIN request[r].chain :
              i \in DOMAIN request'[r].chain /\ request'[r].chain[i] = request[r].chain[i]
<1>1. CASE request' = request
  BY <1>1
<1>2. ASSUME NEW h \in Handlers, CreateRequest(h)
      PROVE  request'[r] = request[r]
  BY <1>2 DEF CreateRequest, TypeOK, DataOK
<1>3. ASSUME NEW h \in Handlers, SaveDecision(h)
      PROVE  \/ request'[r] = request[r]
             \/ \E v \in Verdicts :
                  request'[r] = [request[r] EXCEPT !.status = v, !.chain = Append(@, v)]
  <2>1. call[h].verdict \in Verdicts
    BY <1>3, CallShape DEF SaveDecision, TypeOK, DataOK
  <2> QED BY <1>3, <2>1 DEF SaveDecision, TypeOK, DataOK
<1>4. ASSUME NEW v \in Verdicts,
             request'[r] = [request[r] EXCEPT !.status = v, !.chain = Append(@, v)]
      PROVE  /\ request'[r].status # "none" /\ request'[r].key = request[r].key
             /\ request'[r].days = request[r].days
             /\ \A i \in DOMAIN request[r].chain :
                  i \in DOMAIN request'[r].chain /\ request'[r].chain[i] = request[r].chain[i]
  <2>1. request[r] \in [status: {"pending"} \cup Verdicts, key: Keys, days: Days,
                        chain: Seq(Verdicts)]
    BY DEF TypeOK, DataOK, Request, NoRequest
  <2>2. /\ request'[r].status = v /\ request'[r].key = request[r].key
        /\ request'[r].days = request[r].days
        /\ request'[r].chain = Append(request[r].chain, v)
        /\ request[r].chain \in Seq(Verdicts) /\ v # "none"
    BY <1>4, <2>1 DEF Verdicts
  <2>3. \A i \in DOMAIN request[r].chain :
          i \in DOMAIN Append(request[r].chain, v)
          /\ Append(request[r].chain, v)[i] = request[r].chain[i]
    BY <2>2
  <2> QED BY <2>2, <2>3
<1>5. \/ request' = request
      \/ \E h \in Handlers : CreateRequest(h) \/ SaveDecision(h)
  BY DEF Next, vars, Step, InitializeBalance, ApplyAgainstBalance, ApplyWithoutBalance,
         ReadForDecision, SaveBalance, Settle, Crash
<1> QED BY <1>1, <1>2, <1>3, <1>4, <1>5

StaysUndone == \A k \in Keys, V \in SUBSET Verdicts : Undone(k, V) => Undone(k, V)'

LEMMA UndoneStays == TypeOK /\ [Next]_vars => StaysUndone
<1> SUFFICES ASSUME TypeOK, [Next]_vars, NEW k \in Keys, NEW V \in SUBSET Verdicts, Undone(k, V)
             PROVE  Undone(k, V)'
  BY DEF StaysUndone
<1>1. PICK r \in Requests :
        /\ request[r].status # "none" /\ request[r].key = k /\ request[r].days < 0
        /\ \E i \in DOMAIN request[r].chain : request[r].chain[i] \in V
  BY DEF Undone
<1>2. /\ request'[r].status # "none" /\ request'[r].key = k /\ request'[r].days < 0
      /\ \E i \in DOMAIN request'[r].chain : request'[r].chain[i] \in V
  BY <1>1, RequestsGrow
<1> QED BY <1>2 DEF Undone

\* What a call is about to settle is on its request's chain.
Recorded(c) ==
  c.pc = "settle" =>
    \E i \in DOMAIN request[c.req].chain : request[c.req].chain[i] = c.verdict
DecisionsAreRecorded == \A h \in Handlers : Recorded(call[h])

LEMMA StepRecorded == TypeOK /\ DecisionsAreRecorded /\ [Next]_vars => DecisionsAreRecorded'
<1> SUFFICES ASSUME TypeOK, DecisionsAreRecorded, [Next]_vars, NEW h \in Handlers
             PROVE  Recorded(call[h])'
  BY DEF DecisionsAreRecorded
<1>1. CASE call'[h] = call[h]
  <2>1. call[h].pc = "settle" => call[h].req \in Requests /\ request[call[h].req].status # "none"
    BY CallShape DEF TypeOK, DataOK, DecisionsNameRequests
  <2> QED BY <1>1, <2>1, RequestsGrow DEF DecisionsAreRecorded, Recorded
<1>2. CASE call'[h].pc # "settle"
  BY <1>2 DEF Recorded
<1>3. CASE SaveDecision(h)
  <2>1. PICK r \in Requests, v \in Verdicts :
          r = call[h].req /\ v = call[h].verdict /\ request[r].status # "none"
    BY <1>3, CallShape DEF SaveDecision, TypeOK, DataOK, DecisionsNameRequests
  <2>2. /\ call'[h] = [pc |-> "settle", req |-> r, verdict |-> v]
        /\ request'[r] = [request[r] EXCEPT !.status = v, !.chain = Append(@, v)]
    BY <1>3, <2>1 DEF SaveDecision, Goto, TypeOK, DataOK
  <2>3. request[r] \in [status: {"pending"} \cup Verdicts, key: Keys, days: Days,
                        chain: Seq(Verdicts)]
    BY <2>1 DEF TypeOK, DataOK, Request, NoRequest
  <2>4. request'[r].chain = Append(request[r].chain, v) /\ request[r].chain \in Seq(Verdicts)
    BY <2>2, <2>3
  <2>5. Len(request[r].chain) + 1 \in DOMAIN Append(request[r].chain, v)
        /\ Append(request[r].chain, v)[Len(request[r].chain) + 1] = v
    BY <2>4
  <2>6. call'[h].req = r /\ call'[h].verdict = v
    BY <2>2
  <2>7. \E i \in DOMAIN request'[r].chain : request'[r].chain[i] = v
    BY <2>4, <2>5
  <2> QED BY <2>6, <2>7 DEF Recorded
<1>4. ASSUME NEW g \in Handlers, NEW c, Goto(g, c), c.pc # "settle"
      PROVE  call'[h] = call[h] \/ call'[h].pc # "settle"
  BY <1>4 DEF Goto, TypeOK, DataOK
<1>5. call' = call \/ Crash => call'[h] = call[h] \/ call'[h].pc # "settle"
  BY DEF Crash, IdleCall
<1>6. IdleCall.pc # "settle"
  BY DEF IdleCall
<1>7. ASSUME NEW g \in Handlers, SaveDecision(g), g # h PROVE call'[h] = call[h]
  BY <1>7 DEF SaveDecision, Goto, TypeOK, DataOK
<1>8. \/ call' = call \/ Crash
      \/ \E g \in Handlers : \/ SaveDecision(g)
                             \/ \E c : Goto(g, c) /\ c.pc # "settle"
  <2>1. ASSUME NEW g \in Handlers, CreateRequest(g) \/ Settle(g) PROVE Goto(g, IdleCall)
    BY <2>1 DEF CreateRequest, Settle
  <2>2. ASSUME NEW g \in Handlers, SaveBalance(g) PROVE \E c : Goto(g, c) /\ c.pc # "settle"
    BY <2>2 DEF SaveBalance
  <2>3. ASSUME NEW g \in Handlers, NEW k \in Keys, NEW d \in Days,
               ApplyAgainstBalance(g, k, d) \/ ApplyWithoutBalance(g, k, d)
        PROVE  \E c : Goto(g, c) /\ c.pc # "settle"
    BY <2>3 DEF ApplyAgainstBalance, ApplyWithoutBalance
  <2>4. ASSUME NEW g \in Handlers, NEW r \in Requests, NEW v \in Verdicts, ReadForDecision(g, r, v)
        PROVE  \E c : Goto(g, c) /\ c.pc # "settle"
    BY <2>4 DEF ReadForDecision
  <2>5. ASSUME NEW g \in Handlers, NEW k \in Keys, NEW a \in Allocations, InitializeBalance(g, k, a)
        PROVE  call' = call
    BY <2>5 DEF InitializeBalance
  <2>6. CASE UNCHANGED vars
    BY <2>6 DEF vars
  <2> QED BY <1>6, <2>1, <2>2, <2>3, <2>4, <2>5, <2>6 DEF Next, Step
<1> QED BY <1>1, <1>2, <1>3, <1>4, <1>5, <1>7, <1>8

Inv == TypeOK /\ DecisionsAreRecorded /\ (Serial => RowsFit /\ WriteWillFit)

LEMMA InitInv == Init => Inv
<1>1. Worth(0) = 0
  BY DEF Worth
<1> QED BY <1>1, InitTypeOK
        DEF Inv, Init, RowsFit, WriteWillFit, DecisionsAreRecorded, Recorded, NoBalance,
            IdleCall, OffCall

\* One handler at a time: no other call is suspended while one reads.
LEMMA StepRowsFit ==
  Serial /\ Inv /\ [Next]_vars => RowsFit' /\ WriteWillFit'
<1> SUFFICES ASSUME Serial, Inv, [Next]_vars PROVE RowsFit' /\ WriteWillFit'
  OBVIOUS
<1>a. DataOK /\ DecisionsNameRequests /\ RowsFit /\ WriteWillFit
  BY DEF Inv, TypeOK
<1>b. \A k \in Keys : balance[k] \in Balance
  BY <1>a DEF DataOK
<1>c. \A k \in Keys : Undone(k, {"rejected"}) => Undone(k, {"rejected"})'
  BY UndoneStays DEF Inv, StaysUndone, Verdicts
<1>1. ASSUME NEW h \in Handlers, NEW k \in Keys, NEW a \in Allocations,
             InitializeBalance(h, k, a)
      PROVE RowsFit' /\ WriteWillFit'
  <2>1. balance'[k] = [exists |-> TRUE, entitled |-> a, used |-> 0, pending |-> 0]
        /\ \A j \in Keys \ {k} : balance'[j] = balance[j]
    BY <1>a, <1>1 DEF InitializeBalance, DataOK
  <2>2. RowsFit'
    BY <1>a, <1>c, <2>1, AllocationsAssumption, WorthOf DEF RowsFit
  <2>3. \A g \in Handlers : call'[g].pc # "saveBalance"
    BY <1>1 DEF InitializeBalance, Idle, Serial, Off
  <2> QED BY <2>2, <2>3 DEF WriteWillFit
<1>2. ASSUME NEW h \in Handlers, NEW k \in Keys, NEW d \in Days,
             ApplyAgainstBalance(h, k, d)
      PROVE RowsFit' /\ WriteWillFit'
  <2>1. balance' = balance /\ balance[k].exists
    BY <1>2 DEF ApplyAgainstBalance
  <2>2. RowsFit'
    BY <1>a, <1>c, <2>1 DEF RowsFit
  <2>3. \A g \in Handlers : call'[g].pc = "saveBalance" =>
                           /\ g = h
                           /\ call'[g].key = k
                           /\ call'[g].pending = balance[k].pending + d
    BY <1>a, <1>2 DEF Idle, ApplyAgainstBalance, Goto, DataOK, Serial, Off
  <2>4. k \notin LopKeys =>
          balance[k].used + (balance[k].pending + d) <= Worth(balance[k].entitled)
    <3>1. balance[k].entitled <= Worth(balance[k].entitled) /\ Worth(balance[k].entitled) \in Nat
      BY <1>b, WorthOf DEF Balance
    <3> QED BY <1>b, <1>2, <3>1, DaysAssumption DEF ApplyAgainstBalance, Available, Balance
  <2> QED BY <1>c, <2>1, <2>2, <2>3, <2>4 DEF WriteWillFit
<1>3. ASSUME NEW h \in Handlers, NEW k \in Keys, NEW d \in Days,
             ApplyWithoutBalance(h, k, d)
      PROVE RowsFit' /\ WriteWillFit'
  <2>1. balance' = balance
    BY <1>3 DEF ApplyWithoutBalance
  <2>2. \A g \in Handlers : call'[g].pc # "saveBalance"
    BY <1>a, <1>3 DEF ApplyWithoutBalance, Idle, Goto, DataOK, Serial, Off
  <2> QED BY <1>a, <1>c, <2>1, <2>2 DEF RowsFit, WriteWillFit
<1>4. ASSUME NEW h \in Handlers, NEW r \in Requests, NEW v \in Verdicts,
             ReadForDecision(h, r, v)
      PROVE RowsFit' /\ WriteWillFit'
  <2>1. balance' = balance
    BY <1>4 DEF ReadForDecision
  <2>2. \A g \in Handlers : call'[g].pc # "saveBalance"
    BY <1>a, <1>4 DEF ReadForDecision, Idle, Goto, DataOK, Serial, Off
  <2> QED BY <1>a, <1>c, <2>1, <2>2 DEF RowsFit, WriteWillFit
<1>5. ASSUME NEW h \in Handlers, SaveBalance(h) PROVE RowsFit' /\ WriteWillFit'
  <2> DEFINE k == call[h].key
             b == [balance[k] EXCEPT !.pending = call[h].pending]
  <2>1. k \in Keys /\ call[h].pending \in Int /\ balance[k] \in Balance
    BY <1>a, <1>b, <1>5, CallShape DEF SaveBalance, DataOK
  <2>2. balance' = [balance EXCEPT ![k] = b]
    BY <1>5 DEF SaveBalance
  <2>3. k \notin LopKeys /\ ~Undone(k, {"rejected"}) => b.used + b.pending <= Worth(b.entitled)
    BY <1>a, <1>5, <2>1 DEF SaveBalance, WriteWillFit, Balance
  <2>4. RowsFit'
    <3>1. balance'[k] = b /\ \A j \in Keys \ {k} : balance'[j] = balance[j]
      BY <1>a, <2>1, <2>2 DEF DataOK
    <3> HIDE DEF b
    <3> QED BY <1>a, <1>c, <2>1, <2>3, <3>1 DEF RowsFit
  <2>5. \A g \in Handlers : call'[g].pc # "saveBalance"
    BY <1>a, <1>5 DEF SaveBalance, Goto, DataOK, Serial, Off
  <2> QED BY <2>4, <2>5 DEF WriteWillFit
<1>6. ASSUME NEW h \in Handlers, CreateRequest(h) PROVE RowsFit' /\ WriteWillFit'
  <2>1. balance' = balance
    BY <1>6 DEF CreateRequest
  <2>2. \A g \in Handlers : call'[g].pc # "saveBalance"
    BY <1>a, <1>6 DEF CreateRequest, Goto, DataOK, Serial, Off, IdleCall
  <2> QED BY <1>a, <1>c, <2>1, <2>2 DEF RowsFit, WriteWillFit
<1>7. ASSUME NEW h \in Handlers, SaveDecision(h) PROVE RowsFit' /\ WriteWillFit'
  <2>1. balance' = balance
    BY <1>7 DEF SaveDecision
  <2>2. \A g \in Handlers : call'[g].pc # "saveBalance"
    BY <1>a, <1>7 DEF SaveDecision, Goto, DataOK, Serial, Off
  <2> QED BY <1>a, <1>c, <2>1, <2>2 DEF RowsFit, WriteWillFit
<1>8. ASSUME NEW h \in Handlers, Settle(h) PROVE RowsFit' /\ WriteWillFit'
  <2> DEFINE r == call[h].req
             k == request[r].key
             d == request[r].days
             u == IF call[h].verdict = "approved" THEN balance[k].used + d
                                                  ELSE balance[k].used
             b == [balance[k] EXCEPT !.used = u, !.pending = @ - d]
  <2>1. r \in Requests /\ request[r].status # "none" /\ call[h].verdict \in Verdicts
    BY <1>a, <1>8, CallShape DEF Settle, DataOK, DecisionsNameRequests
  <2>2. k \in Keys /\ d \in Int /\ balance[k] \in Balance
    BY <1>a, <1>b, <2>1, RequestShape, DaysAssumption DEF DataOK
  <2>3. balance' = IF balance[k].exists THEN [balance EXCEPT ![k] = b] ELSE balance
    BY <1>8 DEF Settle
  <2>4. ~Undone(k, {"rejected"}) =>
          b.used + b.pending <= balance[k].used + balance[k].pending
    <3>1. CASE call[h].verdict = "approved" \/ d >= 0
      BY <2>2, <3>1 DEF Balance
    <3>2. CASE call[h].verdict = "rejected" /\ d < 0
      <4>1. \E i \in DOMAIN request[r].chain : request[r].chain[i] = "rejected"
        BY <1>8, <3>2 DEF Inv, DecisionsAreRecorded, Recorded, Settle
      <4> QED BY <2>1, <3>2, <4>1 DEF Undone
    <3> QED BY <2>1, <2>2, <3>1, <3>2 DEF Verdicts
  <2>5. b.used \in Int /\ b.pending \in Int /\ b.entitled = balance[k].entitled
        /\ balance[k].used \in Int /\ balance[k].pending \in Int
        /\ Worth(balance[k].entitled) \in Nat
    BY <2>2, WorthOf DEF Balance
  <2>6. RowsFit'
    <3>1. CASE balance[k].exists
      <4>1. k \notin LopKeys /\ ~Undone(k, {"rejected"}) => b.used + b.pending <= Worth(b.entitled)
        <5>1. k \notin LopKeys /\ ~Undone(k, {"rejected"}) =>
                balance[k].used + balance[k].pending <= Worth(balance[k].entitled)
          BY <1>a, <2>2, <3>1 DEF RowsFit
        <5> HIDE DEF b
        <5> QED BY <2>4, <2>5, <5>1
      <4>2. balance'[k] = b /\ \A j \in Keys \ {k} : balance'[j] = balance[j]
        BY <1>a, <2>2, <2>3, <3>1 DEF DataOK
      <4> HIDE DEF b, u, d
      <4> QED BY <1>a, <1>c, <4>1, <4>2 DEF RowsFit
    <3>2. CASE ~balance[k].exists
      BY <1>a, <1>c, <2>3, <3>2 DEF RowsFit
    <3> QED BY <3>1, <3>2
  <2>7. \A g \in Handlers : call'[g].pc # "saveBalance"
    BY <1>a, <1>8 DEF Settle, Goto, DataOK, Serial, Off, IdleCall
  <2> QED BY <2>6, <2>7 DEF WriteWillFit
<1>9. CASE Crash
  <2>1. balance' = balance /\ request' = request
    BY <1>9 DEF Crash
  <2>2. \A h \in Handlers : call'[h] = IdleCall \/ call'[h].pc = "off"
    BY <1>9 DEF Crash, Off
  <2>3. RowsFit'
    BY <1>a, <1>c, <2>1 DEF RowsFit
  <2> QED BY <2>2, <2>3 DEF WriteWillFit, IdleCall
<1>10. CASE UNCHANGED vars
  <2>1. balance' = balance /\ call' = call /\ request' = request
    BY <1>10 DEF vars
  <2>2. RowsFit'
    BY <1>a, <1>c, <2>1 DEF RowsFit
  <2>3. WriteWillFit'
    BY <1>a, <2>1 DEF WriteWillFit, Undone
  <2> QED BY <2>2, <2>3
<1> QED
  BY <1>1, <1>2, <1>3, <1>4, <1>5, <1>6, <1>7, <1>8, <1>9, <1>10 DEF Next, Step

\* Whether calls may overlap is settled at the start.
LEMMA SerialStable ==
  ASSUME TypeOK, [Next]_vars
  PROVE  Serial' => Serial
<1>a. call \in [Handlers -> Call]
  BY DEF TypeOK, DataOK
<1>1. ASSUME NEW h \in Handlers, NEW c, Goto(h, c), c.pc # "off"
      PROVE  \A g \in Handlers : Off(g)' => Off(g)
  BY <1>a, <1>1 DEF Goto, Off
<1>2. \A g \in Handlers : Off(g)' => Off(g)
  <2>1. CASE Crash
    BY <2>1 DEF Crash, Off, IdleCall
  <2>2. CASE UNCHANGED vars
    BY <2>2 DEF vars, Off
  <2>3. CASE \E h \in Handlers, k \in Keys, b \in Allocations : InitializeBalance(h, k, b)
    BY <2>3 DEF InitializeBalance, Off
  <2>4. CASE \E h \in Handlers, k \in Keys, d \in Days :
               ApplyAgainstBalance(h, k, d) \/ ApplyWithoutBalance(h, k, d)
    BY <2>4, <1>1 DEF ApplyAgainstBalance, ApplyWithoutBalance
  <2>5. CASE \E h \in Handlers, r \in Requests, v \in Verdicts : ReadForDecision(h, r, v)
    BY <2>5, <1>1 DEF ReadForDecision
  <2>6. CASE \E h \in Handlers : Step(h)
    <3>1. PICK h \in Handlers : Step(h)
      BY <2>6
    <3>2. IdleCall.pc # "off"
      BY DEF IdleCall
    <3>3. CASE SaveBalance(h)
      BY <3>3, <1>1 DEF SaveBalance
    <3>4. CASE CreateRequest(h)
      BY <3>4, <3>2, <1>1 DEF CreateRequest
    <3>5. CASE SaveDecision(h)
      BY <3>5, <1>1 DEF SaveDecision
    <3>6. CASE Settle(h)
      BY <3>6, <3>2, <1>1 DEF Settle
    <3> QED BY <3>1, <3>3, <3>4, <3>5, <3>6 DEF Step
  <2> QED BY <2>1, <2>2, <2>3, <2>4, <2>5, <2>6 DEF Next
<1> QED BY <1>2 DEF Serial

\* With calls one at a time no row is ever promised beyond its entitlement,
\* wherever the process dies and whenever rows appear: the "Insufficient leave
\* balance" test of applyLeave does what it is for, until a request for less
\* than zero days, which it lets through, is refused.
THEOREM NoOverdrawAlways == Spec => []NoOverdraw
<1>1. Init => Inv
  BY InitInv
<1>2. Inv /\ [Next]_vars => Inv'
  BY StepTypeOK, StepRecorded, StepRowsFit, SerialStable DEF Inv
<1>3. Inv => NoOverdraw
  BY DEF Inv, NoOverdraw
<1> QED BY <1>1, <1>2, <1>3, PTL DEF Spec

-----------------------------------------------------------------------------
(* The smallest of some numbers, and of some finite sets.                    *)

LEMMA SmallestOf ==
  ASSUME NEW T, T \subseteq Nat, T # {}
  PROVE  \E x \in T : \A y \in T : x <= y
<1> DEFINE R == OpToRel(<, Nat)
<1>1. IsWellFoundedOn(R, Nat)
  BY NatLessThanWellFounded
<1>2. ASSUME NEW x \in Nat, NEW y \in Nat, <<y, x>> \notin R PROVE x <= y
  BY <1>2 DEF OpToRel
<1> HIDE DEF R
<1>3. PICK x \in T : \A y \in T : <<y, x>> \notin R
  BY <1>1, WFMin
<1>4. \A y \in T : x <= y
  BY <1>2, <1>3
<1> QED BY <1>4

\* The smallest of the finite sets that have some property in common.
LEMMA SmallestSet ==
  ASSUME NEW F, F # {}, \A s \in F : IsFiniteSet(s)
  PROVE  \E s \in F : \A r \in F : ~(Cardinality(r) < Cardinality(s))
<1> DEFINE N == {Cardinality(s) : s \in F}
<1>1. N \subseteq Nat /\ N # {}
  BY FS_CardinalityType
<1>2. PICK n \in N : \A k \in N : n <= k
  <2> HIDE DEF N
  <2> QED BY <1>1, SmallestOf
<1>3. PICK s \in F : n = Cardinality(s)
  OBVIOUS
<1>4. ASSUME NEW r \in F PROVE ~(Cardinality(r) < Cardinality(s))
  <2>1. n <= Cardinality(r) /\ n \in Nat /\ Cardinality(r) \in Nat
    BY <1>2, FS_CardinalityType
  <2> QED BY <1>3, <2>1
<1> QED BY <1>4

-----------------------------------------------------------------------------
(* Sums over finite sets.  g gives every part of S its total under w, the    *)
(* way the folds of the community modules go through a set.                  *)

OneOf(s) == CHOOSE x \in s : TRUE
Without(s, x) == s \ {x}
Totals(g, w, S) ==
  g = [s \in SUBSET S |-> IF s = {} THEN 0 ELSE w[OneOf(s)] + g[s \ {OneOf(s)}]]
Total(w, S) == (CHOOSE g : Totals(g, w, S))[S]

LEMMA OneOfIsIn == \A s : s # {} => OneOf(s) \in s
BY DEF OneOf

LEMMA OneLess ==
  ASSUME NEW s, IsFiniteSet(s), NEW x \in s
  PROVE  /\ IsFiniteSet(s \ {x}) /\ Cardinality(s \ {x}) = Cardinality(s) - 1
         /\ Cardinality(s) \in Nat /\ Cardinality(s \ {x}) \in Nat
         /\ Cardinality(s \ {x}) < Cardinality(s)
<1>1. IsFiniteSet(s \ {x}) /\ Cardinality(s \ {x}) = Cardinality(s) - 1
  BY FS_RemoveElement
<1>2. Cardinality(s) \in Nat /\ Cardinality(s \ {x}) \in Nat
  BY <1>1, FS_CardinalityType
<1> QED BY <1>1, <1>2

\* A total is the same in whatever larger set it is taken.
LEMMA TotalsAgree ==
  ASSUME NEW g, NEW h, NEW w, NEW v, NEW S, NEW T, Totals(g, w, S), Totals(h, v, T),
         NEW r, IsFiniteSet(r), r \subseteq S, r \subseteq T, \A x \in r : w[x] = v[x]
  PROVE  g[r] = h[r]
<1> DEFINE F == {s \in SUBSET r : g[s] # h[s]}
<1>1. SUFFICES ASSUME F # {} PROVE FALSE
  BY DEF F
<1>2. \A s \in F : IsFiniteSet(s)
  BY FS_Subset
<1>3. PICK s \in F : \A q \in F : ~(Cardinality(q) < Cardinality(s))
  <2> HIDE DEF F
  <2> QED BY <1>1, <1>2, SmallestSet
<1>4. /\ g[s] = IF s = {} THEN 0 ELSE w[OneOf(s)] + g[s \ {OneOf(s)}]
      /\ h[s] = IF s = {} THEN 0 ELSE v[OneOf(s)] + h[s \ {OneOf(s)}]
  <2>1. s \in SUBSET S /\ s \in SUBSET T
    OBVIOUS
  <2> QED BY <2>1 DEF Totals
<1>5. s # {} /\ OneOf(s) \in s
  BY <1>4, OneOfIsIn
<1>6. IsFiniteSet(s) /\ Cardinality(s \ {OneOf(s)}) < Cardinality(s)
  BY <1>2, <1>5, OneLess
<1>7. s \ {OneOf(s)} \notin F
  BY <1>3, <1>6
<1>8. g[s \ {OneOf(s)}] = h[s \ {OneOf(s)}] /\ w[OneOf(s)] = v[OneOf(s)]
  BY <1>5, <1>7
<1> QED BY <1>4, <1>5, <1>8

\* There is one, by going from smaller to larger parts.
LEMMA TotalsExist ==
  ASSUME NEW S, IsFiniteSet(S), NEW w \in [S -> Int]
  PROVE  \E g \in [SUBSET S -> Int] : Totals(g, w, S)
<1> DEFINE Rest(g, s) == IF s = {} THEN 0 ELSE w[OneOf(s)] + g[s \ {OneOf(s)}]
           Upto(g, n) == \A s \in SUBSET S : Cardinality(s) <= n => g[s] = Rest(g, s)
           Lacking == {n \in Nat : \A g \in [SUBSET S -> Int] : ~Upto(g, n)}
<1>0. ASSUME NEW s \in SUBSET S PROVE IsFiniteSet(s) /\ Cardinality(s) \in Nat
  BY FS_Subset, FS_CardinalityType
<1>1. ASSUME NEW g \in [SUBSET S -> Int], NEW s \in SUBSET S
      PROVE  Rest(g, s) \in Int
  <2>1. CASE s = {} BY <2>1
  <2>2. CASE s # {}
    <3>1. OneOf(s) \in s BY <2>2, OneOfIsIn
    <3>2. w[OneOf(s)] \in Int /\ g[s \ {OneOf(s)}] \in Int BY <3>1
    <3> QED BY <2>2, <3>2
  <2> QED BY <2>1, <2>2
<1>2. Lacking = {}
  <2>1. SUFFICES ASSUME Lacking # {} PROVE FALSE
    OBVIOUS
  <2>2. PICK n \in Lacking : \A k \in Lacking : n <= k
    <3>1. Lacking \subseteq Nat OBVIOUS
    <3> HIDE DEF Lacking
    <3> QED BY <2>1, <3>1, SmallestOf
  <2>3. n \in Nat /\ \A g \in [SUBSET S -> Int] : ~Upto(g, n)
    OBVIOUS
  <2>4. PICK f \in [SUBSET S -> Int] : \A s \in SUBSET S : Cardinality(s) < n => f[s] = Rest(f, s)
    <3>1. CASE n = 0
      <4>1. [s \in SUBSET S |-> 0] \in [SUBSET S -> Int] OBVIOUS
      <4>2. \A s \in SUBSET S : ~(Cardinality(s) < n) BY <1>0, <3>1
      <4> QED BY <4>1, <4>2
    <3>2. CASE n # 0
      <4>1. n - 1 \in Nat /\ ~(n <= n - 1) BY <2>3, <3>2
      <4>2. n - 1 \notin Lacking BY <2>2, <4>1
      <4>3. PICK f \in [SUBSET S -> Int] : Upto(f, n - 1) BY <4>1, <4>2
      <4>4. ASSUME NEW s \in SUBSET S, Cardinality(s) < n PROVE f[s] = Rest(f, s)
        <5>1. Cardinality(s) <= n - 1 BY <1>0, <2>3, <4>4
        <5> HIDE DEF Rest
        <5> QED BY <4>3, <5>1
      <4> HIDE DEF Rest
      <4> QED BY <4>4
    <3> QED BY <3>1, <3>2
  <2> DEFINE g == [s \in SUBSET S |-> IF Cardinality(s) < n THEN f[s] ELSE Rest(f, s)]
  <2>5. g \in [SUBSET S -> Int]
    <3>1. \A s \in SUBSET S : f[s] \in Int /\ Rest(f, s) \in Int
      BY <1>1
    <3> HIDE DEF Rest
    <3> QED BY <3>1
  <2>6. ASSUME NEW s \in SUBSET S, Cardinality(s) <= n PROVE g[s] = Rest(g, s)
    <3>1. g[s] = Rest(f, s)
      <4>1. g[s] = IF Cardinality(s) < n THEN f[s] ELSE Rest(f, s) OBVIOUS
      <4> HIDE DEF g, Rest
      <4> QED BY <2>4, <4>1
    <3>2. s # {} => g[s \ {OneOf(s)}] = f[s \ {OneOf(s)}]
      <4>1. SUFFICES ASSUME s # {} PROVE g[s \ {OneOf(s)}] = f[s \ {OneOf(s)}]
        OBVIOUS
      <4>2. OneOf(s) \in s BY <4>1, OneOfIsIn
      <4>3. Cardinality(s \ {OneOf(s)}) < n
        <5>1. /\ Cardinality(s) \in Nat /\ Cardinality(s \ {OneOf(s)}) \in Nat
              /\ Cardinality(s \ {OneOf(s)}) < Cardinality(s)
          BY <1>0, <4>2, OneLess
        <5> QED BY <2>3, <2>6, <5>1
      <4>4. s \ {OneOf(s)} \in SUBSET S OBVIOUS
      <4> QED BY <4>3, <4>4
    <3> HIDE DEF g
    <3> QED BY <3>1, <3>2
  <2>7. Upto(g, n)
    <3> HIDE DEF g, Rest
    <3> QED BY <2>6
  <2> HIDE DEF g, Upto
  <2> QED BY <2>3, <2>5, <2>7
<1>3. Cardinality(S) \in Nat /\ \A s \in SUBSET S : Cardinality(s) <= Cardinality(S)
  BY FS_Subset, FS_CardinalityType
<1>4. PICK g \in [SUBSET S -> Int] : Upto(g, Cardinality(S))
  <2> HIDE DEF Upto
  <2> QED BY <1>2, <1>3
<1>5. g = [s \in SUBSET S |-> Rest(g, s)]
  <2>1. \A s \in SUBSET S : g[s] = Rest(g, s)
    <3> HIDE DEF Rest
    <3> QED BY <1>3, <1>4
  <2> HIDE DEF Rest
  <2> QED BY <2>1
<1> QED BY <1>5 DEF Totals

\* What is proved of one function with totals is so of the total.
LEMMA TotalIs ==
  ASSUME NEW S, IsFiniteSet(S), NEW w \in [S -> Int], NEW g, Totals(g, w, S)
  PROVE  Total(w, S) = g[S] /\ Total(w, S) \in Int
<1>1. PICK f \in [SUBSET S -> Int] : Totals(f, w, S)
  BY TotalsExist
<1> DEFINE c == CHOOSE k : Totals(k, w, S)
<1>2. Totals(c, w, S)
  BY <1>1
<1> HIDE DEF c
<1>3. c[S] = g[S] /\ c[S] = f[S]
  BY <1>1, <1>2, TotalsAgree
<1>4. f[S] \in Int
  OBVIOUS
<1> QED BY <1>3, <1>4 DEF Total, c

\* The total of a part, with what is outside it left out or not.
LEMMA PartTotal ==
  ASSUME NEW S, IsFiniteSet(S), NEW T, IsFiniteSet(T), S \subseteq T, NEW v \in [T -> Int],
         NEW w \in [S -> Int], \A x \in S : w[x] = v[x], NEW g, Totals(g, v, T)
  PROVE  g[S] = Total(w, S)
<1>1. PICK f : Totals(f, w, S)
  BY TotalsExist
<1>2. g[S] = f[S]
  BY <1>1, TotalsAgree
<1> QED BY <1>1, <1>2, TotalIs

LEMMA TotalOfNone ==
  ASSUME NEW w \in [{} -> Int]
  PROVE  Total(w, {}) = 0
<1>1. IsFiniteSet({})
  BY FS_EmptySet
<1>2. PICK g : Totals(g, w, {})
  BY <1>1, TotalsExist
<1>3. g[{}] = 0
  BY <1>2 DEF Totals
<1> QED BY <1>1, <1>2, <1>3, TotalIs

\* One member more or less, whichever the fold takes first.
LEMMA TotalTakes ==
  ASSUME NEW S, IsFiniteSet(S), NEW w \in [S -> Int], NEW g, Totals(g, w, S)
  PROVE  \A s \in SUBSET S : \A x \in s : g[s] = w[x] + g[Without(s, x)]
<1> DEFINE F == {r \in SUBSET S : \E y \in r : g[r] # w[y] + g[r \ {y}]}
<1>1. SUFFICES ASSUME F # {} PROVE FALSE
  BY DEF Without
<1>2. \A r \in F : IsFiniteSet(r)
  BY FS_Subset
<1>3. PICK r \in F : \A q \in F : ~(Cardinality(q) < Cardinality(r))
  <2> HIDE DEF F
  <2> QED BY <1>1, <1>2, SmallestSet
<1>4. PICK y \in r : g[r] # w[y] + g[r \ {y}]
  OBVIOUS
<1>5. PICK z \in r : z = OneOf(r)
  BY OneOfIsIn
<1>6. g[r] = w[z] + g[r \ {z}]
  BY <1>5 DEF Totals
<1>7. z # y
  BY <1>4, <1>6
<1>8. r \ {z} \notin F /\ r \ {y} \notin F
  BY <1>2, <1>3, OneLess
<1>9. g[r \ {z}] = w[y] + g[(r \ {z}) \ {y}] /\ g[r \ {y}] = w[z] + g[(r \ {y}) \ {z}]
  BY <1>7, <1>8
<1>10. (r \ {z}) \ {y} = (r \ {y}) \ {z}
  OBVIOUS
<1>11. w[y] \in Int /\ w[z] \in Int /\ g[(r \ {y}) \ {z}] \in Int
  <2>1. PICK f \in [SUBSET S -> Int] : Totals(f, w, S)
    BY TotalsExist
  <2>2. PICK q \in SUBSET S : q = (r \ {y}) \ {z}
    OBVIOUS
  <2>3. IsFiniteSet(q)
    BY FS_Subset
  <2>4. g[q] = f[q]
    BY <2>1, <2>3, TotalsAgree
  <2> QED BY <2>2, <2>4
<1>12. \A i, j, k \in Int : i + (j + k) = j + (i + k)
  OBVIOUS
<1>13. g[r] = w[z] + (w[y] + g[(r \ {y}) \ {z}])
  BY <1>6, <1>9, <1>10, Zenon
<1>14. w[y] + g[r \ {y}] = w[y] + (w[z] + g[(r \ {y}) \ {z}])
  BY <1>9, Zenon
<1> QED BY <1>4, <1>11, <1>12, <1>13, <1>14, Zenon

LEMMA TotalWith ==
  ASSUME NEW S, IsFiniteSet(S), NEW w \in [S -> Int], NEW x \in S,
         NEW v \in [S \ {x} -> Int], \A y \in S \ {x} : v[y] = w[y]
  PROVE  Total(w, S) = w[x] + Total(v, S \ {x}) /\ Total(v, S \ {x}) \in Int
<1>1. IsFiniteSet(S \ {x})
  BY FS_Subset
<1>2. PICK g \in [SUBSET S -> Int] : Totals(g, w, S)
  BY TotalsExist
<1>3. g[S] = w[x] + g[S \ {x}]
  <2>1. S \in SUBSET S OBVIOUS
  <2>2. g[S] = w[x] + g[Without(S, x)]
    BY <1>2, <2>1, TotalTakes
  <2> QED BY <2>2 DEF Without
<1>4. g[S \ {x}] = Total(v, S \ {x})
  BY <1>1, <1>2, PartTotal
<1>5. Total(w, S) = g[S] /\ g[S \ {x}] \in Int
  BY <1>2, TotalIs
<1> QED BY <1>3, <1>4, <1>5

LEMMA TotalInt ==
  ASSUME NEW S, IsFiniteSet(S), NEW w \in [S -> Int]
  PROVE  Total(w, S) \in Int
BY TotalsExist, TotalIs

\* If one member changes, the total changes by as much.
LEMMA TotalChanges ==
  ASSUME NEW S, IsFiniteSet(S), NEW w \in [S -> Int], NEW v \in [S -> Int], NEW x \in S,
         \A y \in S \ {x} : v[y] = w[y]
  PROVE  Total(v, S) = Total(w, S) - w[x] + v[x]
<1>1. PICK u \in [S \ {x} -> Int] : u = [y \in S \ {x} |-> w[y]]
  OBVIOUS
<1>2. Total(w, S) = w[x] + Total(u, S \ {x}) /\ Total(u, S \ {x}) \in Int
  BY <1>1, TotalWith
<1>3. Total(v, S) = v[x] + Total(u, S \ {x})
  BY <1>1, TotalWith
<1>4. w[x] \in Int /\ v[x] \in Int
  OBVIOUS
<1> QED BY <1>2, <1>3, <1>4

\* Each at most as much, so the total too.
LEMMA TotalGrows ==
  ASSUME NEW S, IsFiniteSet(S), NEW w \in [S -> Int], NEW v \in [S -> Int],
         \A y \in S : w[y] <= v[y]
  PROVE  Total(w, S) <= Total(v, S)
<1> DEFINE F == {s \in SUBSET S : ~(Total([y \in s |-> w[y]], s) <= Total([y \in s |-> v[y]], s))}
<1>1. w = [y \in S |-> w[y]] /\ v = [y \in S |-> v[y]]
  OBVIOUS
<1>2. SUFFICES ASSUME F # {} PROVE FALSE
  <2>1. S \in SUBSET S OBVIOUS
  <2> QED BY <1>1, <2>1
<1>3. \A s \in F : IsFiniteSet(s)
  BY FS_Subset
<1>4. PICK s \in F : \A q \in F : ~(Cardinality(q) < Cardinality(s))
  <2> HIDE DEF F
  <2> QED BY <1>2, <1>3, SmallestSet
<1> DEFINE ws == [y \in s |-> w[y]]
           vs == [y \in s |-> v[y]]
<1>5. ws \in [s -> Int] /\ vs \in [s -> Int] /\ ~(Total(ws, s) <= Total(vs, s)) /\ s \subseteq S
  OBVIOUS
<1>6. s # {}
  <2>1. SUFFICES ASSUME s = {} PROVE FALSE
    OBVIOUS
  <2>2. Total(ws, s) = 0 /\ Total(vs, s) = 0
    <3> HIDE DEF ws, vs
    <3> QED BY <1>5, <2>1, TotalOfNone
  <2> QED BY <1>5, <2>2
<1>7. PICK x \in s : TRUE
  BY <1>6
<1> DEFINE wx == [y \in s \ {x} |-> w[y]]
           vx == [y \in s \ {x} |-> v[y]]
<1>8. s \ {x} \notin F
  BY <1>3, <1>4, OneLess
<1>9. Total(wx, s \ {x}) <= Total(vx, s \ {x})
  BY <1>5, <1>8
<1>10. /\ Total(ws, s) = ws[x] + Total(wx, s \ {x}) /\ Total(wx, s \ {x}) \in Int
       /\ Total(vs, s) = vs[x] + Total(vx, s \ {x}) /\ Total(vx, s \ {x}) \in Int
  <2>1. /\ wx \in [s \ {x} -> Int] /\ vx \in [s \ {x} -> Int]
        /\ \A y \in s \ {x} : wx[y] = ws[y] /\ vx[y] = vs[y]
    BY <1>5
  <2>2. IsFiniteSet(s) BY <1>3
  <2> HIDE DEF ws, vs, wx, vx, F
  <2>3. Total(ws, s) = ws[x] + Total(wx, s \ {x}) /\ Total(wx, s \ {x}) \in Int
    BY <1>5, <2>1, <2>2, TotalWith, SMTT(60)
  <2>4. Total(vs, s) = vs[x] + Total(vx, s \ {x}) /\ Total(vx, s \ {x}) \in Int
    BY <1>5, <2>1, <2>2, TotalWith
  <2> QED BY <2>3, <2>4
<1>11. ws[x] <= vs[x] /\ ws[x] \in Int /\ vs[x] \in Int
  BY <1>5
<1> HIDE DEF ws, vs, wx, vx
<1> QED BY <1>5, <1>9, <1>10, <1>11

\* Members that count for nothing may be left out.
LEMMA TotalOver ==
  ASSUME NEW T, IsFiniteSet(T), NEW S, S \subseteq T, NEW w \in [T -> Int],
         \A y \in T \ S : w[y] = 0, NEW v \in [S -> Int], \A y \in S : v[y] = w[y]
  PROVE  Total(v, S) = Total(w, T)
<1>1. PICK g \in [SUBSET T -> Int] : Totals(g, w, T)
  BY TotalsExist
<1> DEFINE F == {s \in SUBSET T : S \subseteq s /\ g[s] # g[S]}
<1>2. F = {}
  <2>1. SUFFICES ASSUME F # {} PROVE FALSE
    OBVIOUS
  <2>2. \A s \in F : IsFiniteSet(s)
    BY FS_Subset
  <2>3. PICK s \in F : \A q \in F : ~(Cardinality(q) < Cardinality(s))
    <3> HIDE DEF F
    <3> QED BY <2>1, <2>2, SmallestSet
  <2>4. PICK x \in s : x \notin S
    OBVIOUS
  <2>5. s \ {x} \notin F
    BY <2>2, <2>3, OneLess
  <2>6. g[s \ {x}] = g[S]
    BY <2>4, <2>5
  <2>7. g[s] = w[x] + g[s \ {x}]
    <3>1. s \in SUBSET T OBVIOUS
    <3>2. g[s] = w[x] + g[Without(s, x)]
      BY <1>1, <3>1, TotalTakes
    <3> QED BY <3>2 DEF Without
  <2>8. w[x] = 0 /\ g[S] \in Int
    BY <2>4
  <2> QED BY <2>6, <2>7, <2>8
<1>3. T \notin F /\ IsFiniteSet(S)
  BY <1>2, FS_Subset
<1>4. g[T] = g[S]
  BY <1>3
<1>5. g[S] = Total(v, S) /\ g[T] = Total(w, T)
  BY <1>1, <1>3, PartTotal, TotalIs
<1> QED BY <1>4, <1>5

\* The sums of LeaveLedger are such totals.
LEMMA SumOfDays ==
  ASSUME NEW S, IsFiniteSet(S), NEW w \in [S -> Int], \A r \in S : w[r] = Worth(request[r].days)
  PROVE  MapThenSumSet(LAMBDA r : Worth(request[r].days), S) = Total(w, S)
<1> DEFINE F(g) == g = [s \in SUBSET S |-> IF s = {} THEN 0
                                           ELSE Worth(request[OneOf(s)].days) + g[s \ {OneOf(s)}]]
           c == CHOOSE g : F(g)
<1>1. ASSUME NEW g PROVE F(g) <=> Totals(g, w, S)
  <2>1. \A s \in SUBSET S : s # {} => w[OneOf(s)] = Worth(request[OneOf(s)].days)
    BY OneOfIsIn
  <2> QED BY <2>1 DEF Totals
<1>2. PICK g : Totals(g, w, S) BY TotalsExist
<1>3. F(c)
  <2>1. F(g) BY <1>1, <1>2
  <2> HIDE DEF F
  <2> QED BY <2>1
<1>4. MapThenSumSet(LAMBDA r : Worth(request[r].days), S) = c[S]
  BY DEF MapThenSumSet, MapThenFoldSet, OneOf
<1> HIDE DEF F, c
<1> QED BY <1>1, <1>3, <1>4, TotalIs

LEMMA SumOfAsked ==
  ASSUME NEW S, IsFiniteSet(S), NEW w \in [S -> Int], \A h \in S : w[h] = Worth(call[h].days)
  PROVE  MapThenSumSet(LAMBDA h : Worth(call[h].days), S) = Total(w, S)
<1> DEFINE F(g) == g = [s \in SUBSET S |-> IF s = {} THEN 0
                                           ELSE Worth(call[OneOf(s)].days) + g[s \ {OneOf(s)}]]
           c == CHOOSE g : F(g)
<1>1. ASSUME NEW g PROVE F(g) <=> Totals(g, w, S)
  <2>1. \A s \in SUBSET S : s # {} => w[OneOf(s)] = Worth(call[OneOf(s)].days)
    BY OneOfIsIn
  <2> QED BY <2>1 DEF Totals
<1>2. PICK g : Totals(g, w, S) BY TotalsExist
<1>3. F(c)
  <2>1. F(g) BY <1>1, <1>2
  <2> HIDE DEF F
  <2> QED BY <2>1
<1>4. MapThenSumSet(LAMBDA h : Worth(call[h].days), S) = c[S]
  BY DEF MapThenSumSet, MapThenFoldSet, OneOf
<1> HIDE DEF F, c
<1> QED BY <1>1, <1>3, <1>4, TotalIs

LEMMA SumOfCharges ==
  ASSUME NEW S, IsFiniteSet(S), NEW w \in [S -> Int],
         \A r \in S : w[r] = Approvals(r) * Worth(request[r].days)
  PROVE  MapThenSumSet(LAMBDA r : Approvals(r) * Worth(request[r].days), S) = Total(w, S)
<1> DEFINE F(g) == g = [s \in SUBSET S |-> IF s = {} THEN 0
                        ELSE Approvals(OneOf(s)) * Worth(request[OneOf(s)].days) + g[s \ {OneOf(s)}]]
           c == CHOOSE g : F(g)
<1>1. ASSUME NEW g PROVE F(g) <=> Totals(g, w, S)
  <2>1. \A s \in SUBSET S : s # {} => w[OneOf(s)] = Approvals(OneOf(s)) * Worth(request[OneOf(s)].days)
    BY OneOfIsIn
  <2> QED BY <2>1 DEF Totals
<1>2. PICK g : Totals(g, w, S) BY TotalsExist
<1>3. F(c)
  <2>1. F(g) BY <1>1, <1>2
  <2> HIDE DEF F
  <2> QED BY <2>1
<1>4. MapThenSumSet(LAMBDA r : Approvals(r) * Worth(request[r].days), S) = c[S]
  BY DEF MapThenSumSet, MapThenFoldSet, OneOf
<1> HIDE DEF F, c
<1> QED BY <1>1, <1>3, <1>4, TotalIs

LEMMA NoneOfIt ==
  ASSUME NEW S, IsFiniteSet(S), NEW w \in [S -> Int], \A x \in S : w[x] = 0
  PROVE  Total(w, S) = 0
<1>1. PICK E : E = {}
  OBVIOUS
<1>2. PICK n : n = [x \in E |-> 0]
  OBVIOUS
<1>3. n \in [E -> Int] /\ E \subseteq S /\ (\A y \in S \ E : w[y] = 0) /\ \A y \in E : n[y] = w[y]
  BY <1>1, <1>2
<1>4. Total(n, E) = Total(w, S)
  BY <1>3, TotalOver
<1>5. Total(n, E) = 0
  <2>1. n \in [{} -> Int]
    BY <1>1, <1>3
  <2> QED BY <1>1, <2>1, TotalOfNone
<1> QED BY <1>4, <1>5

LEMMA TotalIsNat ==
  ASSUME NEW S, IsFiniteSet(S), NEW w \in [S -> Nat]
  PROVE  Total(w, S) \in Nat
<1>1. PICK z : z = [x \in S |-> 0]
  OBVIOUS
<1>2. z \in [S -> Int] /\ w \in [S -> Int] /\ (\A x \in S : z[x] = 0) /\ \A x \in S : z[x] <= w[x]
  BY <1>1
<1>3. Total(z, S) = 0
  BY <1>2, NoneOfIt
<1>4. Total(z, S) <= Total(w, S)
  BY <1>2, TotalGrows
<1>5. Total(w, S) \in Int
  BY <1>2, TotalInt
<1> QED BY <1>3, <1>4, <1>5

-----------------------------------------------------------------------------
(* What the requests account for.                                            *)

LeaveFinite == IsFiniteSet(Handlers) /\ IsFiniteSet(Requests)

DrawnOn(r, k) == request[r].status # "none" /\ request[r].key = k
\* Charged to a row by the approvals of a request, and by a call under way.
ChargeOf(r, k) == IF DrawnOn(r, k) THEN Approvals(r) * Worth(request[r].days) ELSE 0
DueOf(h, k) ==
  IF call[h].pc = "settle" /\ call[h].verdict = "approved" /\ request[call[h].req].key = k
  THEN Worth(request[call[h].req].days) ELSE 0
Charged(k) == Total([r \in Requests |-> ChargeOf(r, k)], Requests)
DueYet(k) == Total([h \in Handlers |-> DueOf(h, k)], Handlers)
\* An approval is charged once or is about to be.
ChargesBacked == \A k \in Keys : balance[k].used + DueYet(k) <= Charged(k)

\* A row not yet made is charged nothing.
Unopened == \A k \in Keys : ~balance[k].exists => balance[k].used = 0

\* Reserved on a row by a request, and by a call that has yet to write its own.
HeldOf(r, k) ==
  IF DrawnOn(r, k) /\ (request[r].status = "pending" \/ r \in Settling)
  THEN Worth(request[r].days) ELSE 0
AskedOf(h, k) ==
  IF call[h].pc = "createRequest" /\ call[h].key = k THEN Worth(call[h].days) ELSE 0
HeldDays(k) == Total([r \in Requests |-> HeldOf(r, k)], Requests)
AskedDays(k) == Total([h \in Handlers |-> AskedOf(h, k)], Handlers)
HoldsBacked ==
  \A k \in Keys : ~Undone(k, Verdicts) => balance[k].pending <= HeldDays(k) + AskedDays(k)

\* What the one call under way knows.
KnowsRow(c) ==
  /\ c.pc = "saveBalance" => balance[c.key].exists /\ c.pending = balance[c.key].pending + c.days
  /\ c.pc = "settle" => request[c.req].status # "pending"
RowsOpen == \A k \in Keys : ~balance[k].exists => balance[k].pending = 0
HoldInv == RowsOpen /\ HoldsBacked /\ \A h \in Handlers : KnowsRow(call[h])

LEMMA NatTimes == ASSUME NEW a \in Nat, NEW b \in Nat PROVE a * b \in Nat
OBVIOUS

LEMMA OneMoreTimes == ASSUME NEW a \in Nat, NEW b \in Nat PROVE (a + 1) * b = a * b + b
OBVIOUS

LEMMA ApprovalsAreCounted ==
  ASSUME NEW q \in Seq(Verdicts)
  PROVE  /\ IsFiniteSet({i \in DOMAIN q : q[i] = "approved"})
         /\ Cardinality({i \in DOMAIN q : q[i] = "approved"}) \in Nat
<1>1. DOMAIN q = 1..Len(q) /\ Len(q) \in Nat
  OBVIOUS
<1>2. IsFiniteSet(DOMAIN q)
  BY <1>1, FS_Interval
<1> QED BY <1>2, FS_Subset, FS_CardinalityType

LEMMA OneMoreApproval ==
  ASSUME NEW q \in Seq(Verdicts), NEW v \in Verdicts
  PROVE  Cardinality({i \in DOMAIN Append(q, v) : Append(q, v)[i] = "approved"}) =
           Cardinality({i \in DOMAIN q : q[i] = "approved"}) + (IF v = "approved" THEN 1 ELSE 0)
<1> DEFINE A == {i \in DOMAIN q : q[i] = "approved"}
           B == {i \in DOMAIN Append(q, v) : Append(q, v)[i] = "approved"}
           n == Len(q) + 1
<1>1. DOMAIN q = 1..Len(q) /\ Len(q) \in Nat /\ DOMAIN Append(q, v) = 1..n
  OBVIOUS
<1>2. Append(q, v)[n] = v /\ \A i \in 1..Len(q) : Append(q, v)[i] = q[i]
  OBVIOUS
<1>3. n \notin A /\ n \in 1..n /\ 1..n = (1..Len(q)) \cup {n}
  BY <1>1
<1>4. B = IF v = "approved" THEN A \cup {n} ELSE A
  BY <1>1, <1>2, <1>3
<1>5. IsFiniteSet(A)
  BY ApprovalsAreCounted
<1>6. Cardinality(A \cup {n}) = Cardinality(A) + 1 /\ Cardinality(A) \in Nat
  BY <1>3, <1>5, FS_AddElement, FS_CardinalityType
<1> HIDE DEF A, B, n
<1>7. Cardinality(B) = Cardinality(A) + (IF v = "approved" THEN 1 ELSE 0)
  BY <1>4, <1>6
<1> QED BY <1>7 DEF A, B

Weights ==
  /\ \A r \in Requests : Approvals(r) \in Nat
  /\ \A r \in Requests : request[r].status # "none" => request[r].days \in Int
  /\ \A r \in Requests, k \in Keys : ChargeOf(r, k) \in Nat /\ HeldOf(r, k) \in Nat
  /\ \A h \in Handlers, k \in Keys : DueOf(h, k) \in Nat /\ AskedOf(h, k) \in Nat

LEMMA WeightsAreDays == TypeOK => Weights
<1> SUFFICES ASSUME DataOK, DecisionsNameRequests PROVE Weights
  BY DEF TypeOK
<1>1. ASSUME NEW r \in Requests, request[r].status # "none"
      PROVE  request[r].days \in Int /\ request[r].chain \in Seq(Verdicts)
  BY <1>1, RequestShape, DaysAssumption DEF DataOK
<1>2. ASSUME NEW r \in Requests PROVE Approvals(r) \in Nat
  <2>1. CASE request[r].status = "none" BY <2>1 DEF Approvals
  <2>2. CASE request[r].status # "none" BY <1>1, <2>2, ApprovalsAreCounted DEF Approvals
  <2> QED BY <2>1, <2>2
<1>3. ASSUME NEW r \in Requests, NEW k \in Keys
      PROVE  ChargeOf(r, k) \in Nat /\ HeldOf(r, k) \in Nat
  <2>0. request[r].status # "none" => Worth(request[r].days) \in Nat
    BY <1>1, WorthOf
  <2>1. request[r].status # "none" => Approvals(r) * Worth(request[r].days) \in Nat
    BY <1>2, <2>0, NatTimes
  <2> QED BY <2>0, <2>1 DEF ChargeOf, HeldOf, DrawnOn
<1>4. ASSUME NEW h \in Handlers, NEW k \in Keys
      PROVE  DueOf(h, k) \in Nat /\ AskedOf(h, k) \in Nat
  <2>1. call[h].pc = "settle" => call[h].req \in Requests /\ request[call[h].req].status # "none"
    BY CallShape DEF DataOK, DecisionsNameRequests
  <2>2. call[h].pc = "createRequest" => Worth(call[h].days) \in Nat
    BY CallShape, DaysAssumption, WorthOf DEF DataOK
  <2>3. call[h].pc = "settle" => Worth(request[call[h].req].days) \in Nat
    BY <1>1, <2>1, WorthOf
  <2> QED BY <2>2, <2>3 DEF DueOf, AskedOf
<1> QED BY <1>1, <1>2, <1>3, <1>4 DEF Weights

LEMMA LeaveTotals ==
  ASSUME LeaveFinite, TypeOK, NEW k \in Keys
  PROVE  Charged(k) \in Nat /\ DueYet(k) \in Nat /\ HeldDays(k) \in Nat /\ AskedDays(k) \in Nat
<1>1. /\ [r \in Requests |-> ChargeOf(r, k)] \in [Requests -> Nat]
      /\ [r \in Requests |-> HeldOf(r, k)] \in [Requests -> Nat]
      /\ [h \in Handlers |-> DueOf(h, k)] \in [Handlers -> Nat]
      /\ [h \in Handlers |-> AskedOf(h, k)] \in [Handlers -> Nat]
  BY WeightsAreDays DEF Weights
<1> QED BY <1>1, TotalIsNat DEF LeaveFinite, Charged, DueYet, HeldDays, AskedDays

\* What the requests account for changes with the one request or call that
\* changes.
LEMMA ChargedAfter ==
  ASSUME LeaveFinite, Weights, Weights', NEW k \in Keys, NEW r \in Requests,
         \A q \in Requests \ {r} : ChargeOf(q, k)' = ChargeOf(q, k)
  PROVE  Charged(k)' = Charged(k) - ChargeOf(r, k) + ChargeOf(r, k)'
<1>1. PICK w : w = [q \in Requests |-> ChargeOf(q, k)] OBVIOUS
<1>2. PICK v : v = [q \in Requests |-> ChargeOf(q, k)'] OBVIOUS
<1>3. w \in [Requests -> Int] /\ v \in [Requests -> Int] BY <1>1, <1>2 DEF Weights
<1>4. \A y \in Requests \ {r} : v[y] = w[y] BY <1>1, <1>2
<1>5. Total(v, Requests) = Total(w, Requests) - w[r] + v[r]
  BY <1>3, <1>4, TotalChanges DEF LeaveFinite
<1> QED BY <1>1, <1>2, <1>5 DEF Charged

LEMMA HeldAfter ==
  ASSUME LeaveFinite, Weights, Weights', NEW k \in Keys, NEW r \in Requests,
         \A q \in Requests \ {r} : HeldOf(q, k)' = HeldOf(q, k)
  PROVE  HeldDays(k)' = HeldDays(k) - HeldOf(r, k) + HeldOf(r, k)'
<1>1. PICK w : w = [q \in Requests |-> HeldOf(q, k)] OBVIOUS
<1>2. PICK v : v = [q \in Requests |-> HeldOf(q, k)'] OBVIOUS
<1>3. w \in [Requests -> Int] /\ v \in [Requests -> Int] BY <1>1, <1>2 DEF Weights
<1>4. \A y \in Requests \ {r} : v[y] = w[y] BY <1>1, <1>2
<1>5. Total(v, Requests) = Total(w, Requests) - w[r] + v[r]
  BY <1>3, <1>4, TotalChanges DEF LeaveFinite
<1> QED BY <1>1, <1>2, <1>5 DEF HeldDays

LEMMA DueAfter ==
  ASSUME LeaveFinite, Weights, Weights', NEW k \in Keys, NEW h \in Handlers,
         \A g \in Handlers \ {h} : DueOf(g, k)' = DueOf(g, k)
  PROVE  DueYet(k)' = DueYet(k) - DueOf(h, k) + DueOf(h, k)'
<1>1. PICK w : w = [g \in Handlers |-> DueOf(g, k)] OBVIOUS
<1>2. PICK v : v = [g \in Handlers |-> DueOf(g, k)'] OBVIOUS
<1>3. w \in [Handlers -> Int] /\ v \in [Handlers -> Int] BY <1>1, <1>2 DEF Weights
<1>4. \A y \in Handlers \ {h} : v[y] = w[y] BY <1>1, <1>2
<1>5. Total(v, Handlers) = Total(w, Handlers) - w[h] + v[h]
  BY <1>3, <1>4, TotalChanges DEF LeaveFinite
<1> QED BY <1>1, <1>2, <1>5 DEF DueYet

LEMMA AskedAfter ==
  ASSUME LeaveFinite, Weights, Weights', NEW k \in Keys, NEW h \in Handlers,
         \A g \in Handlers \ {h} : AskedOf(g, k)' = AskedOf(g, k)
  PROVE  AskedDays(k)' = AskedDays(k) - AskedOf(h, k) + AskedOf(h, k)'
<1>1. PICK w : w = [g \in Handlers |-> AskedOf(g, k)] OBVIOUS
<1>2. PICK v : v = [g \in Handlers |-> AskedOf(g, k)'] OBVIOUS
<1>3. w \in [Handlers -> Int] /\ v \in [Handlers -> Int] BY <1>1, <1>2 DEF Weights
<1>4. \A y \in Handlers \ {h} : v[y] = w[y] BY <1>1, <1>2
<1>5. Total(v, Handlers) = Total(w, Handlers) - w[h] + v[h]
  BY <1>3, <1>4, TotalChanges DEF LeaveFinite
<1> QED BY <1>1, <1>2, <1>5 DEF AskedDays

\* A restart drops what was due.
LEMMA DueDropped ==
  ASSUME LeaveFinite, Weights, Weights', NEW k \in Keys,
         \A g \in Handlers : DueOf(g, k)' <= DueOf(g, k)
  PROVE  DueYet(k)' <= DueYet(k)
<1>1. PICK w : w = [g \in Handlers |-> DueOf(g, k)] OBVIOUS
<1>2. PICK v : v = [g \in Handlers |-> DueOf(g, k)'] OBVIOUS
<1>3. w \in [Handlers -> Int] /\ v \in [Handlers -> Int] BY <1>1, <1>2 DEF Weights
<1>4. \A y \in Handlers : v[y] <= w[y] BY <1>1, <1>2
<1>5. Total(v, Handlers) <= Total(w, Handlers)
  BY <1>3, <1>4, TotalGrows DEF LeaveFinite
<1> QED BY <1>1, <1>2, <1>5 DEF DueYet

\* A decision holds on to what was reserved.
LEMMA HeldOn ==
  ASSUME LeaveFinite, Weights, Weights', NEW k \in Keys,
         \A r \in Requests : HeldOf(r, k) <= HeldOf(r, k)'
  PROVE  HeldDays(k) <= HeldDays(k)'
<1>1. PICK w : w = [r \in Requests |-> HeldOf(r, k)] OBVIOUS
<1>2. PICK v : v = [r \in Requests |-> HeldOf(r, k)'] OBVIOUS
<1>3. w \in [Requests -> Int] /\ v \in [Requests -> Int] BY <1>1, <1>2 DEF Weights
<1>4. \A y \in Requests : w[y] <= v[y] BY <1>1, <1>2
<1>5. Total(w, Requests) <= Total(v, Requests)
  BY <1>3, <1>4, TotalGrows DEF LeaveFinite
<1> QED BY <1>1, <1>2, <1>5 DEF HeldDays

LEMMA ChargedOn ==
  ASSUME LeaveFinite, Weights, Weights', NEW k \in Keys,
         \A r \in Requests : ChargeOf(r, k) <= ChargeOf(r, k)'
  PROVE  Charged(k) <= Charged(k)'
<1>1. PICK w : w = [r \in Requests |-> ChargeOf(r, k)] OBVIOUS
<1>2. PICK v : v = [r \in Requests |-> ChargeOf(r, k)'] OBVIOUS
<1>3. w \in [Requests -> Int] /\ v \in [Requests -> Int] BY <1>1, <1>2 DEF Weights
<1>4. \A y \in Requests : w[y] <= v[y] BY <1>1, <1>2
<1>5. Total(w, Requests) <= Total(v, Requests)
  BY <1>3, <1>4, TotalGrows DEF LeaveFinite
<1> QED BY <1>1, <1>2, <1>5 DEF Charged

LEMMA RowNumbers ==
  ASSUME TypeOK, NEW k \in Keys
  PROVE  balance[k] \in Balance /\ balance[k].used \in Int /\ balance[k].pending \in Int
         /\ balance[k].exists \in BOOLEAN
BY DEF TypeOK, DataOK, Balance

Numbers ==
  \A k \in Keys :
    /\ Charged(k) \in Nat /\ DueYet(k) \in Nat /\ HeldDays(k) \in Nat /\ AskedDays(k) \in Nat
    /\ balance[k].used \in Int /\ balance[k].pending \in Int

LEMMA AllNumbers == ASSUME LeaveFinite PROVE TypeOK => Numbers
BY LeaveTotals, RowNumbers DEF Numbers

\* Nothing is charged, and no more is due.
LEMMA ChargesRest ==
  ASSUME LeaveFinite, TypeOK, TypeOK', ChargesBacked,
         \A k \in Keys : balance[k].used' <= balance[k].used,
         \A r \in Requests, k \in Keys : ChargeOf(r, k) <= ChargeOf(r, k)',
         \A h \in Handlers, k \in Keys : DueOf(h, k)' <= DueOf(h, k)
  PROVE  ChargesBacked'
<1>0. Weights /\ Weights'
  BY WeightsAreDays, PTL
<1> SUFFICES ASSUME NEW k \in Keys PROVE balance[k].used' + DueYet(k)' <= Charged(k)'
  BY DEF ChargesBacked
<1>1. Charged(k) <= Charged(k)' /\ DueYet(k)' <= DueYet(k)
  BY <1>0, ChargedOn, DueDropped
<1>2. Numbers /\ Numbers'
  BY AllNumbers, PTL
<1>3. /\ Charged(k) \in Nat /\ DueYet(k) \in Nat /\ balance[k].used \in Int
      /\ Charged(k)' \in Nat /\ DueYet(k)' \in Nat /\ balance[k].used' \in Int
  BY <1>2 DEF Numbers
<1>4. balance[k].used' <= balance[k].used /\ balance[k].used + DueYet(k) <= Charged(k)
  BY DEF ChargesBacked
<1> QED BY <1>1, <1>3, <1>4

LEMMA Goes ==
  ASSUME TypeOK, NEW h \in Handlers, NEW c, Goto(h, c)
  PROVE  call'[h] = c /\ \A g \in Handlers \ {h} : call'[g] = call[g]
BY DEF TypeOK, DataOK, Goto

\* A call that goes on to anything but settling draws on nothing more.
LEMMA NoneDue ==
  ASSUME LeaveFinite, TypeOK, TypeOK', ChargesBacked, request' = request,
         \A k \in Keys : balance[k].used' <= balance[k].used,
         \A g \in Handlers : call'[g] = call[g] \/ call'[g].pc # "settle"
  PROVE  ChargesBacked'
<1>1. ASSUME NEW r \in Requests, NEW k \in Keys PROVE ChargeOf(r, k) <= ChargeOf(r, k)'
  <2>1. ChargeOf(r, k)' = ChargeOf(r, k) BY DEF ChargeOf, DrawnOn, Approvals
  <2>2. ChargeOf(r, k) \in Nat BY WeightsAreDays DEF Weights
  <2> QED BY <2>1, <2>2
<1>2. ASSUME NEW g \in Handlers, NEW k \in Keys PROVE DueOf(g, k)' <= DueOf(g, k)
  <2>1. DueOf(g, k) \in Nat BY WeightsAreDays DEF Weights
  <2>2. CASE call'[g] = call[g]
    <3>1. DueOf(g, k)' = DueOf(g, k) BY <2>2 DEF DueOf
    <3> QED BY <2>1, <3>1
  <2>3. CASE call'[g].pc # "settle"
    <3>1. DueOf(g, k)' = 0 BY <2>3 DEF DueOf
    <3> QED BY <2>1, <3>1
  <2> QED BY <2>2, <2>3
<1> QED BY <1>1, <1>2, ChargesRest

\* A new request has no approvals and is not yet named by a call.
LEMMA CreateCharges ==
  ASSUME LeaveFinite, TypeOK, TypeOK', ChargesBacked, NEW h \in Handlers, CreateRequest(h)
  PROVE  ChargesBacked'
<1>1. PICK r \in Requests :
        /\ request[r].status = "none"
        /\ request' = [request EXCEPT ![r] = [status |-> "pending", key |-> call[h].key,
                                              days |-> call[h].days, chain |-> <<>>]]
  BY DEF CreateRequest
<1>2. \A q \in Requests \ {r} : request'[q] = request[q]
  BY <1>1 DEF TypeOK, DataOK
<1>3. call'[h] = IdleCall /\ \A g \in Handlers \ {h} : call'[g] = call[g]
  BY Goes DEF CreateRequest
<1>4. ASSUME NEW q \in Requests, NEW k \in Keys PROVE ChargeOf(q, k) <= ChargeOf(q, k)'
  <2>0. ChargeOf(q, k) \in Nat /\ ChargeOf(q, k)' \in Nat
    <3>1. Weights' BY WeightsAreDays, PTL
    <3> QED BY <3>1, WeightsAreDays DEF Weights
  <2>1. CASE q = r
    <3>1. ChargeOf(q, k) = 0 BY <1>1, <2>1 DEF ChargeOf, DrawnOn
    <3> QED BY <2>0, <3>1
  <2>2. CASE q # r
    <3>1. ChargeOf(q, k)' = ChargeOf(q, k) BY <1>2, <2>2 DEF ChargeOf, DrawnOn, Approvals
    <3> QED BY <2>0, <3>1
  <2> QED BY <2>1, <2>2
<1>5. ASSUME NEW g \in Handlers, NEW k \in Keys PROVE DueOf(g, k)' <= DueOf(g, k)
  <2>0. DueOf(g, k) \in Nat BY WeightsAreDays DEF Weights
  <2>1. CASE g = h
    <3>1. DueOf(g, k)' = 0 BY <1>3, <2>1 DEF DueOf, IdleCall
    <3> QED BY <2>0, <3>1
  <2>2. CASE g # h
    <3>1. call[g].pc = "settle" => call[g].req \in Requests \ {r}
      BY <1>1, CallShape DEF TypeOK, DataOK, DecisionsNameRequests
    <3>2. DueOf(g, k)' = DueOf(g, k) BY <1>2, <1>3, <2>2, <3>1 DEF DueOf
    <3> QED BY <2>0, <3>2
  <2> QED BY <2>1, <2>2
<1>6. \A k \in Keys : balance[k].used' <= balance[k].used
  BY RowNumbers DEF CreateRequest
<1> QED BY <1>4, <1>5, <1>6, ChargesRest

\* An approval is recorded: what it charges is due with the call that goes on
\* to settle it.
LEMMA DecisionCharges ==
  ASSUME LeaveFinite, TypeOK, TypeOK', ChargesBacked, NEW h \in Handlers, SaveDecision(h)
  PROVE  ChargesBacked'
<1>0. Weights /\ Weights' /\ Numbers /\ Numbers'
  BY WeightsAreDays, AllNumbers, PTL
<1>1. PICK r \in Requests, v \in Verdicts :
        r = call[h].req /\ v = call[h].verdict /\ request[r].status # "none"
  BY CallShape DEF SaveDecision, TypeOK, DataOK, DecisionsNameRequests
<1>2. /\ request'[r] = [request[r] EXCEPT !.status = v, !.chain = Append(@, v)]
      /\ \A q \in Requests \ {r} : request'[q] = request[q]
  BY <1>1 DEF SaveDecision, TypeOK, DataOK
<1>3. /\ call'[h] = [pc |-> "settle", req |-> r, verdict |-> v]
      /\ \A g \in Handlers \ {h} : call'[g] = call[g]
  BY <1>1, Goes DEF SaveDecision
<1>4. /\ request'[r].status = v /\ request'[r].key = request[r].key
      /\ request'[r].days = request[r].days
      /\ request'[r].chain = Append(request[r].chain, v)
      /\ request[r].chain \in Seq(Verdicts) /\ v # "none"
  <2>1. request[r] \in [status: {"pending"} \cup Verdicts, key: Keys, days: Days,
                        chain: Seq(Verdicts)]
    BY <1>1 DEF TypeOK, DataOK, Request, NoRequest
  <2> QED BY <1>1, <1>2, <2>1 DEF Verdicts
<1>5. Approvals(r)' = Approvals(r) + (IF v = "approved" THEN 1 ELSE 0)
  BY <1>1, <1>4, OneMoreApproval, ZenonT(60) DEF Approvals
<1> SUFFICES ASSUME NEW k \in Keys PROVE balance[k].used' + DueYet(k)' <= Charged(k)'
  BY DEF ChargesBacked
<1>a. PICK n \in Nat : n = Worth(request[r].days)
  BY <1>0, <1>1, WorthOf DEF Weights
<1> DEFINE d == IF v = "approved" /\ request[r].key = k THEN n ELSE 0
<1>6. ChargeOf(r, k)' = ChargeOf(r, k) + d
  <2>1. Approvals(r) \in Nat
    BY <1>0 DEF Weights
  <2>2. (Approvals(r) + 1) * n = Approvals(r) * n + n /\ Approvals(r) * n \in Nat
    BY <2>1, OneMoreTimes, NatTimes
  <2>3. CASE v = "approved"
    <3>1. Approvals(r)' * n = Approvals(r) * n + n
      BY <1>5, <2>2, <2>3
    <3> QED BY <1>1, <1>4, <1>a, <2>1, <2>2, <2>3, <3>1 DEF ChargeOf, DrawnOn
  <2>4. CASE v # "approved"
    <3>1. Approvals(r)' = Approvals(r) BY <1>5, <2>1, <2>4
    <3> QED BY <1>1, <1>4, <1>a, <2>1, <2>2, <2>4, <3>1 DEF ChargeOf, DrawnOn
  <2> QED BY <2>3, <2>4
<1>7. Charged(k)' = Charged(k) - ChargeOf(r, k) + ChargeOf(r, k)'
  <2>1. \A q \in Requests \ {r} : ChargeOf(q, k)' = ChargeOf(q, k)
    BY <1>2 DEF ChargeOf, DrawnOn, Approvals
  <2> QED BY <1>0, <1>1, <2>1, ChargedAfter
<1>8. DueOf(h, k) = 0 /\ DueOf(h, k)' = d
  <2>1. DueOf(h, k) = 0
    BY <1>3 DEF DueOf, SaveDecision
  <2>2. call'[h].pc = "settle" /\ call'[h].req = r /\ call'[h].verdict = v
    BY <1>3
  <2>3. request'[r].key = request[r].key /\ Worth(request'[r].days) = n
    BY <1>1, <1>4, <1>a
  <2> QED BY <2>1, <2>2, <2>3 DEF DueOf
<1>9. DueYet(k)' = DueYet(k) - DueOf(h, k) + DueOf(h, k)'
  <2>1. ASSUME NEW g \in Handlers \ {h} PROVE DueOf(g, k)' = DueOf(g, k)
    <3>1. call[g].pc = "settle" =>
            /\ request'[call[g].req].key = request[call[g].req].key
            /\ request'[call[g].req].days = request[call[g].req].days
      <4>1. call[g].pc = "settle" => call[g].req \in Requests
        BY CallShape DEF TypeOK, DataOK
      <4> QED BY <1>2, <1>4, <4>1
    <3> QED BY <1>3, <3>1 DEF DueOf
  <2> QED BY <1>0, <2>1, DueAfter
<1>10. balance[k].used' = balance[k].used
  BY DEF SaveDecision
<1>11. /\ Charged(k) \in Nat /\ DueYet(k) \in Nat /\ balance[k].used \in Int /\ d \in Nat
       /\ ChargeOf(r, k) \in Nat
  BY <1>0, <1>1, <1>4 DEF Numbers, Weights
<1>12. balance[k].used + DueYet(k) <= Charged(k)
  BY DEF ChargesBacked
<1> HIDE DEF d
<1> QED BY <1>6, <1>7, <1>8, <1>9, <1>10, <1>11, <1>12

\* The $inc: what was due is now on the row, or on no row.
LEMMA SettleCharges ==
  ASSUME LeaveFinite, TypeOK, TypeOK', ChargesBacked, NEW h \in Handlers, Settle(h)
  PROVE  ChargesBacked'
<1>0. Weights /\ Weights' /\ Numbers /\ Numbers'
  BY WeightsAreDays, AllNumbers, PTL
<1>1. PICK r \in Requests : r = call[h].req /\ request[r].status # "none"
  BY CallShape DEF Settle, TypeOK, DataOK, DecisionsNameRequests
<1>2. /\ request[r].key \in Keys /\ request[r].days \in Int
      /\ Worth(request[r].days) \in Nat /\ request[r].days <= Worth(request[r].days)
  BY <1>1, RequestShape, DaysAssumption, WorthOf DEF TypeOK, DataOK
<1>3. call'[h] = IdleCall /\ (\A g \in Handlers \ {h} : call'[g] = call[g]) /\ request' = request
  BY Goes DEF Settle
<1> SUFFICES ASSUME NEW k \in Keys PROVE balance[k].used' + DueYet(k)' <= Charged(k)'
  BY DEF ChargesBacked
<1>4. DueOf(h, k)' = 0
  BY <1>3 DEF DueOf, IdleCall
<1>5. balance[k].used' <= balance[k].used + DueOf(h, k)
  <2>1. balance[k] \in Balance /\ balance \in [Keys -> Balance]
    BY DEF TypeOK, DataOK
  <2>2. CASE balance[request[r].key].exists /\ k = request[r].key
    <3>1. balance'[k].used = IF call[h].verdict = "approved" THEN balance[k].used + request[r].days
                                                             ELSE balance[k].used
      BY <1>1, <1>2, <2>1, <2>2 DEF Settle, Balance
    <3>2. DueOf(h, k) = IF call[h].verdict = "approved" THEN Worth(request[r].days) ELSE 0
      BY <1>1, <2>2 DEF DueOf, Settle
    <3> QED BY <1>2, <2>1, <3>1, <3>2 DEF Balance
  <2>3. CASE ~(balance[request[r].key].exists /\ k = request[r].key)
    <3>1. balance'[k] = balance[k]
      BY <1>1, <1>2, <2>1, <2>3 DEF Settle
    <3> QED BY <1>0, <2>1, <3>1 DEF Balance, Weights
  <2> QED BY <2>2, <2>3
<1>6. DueYet(k)' = DueYet(k) - DueOf(h, k) + DueOf(h, k)'
  <2>1. \A g \in Handlers \ {h} : DueOf(g, k)' = DueOf(g, k)
    BY <1>3 DEF DueOf
  <2> QED BY <1>0, <2>1, DueAfter
<1>7. Charged(k)' = Charged(k)
  <2>1. \A q \in Requests : ChargeOf(q, k)' = ChargeOf(q, k)
    BY <1>3 DEF ChargeOf, DrawnOn, Approvals
  <2>2. Charged(k)' = Charged(k) - ChargeOf(r, k) + ChargeOf(r, k)'
    BY <1>0, <1>1, <2>1, ChargedAfter
  <2>3. ChargeOf(r, k) \in Nat /\ Charged(k) \in Nat
    BY <1>0, <1>1 DEF Weights, Numbers
  <2> QED BY <1>1, <2>1, <2>2, <2>3
<1>8. /\ Charged(k) \in Nat /\ DueYet(k) \in Nat /\ balance[k].used \in Int
      /\ balance[k].used' \in Int /\ DueOf(h, k) \in Nat
      /\ balance[k].used + DueYet(k) <= Charged(k)
  BY <1>0 DEF Numbers, Weights, ChargesBacked
<1> QED BY <1>4, <1>5, <1>6, <1>7, <1>8

LEMMA StepUnopened == TypeOK /\ Unopened /\ [Next]_vars => Unopened'
<1> SUFFICES ASSUME TypeOK, Unopened, [Next]_vars PROVE Unopened'
  OBVIOUS
<1>1. ASSUME balance' = balance PROVE Unopened'
  BY <1>1 DEF Unopened
<1>2. ASSUME NEW h \in Handlers, NEW k \in Keys, NEW a \in Allocations, InitializeBalance(h, k, a)
      PROVE  Unopened'
  <2>1. balance'[k].exists /\ \A j \in Keys \ {k} : balance'[j] = balance[j]
    BY <1>2 DEF InitializeBalance, TypeOK, DataOK
  <2> QED BY <2>1 DEF Unopened
<1>3. ASSUME NEW h \in Handlers, SaveBalance(h) PROVE Unopened'
  <2>1. \A j \in Keys : balance'[j].used = balance[j].used /\ balance'[j].exists = balance[j].exists
    BY <1>3 DEF SaveBalance, TypeOK, DataOK, Balance
  <2> QED BY <2>1 DEF Unopened
<1>4. ASSUME NEW h \in Handlers, Settle(h) PROVE Unopened'
  <2>1. ASSUME NEW j \in Keys
        PROVE  balance'[j].exists = balance[j].exists /\ (~balance[j].exists => balance'[j] = balance[j])
    BY <1>4 DEF Settle, TypeOK, DataOK, Balance
  <2> QED BY <2>1 DEF Unopened
<1> QED BY <1>1, <1>2, <1>3, <1>4
  DEF Next, Step, vars, ApplyAgainstBalance, ApplyWithoutBalance, ReadForDecision, CreateRequest,
      SaveDecision, Crash

LEMMA ChargesStep ==
  ASSUME LeaveFinite, TypeOK, TypeOK', Unopened, ChargesBacked, [Next]_vars
  PROVE  ChargesBacked'
<1>0. \A k \in Keys : balance[k].used \in Int
  BY RowNumbers
<1>1. ASSUME NEW h \in Handlers, NEW k \in Keys, NEW a \in Allocations,
             InitializeBalance(h, k, a)
      PROVE  ChargesBacked'
  <2>1. balance'[k].used = 0 /\ balance[k].used = 0
        /\ \A j \in Keys \ {k} : balance'[j] = balance[j]
    BY <1>1 DEF InitializeBalance, TypeOK, DataOK, Unopened
  <2>2. \A j \in Keys : balance[j].used' <= balance[j].used
    BY <1>0, <2>1
  <2> QED BY <1>1, <2>2, NoneDue DEF InitializeBalance
<1>2. ASSUME NEW h \in Handlers, NEW c, Goto(h, c), c.pc # "settle",
             UNCHANGED <<balance, request>>
      PROVE  ChargesBacked'
  <2>1. \A j \in Keys : balance[j].used' <= balance[j].used
    BY <1>0, <1>2
  <2>2. \A g \in Handlers : call'[g] = call[g] \/ call'[g].pc # "settle"
    BY <1>2, Goes
  <2> QED BY <1>2, <2>1, <2>2, NoneDue
<1>3. ASSUME NEW h \in Handlers, NEW k \in Keys, NEW d \in Days,
             ApplyAgainstBalance(h, k, d) \/ ApplyWithoutBalance(h, k, d)
      PROVE  ChargesBacked'
  BY <1>2, <1>3 DEF ApplyAgainstBalance, ApplyWithoutBalance
<1>4. ASSUME NEW h \in Handlers, NEW r \in Requests, NEW v \in Verdicts, ReadForDecision(h, r, v)
      PROVE  ChargesBacked'
  BY <1>2, <1>4 DEF ReadForDecision
<1>5. ASSUME NEW h \in Handlers, SaveBalance(h) PROVE ChargesBacked'
  <2>1. \A j \in Keys : balance[j].used' <= balance[j].used
    BY <1>0, <1>5 DEF SaveBalance, TypeOK, DataOK, Balance
  <2>2. \A g \in Handlers : call'[g] = call[g] \/ call'[g].pc # "settle"
    BY <1>5, Goes DEF SaveBalance
  <2> QED BY <1>5, <2>1, <2>2, NoneDue DEF SaveBalance
<1>6. CASE Crash
  <2>1. \A j \in Keys : balance[j].used' <= balance[j].used
    BY <1>0, <1>6 DEF Crash
  <2>2. \A g \in Handlers : call'[g] = call[g] \/ call'[g].pc # "settle"
    BY <1>6 DEF Crash, IdleCall
  <2> QED BY <1>6, <2>1, <2>2, NoneDue DEF Crash
<1>7. CASE UNCHANGED vars
  <2>1. \A j \in Keys : balance[j].used' <= balance[j].used
    BY <1>0, <1>7 DEF vars
  <2> QED BY <1>7, <2>1, NoneDue DEF vars
<1> QED
  BY <1>1, <1>3, <1>4, <1>5, <1>6, <1>7, CreateCharges, DecisionCharges, SettleCharges
  DEF Next, Step

LEMMA AskedOn ==
  ASSUME LeaveFinite, Weights, Weights', NEW k \in Keys,
         \A g \in Handlers : AskedOf(g, k) <= AskedOf(g, k)'
  PROVE  AskedDays(k) <= AskedDays(k)'
<1>1. PICK w : w = [g \in Handlers |-> AskedOf(g, k)] OBVIOUS
<1>2. PICK v : v = [g \in Handlers |-> AskedOf(g, k)'] OBVIOUS
<1>3. w \in [Handlers -> Int] /\ v \in [Handlers -> Int] BY <1>1, <1>2 DEF Weights
<1>4. \A y \in Handlers : w[y] <= v[y] BY <1>1, <1>2
<1>5. Total(w, Handlers) <= Total(v, Handlers)
  BY <1>3, <1>4, TotalGrows DEF LeaveFinite
<1> QED BY <1>1, <1>2, <1>5 DEF AskedDays

\* No row reserves more, and the requests and calls account for no less.
LEMMA HoldsRest ==
  ASSUME LeaveFinite, TypeOK, TypeOK', StaysUndone, HoldsBacked,
         \A k \in Keys : balance[k].pending' <= balance[k].pending \/ balance[k].pending' <= 0,
         \A r \in Requests, k \in Keys : HeldOf(r, k) <= HeldOf(r, k)',
         \A h \in Handlers, k \in Keys : AskedOf(h, k) <= AskedOf(h, k)'
  PROVE  HoldsBacked'
<1>0. Weights /\ Weights' /\ Numbers /\ Numbers'
  BY WeightsAreDays, AllNumbers, PTL
<1> SUFFICES ASSUME NEW k \in Keys, ~Undone(k, Verdicts)'
             PROVE  balance[k].pending' <= HeldDays(k)' + AskedDays(k)'
  BY DEF HoldsBacked
<1>a. ~Undone(k, Verdicts)
  BY DEF StaysUndone
<1>1. HeldDays(k) <= HeldDays(k)' /\ AskedDays(k) <= AskedDays(k)'
  BY <1>0, HeldOn, AskedOn
<1>2. /\ HeldDays(k) \in Nat /\ AskedDays(k) \in Nat /\ HeldDays(k)' \in Nat /\ AskedDays(k)' \in Nat
      /\ balance[k].pending \in Int /\ balance[k].pending' \in Int
      /\ balance[k].pending <= HeldDays(k) + AskedDays(k)
  BY <1>0, <1>a DEF Numbers, HoldsBacked
<1> QED BY <1>1, <1>2

\* One call under way: h's.
Lone(h) == \A g \in Handlers \ {h} : Off(g)

LEMMA LoneCall ==
  ASSUME NEW h \in Handlers, Lone(h)
  PROVE  /\ \A r : r \in Settling <=> call[h].pc = "settle" /\ r = call[h].req
         /\ \A g \in Handlers \ {h}, k \in Keys : AskedOf(g, k) = 0
BY DEF Lone, Off, Settling, AskedOf

LEMMA StaysLone ==
  ASSUME TypeOK, Serial, NEW h \in Handlers, NEW c, Goto(h, c), ~Off(h)
  PROVE  /\ Lone(h) /\ Lone(h)' /\ call'[h] = c
         /\ \A r : r \in Settling' <=> c.pc = "settle" /\ r = c.req
         /\ \A g \in Handlers \ {h}, k \in Keys : AskedOf(g, k) = 0 /\ AskedOf(g, k)' = 0
<1>1. call'[h] = c /\ \A g \in Handlers \ {h} : call'[g] = call[g]
  BY Goes
<1>2. Lone(h)
  BY DEF Lone, Serial
<1>3. Lone(h)'
  BY <1>1, <1>2 DEF Lone, Off
<1>4. \A r : r \in Settling' <=> call'[h].pc = "settle" /\ r = call'[h].req
  BY <1>3 DEF Lone, Off, Settling
<1>5. \A g \in Handlers \ {h}, k \in Keys : AskedOf(g, k)' = 0
  BY <1>3 DEF Lone, Off, AskedOf
<1> QED BY <1>1, <1>2, <1>3, <1>4, <1>5, LoneCall

LEMMA LoneKnows ==
  ASSUME NEW h \in Handlers, Lone(h)
  PROVE  (\A g \in Handlers : KnowsRow(call[g])) <=> KnowsRow(call[h])
BY DEF Lone, Off, KnowsRow

LEMMA RowOpens ==
  ASSUME LeaveFinite, TypeOK, TypeOK', Serial, StaysUndone, HoldInv,
         NEW h \in Handlers, NEW k \in Keys, NEW a \in Allocations, InitializeBalance(h, k, a)
  PROVE  HoldInv'
<1>0. Weights /\ Weights' /\ Numbers
  BY WeightsAreDays, AllNumbers, PTL
<1>1. call' = call /\ request' = request
  BY DEF InitializeBalance
<1>2. /\ balance'[k].pending = 0 /\ balance'[k].exists
      /\ \A j \in Keys \ {k} : balance'[j] = balance[j]
  BY DEF InitializeBalance, TypeOK, DataOK
<1>3. \A j \in Keys : balance[j].pending' <= balance[j].pending \/ balance[j].pending' <= 0
  BY <1>0, <1>2 DEF Numbers
<1>4. \A r \in Requests, j \in Keys : HeldOf(r, j) <= HeldOf(r, j)'
  <2>1. \A r \in Requests, j \in Keys : HeldOf(r, j)' = HeldOf(r, j)
    BY <1>1 DEF HeldOf, DrawnOn, Settling
  <2> QED BY <1>0, <2>1 DEF Weights
<1>5. \A g \in Handlers, j \in Keys : AskedOf(g, j) <= AskedOf(g, j)'
  <2>1. \A g \in Handlers, j \in Keys : AskedOf(g, j)' = AskedOf(g, j)
    BY <1>1 DEF AskedOf
  <2> QED BY <1>0, <2>1 DEF Weights
<1>6. HoldsBacked'
  BY <1>3, <1>4, <1>5, HoldsRest DEF HoldInv
<1>7. RowsOpen'
  BY <1>2 DEF HoldInv, RowsOpen
<1>8. \A g \in Handlers : KnowsRow(call[g])'
  <2>1. \A g \in Handlers : call[g].pc \in {"idle", "off"}
    BY DEF InitializeBalance, Idle, Serial, Off
  <2> QED BY <1>1, <2>1 DEF KnowsRow
<1> QED BY <1>6, <1>7, <1>8 DEF HoldInv

\* applyLeave up to its first write, and the reads of a decision.
LEMMA ReadsHold ==
  ASSUME LeaveFinite, TypeOK, TypeOK', Serial, StaysUndone, HoldInv, NEW h \in Handlers, NEW c,
         Idle(h), Goto(h, c), c.pc # "settle", KnowsRow(c), UNCHANGED <<balance, request>>
  PROVE  HoldInv'
<1>0. Weights /\ Weights' /\ Numbers
  BY WeightsAreDays, AllNumbers, PTL
<1>1. ~Off(h) BY DEF Idle, Off
<1>2. /\ Lone(h) /\ Lone(h)' /\ call'[h] = c /\ Settling = {} /\ Settling' = {}
      /\ \A g \in Handlers \ {h}, k \in Keys : AskedOf(g, k) = 0 /\ AskedOf(g, k)' = 0
  BY <1>1, StaysLone, LoneCall DEF Idle
<1>3. \A k \in Keys : balance[k].pending' <= balance[k].pending \/ balance[k].pending' <= 0
  BY <1>0 DEF Numbers
<1>4. \A r \in Requests, k \in Keys : HeldOf(r, k) <= HeldOf(r, k)'
  <2>1. \A r \in Requests, k \in Keys : HeldOf(r, k)' = HeldOf(r, k)
    BY <1>2 DEF HeldOf, DrawnOn
  <2> QED BY <1>0, <2>1 DEF Weights
<1>5. \A g \in Handlers, k \in Keys : AskedOf(g, k) <= AskedOf(g, k)'
  <2>1. \A g \in Handlers, k \in Keys : AskedOf(g, k) = 0
    BY <1>2 DEF AskedOf, Idle
  <2> QED BY <1>0, <2>1 DEF Weights
<1>6. HoldsBacked'
  BY <1>3, <1>4, <1>5, HoldsRest DEF HoldInv
<1>7. RowsOpen'
  BY DEF HoldInv, RowsOpen
<1>8. KnowsRow(call[h])'
  BY <1>2 DEF KnowsRow
<1>9. \A g \in Handlers : KnowsRow(call[g])'
  BY <1>2, <1>8 DEF Lone, Off, KnowsRow
<1> QED BY <1>6, <1>7, <1>9 DEF HoldInv

LEMMA SaveHolds ==
  ASSUME LeaveFinite, TypeOK, TypeOK', Serial, StaysUndone, HoldInv, NEW h \in Handlers, SaveBalance(h)
  PROVE  HoldInv'
<1>0. Weights /\ Weights' /\ Numbers /\ Numbers'
  BY WeightsAreDays, AllNumbers, PTL
<1>1. PICK k \in Keys, d \in Days : k = call[h].key /\ d = call[h].days
  BY CallShape DEF SaveBalance, TypeOK, DataOK
<1>2. /\ balance[k].exists /\ call[h].pending = balance[k].pending + d
      /\ balance'[k].pending = call[h].pending /\ balance'[k].exists
      /\ \A j \in Keys \ {k} : balance'[j] = balance[j]
  <2>1. balance \in [Keys -> Balance] /\ KnowsRow(call[h])
    BY DEF HoldInv, TypeOK, DataOK
  <2> QED BY <1>1, <2>1 DEF SaveBalance, KnowsRow, Balance
<1> DEFINE c == [pc |-> "createRequest", key |-> k, days |-> d]
<1>3. ~Off(h) /\ Goto(h, c) /\ request' = request
  BY <1>1 DEF SaveBalance, Off
<1>4. /\ Lone(h) /\ Lone(h)' /\ call'[h] = c /\ Settling = {} /\ Settling' = {}
      /\ \A g \in Handlers \ {h}, j \in Keys : AskedOf(g, j) = 0 /\ AskedOf(g, j)' = 0
  BY <1>3, StaysLone, LoneCall DEF SaveBalance
<1>5. ASSUME NEW j \in Keys, ~Undone(j, Verdicts)'
      PROVE  balance[j].pending' <= HeldDays(j)' + AskedDays(j)'
  <2>1. HeldDays(j) <= HeldDays(j)'
    <3>1. \A r \in Requests : HeldOf(r, j)' = HeldOf(r, j)
      BY <1>3, <1>4 DEF HeldOf, DrawnOn
    <3>2. \A r \in Requests : HeldOf(r, j) <= HeldOf(r, j)'
      BY <1>0, <3>1 DEF Weights
    <3> QED BY <1>0, <3>2, HeldOn
  <2>2. AskedDays(j)' = AskedDays(j) - AskedOf(h, j) + AskedOf(h, j)'
    BY <1>0, <1>4, AskedAfter
  <2>3. AskedOf(h, j) = 0 /\ AskedOf(h, j)' = IF j = k THEN Worth(d) ELSE 0
    BY <1>4 DEF AskedOf, SaveBalance
  <2>4. /\ HeldDays(j) \in Nat /\ AskedDays(j) \in Nat /\ HeldDays(j)' \in Nat /\ AskedDays(j)' \in Nat
        /\ balance[j].pending \in Int /\ balance[j].pending <= HeldDays(j) + AskedDays(j)
    <3>1. ~Undone(j, Verdicts)
      BY <1>5 DEF StaysUndone
    <3> QED BY <1>0, <3>1 DEF Numbers, HoldInv, HoldsBacked
  <2>5. d \in Int /\ Worth(d) \in Nat /\ d <= Worth(d)
    BY DaysAssumption, WorthOf
  <2> HIDE DEF c
  <2> QED BY <1>2, <2>1, <2>2, <2>3, <2>4, <2>5
<1>6. RowsOpen'
  BY <1>2 DEF HoldInv, RowsOpen
<1>7. \A g \in Handlers : KnowsRow(call[g])'
  BY <1>4 DEF Lone, Off, KnowsRow
<1> QED BY <1>5, <1>6, <1>7 DEF HoldInv, HoldsBacked

LEMMA CreateHolds ==
  ASSUME LeaveFinite, TypeOK, TypeOK', Serial, StaysUndone, HoldInv, NEW h \in Handlers, CreateRequest(h)
  PROVE  HoldInv'
<1>0. Weights /\ Weights' /\ Numbers /\ Numbers'
  BY WeightsAreDays, AllNumbers, PTL
<1>1. PICK k \in Keys, d \in Days : k = call[h].key /\ d = call[h].days
  BY CallShape DEF CreateRequest, TypeOK, DataOK
<1>2. PICK r \in Requests :
        /\ request[r].status = "none"
        /\ request' = [request EXCEPT ![r] = [status |-> "pending", key |-> k,
                                              days |-> d, chain |-> <<>>]]
  BY <1>1 DEF CreateRequest
<1>3. /\ request'[r].status = "pending" /\ request'[r].key = k /\ request'[r].days = d
      /\ \A q \in Requests \ {r} : request'[q] = request[q]
  BY <1>2 DEF TypeOK, DataOK
<1>4. ~Off(h) /\ Goto(h, IdleCall) /\ balance' = balance
  BY DEF CreateRequest, Off
<1>5. /\ Lone(h) /\ Lone(h)' /\ call'[h] = IdleCall /\ Settling = {} /\ Settling' = {}
      /\ \A g \in Handlers \ {h}, j \in Keys : AskedOf(g, j) = 0 /\ AskedOf(g, j)' = 0
  BY <1>4, StaysLone, LoneCall DEF CreateRequest, IdleCall
<1>6. ASSUME NEW j \in Keys, ~Undone(j, Verdicts)'
      PROVE  balance[j].pending' <= HeldDays(j)' + AskedDays(j)'
  <2>1. HeldDays(j)' = HeldDays(j) - HeldOf(r, j) + HeldOf(r, j)'
    <3>1. \A q \in Requests \ {r} : HeldOf(q, j)' = HeldOf(q, j)
      BY <1>3, <1>5 DEF HeldOf, DrawnOn
    <3> QED BY <1>0, <3>1, HeldAfter
  <2>2. HeldOf(r, j) = 0 /\ HeldOf(r, j)' = IF j = k THEN Worth(d) ELSE 0
    BY <1>2, <1>3 DEF HeldOf, DrawnOn
  <2>3. AskedDays(j)' = AskedDays(j) - AskedOf(h, j) + AskedOf(h, j)'
    BY <1>0, <1>5, AskedAfter
  <2>4. AskedOf(h, j)' = 0 /\ AskedOf(h, j) = IF j = k THEN Worth(d) ELSE 0
    BY <1>1, <1>5 DEF AskedOf, CreateRequest, IdleCall
  <2>5. /\ HeldDays(j) \in Nat /\ AskedDays(j) \in Nat /\ Worth(d) \in Nat
        /\ balance[j].pending \in Int /\ balance[j].pending <= HeldDays(j) + AskedDays(j)
    <3>1. ~Undone(j, Verdicts)
      BY <1>6 DEF StaysUndone
    <3> QED BY <1>0, <3>1, DaysAssumption, WorthOf DEF Numbers, HoldInv, HoldsBacked
  <2> QED BY <1>4, <2>1, <2>2, <2>3, <2>4, <2>5
<1>7. RowsOpen'
  BY <1>4 DEF HoldInv, RowsOpen
<1>8. \A g \in Handlers : KnowsRow(call[g])'
  BY <1>5 DEF Lone, Off, KnowsRow, IdleCall
<1> QED BY <1>6, <1>7, <1>8 DEF HoldInv, HoldsBacked

LEMMA DecisionHolds ==
  ASSUME LeaveFinite, TypeOK, TypeOK', Serial, StaysUndone, HoldInv, NEW h \in Handlers, SaveDecision(h)
  PROVE  HoldInv'
<1>0. Weights /\ Weights' /\ Numbers
  BY WeightsAreDays, AllNumbers, PTL
<1>1. PICK r \in Requests, v \in Verdicts :
        r = call[h].req /\ v = call[h].verdict /\ request[r].status # "none"
  BY CallShape DEF SaveDecision, TypeOK, DataOK, DecisionsNameRequests
<1>2. /\ request'[r] = [request[r] EXCEPT !.status = v, !.chain = Append(@, v)]
      /\ \A q \in Requests \ {r} : request'[q] = request[q]
  BY <1>1 DEF SaveDecision, TypeOK, DataOK
<1>3. /\ request'[r].status = v /\ request'[r].key = request[r].key
      /\ request'[r].days = request[r].days /\ v \notin {"none", "pending"}
  <2>1. request[r] \in [status: {"pending"} \cup Verdicts, key: Keys, days: Days,
                        chain: Seq(Verdicts)]
    BY <1>1 DEF TypeOK, DataOK, Request, NoRequest
  <2> QED BY <1>1, <1>2, <2>1 DEF Verdicts
<1> DEFINE c == [pc |-> "settle", req |-> r, verdict |-> v]
<1>4. ~Off(h) /\ Goto(h, c) /\ balance' = balance
  BY <1>1 DEF SaveDecision, Off
<1>5. /\ Lone(h) /\ Lone(h)' /\ call'[h] = c /\ Settling = {} /\ Settling' = {r}
      /\ \A g \in Handlers \ {h}, j \in Keys : AskedOf(g, j) = 0 /\ AskedOf(g, j)' = 0
  BY <1>4, StaysLone, LoneCall DEF SaveDecision
<1>6. \A k \in Keys : balance[k].pending' <= balance[k].pending \/ balance[k].pending' <= 0
  BY <1>0, <1>4 DEF Numbers
<1>7. ASSUME NEW q \in Requests, NEW k \in Keys PROVE HeldOf(q, k) <= HeldOf(q, k)'
  <2>0. HeldOf(q, k) \in Nat /\ HeldOf(q, k)' \in Nat
    BY <1>0 DEF Weights
  <2>1. CASE q = r
    <3>1. HeldOf(q, k)' = IF request[r].key = k THEN Worth(request[r].days) ELSE 0
      BY <1>3, <1>5, <2>1 DEF HeldOf, DrawnOn
    <3>2. HeldOf(q, k) \in {0, HeldOf(q, k)'}
      BY <2>1, <3>1 DEF HeldOf, DrawnOn
    <3> QED BY <2>0, <3>2
  <2>2. CASE q # r
    <3>1. HeldOf(q, k)' = HeldOf(q, k) BY <1>2, <1>5, <2>2 DEF HeldOf, DrawnOn
    <3> QED BY <2>0, <3>1
  <2> QED BY <2>1, <2>2
<1>8. \A g \in Handlers, k \in Keys : AskedOf(g, k) <= AskedOf(g, k)'
  <2>1. \A g \in Handlers, k \in Keys : AskedOf(g, k) = 0
    BY <1>5 DEF AskedOf, SaveDecision
  <2> QED BY <1>0, <2>1 DEF Weights
<1>9. HoldsBacked'
  BY <1>6, <1>7, <1>8, HoldsRest DEF HoldInv
<1>10. RowsOpen'
  BY <1>4 DEF HoldInv, RowsOpen
<1>11. \A g \in Handlers : KnowsRow(call[g])'
  BY <1>3, <1>5 DEF Lone, Off, KnowsRow
<1> QED BY <1>9, <1>10, <1>11 DEF HoldInv

LEMMA SettleHolds ==
  ASSUME LeaveFinite, TypeOK, TypeOK', Serial, StaysUndone, HoldInv,
         DecisionsAreRecorded, NEW h \in Handlers, Settle(h)
  PROVE  HoldInv'
<1>0. Weights /\ Weights' /\ Numbers /\ Numbers'
  BY WeightsAreDays, AllNumbers, PTL
<1>1. PICK r \in Requests : r = call[h].req /\ request[r].status \notin {"none", "pending"}
  <2>1. call[h].req \in Requests /\ request[call[h].req].status # "none" /\ KnowsRow(call[h])
    BY CallShape DEF Settle, TypeOK, DataOK, DecisionsNameRequests, HoldInv
  <2> QED BY <2>1 DEF KnowsRow, Settle
<1>2. PICK k \in Keys, d \in Int : k = request[r].key /\ d = request[r].days
  BY <1>1, RequestShape, DaysAssumption DEF TypeOK, DataOK
<1>3. ~Off(h) /\ Goto(h, IdleCall) /\ request' = request
  BY DEF Settle, Off
<1>4. /\ Lone(h) /\ Lone(h)' /\ call'[h] = IdleCall /\ Settling = {r} /\ Settling' = {}
      /\ \A g \in Handlers \ {h}, j \in Keys : AskedOf(g, j) = 0 /\ AskedOf(g, j)' = 0
  BY <1>1, <1>3, StaysLone, LoneCall DEF Settle, IdleCall
<1>5. /\ \A j \in Keys : balance'[j].exists = balance[j].exists
      /\ \A j \in Keys \ {k} : balance'[j] = balance[j]
      /\ balance[k].exists => balance'[k].pending = balance[k].pending - d
      /\ ~balance[k].exists => balance'[k] = balance[k]
  <2>1. balance \in [Keys -> Balance]
    BY DEF TypeOK, DataOK
  <2>2. balance' = IF balance[k].exists
                     THEN [balance EXCEPT ![k].used = IF call[h].verdict = "approved" THEN @ + d ELSE @,
                                          ![k].pending = @ - d]
                     ELSE balance
    BY <1>1, <1>2 DEF Settle
  <2> QED BY <2>1, <2>2 DEF Balance
<1>6. ASSUME NEW j \in Keys, ~Undone(j, Verdicts)'
      PROVE  balance[j].pending' <= HeldDays(j)' + AskedDays(j)'
  <2>1. HeldDays(j)' = HeldDays(j) - HeldOf(r, j) + HeldOf(r, j)'
    <3>1. \A q \in Requests \ {r} : HeldOf(q, j)' = HeldOf(q, j)
      BY <1>3, <1>4 DEF HeldOf, DrawnOn
    <3> QED BY <1>0, <3>1, HeldAfter
  <2>2. HeldOf(r, j)' = 0 /\ HeldOf(r, j) = IF j = k THEN Worth(d) ELSE 0
    BY <1>1, <1>2, <1>3, <1>4 DEF HeldOf, DrawnOn
  <2>3. AskedDays(j) <= AskedDays(j)'
    <3>1. \A g \in Handlers : AskedOf(g, j) = 0
      BY <1>4 DEF AskedOf, Settle
    <3>2. \A g \in Handlers : AskedOf(g, j) <= AskedOf(g, j)'
      BY <1>0, <3>1 DEF Weights
    <3> QED BY <1>0, <3>2, AskedOn
  <2>4. /\ HeldDays(j) \in Nat /\ AskedDays(j) \in Nat /\ HeldDays(j)' \in Nat /\ AskedDays(j)' \in Nat
        /\ balance[j].pending \in Int /\ balance[j].pending <= HeldDays(j) + AskedDays(j)
    <3>1. ~Undone(j, Verdicts)
      BY <1>6 DEF StaysUndone
    <3> QED BY <1>0, <3>1 DEF Numbers, HoldInv, HoldsBacked
  <2>5. balance[j].pending' =
          IF j = k /\ balance[k].exists THEN balance[j].pending - d ELSE balance[j].pending
    BY <1>5
  <2>6. ~balance[j].exists => balance[j].pending = 0
    BY DEF HoldInv, RowsOpen
  <2>7. j = k => Worth(d) = d
    <3>1. SUFFICES ASSUME j = k, d < 0 PROVE FALSE
      BY WorthOf
    <3>2. \E i \in DOMAIN request[r].chain : request[r].chain[i] = call[h].verdict
      BY <1>1 DEF DecisionsAreRecorded, Recorded, Settle
    <3>3. call[h].verdict \in Verdicts
      BY CallShape DEF Settle, TypeOK, DataOK
    <3>4. Undone(k, Verdicts)'
      BY <1>1, <1>2, <1>3, <3>1, <3>2, <3>3 DEF Undone
    <3> QED BY <1>6, <3>1, <3>4
  <2> QED BY <2>1, <2>2, <2>3, <2>4, <2>5, <2>6, <2>7
<1>7. RowsOpen'
  BY <1>5 DEF HoldInv, RowsOpen
<1>8. \A g \in Handlers : KnowsRow(call[g])'
  BY <1>4 DEF Lone, Off, KnowsRow, IdleCall
<1> QED BY <1>6, <1>7, <1>8 DEF HoldInv, HoldsBacked

LEMMA HoldStep ==
  ASSUME LeaveFinite, TypeOK, TypeOK', Serial, crashes = 0, crashes' = 0, HoldInv,
         DecisionsAreRecorded, [Next]_vars
  PROVE  HoldInv'
<1>0. StaysUndone
  BY UndoneStays
<1>1. ASSUME NEW h \in Handlers, NEW k \in Keys, NEW d \in Days, ApplyAgainstBalance(h, k, d)
      PROVE  HoldInv'
  <2> DEFINE c == [pc |-> "saveBalance", key |-> k, days |-> d, pending |-> balance[k].pending + d]
  <2>1. Idle(h) /\ Goto(h, c) /\ KnowsRow(c) /\ UNCHANGED <<balance, request>> /\ c.pc # "settle"
    BY <1>1 DEF ApplyAgainstBalance, KnowsRow
  <2> HIDE DEF c
  <2> QED BY <1>0, <2>1, ReadsHold
<1>2. ASSUME NEW h \in Handlers, NEW k \in Keys, NEW d \in Days, ApplyWithoutBalance(h, k, d)
      PROVE  HoldInv'
  <2> DEFINE c == [pc |-> "createRequest", key |-> k, days |-> d]
  <2>1. Idle(h) /\ Goto(h, c) /\ KnowsRow(c) /\ UNCHANGED <<balance, request>> /\ c.pc # "settle"
    BY <1>2 DEF ApplyWithoutBalance, KnowsRow
  <2> HIDE DEF c
  <2> QED BY <1>0, <2>1, ReadsHold
<1>3. ASSUME NEW h \in Handlers, NEW r \in Requests, NEW v \in Verdicts, ReadForDecision(h, r, v)
      PROVE  HoldInv'
  <2> DEFINE c == [pc |-> "saveDecision", req |-> r, verdict |-> v]
  <2>1. Idle(h) /\ Goto(h, c) /\ KnowsRow(c) /\ UNCHANGED <<balance, request>> /\ c.pc # "settle"
    BY <1>3 DEF ReadForDecision, KnowsRow
  <2> HIDE DEF c
  <2> QED BY <1>0, <2>1, ReadsHold
<1>4. ~Crash
  BY DEF Crash
<1>5. CASE UNCHANGED vars
  BY <1>5
  DEF vars, HoldInv, RowsOpen, HoldsBacked, KnowsRow, HeldDays, AskedDays, HeldOf, AskedOf,
      DrawnOn, Settling, Undone
<1> QED
  BY <1>0, <1>1, <1>2, <1>3, <1>4, <1>5, RowOpens, SaveHolds, CreateHolds, DecisionHolds, SettleHolds
  DEF Next, Step

\* The rows' inductive invariant: the charges whoever overlaps or dies, what is
\* reserved while one call runs at a time and none has died.
BackedInv ==
  TypeOK /\ DecisionsAreRecorded /\ Unopened /\ ChargesBacked /\ (Serial /\ crashes = 0 => HoldInv)

LEMMA ChargesRead ==
  ASSUME LeaveFinite, TypeOK, ChargesBacked
  PROVE  UsedBackedByApprovals
<1>0. Weights /\ Numbers
  BY WeightsAreDays, AllNumbers
<1> SUFFICES ASSUME NEW k \in Keys
             PROVE  balance[k].used <=
                      MapThenSumSet(LAMBDA r : Approvals(r) * Worth(request[r].days),
                        {r \in Requests : request[r].status # "none" /\ request[r].key = k})
  BY DEF UsedBackedByApprovals
<1>1. PICK S : S = {r \in Requests : request[r].status # "none" /\ request[r].key = k}
  OBVIOUS
<1>2. PICK w : w = [r \in Requests |-> ChargeOf(r, k)]
  OBVIOUS
<1>3. PICK v : v = [r \in S |-> ChargeOf(r, k)]
  OBVIOUS
<1>4. /\ w \in [Requests -> Int] /\ v \in [S -> Int] /\ S \subseteq Requests
      /\ \A r \in S : v[r] = w[r]
      /\ \A r \in Requests \ S : w[r] = 0
      /\ \A r \in S : v[r] = Approvals(r) * Worth(request[r].days)
  BY <1>0, <1>1, <1>2, <1>3 DEF Weights, ChargeOf, DrawnOn
<1>5. IsFiniteSet(S) /\ IsFiniteSet(Requests)
  BY <1>4, FS_Subset DEF LeaveFinite
<1>6. MapThenSumSet(LAMBDA r : Approvals(r) * Worth(request[r].days), S) = Total(v, S)
  BY <1>4, <1>5, SumOfCharges
<1>7. Total(v, S) = Total(w, Requests)
  BY <1>4, <1>5, TotalOver
<1>8. balance[k].used <= Total(w, Requests)
  BY <1>0, <1>2 DEF ChargesBacked, Charged, Numbers
<1> QED BY <1>1, <1>6, <1>7, <1>8

LEMMA HoldsRead ==
  ASSUME LeaveFinite, TypeOK, HoldsBacked, NEW k \in Keys, ~Undone(k, Verdicts)
  PROVE  balance[k].pending <=
           DaysOn(k, {r \in Requests : request[r].status = "pending"} \cup Settling)
             + MapThenSumSet(LAMBDA h : Worth(call[h].days),
                             {h \in Handlers : call[h].pc = "createRequest" /\ call[h].key = k})
<1>0. Weights /\ Numbers
  BY WeightsAreDays, AllNumbers
<1>a. Settling \subseteq Requests
  BY CallShape DEF Settling, TypeOK, DataOK
<1>1. PICK S : S = {r \in {r \in Requests : request[r].status = "pending"} \cup Settling :
                      request[r].status # "none" /\ request[r].key = k}
  OBVIOUS
<1>2. PICK w : w = [r \in Requests |-> HeldOf(r, k)]
  OBVIOUS
<1>3. PICK v : v = [r \in S |-> HeldOf(r, k)]
  OBVIOUS
<1>4. /\ w \in [Requests -> Int] /\ v \in [S -> Int] /\ S \subseteq Requests
      /\ \A r \in S : v[r] = w[r]
      /\ \A r \in Requests \ S : w[r] = 0
      /\ \A r \in S : v[r] = Worth(request[r].days)
  BY <1>0, <1>a, <1>1, <1>2, <1>3 DEF Weights, HeldOf, DrawnOn
<1>5. IsFiniteSet(S) /\ IsFiniteSet(Requests)
  BY <1>4, FS_Subset DEF LeaveFinite
<1>6. MapThenSumSet(LAMBDA r : Worth(request[r].days), S) = Total(v, S)
  BY <1>4, <1>5, SumOfDays
<1>7. Total(v, S) = HeldDays(k)
  BY <1>2, <1>4, <1>5, TotalOver DEF HeldDays
<1>8. DaysOn(k, {r \in Requests : request[r].status = "pending"} \cup Settling) = HeldDays(k)
  BY <1>1, <1>6, <1>7 DEF DaysOn
<1>9. PICK T : T = {h \in Handlers : call[h].pc = "createRequest" /\ call[h].key = k}
  OBVIOUS
<1>10. PICK a : a = [h \in Handlers |-> AskedOf(h, k)]
  OBVIOUS
<1>11. PICK b : b = [h \in T |-> AskedOf(h, k)]
  OBVIOUS
<1>12. /\ a \in [Handlers -> Int] /\ b \in [T -> Int] /\ T \subseteq Handlers
       /\ \A h \in T : b[h] = a[h]
       /\ \A h \in Handlers \ T : a[h] = 0
       /\ \A h \in T : b[h] = Worth(call[h].days)
  BY <1>0, <1>9, <1>10, <1>11 DEF Weights, AskedOf
<1>13. IsFiniteSet(T) /\ IsFiniteSet(Handlers)
  BY <1>12, FS_Subset DEF LeaveFinite
<1>14. MapThenSumSet(LAMBDA h : Worth(call[h].days), T) = Total(b, T)
  BY <1>12, <1>13, SumOfAsked
<1>15. Total(b, T) = AskedDays(k)
  BY <1>10, <1>12, <1>13, TotalOver DEF AskedDays
<1>16. balance[k].pending <= HeldDays(k) + AskedDays(k)
  BY DEF HoldsBacked
<1> QED BY <1>8, <1>9, <1>14, <1>15, <1>16

LEMMA InitBacked == ASSUME LeaveFinite PROVE Init => BackedInv
<1> SUFFICES ASSUME Init PROVE BackedInv
  OBVIOUS
<1>0. TypeOK
  BY InitTypeOK
<1>1. Weights /\ Numbers
  BY <1>0, WeightsAreDays, AllNumbers
<1>2. \A h \in Handlers : call[h].pc \in {"idle", "off"}
  BY DEF Init, IdleCall, OffCall
<1>3. \A k \in Keys : balance[k] = NoBalance
  BY DEF Init
<1>4. ASSUME NEW k \in Keys PROVE DueYet(k) = 0
  <2>1. PICK w : w = [h \in Handlers |-> DueOf(h, k)] OBVIOUS
  <2>2. w \in [Handlers -> Int] /\ \A h \in Handlers : w[h] = 0
    BY <1>2, <2>1 DEF DueOf
  <2> QED BY <2>1, <2>2, NoneOfIt DEF DueYet, LeaveFinite
<1>5. ChargesBacked
  BY <1>1, <1>3, <1>4 DEF ChargesBacked, Numbers, NoBalance
<1>6. HoldInv
  BY <1>1, <1>2, <1>3 DEF HoldInv, RowsOpen, HoldsBacked, KnowsRow, Numbers, NoBalance
<1>7. DecisionsAreRecorded
  BY <1>2 DEF DecisionsAreRecorded, Recorded
<1>8. Unopened
  BY <1>3 DEF Unopened, NoBalance
<1> QED BY <1>0, <1>5, <1>6, <1>7, <1>8 DEF BackedInv

LEMMA StepBacked == ASSUME LeaveFinite PROVE BackedInv /\ [Next]_vars => BackedInv'
<1> SUFFICES ASSUME BackedInv, [Next]_vars PROVE BackedInv'
  OBVIOUS
<1>1. TypeOK /\ TypeOK'
  BY StepTypeOK DEF BackedInv
<1>2. ChargesBacked' /\ DecisionsAreRecorded' /\ Unopened'
  BY <1>1, ChargesStep, StepRecorded, StepUnopened DEF BackedInv
<1>3. Serial' /\ crashes' = 0 => Serial /\ crashes = 0
  <2>1. Serial' => Serial
    BY <1>1, SerialStable
  <2>2. crashes \in Nat /\ crashes' \in {crashes, crashes + 1}
    <3>1. crashes \in Nat
      BY <1>1, CrashAssumption DEF TypeOK, DataOK
    <3>2. crashes' \in {crashes, crashes + 1}
      BY DEF Next, vars, Step, InitializeBalance, ApplyAgainstBalance, ApplyWithoutBalance,
             ReadForDecision, SaveBalance, CreateRequest, SaveDecision, Settle, Crash
    <3> QED BY <3>1, <3>2
  <2> QED BY <2>1, <2>2
<1>4. Serial' /\ crashes' = 0 => HoldInv'
  BY <1>1, <1>3, HoldStep DEF BackedInv
<1> QED BY <1>1, <1>2, <1>4 DEF BackedInv

\* However approvals and rejections overlap and wherever the process dies, no row
\* is charged for more days than the approvals on its requests: settling adds
\* ($inc) what a saved approval asked for, once.  With one call at a time and no
\* crash, no day stays reserved for a request that has been settled: applyLeave
\* reserves what its request will hold, and settling takes that back.
THEOREM RowsAreBackedAlways == ASSUME LeaveFinite PROVE Spec => []RowsAreBacked
<1>1. BackedInv => RowsAreBacked
  <2> SUFFICES ASSUME BackedInv PROVE RowsAreBacked
    OBVIOUS
  <2>1. TypeOK /\ ChargesBacked /\ (Serial /\ crashes = 0 => HoldsBacked)
    BY DEF BackedInv, HoldInv
  <2>2. UsedBackedByApprovals
    BY <2>1, ChargesRead
  <2>3. ReservationsCovered
    BY <2>1, HoldsRead DEF ReservationsCovered
  <2> QED BY <2>2, <2>3 DEF RowsAreBacked
<1> QED BY <1>1, InitBacked, StepBacked, PTL DEF Spec

-----------------------------------------------------------------------------
(* EmployeeSelfService: what a call in progress knows, whoever races.        *)

Approving == {"applyChanges", "createDocuments", "saveApproved"}
Deciding == Approving \cup {"saveRejected"}
Linked == {"saveRevoked", "verifyOtp", "saveSession", "submit", "createRequest", "saveSubmitted"}

SelfCall ==
  {Service!IdleCall}
    \cup [pc: {"revokeActive", "insertLink"}, asks: (SUBSET Service!Parts) \ {{}}]
    \cup [pc: Linked \ {"createRequest"}, link: Links]
    \cup [pc: {"createRequest"}, link: Links, parts: (SUBSET Service!Parts) \ {{}}]
    \cup [pc: Deciding, request: Requests]

\* The link or the request a call works on exists.
Shape(c) ==
  /\ c \in SelfCall
  /\ c.pc \in Linked => links[c.link] # Service!NoLink
  /\ c.pc \in Deciding => requests[c.request] # Service!NoRequest

\* An approval has applied what its stage says, or the employee is gone.
Landed(r, part) == <<r, part>> \in landed \/ (part = "field" /\ profile = "deleted")
Applied(c) ==
  /\ c.pc = "createDocuments" /\ "field" \in requests[c.request].parts => Landed(c.request, "field")
  /\ c.pc = "saveApproved" => \A part \in requests[c.request].parts : Landed(c.request, part)

CallsKnow == \A h \in Handlers : Shape(call[h]) /\ Applied(call[h])
AppliedInv ==
  /\ Service!TypeOK
  /\ DOMAIN call = Handlers /\ call = [h \in Handlers |-> call[h]]
  /\ CallsKnow
  /\ Service!ApprovedMeansApplied

\* No step undoes what calls know: links and requests stay, requests keep what
\* they ask for, what landed stays, and a deleted employee stays deleted.
Grows ==
  /\ \A l \in Links : links[l] # Service!NoLink => links'[l] # Service!NoLink
  /\ \A r \in Requests : requests[r] # Service!NoRequest =>
       requests'[r] # Service!NoRequest /\ requests'[r].parts = requests[r].parts
  /\ landed \subseteq landed'
  /\ profile = "deleted" => profile' = "deleted"

LEMMA Shapes ==
  ASSUME NEW c \in SelfCall
  PROVE  /\ c.pc = "idle" => c = Service!IdleCall
         /\ c.pc \in {"revokeActive", "insertLink"} =>
              /\ c.asks \in (SUBSET Service!Parts) \ {{}}
              /\ c = [pc |-> c.pc, asks |-> c.asks]
         /\ c.pc \in Linked => c.link \in Links
         /\ c.pc \in Linked \ {"createRequest"} => c = [pc |-> c.pc, link |-> c.link]
         /\ c.pc = "createRequest" => c.parts \in (SUBSET Service!Parts) \ {{}}
         /\ c.pc \in Deciding => c.request \in Requests /\ c = [pc |-> c.pc, request |-> c.request]
BY DEF SelfCall, Linked, Deciding, Approving, Service!IdleCall

LEMMA KnowsOn ==
  ASSUME NEW c, Shape(c), Applied(c), Grows
  PROVE  Shape(c)' /\ Applied(c)'
<1>1. Shape(c)'
  BY Shapes DEF Shape, Grows
<1>2. \A r, part : Landed(r, part) => Landed(r, part)'
  BY DEF Landed, Grows
<1>3. c.pc \in Approving => c.request \in Requests /\ requests'[c.request].parts = requests[c.request].parts
  BY Shapes DEF Shape, Deciding, Grows
<1>4. Applied(c)'
  BY <1>2, <1>3 DEF Applied, Approving
<1> QED BY <1>1, <1>4

LEMMA GoesTo ==
  ASSUME AppliedInv, Grows, NEW h \in Handlers, NEW c, Service!Goto(h, c), Shape(c)', Applied(c)'
  PROVE  /\ DOMAIN call' = Handlers /\ call' = [g \in Handlers |-> call'[g]]
         /\ CallsKnow' /\ call'[h] = c
         /\ \A g \in Handlers : g # h => call'[g] = call[g]
<1>1. /\ DOMAIN call' = Handlers /\ call' = [g \in Handlers |-> call'[g]]
      /\ call'[h] = c /\ \A g \in Handlers : g # h => call'[g] = call[g]
  BY DEF AppliedInv, Service!Goto
<1>2. ASSUME NEW g \in Handlers PROVE (Shape(call[g]) /\ Applied(call[g]))'
  <2>1. CASE g = h
    BY <1>1, <2>1 DEF Shape, Applied
  <2>2. CASE g # h
    <3>1. PICK q : q = call[g]
      OBVIOUS
    <3>2. Shape(q)' /\ Applied(q)' /\ call'[g] = q
      BY <1>1, <2>2, <3>1, KnowsOn DEF AppliedInv, CallsKnow
    <3> QED BY <3>2 DEF Shape, Applied
  <2> QED BY <2>1, <2>2
<1> QED BY <1>1, <1>2 DEF CallsKnow

LEMMA Resting == ASSUME NEW c, c = Service!IdleCall PROVE Shape(c) /\ Applied(c) /\ Shape(c)' /\ Applied(c)'
BY DEF Service!IdleCall, Shape, Applied, SelfCall, Linked, Deciding, Approving

\* What is newly approved has been applied.
ApprovedGrows ==
  \A r \in Requests : requests'[r].status = "approved" =>
    /\ requests[r] # Service!NoRequest
    /\ \/ requests[r].status = "approved"
       \/ \A part \in requests[r].parts : Landed(r, part)'

LEMMA ApprovedOn ==
  ASSUME Service!ApprovedMeansApplied, Grows, ApprovedGrows
  PROVE  Service!ApprovedMeansApplied'
<1>1. ASSUME NEW r \in Requests, requests'[r].status = "approved", NEW part \in requests'[r].parts
      PROVE  Landed(r, part)'
  <2>1. requests'[r].parts = requests[r].parts
    BY <1>1 DEF ApprovedGrows, Grows
  <2>2. CASE requests[r].status = "approved"
    <3>1. Landed(r, part)
      BY <1>1, <2>1, <2>2 DEF Service!ApprovedMeansApplied, Landed
    <3> QED BY <3>1 DEF Landed, Grows
  <2>3. CASE requests[r].status # "approved"
    BY <1>1, <2>1, <2>3 DEF ApprovedGrows
  <2> QED BY <2>2, <2>3
<1> QED BY <1>1 DEF Service!ApprovedMeansApplied, Landed

LEMMA StepApplied ==
  ASSUME AppliedInv, NEW h \in Handlers, NEW c, Service!Goto(h, c), Shape(c)', Applied(c)',
         Service!TypeOK', Grows, ApprovedGrows
  PROVE  AppliedInv' /\ call'[h] = c /\ \A g \in Handlers : g # h => call'[g] = call[g]
<1>1. Service!ApprovedMeansApplied'
  BY ApprovedOn DEF AppliedInv
<1> QED BY <1>1, GoesTo DEF AppliedInv

LEMMA AtOnceApplied ==
  ASSUME AppliedInv, UNCHANGED call, Service!TypeOK', Grows, ApprovedGrows
  PROVE  AppliedInv'
<1>1. ASSUME NEW g \in Handlers PROVE (Shape(call[g]) /\ Applied(call[g]))'
  <2>1. PICK q : q = call[g]
    OBVIOUS
  <2>2. Shape(q)' /\ Applied(q)' /\ call'[g] = q
    BY <2>1, KnowsOn DEF AppliedInv, CallsKnow
  <2> QED BY <2>2 DEF Shape, Applied
<1> QED BY <1>1, ApprovedOn DEF AppliedInv, CallsKnow

\* Requests that stay as they are approve nothing.
LEMMA NoneApproved ==
  ASSUME AppliedInv, UNCHANGED requests
  PROVE  ApprovedGrows
BY DEF ApprovedGrows, Service!NoRequest

LEMMA CallOf ==
  ASSUME AppliedInv, NEW h \in Handlers
  PROVE  call[h] \in SelfCall /\ Shape(call[h]) /\ Applied(call[h])
BY DEF AppliedInv, CallsKnow, Shape

-----------------------------------------------------------------------------
(* Steps that write links.                                                   *)

\* Links are written one by one, and none disappears.
WritesLinks ==
  /\ links' \in [Links -> Service!Link \cup {Service!NoLink}]
  /\ \A l \in Links : links[l] # Service!NoLink => links'[l] # Service!NoLink

LEMMA LinksWritten ==
  ASSUME AppliedInv, WritesLinks, UNCHANGED <<profile, documents, requests, landed, cut, crashes>>
  PROVE  Service!TypeOK' /\ Grows /\ ApprovedGrows
<1>1. ApprovedGrows
  BY NoneApproved
<1> QED BY <1>1 DEF AppliedInv, WritesLinks, Service!TypeOK, Grows

LEMMA LinkMarked ==
  ASSUME AppliedInv, NEW due \in SUBSET Links, NEW s \in {"expired", "revoked"},
         \A l \in due : links[l] # Service!NoLink,
         links' = [l \in Links |-> IF l \in due THEN [links[l] EXCEPT !.status = s] ELSE links[l]]
  PROVE  WritesLinks
<1>1. ASSUME NEW l \in due
      PROVE  /\ [links[l] EXCEPT !.status = s] \in Service!Link
             /\ [links[l] EXCEPT !.status = s].status = s
  BY DEF AppliedInv, Service!TypeOK, Service!Link
<1> QED BY <1>1 DEF WritesLinks, AppliedInv, Service!TypeOK, Service!NoLink

LEMMA LinkWritten ==
  ASSUME AppliedInv, NEW l \in Links, NEW v \in Service!Link, links' = [links EXCEPT ![l] = v]
  PROVE  WritesLinks
BY DEF WritesLinks, AppliedInv, Service!TypeOK, Service!NoLink, Service!Link

LEMMA Expires ==
  ASSUME AppliedInv, Service!expireStaleLinks
  PROVE  WritesLinks
<1>1. PICK due \in SUBSET {l \in Links : Service!Active(l)} :
        links' = [l \in Links |-> IF l \in due THEN [links[l] EXCEPT !.status = "expired"]
                                  ELSE links[l]]
  BY DEF Service!expireStaleLinks
<1>2. \A l \in due : links[l] # Service!NoLink
  BY DEF Service!Active, Service!NoLink
<1> QED BY <1>1, <1>2, LinkMarked

LEMMA LinkStepApplied ==
  ASSUME AppliedInv, NEW h \in Handlers, Service!LinkStep(h), ~Service!submitFromSelfService(h)
  PROVE  AppliedInv' /\ \A g \in Handlers : g # h => call'[g] = call[g]
<1>1. PICK c : c = call[h]
  OBVIOUS
<1>2. c \in SelfCall /\ Shape(c)
  BY <1>1, CallOf
<1>3. ASSUME WritesLinks, UNCHANGED <<profile, documents, requests, landed, cut, crashes>>,
             NEW d, d.pc \notin Deciding, Shape(d)', Service!Goto(h, d)
      PROVE  AppliedInv' /\ \A g \in Handlers : g # h => call'[g] = call[g]
  <2>1. Applied(d)'
    BY <1>3 DEF Applied, Deciding, Approving
  <2> QED BY <1>3, <2>1, LinksWritten, StepApplied
<1>4. ASSUME WritesLinks, UNCHANGED <<profile, documents, requests, landed, cut, crashes>>,
             Service!Goto(h, Service!IdleCall)
      PROVE  AppliedInv' /\ \A g \in Handlers : g # h => call'[g] = call[g]
  BY <1>4, LinksWritten, StepApplied, Resting
<1>5. ASSUME UNCHANGED links PROVE WritesLinks
  BY <1>5 DEF WritesLinks, AppliedInv, Service!TypeOK
<1>6. ASSUME NEW pc \in Linked \ {"createRequest"}, NEW l \in Links, links'[l] # Service!NoLink
      PROVE  /\ [pc |-> pc, link |-> l].pc \notin Deciding
             /\ Shape([pc |-> pc, link |-> l])'
  BY <1>6 DEF Shape, SelfCall, Linked, Deciding, Approving
<1>7. ASSUME NEW pc \in {"revokeActive", "insertLink"}, NEW asks \in (SUBSET Service!Parts) \ {{}}
      PROVE  /\ [pc |-> pc, asks |-> asks].pc \notin Deciding
             /\ Shape([pc |-> pc, asks |-> asks])'
  BY <1>7 DEF Shape, SelfCall, Linked, Deciding, Approving
<1>8. CASE Service!getActiveLinkForEmployee(h)
  <2>1. WritesLinks /\ UNCHANGED <<profile, documents, requests, landed, cut, crashes, call>>
    BY <1>8, Expires DEF Service!getActiveLinkForEmployee
  <2> QED BY <2>1, LinksWritten, AtOnceApplied
<1>9. CASE Service!createLink(h)
  <2>1. WritesLinks
    BY <1>9, Expires DEF Service!createLink
  <2>2. Service!Missing \subseteq Service!Parts /\ Service!Missing # {}
    <3>1. Service!Missing \subseteq Service!Parts
      BY DEF Service!Missing, Service!Parts
    <3> QED BY <1>9, <3>1 DEF Service!createLink
  <2>3. PICK asks : asks = Service!Missing
    OBVIOUS
  <2>4. asks \in (SUBSET Service!Parts) \ {{}}
    BY <2>2, <2>3
  <2>5. Service!Goto(h, [pc |-> "revokeActive", asks |-> asks])
    BY <1>9, <2>3 DEF Service!createLink
  <2> QED BY <1>3, <1>7, <1>9, <2>1, <2>4, <2>5 DEF Service!createLink
<1>10. CASE Service!revokeActive(h)
  <2>1. c.asks \in (SUBSET Service!Parts) \ {{}} /\ c = [pc |-> "revokeActive", asks |-> c.asks]
    BY <1>1, <1>2, <1>10, Shapes DEF Service!revokeActive, Service!At
  <2>2. [c EXCEPT !.pc = "insertLink"] = [pc |-> "insertLink", asks |-> c.asks]
    BY <2>1
  <2>3. PICK due \in SUBSET Links : due = {l \in Links : Service!Active(l)}
    OBVIOUS
  <2>4. \A l \in due : links[l] # Service!NoLink
    BY <2>3 DEF Service!Active, Service!NoLink
  <2>5. links' = [l \in Links |-> IF l \in due THEN [links[l] EXCEPT !.status = "revoked"] ELSE links[l]]
    BY <1>10, <2>3 DEF Service!revokeActive
  <2>6. WritesLinks
    BY <2>4, <2>5, LinkMarked
  <2> QED BY <1>1, <1>3, <1>7, <1>10, <2>1, <2>2, <2>6 DEF Service!revokeActive
<1>11. CASE Service!insertLink(h)
  <2>1. c.asks \in (SUBSET Service!Parts) \ {{}}
    BY <1>1, <1>2, <1>11, Shapes DEF Service!insertLink, Service!At
  <2>2. PICK l : l = CHOOSE x \in Links : links[x] = Service!NoLink
    OBVIOUS
  <2>3. l \in Links
    BY <1>11, <2>2 DEF Service!insertLink
  <2>4. PICK v : v = [status |-> "active", session |-> "none", asks |-> c.asks]
    OBVIOUS
  <2>5. v \in Service!Link
    BY <2>1, <2>4 DEF Service!Link
  <2>6. links' = [links EXCEPT ![l] = v]
    BY <1>1, <1>11, <2>2, <2>4 DEF Service!insertLink
  <2> QED BY <1>4, <1>11, <2>3, <2>5, <2>6, LinkWritten DEF Service!insertLink
<1>12. ASSUME NEW l \in Links, Service!revokeLink(h, l)
       PROVE  AppliedInv' /\ \A g \in Handlers : g # h => call'[g] = call[g]
  <2>1. links'[l] # Service!NoLink
    BY <1>12 DEF Service!revokeLink, Service!Active, Service!NoLink
  <2>2. "saveRevoked" \in Linked \ {"createRequest"}
    BY DEF Linked
  <2> QED BY <1>3, <1>5, <1>6, <1>12, <2>1, <2>2 DEF Service!revokeLink
<1>13. ASSUME NEW l \in Links, NEW purpose \in {"verifyOtp", "submit"},
              Service!getLinkStatus(h, l, purpose)
       PROVE  AppliedInv' /\ \A g \in Handlers : g # h => call'[g] = call[g]
  <2>1. links'[l] # Service!NoLink /\ WritesLinks
    BY <1>13, Expires DEF Service!getLinkStatus, Service!NoLink
  <2>2. purpose \in Linked \ {"createRequest"}
    BY DEF Linked
  <2> QED BY <1>3, <1>6, <1>13, <2>1, <2>2 DEF Service!getLinkStatus
<1>14. CASE Service!saveRevoked(h)
  <2>1. c.link \in Links /\ links[c.link] \in Service!Link
    BY <1>1, <1>2, <1>14, Shapes
       DEF Service!saveRevoked, Service!At, Linked, Shape, AppliedInv, Service!TypeOK
  <2>2. PICK v : v = [links[c.link] EXCEPT !.status = "revoked"]
    OBVIOUS
  <2>3. v \in Service!Link
    BY <2>1, <2>2 DEF Service!Link
  <2>4. links' = [links EXCEPT ![c.link] = v]
    BY <1>1, <1>14, <2>2 DEF Service!saveRevoked
  <2> QED BY <1>4, <1>14, <2>1, <2>3, <2>4, LinkWritten DEF Service!saveRevoked
<1>15. CASE Service!verifyOtp(h)
  <2>1. c.link \in Links /\ links[c.link] # Service!NoLink /\ c = [pc |-> "verifyOtp", link |-> c.link]
    BY <1>1, <1>2, <1>15, Shapes DEF Service!verifyOtp, Service!At, Linked, Shape
  <2>2. [c EXCEPT !.pc = "saveSession"] = [pc |-> "saveSession", link |-> c.link]
    BY <2>1
  <2>3. "saveSession" \in Linked \ {"createRequest"} /\ links'[c.link] # Service!NoLink
    BY <1>15, <2>1 DEF Linked, Service!verifyOtp
  <2> QED BY <1>1, <1>3, <1>5, <1>6, <1>15, <2>1, <2>2, <2>3 DEF Service!verifyOtp
<1>16. CASE Service!saveSession(h)
  <2>1. c.link \in Links /\ links[c.link] \in Service!Link
    BY <1>1, <1>2, <1>16, Shapes
       DEF Service!saveSession, Service!At, Linked, Shape, AppliedInv, Service!TypeOK
  <2>2. PICK v : v = [links[c.link] EXCEPT !.session = "live"]
    OBVIOUS
  <2>3. v \in Service!Link
    BY <2>1, <2>2 DEF Service!Link
  <2>4. links' = [links EXCEPT ![c.link] = v]
    BY <1>1, <1>16, <2>2 DEF Service!saveSession
  <2> QED BY <1>4, <1>16, <2>1, <2>3, <2>4, LinkWritten DEF Service!saveSession
<1>17. ASSUME NEW parts \in SUBSET Service!Parts, Service!submit(h, parts)
       PROVE  AppliedInv' /\ \A g \in Handlers : g # h => call'[g] = call[g]
  <2>1. c.link \in Links /\ links[c.link] # Service!NoLink
    BY <1>1, <1>2, <1>17, Shapes DEF Service!submit, Service!At, Linked, Shape
  <2>2. parts # {}
    BY <1>17 DEF Service!submit
  <2>3. PICK d : d = [pc |-> "createRequest", link |-> c.link, parts |-> parts]
    OBVIOUS
  <2>4. d \in SelfCall /\ d.pc = "createRequest" /\ d.link = c.link
    <3>1. parts \in (SUBSET Service!Parts) \ {{}}
      BY <1>17, <2>2
    <3>2. d \in [pc: {"createRequest"}, link: Links, parts: (SUBSET Service!Parts) \ {{}}]
      BY <2>1, <2>3, <3>1
    <3> QED BY <2>3, <3>2 DEF SelfCall
  <2>5. Shape(d)'
    BY <1>17, <2>1, <2>4 DEF Shape, Deciding, Approving, Service!submit
  <2>6. d.pc \notin Deciding /\ Service!Goto(h, d)
    BY <1>1, <1>17, <2>3, <2>4 DEF Deciding, Approving, Service!submit
  <2> QED BY <1>3, <1>5, <1>17, <2>5, <2>6 DEF Service!submit
<1>18. CASE Service!saveSubmitted(h)
  <2>1. c.link \in Links /\ links[c.link] \in Service!Link
    BY <1>1, <1>2, <1>18, Shapes
       DEF Service!saveSubmitted, Service!At, Linked, Shape, AppliedInv, Service!TypeOK
  <2>2. PICK v : v = [[links[c.link] EXCEPT !.status = "submitted"] EXCEPT !.session = "none"]
    OBVIOUS
  <2>3. v \in Service!Link
    BY <2>1, <2>2 DEF Service!Link
  <2>4. links' = [links EXCEPT ![c.link] = v]
    BY <1>1, <1>18, <2>1, <2>2 DEF Service!saveSubmitted, Service!Link, AppliedInv, Service!TypeOK
  <2> QED BY <1>4, <1>18, <2>1, <2>3, <2>4, LinkWritten DEF Service!saveSubmitted
<1>19. CASE Service!refuse(h)
  BY <1>4, <1>5, <1>19 DEF Service!refuse
<1> QED BY <1>8, <1>9, <1>10, <1>11, <1>12, <1>13, <1>14, <1>15, <1>16, <1>17, <1>18, <1>19
        DEF Service!LinkStep

-----------------------------------------------------------------------------
(* Steps that write requests.                                               *)

LEMMA NewlyRequested ==
  ASSUME AppliedInv, NEW link \in Links \cup {"admin"}, NEW parts \in (SUBSET Service!Parts) \ {{}},
         Service!NewRequest(link, parts), UNCHANGED <<profile, documents, links, landed, cut, crashes>>
  PROVE  Service!TypeOK' /\ Grows /\ ApprovedGrows
<1>1. PICK r : r = CHOOSE x \in Requests : requests[x] = Service!NoRequest
  OBVIOUS
<1>2. PICK v : v = [status |-> "pending", link |-> link, parts |-> parts]
  OBVIOUS
<1>3. r \in Requests /\ requests[r] = Service!NoRequest
  BY <1>1 DEF Service!NewRequest
<1>4. requests' = [requests EXCEPT ![r] = v]
  BY <1>1, <1>2 DEF Service!NewRequest
<1>5. v \in Service!Request /\ v.status = "pending"
  BY <1>2 DEF Service!Request
<1>6. requests' \in [Requests -> Service!Request \cup {Service!NoRequest}]
  BY <1>3, <1>4, <1>5 DEF AppliedInv, Service!TypeOK
<1>7. \A q \in Requests : requests'[q] = IF q = r THEN v ELSE requests[q]
  BY <1>3, <1>4 DEF AppliedInv, Service!TypeOK
<1>8. Service!TypeOK'
  BY <1>6 DEF AppliedInv, Service!TypeOK
<1>9. Grows
  BY <1>3, <1>7 DEF Grows
<1>10. ApprovedGrows
  BY <1>5, <1>7 DEF ApprovedGrows, Service!NoRequest
<1> QED BY <1>8, <1>9, <1>10

\* A decision writes the status of a request there is.
LEMMA Decided ==
  ASSUME AppliedInv, NEW r \in Requests, requests[r] # Service!NoRequest,
         NEW s \in {"approved", "rejected"},
         s = "approved" => \A part \in requests[r].parts : Landed(r, part),
         requests' = [requests EXCEPT ![r].status = s],
         UNCHANGED <<profile, documents, links, landed, cut, crashes>>
  PROVE  Service!TypeOK' /\ Grows /\ ApprovedGrows
<1>1. PICK v : v = [requests[r] EXCEPT !.status = s]
  OBVIOUS
<1>2. requests[r] \in Service!Request
  BY DEF AppliedInv, Service!TypeOK
<1>3. v \in Service!Request /\ v.status = s /\ v.parts = requests[r].parts
  BY <1>1, <1>2 DEF Service!Request
<1>4. \A q \in Requests : requests'[q] = IF q = r THEN v ELSE requests[q]
  BY <1>1 DEF AppliedInv, Service!TypeOK
<1>5. requests' \in [Requests -> Service!Request \cup {Service!NoRequest}]
  BY <1>1, <1>3 DEF AppliedInv, Service!TypeOK
<1>6. v # Service!NoRequest
  BY <1>3 DEF Service!NoRequest
<1>7. Service!TypeOK'
  BY <1>5 DEF AppliedInv, Service!TypeOK
<1>8. Grows
  BY <1>3, <1>4, <1>6 DEF Grows
<1>9. \A q, part : Landed(q, part) => Landed(q, part)'
  BY DEF Landed
<1>10. ApprovedGrows
  BY <1>3, <1>4, <1>9 DEF ApprovedGrows, Service!NoRequest
<1> QED BY <1>7, <1>8, <1>10

LEMMA SubmissionApplied ==
  ASSUME AppliedInv, NEW h \in Handlers, Service!submitFromSelfService(h)
  PROVE  AppliedInv' /\ \A g \in Handlers : g # h => call'[g] = call[g]
<1>1. PICK c : c = call[h]
  OBVIOUS
<1>2. c.pc = "createRequest" /\ c.link \in Links /\ links[c.link] # Service!NoLink
      /\ c.parts \in (SUBSET Service!Parts) \ {{}}
  BY <1>1, CallOf, Shapes DEF Service!submitFromSelfService, Service!At, Linked, Shape
<1>3. PICK d : d = [pc |-> "saveSubmitted", link |-> c.link]
  OBVIOUS
<1>4. Service!NewRequest(c.link, c.parts) /\ Service!Goto(h, d)
      /\ UNCHANGED <<profile, documents, links, landed, cut, crashes>>
  BY <1>1, <1>3 DEF Service!submitFromSelfService
<1>5. Service!TypeOK' /\ Grows /\ ApprovedGrows
  BY <1>2, <1>4, NewlyRequested
<1>6. Shape(d)' /\ Applied(d)'
  BY <1>2, <1>3, <1>4 DEF Shape, Applied, SelfCall, Linked, Deciding, Approving
<1> QED BY <1>4, <1>5, <1>6, StepApplied

LEMMA RequestStepApplied ==
  ASSUME AppliedInv, NEW h \in Handlers, Service!RequestStep(h)
  PROVE  AppliedInv' /\ \A g \in Handlers : g # h => call'[g] = call[g]
<1>1. PICK c : c = call[h]
  OBVIOUS
<1>2. c \in SelfCall /\ Shape(c) /\ Applied(c)
  BY <1>1, CallOf
<1>3. ASSUME c.pc \in Deciding
      PROVE  /\ c.request \in Requests /\ requests[c.request] # Service!NoRequest
             /\ requests[c.request] \in Service!Request
             /\ c = [pc |-> c.pc, request |-> c.request]
  BY <1>2, <1>3, Shapes DEF Shape, AppliedInv, Service!TypeOK
<1>4. ASSUME NEW pc \in Deciding, NEW r \in Requests, requests'[r] # Service!NoRequest
      PROVE  Shape([pc |-> pc, request |-> r])'
  BY <1>4 DEF Shape, SelfCall, Linked, Deciding, Approving
<1>5. CASE Service!submitBulkEdit(h)
  <2>1. {"field"} \in (SUBSET Service!Parts) \ {{}}
    BY DEF Service!Parts
  <2>2. Service!TypeOK' /\ Grows /\ ApprovedGrows
    BY <1>5, <2>1, NewlyRequested DEF Service!submitBulkEdit
  <2> QED BY <1>5, <2>2, AtOnceApplied DEF Service!submitBulkEdit
<1>6. ASSUME NEW r \in Requests, Service!approve(h, r) \/ Service!reject(h, r)
      PROVE  AppliedInv' /\ \A g \in Handlers : g # h => call'[g] = call[g]
  <2>1. PICK pc \in {"applyChanges", "saveRejected"} : Service!Goto(h, [pc |-> pc, request |-> r])
    BY <1>6 DEF Service!approve, Service!reject
  <2>2. UNCHANGED <<profile, documents, links, requests, landed, cut, crashes>>
        /\ requests[r] # Service!NoRequest
    BY <1>6 DEF Service!approve, Service!reject, Service!Pending, Service!NoRequest
  <2>3. Shape([pc |-> pc, request |-> r])'
    BY <1>4, <2>2 DEF Deciding, Approving
  <2>4. Applied([pc |-> pc, request |-> r])'
    BY DEF Applied
  <2>5. Service!TypeOK' /\ Grows /\ ApprovedGrows
    BY <2>2, NoneApproved DEF AppliedInv, Service!TypeOK, Grows
  <2> QED BY <2>1, <2>3, <2>4, <2>5, StepApplied
<1>7. CASE Service!applyChanges(h)
  <2>1. c.pc \in Deciding
    BY <1>1, <1>7 DEF Service!applyChanges, Service!At, Deciding, Approving
  <2>2. PICK d : d = [pc |-> "createDocuments", request |-> c.request]
    OBVIOUS
  <2>3. Service!Goto(h, d)
    BY <1>1, <1>3, <1>7, <2>1, <2>2 DEF Service!applyChanges
  <2>4. /\ UNCHANGED <<documents, links, requests, cut, crashes>>
        /\ IF "field" \in requests[c.request].parts /\ profile # "deleted"
           THEN profile' = "filled" /\ landed' = landed \cup {<<c.request, "field">>}
           ELSE UNCHANGED <<profile, landed>>
    BY <1>1, <1>7 DEF Service!applyChanges, Service!Asks
  <2>5. Service!TypeOK'
    BY <1>3, <2>1, <2>4 DEF AppliedInv, Service!TypeOK, Service!Parts
  <2>6. Grows /\ ApprovedGrows
    BY <2>4, NoneApproved DEF Grows
  <2>7. Shape(d)'
    BY <1>3, <1>4, <2>1, <2>2, <2>4 DEF Deciding, Approving
  <2>8. Applied(d)'
    BY <2>2, <2>4 DEF Applied, Landed
  <2> QED BY <2>3, <2>5, <2>6, <2>7, <2>8, StepApplied
<1>8. CASE Service!createDocuments(h)
  <2>1. c.pc \in Deciding /\ c.pc = "createDocuments"
    BY <1>1, <1>8 DEF Service!createDocuments, Service!At, Deciding, Approving
  <2>2. PICK d : d = [pc |-> "saveApproved", request |-> c.request]
    OBVIOUS
  <2>3. Service!Goto(h, d)
    BY <1>1, <1>3, <1>8, <2>1, <2>2 DEF Service!createDocuments
  <2>4. /\ UNCHANGED <<profile, links, requests, cut, crashes>>
        /\ IF "document" \in requests[c.request].parts
           THEN documents' = TRUE /\ landed' = landed \cup {<<c.request, "document">>}
           ELSE UNCHANGED <<documents, landed>>
    BY <1>1, <1>8 DEF Service!createDocuments, Service!Asks
  <2>5. Service!TypeOK'
    <3>1. documents' \in BOOLEAN
      BY <2>4 DEF AppliedInv, Service!TypeOK
    <3>2. landed' \subseteq Requests \X Service!Parts
      BY <1>3, <2>1, <2>4 DEF AppliedInv, Service!TypeOK, Service!Parts
    <3> QED BY <2>4, <3>1, <3>2 DEF AppliedInv, Service!TypeOK
  <2>6. Grows /\ ApprovedGrows
    BY <2>4, NoneApproved DEF Grows
  <2>7. Shape(d)'
    BY <1>3, <1>4, <2>1, <2>2, <2>4 DEF Deciding, Approving
  <2>8. requests[c.request].parts \subseteq {"field", "document"}
    BY <1>3, <2>1 DEF Service!Request, Service!Parts
  <2>9. Applied(d)'
    BY <1>2, <2>1, <2>2, <2>4, <2>8 DEF Applied, Landed
  <2> QED BY <2>3, <2>5, <2>6, <2>7, <2>9, StepApplied
<1>9. CASE Service!saveApproved(h)
  <2>1. c.pc \in Deciding /\ c.pc = "saveApproved"
    BY <1>1, <1>9 DEF Service!saveApproved, Service!At, Deciding, Approving
  <2>2. \A part \in requests[c.request].parts : Landed(c.request, part)
    BY <1>2, <2>1 DEF Applied
  <2>3. Service!TypeOK' /\ Grows /\ ApprovedGrows
    BY <1>1, <1>3, <1>9, <2>1, <2>2, Decided DEF Service!saveApproved
  <2> QED BY <1>9, <2>3, StepApplied, Resting DEF Service!saveApproved
<1>10. CASE Service!saveRejected(h)
  <2>1. c.pc \in Deciding
    BY <1>1, <1>10 DEF Service!saveRejected, Service!At, Deciding
  <2>2. Service!TypeOK' /\ Grows /\ ApprovedGrows
    BY <1>1, <1>3, <1>10, <2>1, Decided DEF Service!saveRejected
  <2> QED BY <1>10, <2>2, StepApplied, Resting DEF Service!saveRejected
<1> QED BY <1>5, <1>6, <1>7, <1>8, <1>9, <1>10 DEF Service!RequestStep

LEMMA HrApplied == ASSUME AppliedInv, Service!HrStep PROVE AppliedInv'
<1>1. UNCHANGED <<links, requests, call, landed, cut, crashes>>
      /\ profile' \in {"blank", "filled", "deleted"} /\ documents' \in BOOLEAN
      /\ (profile = "deleted" => profile' = "deleted")
  BY DEF Service!HrStep, Service!editProfile, Service!uploadDocument, Service!removeDocument,
         Service!deleteEmployee, AppliedInv, Service!TypeOK
<1>2. Service!TypeOK' /\ Grows
  BY <1>1 DEF AppliedInv, Service!TypeOK, Grows
<1> QED BY <1>1, <1>2, NoneApproved, AtOnceApplied

LEMMA CrashApplied == ASSUME AppliedInv, MaxCrashes \in Nat, Service!Crash PROVE AppliedInv'
<1>1. UNCHANGED <<profile, documents, links, requests, landed>> /\ crashes' \in 0..MaxCrashes
      /\ call' = [h \in Handlers |-> Service!IdleCall]
  BY DEF Service!Crash, AppliedInv, Service!TypeOK
<1>2. cut' \subseteq Links \cup Requests
  <2>1. ASSUME NEW h \in Handlers
        PROVE  /\ Service!At(h, "saveSubmitted") => call[h].link \in Links
               /\ call[h].pc \in {"createDocuments", "saveApproved"} => call[h].request \in Requests
    BY CallOf, Shapes DEF Service!At, Linked, Deciding, Approving
  <2> QED BY <2>1 DEF Service!Crash, AppliedInv, Service!TypeOK
<1>3. Service!TypeOK' /\ Grows /\ ApprovedGrows
  BY <1>1, <1>2, NoneApproved DEF AppliedInv, Service!TypeOK, Grows
<1>4. Service!ApprovedMeansApplied'
  BY <1>3, ApprovedOn DEF AppliedInv
<1>5. \A h \in Handlers : (Shape(call[h]) /\ Applied(call[h]))'
  <2>1. ASSUME NEW h \in Handlers PROVE (Shape(call[h]) /\ Applied(call[h]))'
    <3>1. call'[h] = Service!IdleCall
      BY <1>1
    <3> QED BY <3>1 DEF Service!IdleCall, Shape, Applied, SelfCall, Linked, Deciding, Approving
  <2> QED BY <2>1
<1> QED BY <1>1, <1>3, <1>4, <1>5 DEF AppliedInv, CallsKnow

THEOREM AppliedInvariant ==
  ASSUME MaxCrashes \in Nat
  PROVE  Service!Spec => []AppliedInv
<1>1. Service!Init => AppliedInv
  <2> SUFFICES ASSUME Service!Init PROVE AppliedInv
    OBVIOUS
  <2>1. Service!TypeOK
    BY DEF Service!Init, Service!TypeOK
  <2>2. \A h \in Handlers : call[h] = Service!IdleCall
    BY DEF Service!Init
  <2>3. CallsKnow
    BY <2>2, Resting DEF CallsKnow
  <2>4. Service!ApprovedMeansApplied
    BY DEF Service!Init, Service!ApprovedMeansApplied, Service!NoRequest
  <2> QED BY <2>1, <2>3, <2>4 DEF AppliedInv, Service!Init
<1>2. AppliedInv /\ [Service!Next]_Service!vars => AppliedInv'
  <2> SUFFICES ASSUME AppliedInv, [Service!Next]_Service!vars PROVE AppliedInv'
    OBVIOUS
  <2>1. ASSUME NEW h \in Handlers, Service!LinkStep(h) PROVE AppliedInv'
    BY <2>1, LinkStepApplied, SubmissionApplied
  <2>2. ASSUME NEW h \in Handlers, Service!RequestStep(h) PROVE AppliedInv'
    BY <2>2, RequestStepApplied
  <2>3. CASE UNCHANGED Service!vars
    <3>1. UNCHANGED <<profile, documents, links, requests, call, landed, cut, crashes>>
      BY <2>3 DEF Service!vars
    <3>2. Service!TypeOK' /\ Grows
      BY <3>1 DEF AppliedInv, Service!TypeOK, Grows
    <3> QED BY <3>1, <3>2, NoneApproved, AtOnceApplied
  <2> QED BY <2>1, <2>2, <2>3, HrApplied, CrashApplied DEF Service!Next
<1> QED BY <1>1, <1>2, PTL DEF Service!Spec

\* An approved request has been applied in full, whoever races with whom and
\* wherever a process dies: approve writes the status after everything else.
THEOREM ApprovedMeansAppliedAlways ==
  ASSUME MaxCrashes \in Nat
  PROVE  Service!Spec => [](Service!TypeOK /\ Service!ApprovedMeansApplied)
<1>1. AppliedInv => Service!TypeOK /\ Service!ApprovedMeansApplied
  BY DEF AppliedInv
<1> QED BY <1>1, AppliedInvariant, PTL

-----------------------------------------------------------------------------
(* EmployeeSelfService, one call at a time.                                 *)

UsedUp(l) == \E r \in Requests : requests[r] # Service!NoRequest /\ requests[r].link = l
Untouched(r) == \A part \in Service!Parts : <<r, part>> \notin landed
Applying(c) == c.pc \in {"createDocuments", "saveApproved"}

\* A submission works on a link without a request, a decision on a pending one.
Alone(c) ==
  /\ c.pc \in {"submit", "createRequest"} => c.link \in cut \/ ~UsedUp(c.link)
  /\ c.pc \in Deciding => Service!Pending(c.request)

\* A request's link exists, and gave no other request.
LinksExist ==
  \A r \in Requests : requests[r] # Service!NoRequest /\ requests[r].link # "admin" =>
    requests[r].link \in Links /\ links[requests[r].link] # Service!NoLink
\* Only the approval under way has touched the employee without its status.
Unmixed ==
  \A r \in Requests \ cut : requests[r].status \in {"none", "pending", "rejected"} =>
    Untouched(r) \/ \E h \in Handlers : Applying(call[h]) /\ call[h].request = r
\* A link with a request is closed, or its submission is about to close it.
Closing ==
  \A l \in Links \ cut : Service!Active(l) /\ UsedUp(l) =>
    \E h \in Handlers : Service!At(h, "saveSubmitted") /\ call[h].link = l

OneAtATime ==
  /\ LinksExist
  /\ Service!OneRequestPerLink
  /\ Unmixed
  /\ Closing
  /\ \A h \in Handlers : Alone(call[h])
SerialInv == AppliedInv /\ OneAtATime

\* What Goto leaves behind.
LEMMA CallsNow ==
  ASSUME AppliedInv, Service!IsSerial, NEW h \in Handlers, NEW d, Service!Goto(h, d)
  PROVE  \A g \in Handlers : g = h /\ call'[g] = d
BY DEF AppliedInv, Service!IsSerial, Service!Goto

\* Steps on links, of a call that has touched neither requests nor the employee.
LEMMA LinksAlone ==
  ASSUME SerialInv, AppliedInv', Service!IsSerial, NEW h \in Handlers, NEW d, Service!Goto(h, d),
         Grows, UNCHANGED <<requests, landed, cut>>, ~Applying(call[h]),
         \A l \in Links : Service!Active(l)' => Service!Active(l) \/ ~UsedUp(l),
         \A l \in Links : Service!At(h, "saveSubmitted") /\ call[h].link = l => ~Service!Active(l)',
         Alone(d)'
  PROVE  SerialInv'
<1>1. \A g \in Handlers : g = h /\ call'[g] = d
  BY CallsNow DEF SerialInv
<1>2. LinksExist'
  BY DEF SerialInv, OneAtATime, LinksExist, Grows
<1>3. Service!OneRequestPerLink'
  BY DEF SerialInv, OneAtATime, Service!OneRequestPerLink
<1>4. Unmixed'
  <2>1. \A r \in Requests \ cut : requests[r].status \in {"none", "pending", "rejected"} => Untouched(r)
    BY <1>1 DEF SerialInv, OneAtATime, Unmixed
  <2> QED BY <2>1 DEF Unmixed, Untouched
<1>5. Closing'
  <2> SUFFICES ASSUME NEW l \in Links \ cut, Service!Active(l)', UsedUp(l) PROVE FALSE
    BY DEF Closing, UsedUp
  <2>1. Service!At(h, "saveSubmitted") /\ call[h].link = l
    BY <1>1 DEF SerialInv, OneAtATime, Closing
  <2> QED BY <2>1 DEF Service!At
<1>6. \A g \in Handlers : Alone(call[g])'
  <2>1. ASSUME NEW g \in Handlers PROVE Alone(call[g])'
    BY <1>1 DEF Alone, Service!Pending, UsedUp
  <2> QED BY <2>1
<1> QED BY <1>2, <1>3, <1>4, <1>5, <1>6 DEF SerialInv, OneAtATime

LEMMA ExpiredOnes ==
  ASSUME AppliedInv, Service!expireStaleLinks
  PROVE  \A l \in Links : Service!Active(l)' => Service!Active(l)
<1>1. PICK due \in SUBSET {l \in Links : Service!Active(l)} :
        links' = [l \in Links |-> IF l \in due THEN [links[l] EXCEPT !.status = "expired"]
                                  ELSE links[l]]
  BY DEF Service!expireStaleLinks
<1>2. \A l \in due : [links[l] EXCEPT !.status = "expired"].status = "expired"
  <2>1. ASSUME NEW l \in due PROVE links[l] \in Service!Link
    BY <1>1 DEF AppliedInv, Service!TypeOK, Service!Active, Service!NoLink
  <2> QED BY <2>1 DEF Service!Link
<1> QED BY <1>1, <1>2 DEF Service!Active

\* A link that may still be used has no request, unless a crash cut one.
LEMMA OpenLink ==
  ASSUME SerialInv, NEW h \in Handlers, Service!IsSerial, Service!Idle(h),
         NEW l \in Links, Service!Active(l)
  PROVE  l \in cut \/ ~UsedUp(l)
BY DEF SerialInv, OneAtATime, Closing, Service!IsSerial, Service!Idle, Service!IdleCall, Service!At

LEMMA LinkStepAlone ==
  ASSUME SerialInv, AppliedInv', Service!IsSerial, "admin" \notin Links,
         NEW h \in Handlers, Service!LinkStep(h), ~Service!submitFromSelfService(h)
  PROVE  SerialInv'
<1>1. PICK c : c = call[h]
  OBVIOUS
<1>2. AppliedInv /\ c \in SelfCall /\ Shape(c) /\ Alone(c)
  BY <1>1, CallOf DEF SerialInv, OneAtATime
<1>3. ASSUME UNCHANGED <<profile, requests, landed, cut>>, NEW d, Service!Goto(h, d), Alone(d)',
             c.pc \in {"idle", "verifyOtp", "submit", "createRequest", "saveSession", "saveRevoked",
                       "revokeActive", "insertLink"},
             \A l \in Links : links[l] # Service!NoLink => links'[l] # Service!NoLink,
             \A l \in Links : Service!Active(l)' => Service!Active(l) \/ ~UsedUp(l)
      PROVE  SerialInv'
  <2>1. Grows /\ ~Applying(call[h]) /\ ~Service!At(h, "saveSubmitted")
    BY <1>1, <1>3 DEF Grows, Applying, Service!At
  <2> QED BY <1>3, <2>1, LinksAlone
<1>4. ASSUME WritesLinks PROVE \A l \in Links : links[l] # Service!NoLink => links'[l] # Service!NoLink
  BY <1>4 DEF WritesLinks
<1>5. Alone(Service!IdleCall)'
  BY DEF Alone, Service!IdleCall, Deciding, Approving
<1>6. Service!Idle(h) => c.pc = "idle" /\ c = Service!IdleCall
  BY <1>1 DEF Service!Idle, Service!IdleCall
<1>7. CASE Service!getActiveLinkForEmployee(h)
  <2>1. WritesLinks /\ UNCHANGED <<profile, documents, requests, landed, cut, crashes, call>>
        /\ \A l \in Links : Service!Active(l)' => Service!Active(l)
    BY <1>2, <1>7, Expires, ExpiredOnes DEF Service!getActiveLinkForEmployee
  <2>2. Service!Goto(h, c) /\ c = Service!IdleCall /\ c.pc = "idle"
    BY <1>1, <1>2, <1>6, <1>7, <2>1 DEF Service!getActiveLinkForEmployee, Service!Goto, AppliedInv
  <2> QED BY <1>3, <1>4, <1>5, <2>1, <2>2
<1>8. CASE Service!createLink(h)
  <2>1. PICK asks : asks = Service!Missing
    OBVIOUS
  <2>2. WritesLinks /\ UNCHANGED <<profile, requests, landed, cut>>
        /\ \A l \in Links : Service!Active(l)' => Service!Active(l)
    BY <1>2, <1>8, Expires, ExpiredOnes DEF Service!createLink
  <2>3. Service!Goto(h, [pc |-> "revokeActive", asks |-> asks]) /\ c.pc = "idle"
    BY <1>6, <1>8, <2>1 DEF Service!createLink
  <2>4. Alone([pc |-> "revokeActive", asks |-> asks])'
    BY DEF Alone, Deciding, Approving
  <2> QED BY <1>3, <1>4, <2>2, <2>3, <2>4
<1>9. CASE Service!revokeActive(h)
  <2>1. c.pc = "revokeActive" /\ c = [pc |-> "revokeActive", asks |-> c.asks]
    BY <1>1, <1>2, <1>9, Shapes DEF Service!revokeActive, Service!At
  <2>2. [c EXCEPT !.pc = "insertLink"] = [pc |-> "insertLink", asks |-> c.asks]
    BY <2>1
  <2>3. PICK due \in SUBSET Links : due = {l \in Links : Service!Active(l)}
    OBVIOUS
  <2>4. \A l \in due : links[l] # Service!NoLink
    BY <2>3 DEF Service!Active, Service!NoLink
  <2>5. links' = [l \in Links |-> IF l \in due THEN [links[l] EXCEPT !.status = "revoked"] ELSE links[l]]
    BY <1>9, <2>3 DEF Service!revokeActive
  <2>6. WritesLinks
    BY <1>2, <2>4, <2>5, LinkMarked
  <2>7. \A l \in Links : Service!Active(l)' => Service!Active(l)
    BY <2>3, <2>5 DEF Service!Active
  <2>8. Alone([pc |-> "insertLink", asks |-> c.asks])'
    BY DEF Alone, Deciding, Approving
  <2> QED BY <1>1, <1>3, <1>4, <1>9, <2>1, <2>2, <2>6, <2>7, <2>8 DEF Service!revokeActive
<1>10. CASE Service!insertLink(h)
  <2>1. PICK l : l = CHOOSE x \in Links : links[x] = Service!NoLink
    OBVIOUS
  <2>2. l \in Links /\ links[l] = Service!NoLink
    BY <1>10, <2>1 DEF Service!insertLink
  <2>3. PICK v : v = [status |-> "active", session |-> "none", asks |-> c.asks]
    OBVIOUS
  <2>4. links' = [links EXCEPT ![l] = v] /\ v # Service!NoLink
    BY <1>1, <1>10, <2>1, <2>3 DEF Service!insertLink, Service!NoLink
  <2>5. ~UsedUp(l)
    BY <2>2 DEF SerialInv, OneAtATime, LinksExist, UsedUp
  <2>6. \A k \in Links : links'[k] = IF k = l THEN v ELSE links[k]
    BY <1>2, <2>4 DEF AppliedInv, Service!TypeOK
  <2>7. \A k \in Links : /\ links[k] # Service!NoLink => links'[k] # Service!NoLink
                         /\ Service!Active(k)' => Service!Active(k) \/ ~UsedUp(k)
    BY <2>4, <2>5, <2>6 DEF Service!Active
  <2>8. c.pc = "insertLink"
    BY <1>1, <1>10 DEF Service!insertLink, Service!At
  <2> QED BY <1>3, <1>5, <1>10, <2>7, <2>8 DEF Service!insertLink
<1>11. ASSUME NEW l \in Links, Service!revokeLink(h, l) PROVE SerialInv'
  <2>1. Alone([pc |-> "saveRevoked", link |-> l])'
    BY DEF Alone, Deciding, Approving
  <2> QED BY <1>3, <1>6, <1>11, <2>1 DEF Service!revokeLink, Service!Active
<1>12. ASSUME NEW l \in Links, NEW purpose \in {"verifyOtp", "submit"}, Service!getLinkStatus(h, l, purpose)
       PROVE  SerialInv'
  <2>1. WritesLinks /\ \A k \in Links : Service!Active(k)' => Service!Active(k)
    BY <1>2, <1>12, Expires, ExpiredOnes DEF Service!getLinkStatus
  <2>2. l \in cut \/ ~UsedUp(l)
    BY <1>12, <2>1, OpenLink DEF Service!getLinkStatus, Service!Active
  <2>3. UNCHANGED <<profile, requests, landed, cut>>
    BY <1>12 DEF Service!getLinkStatus
  <2>4. Alone([pc |-> purpose, link |-> l])'
    BY <2>2, <2>3 DEF Alone, Deciding, Approving, UsedUp
  <2> QED BY <1>3, <1>4, <1>6, <1>12, <2>1, <2>3, <2>4 DEF Service!getLinkStatus
<1>13. ASSUME c.pc \in Linked
       PROVE  c.link \in Links /\ links[c.link] # Service!NoLink /\ links[c.link] \in Service!Link
  BY <1>2, <1>13, Shapes DEF Shape, AppliedInv, Service!TypeOK
<1>14. ASSUME NEW v \in Service!Link, links' = [links EXCEPT ![c.link] = v],
              c.pc \in Linked, v.status \in {"submitted", "revoked", links[c.link].status}
       PROVE  \A l \in Links : /\ links[l] # Service!NoLink => links'[l] # Service!NoLink
                               /\ Service!Active(l)' => Service!Active(l)
  <2>1. \A k \in Links : links'[k] = IF k = c.link THEN v ELSE links[k]
    BY <1>2, <1>14 DEF AppliedInv, Service!TypeOK
  <2>2. v # Service!NoLink
    BY <1>14 DEF Service!Link, Service!NoLink
  <2> QED BY <1>14, <2>1, <2>2 DEF Service!Active
<1>15. CASE Service!saveRevoked(h)
  <2>1. c.pc = "saveRevoked" /\ c.pc \in Linked
    BY <1>1, <1>15 DEF Service!saveRevoked, Service!At, Linked
  <2>2. PICK v : v = [links[c.link] EXCEPT !.status = "revoked"]
    OBVIOUS
  <2>3. v \in Service!Link /\ v.status = "revoked"
    BY <1>13, <2>1, <2>2 DEF Service!Link
  <2>4. links' = [links EXCEPT ![c.link] = v]
    BY <1>1, <1>15, <2>2 DEF Service!saveRevoked
  <2>5. \A l \in Links : /\ links[l] # Service!NoLink => links'[l] # Service!NoLink
                         /\ Service!Active(l)' => Service!Active(l)
    BY <1>14, <2>1, <2>3, <2>4
  <2> QED BY <1>3, <1>5, <1>15, <2>1, <2>5 DEF Service!saveRevoked
<1>16. CASE Service!verifyOtp(h)
  <2>1. c.pc = "verifyOtp" /\ c = [pc |-> "verifyOtp", link |-> c.link]
    BY <1>1, <1>2, <1>16, Shapes DEF Service!verifyOtp, Service!At, Linked
  <2>2. [c EXCEPT !.pc = "saveSession"] = [pc |-> "saveSession", link |-> c.link]
    BY <2>1
  <2>3. Alone([pc |-> "saveSession", link |-> c.link])'
    BY DEF Alone, Deciding, Approving
  <2> QED BY <1>1, <1>3, <1>16, <2>1, <2>2, <2>3 DEF Service!verifyOtp, Service!Active
<1>17. CASE Service!saveSession(h)
  <2>1. c.pc = "saveSession" /\ c.pc \in Linked
    BY <1>1, <1>17 DEF Service!saveSession, Service!At, Linked
  <2>2. PICK v : v = [links[c.link] EXCEPT !.session = "live"]
    OBVIOUS
  <2>3. v \in Service!Link /\ v.status = links[c.link].status
    BY <1>13, <2>1, <2>2 DEF Service!Link
  <2>4. links' = [links EXCEPT ![c.link] = v]
    BY <1>1, <1>17, <2>2 DEF Service!saveSession
  <2>5. \A l \in Links : /\ links[l] # Service!NoLink => links'[l] # Service!NoLink
                         /\ Service!Active(l)' => Service!Active(l)
    BY <1>14, <2>1, <2>3, <2>4
  <2> QED BY <1>3, <1>5, <1>17, <2>1, <2>5 DEF Service!saveSession
<1>18. ASSUME NEW parts \in SUBSET Service!Parts, Service!submit(h, parts) PROVE SerialInv'
  <2>1. c.pc = "submit"
    BY <1>1, <1>18 DEF Service!submit, Service!At
  <2>2. PICK d : d = [pc |-> "createRequest", link |-> c.link, parts |-> parts]
    OBVIOUS
  <2>3. Alone(d)'
    BY <1>2, <1>18, <2>1, <2>2 DEF Alone, Deciding, Approving, UsedUp, Service!submit
  <2>4. Service!Goto(h, d)
    BY <1>1, <1>18, <2>2 DEF Service!submit
  <2> QED BY <1>3, <1>18, <2>1, <2>3, <2>4 DEF Service!submit, Service!Active
<1>19. CASE Service!saveSubmitted(h)
  <2>1. c.pc = "saveSubmitted" /\ c.pc \in Linked
    BY <1>1, <1>19 DEF Service!saveSubmitted, Service!At, Linked
  <2>2. PICK v : v = [[links[c.link] EXCEPT !.status = "submitted"] EXCEPT !.session = "none"]
    OBVIOUS
  <2>3. v \in Service!Link /\ v.status = "submitted"
    BY <1>13, <2>1, <2>2 DEF Service!Link
  <2>4. links' = [links EXCEPT ![c.link] = v]
    BY <1>1, <1>2, <1>13, <1>19, <2>1, <2>2
       DEF Service!saveSubmitted, Service!Link, AppliedInv, Service!TypeOK
  <2>5. \A l \in Links : /\ links[l] # Service!NoLink => links'[l] # Service!NoLink
                         /\ Service!Active(l)' => Service!Active(l)
    BY <1>14, <2>1, <2>3, <2>4
  <2>6. ~Applying(call[h])
    BY <1>1, <2>1 DEF Applying
  <2>7. \A l \in Links : call[h].link = l => ~Service!Active(l)'
    BY <1>1, <1>2, <2>3, <2>4 DEF Service!Active, AppliedInv, Service!TypeOK
  <2>8. UNCHANGED <<profile, requests, landed, cut>> /\ Service!Goto(h, Service!IdleCall)
    BY <1>19 DEF Service!saveSubmitted
  <2>9. Grows
    BY <2>5, <2>8 DEF Grows
  <2> QED BY <1>5, <2>5, <2>6, <2>7, <2>8, <2>9, LinksAlone
<1>20. CASE Service!refuse(h)
  BY <1>1, <1>3, <1>5, <1>20 DEF Service!refuse, Service!Active
<1> QED BY <1>7, <1>8, <1>9, <1>10, <1>11, <1>12, <1>15, <1>16, <1>17, <1>18, <1>19, <1>20
        DEF Service!LinkStep

LEMMA RequestAlone ==
  ASSUME SerialInv, AppliedInv', Service!IsSerial, "admin" \notin Links,
         NEW h \in Handlers, ~Applying(call[h]), ~Service!At(h, "saveSubmitted"),
         NEW link \in Links \cup {"admin"}, link \in Links => links[link] # Service!NoLink,
         link = "admin" \/ link \in cut \/ ~UsedUp(link),
         NEW parts, Service!NewRequest(link, parts), UNCHANGED <<links, landed, cut>>,
         NEW d, Service!Goto(h, d), d.pc \in {"idle", "saveSubmitted"},
         link \in Links => d.pc = "saveSubmitted" /\ d.link = link
  PROVE  SerialInv'
<1>1. PICK r : r = CHOOSE x \in Requests : requests[x] = Service!NoRequest
  OBVIOUS
<1>2. PICK v : v = [status |-> "pending", link |-> link, parts |-> parts]
  OBVIOUS
<1>3. r \in Requests /\ requests[r] = Service!NoRequest
  BY <1>1 DEF Service!NewRequest
<1>4. v.status = "pending" /\ v.link = link /\ v # Service!NoRequest
  BY <1>2 DEF Service!NoRequest
<1>5. \A q \in Requests : requests'[q] = IF q = r THEN v ELSE requests[q]
  BY <1>1, <1>2 DEF Service!NewRequest, SerialInv, AppliedInv, Service!TypeOK
<1>6. \A g \in Handlers : g = h /\ call'[g] = d
  BY CallsNow DEF SerialInv
<1>7. LinksExist'
  BY <1>4, <1>5 DEF SerialInv, OneAtATime, LinksExist
<1>8. Service!OneRequestPerLink'
  <2> SUFFICES ASSUME NEW p \in Requests, NEW q \in Requests,
                      requests'[p] # Service!NoRequest, requests'[q] # Service!NoRequest,
                      requests'[p].link = requests'[q].link, requests'[p].link \notin cut \cup {"admin"}
               PROVE  p = q
    BY DEF Service!OneRequestPerLink
  <2>1. CASE p # r /\ q # r
    BY <1>5, <2>1 DEF SerialInv, OneAtATime, Service!OneRequestPerLink
  <2>2. ASSUME NEW o \in Requests, o # r, requests'[o] # Service!NoRequest, requests'[o].link = link,
               link \notin cut \cup {"admin"}
        PROVE  FALSE
    BY <1>5, <2>2 DEF UsedUp
  <2> QED BY <1>4, <1>5, <2>1, <2>2
<1>9. Unmixed'
  <2>1. \A q \in Requests \ cut : requests[q].status \in {"none", "pending", "rejected"} => Untouched(q)
    BY <1>6 DEF SerialInv, OneAtATime, Unmixed
  <2>2. requests[r].status = "none"
    BY <1>3 DEF Service!NoRequest
  <2> QED BY <1>5, <2>1, <2>2 DEF Unmixed, Untouched
<1>10. Closing'
  <2> SUFFICES ASSUME NEW l \in Links \ cut, Service!Active(l), UsedUp(l)'
               PROVE  d.pc = "saveSubmitted" /\ d.link = l
    BY <1>6 DEF Closing, Service!Active, Service!At
  <2>1. ~UsedUp(l)
    BY <1>6 DEF SerialInv, OneAtATime, Closing
  <2>2. l = link
    BY <1>4, <1>5, <2>1 DEF UsedUp
  <2> QED BY <2>2
<1>11. \A g \in Handlers : Alone(call[g])'
  BY <1>6 DEF Alone, Deciding, Approving
<1> QED BY <1>7, <1>8, <1>9, <1>10, <1>11 DEF SerialInv, OneAtATime

LEMMA SubmissionAlone ==
  ASSUME SerialInv, AppliedInv', Service!IsSerial, "admin" \notin Links,
         NEW h \in Handlers, Service!submitFromSelfService(h)
  PROVE  SerialInv'
<1>1. PICK c : c = call[h]
  OBVIOUS
<1>2. AppliedInv /\ Alone(c) /\ c.pc = "createRequest"
  BY <1>1 DEF SerialInv, OneAtATime, Service!submitFromSelfService, Service!At
<1>3. c.link \in Links /\ links[c.link] # Service!NoLink
  BY <1>1, <1>2, CallOf, Shapes DEF Linked, Shape
<1>4. c.link \in cut \/ ~UsedUp(c.link)
  BY <1>2 DEF Alone
<1>5. PICK d : d = [pc |-> "saveSubmitted", link |-> c.link]
  OBVIOUS
<1>6. Service!NewRequest(c.link, c.parts) /\ Service!Goto(h, d) /\ UNCHANGED <<links, landed, cut>>
  BY <1>1, <1>5 DEF Service!submitFromSelfService
<1>7. d.pc = "saveSubmitted" /\ d.link = c.link
  BY <1>5
<1>8. ~Applying(call[h]) /\ ~Service!At(h, "saveSubmitted")
  BY <1>1, <1>2 DEF Applying, Service!At
<1>9. PICK l, p : l = c.link /\ p = c.parts
  OBVIOUS
<1>10. /\ l \in Links \cup {"admin"} /\ links[l] # Service!NoLink /\ (l \in cut \/ ~UsedUp(l))
       /\ Service!NewRequest(l, p) /\ d.link = l
  BY <1>3, <1>4, <1>6, <1>7, <1>9
<1> QED BY <1>6, <1>7, <1>8, <1>10, RequestAlone

\* Steps of a decision: the links stay, and so do the requests and what has
\* landed of them, but for the request decided on.
LEMMA DecisionAlone ==
  ASSUME SerialInv, AppliedInv', Service!IsSerial, NEW h \in Handlers, NEW d, Service!Goto(h, d),
         ~Service!At(h, "saveSubmitted"), UNCHANGED <<links, cut>>,
         NEW r \in Requests, requests[r] # Service!NoRequest,
         Applying(call[h]) => call[h].request = r,
         \A q \in Requests : /\ q # r => requests'[q] = requests[q]
                             /\ requests'[q] # Service!NoRequest <=> requests[q] # Service!NoRequest
                             /\ requests[q] # Service!NoRequest => requests'[q].link = requests[q].link
                             /\ q # r => \A part : <<q, part>> \in landed' <=> <<q, part>> \in landed,
         requests'[r].status = "approved" \/ r \in cut \/ Untouched(r)' \/ (Applying(d) /\ d.request = r),
         d.pc \in Deciding => d.request = r /\ requests'[r].status = "pending",
         d.pc \notin {"submit", "createRequest"}
  PROVE  SerialInv'
<1>1. \A g \in Handlers : g = h /\ call'[g] = d
  BY CallsNow DEF SerialInv
<1>2. \A l : UsedUp(l)' <=> UsedUp(l)
  BY DEF UsedUp
<1>3. LinksExist'
  BY DEF SerialInv, OneAtATime, LinksExist
<1>4. Service!OneRequestPerLink'
  BY DEF SerialInv, OneAtATime, Service!OneRequestPerLink
<1>5. Unmixed'
  <2>1. ASSUME NEW q \in Requests \ cut, q # r, requests'[q].status \in {"none", "pending", "rejected"}
        PROVE  Untouched(q)'
    <3>1. Untouched(q)
      BY <1>1, <2>1 DEF SerialInv, OneAtATime, Unmixed
    <3> QED BY <2>1, <3>1 DEF Untouched
  <2> QED BY <1>1, <2>1 DEF Unmixed
<1>6. Closing'
  BY <1>1, <1>2 DEF SerialInv, OneAtATime, Closing, Service!Active
<1>7. \A g \in Handlers : Alone(call[g])'
  BY <1>1 DEF Alone, Service!Pending
<1> QED BY <1>3, <1>4, <1>5, <1>6, <1>7 DEF SerialInv, OneAtATime

LEMMA RequestStepAlone ==
  ASSUME SerialInv, AppliedInv', Service!IsSerial, "admin" \notin Links,
         NEW h \in Handlers, Service!RequestStep(h)
  PROVE  SerialInv'
<1>1. PICK c : c = call[h]
  OBVIOUS
<1>2. AppliedInv /\ c \in SelfCall /\ Shape(c) /\ Applied(c) /\ Alone(c)
  BY <1>1, CallOf DEF SerialInv, OneAtATime
<1>3. ASSUME c.pc \in Deciding
      PROVE  /\ c.request \in Requests /\ requests[c.request] \in Service!Request
             /\ requests[c.request] # Service!NoRequest
             /\ requests[c.request].status = "pending"
             /\ c = [pc |-> c.pc, request |-> c.request]
             /\ ~Service!At(h, "saveSubmitted")
  BY <1>1, <1>2, <1>3, Shapes
     DEF Shape, Alone, Service!Pending, AppliedInv, Service!TypeOK, Service!At, Deciding, Approving
\* Before it applies anything, the request a call works on is untouched.
<1>4. ASSUME NEW r \in Requests, requests[r].status = "pending", ~Applying(c)
      PROVE  r \in cut \/ Untouched(r)
  BY <1>1, <1>4 DEF SerialInv, OneAtATime, Unmixed, Service!IsSerial
<1>5. CASE Service!submitBulkEdit(h)
  <2>1. c = Service!IdleCall /\ c.pc = "idle"
    BY <1>1, <1>5 DEF Service!submitBulkEdit, Service!Idle, Service!IdleCall
  <2>2. Service!Goto(h, c)
    BY <1>1, <1>2, <1>5 DEF Service!submitBulkEdit, Service!Goto, AppliedInv
  <2>3. ~Applying(call[h]) /\ ~Service!At(h, "saveSubmitted")
    BY <1>1, <2>1 DEF Applying, Service!At
  <2>4. Service!NewRequest("admin", {"field"}) /\ UNCHANGED <<links, landed, cut>>
    BY <1>5 DEF Service!submitBulkEdit
  <2> QED BY <2>1, <2>2, <2>3, <2>4, RequestAlone
<1>6. ASSUME NEW r \in Requests, Service!approve(h, r) \/ Service!reject(h, r)
      PROVE  SerialInv'
  <2>1. PICK pc \in {"applyChanges", "saveRejected"} : Service!Goto(h, [pc |-> pc, request |-> r])
    BY <1>6 DEF Service!approve, Service!reject
  <2>2. UNCHANGED <<links, requests, landed, cut>> /\ requests[r].status = "pending" /\ c.pc = "idle"
    BY <1>1, <1>6 DEF Service!approve, Service!reject, Service!Pending, Service!Idle, Service!IdleCall
  <2>3. requests[r] # Service!NoRequest /\ ~Applying(call[h]) /\ ~Service!At(h, "saveSubmitted")
    BY <1>1, <2>2 DEF Service!NoRequest, Applying, Service!At
  <2>4. r \in cut \/ Untouched(r)'
    BY <1>1, <1>4, <2>2, <2>3 DEF Untouched
  <2>5. PICK d : d = [pc |-> pc, request |-> r]
    OBVIOUS
  <2>6. d.request = r /\ d.pc \notin {"submit", "createRequest"} /\ Service!Goto(h, d)
    BY <2>1, <2>5
  <2> QED BY <2>2, <2>3, <2>4, <2>6, DecisionAlone
<1>7. CASE Service!applyChanges(h)
  <2>1. c.pc = "applyChanges" /\ c.pc \in Deciding
    BY <1>1, <1>7 DEF Service!applyChanges, Service!At, Deciding, Approving
  <2>2. PICK d, r : d = [pc |-> "createDocuments", request |-> c.request] /\ r = c.request
    OBVIOUS
  <2>3. Service!Goto(h, d) /\ d.pc = "createDocuments" /\ d.request = r /\ Applying(d)
    BY <1>1, <1>3, <1>7, <2>1, <2>2 DEF Service!applyChanges, Applying
  <2>4. UNCHANGED <<links, requests, cut>> /\ landed' \in {landed, landed \cup {<<r, "field">>}}
    BY <1>1, <1>7, <2>2 DEF Service!applyChanges
  <2>5. r \in Requests /\ requests[r] # Service!NoRequest /\ requests[r].status = "pending"
        /\ ~Service!At(h, "saveSubmitted") /\ ~Applying(call[h])
    BY <1>1, <1>3, <2>1, <2>2 DEF Applying
  <2> QED BY <2>3, <2>4, <2>5, DecisionAlone
<1>8. CASE Service!createDocuments(h)
  <2>1. c.pc = "createDocuments" /\ c.pc \in Deciding
    BY <1>1, <1>8 DEF Service!createDocuments, Service!At, Deciding, Approving
  <2>2. PICK d, r : d = [pc |-> "saveApproved", request |-> c.request] /\ r = c.request
    OBVIOUS
  <2>3. Service!Goto(h, d) /\ d.pc = "saveApproved" /\ d.request = r /\ Applying(d)
    BY <1>1, <1>3, <1>8, <2>1, <2>2 DEF Service!createDocuments, Applying
  <2>4. UNCHANGED <<links, requests, cut>> /\ landed' \in {landed, landed \cup {<<r, "document">>}}
    BY <1>1, <1>8, <2>2 DEF Service!createDocuments
  <2>5. r \in Requests /\ requests[r] # Service!NoRequest /\ requests[r].status = "pending"
        /\ ~Service!At(h, "saveSubmitted") /\ call[h].request = r
    BY <1>1, <1>3, <2>1, <2>2
  <2> QED BY <2>3, <2>4, <2>5, DecisionAlone
<1>9. CASE Service!saveApproved(h) \/ Service!saveRejected(h)
  <2>1. c.pc \in {"saveApproved", "saveRejected"} /\ c.pc \in Deciding
    BY <1>1, <1>9 DEF Service!saveApproved, Service!saveRejected, Service!At, Deciding, Approving
  <2>2. PICK r, s : /\ r = c.request
                    /\ s = IF c.pc = "saveApproved" THEN "approved" ELSE "rejected"
    OBVIOUS
  <2>3. /\ requests' = [requests EXCEPT ![r].status = s]
        /\ UNCHANGED <<links, landed, cut>> /\ Service!Goto(h, Service!IdleCall)
    BY <1>1, <1>9, <2>2 DEF Service!saveApproved, Service!saveRejected, Service!At
  <2>4. r \in Requests /\ requests[r] \in Service!Request /\ requests[r].status = "pending"
        /\ requests[r] # Service!NoRequest /\ ~Service!At(h, "saveSubmitted") /\ call[h].request = r
    BY <1>1, <1>3, <2>1, <2>2
  <2>5. PICK v : v = [requests[r] EXCEPT !.status = s]
    OBVIOUS
  <2>6. v.status = s /\ v.link = requests[r].link /\ v # Service!NoRequest
    BY <2>2, <2>4, <2>5 DEF Service!Request, Service!NoRequest
  <2>7. \A q \in Requests : requests'[q] = IF q = r THEN v ELSE requests[q]
    BY <1>2, <2>3, <2>4, <2>5 DEF AppliedInv, Service!TypeOK
  <2>8. s = "approved" \/ r \in cut \/ Untouched(r)'
    <3>1. CASE c.pc = "saveApproved"
      BY <2>2, <3>1
    <3>2. CASE c.pc # "saveApproved"
      BY <1>4, <2>1, <2>3, <2>4, <3>2 DEF Applying, Untouched
    <3> QED BY <3>1, <3>2
  <2>9. PICK d : d = Service!IdleCall
    OBVIOUS
  <2>10. d.pc \notin Deciding /\ d.pc \notin {"submit", "createRequest"} /\ Service!Goto(h, d)
    BY <2>3, <2>9 DEF Service!IdleCall, Deciding, Approving
  <2>11. \A q \in Requests :
            /\ q # r => requests'[q] = requests[q]
            /\ requests'[q] # Service!NoRequest <=> requests[q] # Service!NoRequest
            /\ requests[q] # Service!NoRequest => requests'[q].link = requests[q].link
            /\ q # r => \A part : <<q, part>> \in landed' <=> <<q, part>> \in landed
    BY <2>3, <2>4, <2>6, <2>7
  <2>12. requests'[r].status = "approved" \/ r \in cut \/ Untouched(r)'
    BY <2>4, <2>6, <2>7, <2>8
  <2>13. UNCHANGED <<links, cut>> /\ r \in Requests /\ requests[r] # Service!NoRequest
         /\ ~Service!At(h, "saveSubmitted") /\ call[h].request = r
    BY <2>3, <2>4
  <2> QED BY <2>10, <2>11, <2>12, <2>13, DecisionAlone
<1> QED BY <1>5, <1>6, <1>7, <1>8, <1>9 DEF Service!RequestStep

LEMMA HrAlone ==
  ASSUME SerialInv, AppliedInv', Service!HrStep \/ UNCHANGED Service!vars
  PROVE  SerialInv'
<1>1. UNCHANGED <<links, requests, call, landed, cut>>
  BY DEF Service!HrStep, Service!editProfile, Service!uploadDocument, Service!removeDocument,
         Service!deleteEmployee, Service!vars
<1> QED BY <1>1
        DEF SerialInv, OneAtATime, LinksExist, Service!OneRequestPerLink, Unmixed, Untouched, Closing,
            Alone, UsedUp, Service!Active, Service!At, Service!Pending, Service!IsSerial

LEMMA CrashAlone ==
  ASSUME SerialInv, AppliedInv', Service!IsSerial, Service!Crash
  PROVE  SerialInv'
<1>1. UNCHANGED <<links, requests, landed>> /\ cut \subseteq cut'
      /\ \A h \in Handlers : call'[h] = Service!IdleCall
  BY DEF Service!Crash
<1>2. \A h \in Handlers : /\ Service!At(h, "saveSubmitted") => call[h].link \in cut'
                          /\ Applying(call[h]) => call[h].request \in cut'
  BY DEF Service!Crash, Service!At, Applying
<1>3. LinksExist'
  BY <1>1 DEF SerialInv, OneAtATime, LinksExist
<1>4. Service!OneRequestPerLink'
  BY <1>1 DEF SerialInv, OneAtATime, Service!OneRequestPerLink
<1>5. Unmixed'
  BY <1>1, <1>2 DEF SerialInv, OneAtATime, Unmixed, Untouched
<1>6. Closing'
  BY <1>1, <1>2 DEF SerialInv, OneAtATime, Closing, UsedUp, Service!Active
<1>7. \A h \in Handlers : Alone(call[h])'
  BY <1>1 DEF Alone, Service!IdleCall, Deciding, Approving
<1> QED BY <1>3, <1>4, <1>5, <1>6, <1>7 DEF SerialInv, OneAtATime

\* One call at a time, a link gives one change request and what is rejected
\* has not reached the employee, unless a crash cut the call that decided it.
\* An administrator's own edits carry no link.
THEOREM OneRequestPerLinkAlways ==
  ASSUME Service!IsSerial, "admin" \notin Links, MaxCrashes \in Nat
  PROVE  Service!Spec => [](Service!OneRequestPerLink /\ Service!RejectedIsUntouched)
<1>1. Service!Init /\ AppliedInv => SerialInv
  <2> SUFFICES ASSUME Service!Init, AppliedInv PROVE SerialInv
    OBVIOUS
  <2>1. /\ \A r \in Requests : requests[r] = Service!NoRequest
        /\ \A l \in Links : links[l] = Service!NoLink
        /\ \A h \in Handlers : call[h] = Service!IdleCall
        /\ landed = {}
    BY DEF Service!Init
  <2>2. LinksExist /\ Service!OneRequestPerLink
    BY <2>1 DEF LinksExist, Service!OneRequestPerLink
  <2>3. Unmixed /\ Closing
    BY <2>1 DEF Unmixed, Untouched, Closing, Service!Active, Service!NoLink
  <2>4. \A h \in Handlers : Alone(call[h])
    BY <2>1 DEF Alone, Service!IdleCall, Deciding, Approving
  <2> QED BY <2>2, <2>3, <2>4 DEF SerialInv, OneAtATime
<1>2. SerialInv /\ AppliedInv' /\ [Service!Next]_Service!vars => SerialInv'
  <2> SUFFICES ASSUME SerialInv, AppliedInv', [Service!Next]_Service!vars PROVE SerialInv'
    OBVIOUS
  <2>1. ASSUME NEW h \in Handlers, Service!LinkStep(h) \/ Service!RequestStep(h) PROVE SerialInv'
    BY <2>1, LinkStepAlone, SubmissionAlone, RequestStepAlone
  <2> QED BY <2>1, HrAlone, CrashAlone DEF Service!Next
<1>3. SerialInv => Service!OneRequestPerLink /\ Service!RejectedIsUntouched
  <2> SUFFICES ASSUME SerialInv, NEW r \in Requests \ cut, requests[r].status = "rejected"
               PROVE  Untouched(r)
    BY DEF SerialInv, OneAtATime, Service!RejectedIsUntouched, Untouched
  <2>1. ASSUME NEW h \in Handlers, Applying(call[h]), call[h].request = r PROVE FALSE
    BY <2>1 DEF SerialInv, OneAtATime, Alone, Applying, Service!Pending, Deciding, Approving
  <2> QED BY <2>1 DEF SerialInv, OneAtATime, Unmixed
<1> QED BY <1>1, <1>2, <1>3, AppliedInvariant, PTL DEF Service!Spec

-----------------------------------------------------------------------------
(* LoginLock: an address whose requests come one at a time.                  *)

Pending == {"failed", "count"}
Guessing == {"verify", "failed", "count", "lock"}
Login == [pc |-> "login"]
Verify == [pc |-> "verify"]

LockTypes ==
    /\ attempt \in [known: BOOLEAN, failures: Nat, lockedUntil: {"null", "future", "past"}]
    /\ loginMaxAttempts \in Lock!Limits
    /\ wrong \in Nat
    /\ most \in Lock!Limits
    /\ crashes \in Nat

\* Where a call goes on after it has lifted a block or a lock that passed.
LockCalls ==
    /\ DOMAIN call = Handlers \cup Administrators
    /\ \A a \in Administrators :
        /\ call[a].pc \in {"idle", "unblock", "forget"}
        /\ call[a].pc # "idle" => call[a].then = Lock!IdleCall
    /\ call[me].pc \in {"unblock", "forget"} => call[me].then \in {Login, Lock!IdleCall}
    /\ Lock!At(me, "reset") => call[me].then \in {Login, Verify}
    /\ Lock!At(me, "count") => call[me].maxAttempts \in Lock!Limits

\* Every wrong password is in the row, but for the one under way and those a
\* crash kept out of it.
Counted ==
    attempt.lockedUntil = "null" =>
        wrong <= attempt.failures + crashes + (IF call[me].pc \in Pending THEN 1 ELSE 0)

\* A request that guesses has found no lock, and none appears before it is done.
NoLockYet ==
    /\ call[me].pc \in Guessing => attempt.lockedUntil = "null"
    /\ Lock!At(me, "lock") /\ ~attempt.known => wrong = 0
    /\ Lock!At(me, "reset") \/ attempt.lockedUntil = "past" => wrong = 0

\* There is room for one guess more unless one is under way or has led to a lock.
GuessLeft ==
    /\ wrong <= most + crashes
    /\ attempt.lockedUntil = "null" /\ call[me].pc \notin {"failed", "count", "lock"}
        => wrong + 1 <= most + crashes

\* The limit in force, or the one the request has read, is one of those that count.
Limited ==
    /\ loginMaxAttempts <= most
    /\ Lock!At(me, "count") => wrong = 0 \/ call[me].maxAttempts <= most

LockInv == LockTypes /\ LockCalls /\ Counted /\ NoLockYet /\ GuessLeft /\ Limited

\* Every step of the one request, of an administrator, of time and of a crash
\* keeps the invariant.
LEMMA LockStep ==
    ASSUME Handlers = {me}, me \notin Administrators, MaxAttempts \in Nat,
           LockInv, [Lock!Next]_Lock!vars
    PROVE  LockInv'
<1> USE DEF LockInv, LockTypes, LockCalls, Counted, NoLockYet, GuessLeft, Limited, Pending, Guessing,
            Login, Verify, Lock!At, Lock!Goto, Lock!Idle, Lock!IdleCall, Lock!Limits, Lock!history
<1>1. ASSUME NEW h \in Handlers \cup Administrators, NEW intent \in Lock!Intents,
             NEW country \in Lock!Countries, Lock!evaluateRequest(h, intent, country)
      PROVE  LockInv'
  BY <1>1 DEF Lock!evaluateRequest, Lock!Admitted
<1>2. ASSUME NEW h \in Handlers \cup Administrators, Lock!isIpBlocked(h) PROVE LockInv'
  BY <1>2 DEF Lock!isIpBlocked, Lock!Admitted
<1>3. ASSUME NEW h \in Handlers \cup Administrators, Lock!blockIp(h) PROVE LockInv'
  BY <1>3 DEF Lock!blockIp
<1>4. ASSUME NEW h \in Handlers \cup Administrators, Lock!unblockIp(h) PROVE LockInv'
  BY <1>4 DEF Lock!unblockIp
<1>5. ASSUME NEW h \in Handlers \cup Administrators, Lock!forgetAttempts(h) PROVE LockInv'
  BY <1>5 DEF Lock!forgetAttempts, Lock!Forgive, Lock!NoAttempt
<1>6. ASSUME NEW h \in Handlers \cup Administrators, Lock!isLoginLocked(h) PROVE LockInv'
  BY <1>6 DEF Lock!isLoginLocked, Lock!Past
<1>7. ASSUME NEW h \in Handlers \cup Administrators, Lock!resetFailures(h) PROVE LockInv'
  <2>1. h = me /\ wrong = 0
    BY <1>7 DEF Lock!resetFailures
  <2>2. /\ attempt'.known \in BOOLEAN /\ attempt'.failures = 0 /\ attempt'.lockedUntil = "null"
        /\ attempt' \in [known: BOOLEAN, failures: Nat, lockedUntil: {"null", "future", "past"}]
    BY <1>7 DEF Lock!resetFailures
  <2>3. /\ call'[me] \in {Login, Verify}
        /\ DOMAIN call' = Handlers \cup Administrators
        /\ \A a \in Administrators : call'[a] = call[a]
    BY <1>7, <2>1 DEF Lock!resetFailures
  <2>4. UNCHANGED <<loginMaxAttempts, wrong, most, crashes>>
    BY <1>7 DEF Lock!resetFailures
  <2> QED BY <2>1, <2>2, <2>3, <2>4
<1>8. ASSUME NEW h \in Handlers \cup Administrators, Lock!wrongPassword(h) PROVE LockInv'
  BY <1>8 DEF Lock!wrongPassword
<1>9. ASSUME NEW h \in Handlers \cup Administrators, Lock!rightPassword(h) PROVE LockInv'
  BY <1>9 DEF Lock!rightPassword
<1>10. ASSUME NEW h \in Handlers \cup Administrators, Lock!clearLoginFailures(h) PROVE LockInv'
  BY <1>10 DEF Lock!clearLoginFailures, Lock!Forgive, Lock!NoAttempt
<1>11. ASSUME NEW h \in Handlers \cup Administrators, Lock!recordLoginFailure(h) PROVE LockInv'
  BY <1>11 DEF Lock!recordLoginFailure
<1>12. ASSUME NEW h \in Handlers \cup Administrators, Lock!countFailure(h) PROVE LockInv'
  <2> DEFINE full == attempt.failures + 1 >= call[me].maxAttempts
  <2>1. h = me
    BY <1>12 DEF Lock!countFailure, Lock!CountedUpTo
  <2>2. /\ attempt'.known = TRUE /\ attempt'.failures = attempt.failures + 1
        /\ attempt'.lockedUntil = attempt.lockedUntil
        /\ attempt' \in [known: BOOLEAN, failures: Nat, lockedUntil: {"null", "future", "past"}]
    <3>1. attempt' = [known |-> TRUE, failures |-> attempt.failures + 1,
                      lockedUntil |-> attempt.lockedUntil]
      BY <1>12, Zenon DEF Lock!countFailure, Lock!CountedUpTo
    <3> QED BY <3>1
  <2>3. /\ call'[me].pc = IF full THEN "lock" ELSE "idle"
        /\ DOMAIN call' = Handlers \cup Administrators
        /\ \A a \in Administrators : call'[a] = call[a]
    BY <1>12, <2>1 DEF Lock!countFailure, Lock!CountedUpTo
  <2>4. UNCHANGED <<loginMaxAttempts, wrong, most, crashes>>
    BY <1>12 DEF Lock!countFailure, Lock!CountedUpTo
  <2>5. Lock!At(me, "count")
    BY <1>12, <2>1 DEF Lock!countFailure, Lock!CountedUpTo
  <2>6. wrong <= attempt'.failures + crashes
    BY <2>2, <2>5
  <2>7. ~full => wrong + 1 <= most + crashes
    BY <2>2, <2>5, <2>6
  <2> HIDE DEF full
  <2> QED BY <2>2, <2>3, <2>4, <2>5, <2>6, <2>7
<1>13. ASSUME NEW h \in Handlers \cup Administrators, Lock!lockAddress(h) PROVE LockInv'
  BY <1>13 DEF Lock!lockAddress
<1>14. CASE Lock!LockPasses
  BY <1>14 DEF Lock!LockPasses, Lock!Forgive
<1>15. CASE Lock!blockByHand \/ Lock!removeWhitelist
  BY <1>15 DEF Lock!blockByHand, Lock!removeWhitelist
<1>16. ASSUME NEW h \in Handlers \cup Administrators, Lock!unblockByHand(h) \/ Lock!addWhitelist(h)
       PROVE  LockInv'
  BY <1>16 DEF Lock!unblockByHand, Lock!addWhitelist
<1>17. ASSUME NEW limit \in Lock!Limits, Lock!updateSettings(limit) PROVE LockInv'
  BY <1>17 DEF Lock!updateSettings, Lock!Upper
<1>18. CASE Lock!Crash
  BY <1>18 DEF Lock!Crash
<1>19. CASE UNCHANGED Lock!vars
  BY <1>19 DEF Lock!vars
<1> QED
  BY <1>1, <1>2, <1>3, <1>4, <1>5, <1>6, <1>7, <1>8, <1>9, <1>10, <1>11, <1>12, <1>13,
     <1>14, <1>15, <1>16, <1>17, <1>18, <1>19 DEF Lock!Next, Lock!Handle

\* One address is told right from wrong at most as often as the settings allow
\* (recordLoginFailure, isLoginLocked), plus what a crash kept uncounted, for
\* every limit, every number of administrators and every number of crashes.
THEOREM GuessesAreBoundedAlways ==
    ASSUME Handlers = {me}, me \notin Administrators, MaxAttempts \in Nat
    PROVE  Lock!Spec => []Lock!GuessesAreBounded
<1>1. Lock!Init => LockInv
  BY DEF Lock!Init, LockInv, LockTypes, LockCalls, Counted, NoLockYet, GuessLeft, Limited, Pending, Guessing,
         Lock!At, Lock!IdleCall, Lock!Limits, Lock!NoAttempt
<1>2. LockInv /\ [Lock!Next]_Lock!vars => LockInv'
  BY LockStep
<1>3. LockInv => Lock!GuessesAreBounded
  BY DEF LockInv, GuessLeft, Lock!GuessesAreBounded
<1> QED BY <1>1, <1>2, <1>3, PTL DEF Lock!Spec

-----------------------------------------------------------------------------
(* AdminAccess: any number of requests at once.                              *)

Secrets == 0..MaxPasswords
SigningIn == [pc: {"upgrade", "session"}, password: Secrets, locations: Access!Locations]
AccessCall ==
  {Access!IdleCall} \cup SigningIn
    \cup [pc: {"code"}, locations: Access!Locations]
    \cup [pc: {"redeem", "used"}, c: Codes]
    \cup [pc: {"join"}, c: Codes, password: Secrets, locations: Access!Locations]
    \cup [pc: {"sync"}, to: Access!Locations, capitals: BOOLEAN]
    \cup [pc: {"set", "expired"}, reset: BOOLEAN, elsewhere: BOOLEAN]
    \cup [pc: {"clear", "destroy"}, elsewhere: BOOLEAN]
AccessTypes ==
  /\ Access!TypeOK
  /\ DOMAIN call = Handlers
  /\ \A h \in Handlers : call[h] \in AccessCall

\* A change of password or a deletion that has yet to destroy the sessions.
Purging == \E h \in Handlers : call[h].pc \in {"clear", "destroy"}
Syncing == \E h \in Handlers : call[h].pc = "sync"
Current == {s \in Access!Live : ~session[s].late}

\* Sessions have the password of the account unless they are about to go, ...
PasswordsAgree ==
  Purging \/ \A s \in Current : account.known /\ session[s].password = account.password

\* ... and its locations, but for those made with older ones, unless they are
\* about to get them: from the account as it is, for only one update is under way.
LocationsAgree ==
  mixed \/ /\ \A h \in Handlers :
                call[h].pc = "sync" => call[h].to = account.locations /\ ~call[h].capitals
           /\ \/ Purging \/ Syncing
              \/ \A s \in Current : session[s].old \/ session[s].locations = account.locations

AccessInv == AccessTypes /\ (cut \/ (PasswordsAgree /\ LocationsAgree))

\* What a call remembers, by where it stands.
LEMMA AccessFields ==
  ASSUME NEW c \in AccessCall
  PROVE  /\ c.pc \in {"upgrade", "session"} => c \in SigningIn
         /\ c.pc \in {"code", "join"} => c.locations \in Access!Locations
         /\ c.pc = "join" => c.password \in Secrets
         /\ c.pc \in {"redeem", "used", "join"} => c.c \in Codes
         /\ c.pc = "sync" => c.to \in Access!Locations /\ c.capitals \in BOOLEAN
         /\ c.pc \in {"set", "expired"} => c.reset \in BOOLEAN
         /\ c.pc \in {"set", "expired", "clear", "destroy"} => c.elsewhere \in BOOLEAN
BY DEF AccessCall, SigningIn, Access!IdleCall

LEMMA AccessGoto ==
  ASSUME AccessTypes, NEW h \in Handlers, NEW c \in AccessCall, Access!Goto(h, c), Access!TypeOK'
  PROVE  AccessTypes'
BY DEF AccessTypes, Access!Goto

LEMMA AccessTyped ==
  ASSUME MaxPasswords \in Nat, AccessTypes, [Access!Next]_Access!vars
  PROVE  AccessTypes'
<1>0. /\ Access!IdleCall \in AccessCall
      /\ account \in Access!Admin /\ session \in [Sessions -> Access!Session \cup {Access!NoSession}]
      /\ code \in [Codes -> Access!ConnectionCode] /\ mixed \in BOOLEAN /\ cut \in BOOLEAN
      /\ \A h \in Handlers : call[h] \in AccessCall
  BY DEF AccessTypes, AccessCall, Access!TypeOK
<1>t. /\ account.known \in BOOLEAN /\ account.password \in Secrets /\ account.locations \in Access!Locations
      /\ \A s \in Access!Live : /\ session[s] \in Access!Session
                              /\ session[s].password \in Secrets /\ session[s].locations \in Access!Locations
      /\ \A key \in Codes : code[key].locations \in Access!Locations
  <2>1. \A r \in Access!Admin : r.known \in BOOLEAN /\ r.password \in Secrets /\ r.locations \in Access!Locations
    BY DEF Access!Admin, Secrets
  <2>2. \A r \in Access!Session : r.password \in Secrets /\ r.locations \in Access!Locations
    BY DEF Access!Session, Secrets
  <2>3. \A r \in Access!ConnectionCode : r.locations \in Access!Locations
    BY DEF Access!ConnectionCode
  <2>4. \A s \in Access!Live : session[s] \in Access!Session
    BY <1>0 DEF Access!Live, Access!NoSession
  <2>5. Access!Live \subseteq Sessions
    BY DEF Access!Live
  <2> QED BY <1>0, <2>1, <2>2, <2>3, <2>4, <2>5
<1>1. ASSUME NEW h \in Handlers, Access!login(h) PROVE AccessTypes'
  <2>1. Access!TypeOK'
    BY <1>0, <1>1 DEF Access!login, Access!TypeOK
  <2>2. [pc |-> IF account.hashed THEN "session" ELSE "upgrade",
         password |-> account.password, locations |-> account.locations] \in AccessCall
    BY <1>t DEF AccessCall, SigningIn
  <2> QED BY <1>1, <2>1, <2>2, AccessGoto DEF Access!login
<1>2. ASSUME NEW h \in Handlers, Access!upgradePassword(h) PROVE AccessTypes'
  <2>1. call[h] \in SigningIn
    BY <1>0, <1>2, AccessFields DEF Access!upgradePassword, Access!At
  <2>2. call[h].password \in Secrets /\ [call[h] EXCEPT !.pc = "session"] \in AccessCall
    BY <2>1 DEF SigningIn, AccessCall
  <2>3. account' \in Access!Admin
    BY <1>0, <1>2, <2>2 DEF Access!upgradePassword, Access!Admin, Secrets
  <2>4. cut' \in BOOLEAN
    BY <1>0, <1>2 DEF Access!upgradePassword
  <2>5. Access!TypeOK'
    BY <1>0, <1>2, <2>3, <2>4 DEF Access!upgradePassword, Access!TypeOK
  <2> QED BY <1>2, <2>2, <2>5, AccessGoto DEF Access!upgradePassword
<1>3. ASSUME NEW h \in Handlers, Access!findCreator(h) PROVE AccessTypes'
  <2> DEFINE k == code[call[h].c]
             c == IF account.known /\ ~account.disabled
                  THEN [pc |-> "join", c |-> call[h].c, password |-> account.password,
                        locations |-> IF k.locations = "all" THEN account.locations ELSE k.locations]
                  ELSE Access!IdleCall
  <2>1. call[h].c \in Codes
    BY <1>0, <1>3, AccessFields DEF Access!findCreator, Access!At
  <2>2. /\ account.password \in Secrets
        /\ (IF k.locations = "all" THEN account.locations ELSE k.locations) \in Access!Locations
    <3>1. k.locations \in Access!Locations
      BY <1>t, <2>1
    <3> HIDE DEF k
    <3> QED BY <1>t, <3>1
  <2>5. [pc |-> "join", c |-> call[h].c, password |-> account.password,
         locations |-> IF k.locations = "all" THEN account.locations ELSE k.locations] \in AccessCall
    BY <2>1, <2>2 DEF AccessCall
  <2>6. c \in AccessCall
    BY <1>0, <2>5
  <2>3. Access!TypeOK'
    BY <1>0, <1>3 DEF Access!findCreator, Access!TypeOK
  <2>4. Access!Goto(h, c)
    BY <1>3 DEF Access!findCreator
  <2> QED BY <2>6, <2>3, <2>4, AccessGoto
<1>4. ASSUME NEW h \in Handlers, Access!saveUsed(h) PROVE AccessTypes'
  <2>1. Access!TypeOK'
    BY <1>0, <1>4 DEF Access!saveUsed, Access!TypeOK, Access!ConnectionCode
  <2> QED BY <1>0, <1>4, <2>1, AccessGoto DEF Access!saveUsed
<1>5. ASSUME NEW h \in Handlers, Access!syncAdminLocations(h) PROVE AccessTypes'
  <2>1. call[h].to \in Access!Locations
    BY <1>0, <1>5, AccessFields DEF Access!syncAdminLocations, Access!At
  <2>2. \A r \in Access!Session :
          [r EXCEPT !.locations = call[h].to, !.old = FALSE] \in Access!Session
    BY <2>1 DEF Access!Session
  <2>3. session' \in [Sessions -> Access!Session \cup {Access!NoSession}]
    BY <1>0, <1>t, <1>5, <2>2 DEF Access!syncAdminLocations
  <2>4. Access!TypeOK'
    BY <1>0, <1>5, <2>3 DEF Access!syncAdminLocations, Access!TypeOK
  <2> QED BY <1>0, <1>5, <2>4, AccessGoto DEF Access!syncAdminLocations
<1>6. ASSUME NEW h \in Handlers, Access!remove(h) PROVE AccessTypes'
  <2>1. account' \in Access!Admin
    BY <1>0, <1>6 DEF Access!remove, Access!Admin
  <2>2. Access!TypeOK'
    BY <1>0, <1>6, <2>1 DEF Access!remove, Access!TypeOK
  <2>3. [pc |-> "destroy", elsewhere |-> FALSE] \in AccessCall
    BY DEF AccessCall
  <2> QED BY <1>6, <2>2, <2>3, AccessGoto DEF Access!remove
<1>7. ASSUME NEW h \in Handlers, Access!resetPassword(h) \/ Access!changePassword(h) PROVE AccessTypes'
  <2>1. Access!TypeOK'
    BY <1>0, <1>7 DEF Access!resetPassword, Access!changePassword, Access!TypeOK
  <2>2. \E pc \in {"set", "expired"}, reset \in BOOLEAN, elsewhere \in BOOLEAN :
          Access!Goto(h, [pc |-> pc, reset |-> reset, elsewhere |-> elsewhere])
    BY <1>7 DEF Access!resetPassword, Access!changePassword
  <2>3. \A pc \in {"set", "expired"}, reset \in BOOLEAN, elsewhere \in BOOLEAN :
          [pc |-> pc, reset |-> reset, elsewhere |-> elsewhere] \in AccessCall
    BY DEF AccessCall
  <2> QED BY <2>1, <2>2, <2>3, AccessGoto
<1>8. ASSUME NEW h \in Handlers, Access!setPassword(h) PROVE AccessTypes'
  <2>1. account.password + 1 \in Secrets
    BY <1>t, <1>8 DEF Access!setPassword, Secrets
  <2>2. account' \in Access!Admin
    BY <1>0, <1>8, <2>1 DEF Access!setPassword, Access!Admin, Secrets
  <2>3. Access!TypeOK'
    BY <1>0, <1>8, <2>2 DEF Access!setPassword, Access!TypeOK
  <2>5. call[h].elsewhere \in BOOLEAN
    BY <1>0, <1>8, AccessFields DEF Access!setPassword, Access!At
  <2>4. [pc |-> IF call[h].reset THEN "clear" ELSE "destroy", elsewhere |-> call[h].elsewhere]
          \in AccessCall
    BY <2>5 DEF AccessCall
  <2> QED BY <1>8, <2>3, <2>4, AccessGoto DEF Access!setPassword
<1>9. ASSUME NEW h \in Handlers, Access!clearPasswordReset(h) PROVE AccessTypes'
  <2>1. account' \in Access!Admin
    BY <1>0, <1>9 DEF Access!clearPasswordReset, Access!Admin
  <2>2. Access!TypeOK'
    BY <1>0, <1>9, <2>1 DEF Access!clearPasswordReset, Access!TypeOK
  <2>4. call[h].elsewhere \in BOOLEAN
    BY <1>0, <1>9, AccessFields DEF Access!clearPasswordReset
  <2>3. (IF Access!At(h, "clear") THEN [pc |-> "destroy", elsewhere |-> call[h].elsewhere]
                                  ELSE Access!IdleCall) \in AccessCall
    BY <1>0, <2>4 DEF AccessCall
  <2> QED BY <1>9, <2>2, <2>3, AccessGoto DEF Access!clearPasswordReset
<1>10. ASSUME NEW h \in Handlers, Access!destroyAllForUser(h) PROVE AccessTypes'
  <2>2. session' \in [Sessions -> Access!Session \cup {Access!NoSession}]
    BY <1>0, <1>10 DEF Access!destroyAllForUser
  <2>3. cut' \in BOOLEAN
    BY <1>0, <1>10 DEF Access!destroyAllForUser
  <2>1. Access!TypeOK'
    BY <1>0, <1>10, <2>2, <2>3 DEF Access!destroyAllForUser, Access!TypeOK
  <2> QED BY <1>0, <1>10, <2>1, AccessGoto DEF Access!destroyAllForUser
<1>11. ASSUME NEW s \in Sessions, NEW password \in Secrets, NEW locations \in Access!Locations,
              Access!NewSession(s, password, locations)
       PROVE  session' \in [Sessions -> Access!Session \cup {Access!NoSession}]
  BY <1>0, <1>11 DEF Access!NewSession, Access!Session, Secrets
<1>12. ASSUME NEW h \in Handlers, NEW s \in Sessions, Access!createSession(h, s) PROVE AccessTypes'
  <2>1. call[h].password \in Secrets /\ call[h].locations \in Access!Locations
    BY <1>0, <1>12, AccessFields DEF Access!createSession, Access!At, SigningIn
  <2>2. Access!TypeOK'
    BY <1>0, <1>11, <1>12, <2>1 DEF Access!createSession, Access!TypeOK
  <2> QED BY <1>0, <1>12, <2>2, AccessGoto DEF Access!createSession
<1>13. ASSUME NEW h \in Handlers, NEW s \in Sessions, Access!createExtensionSession(h, s) PROVE AccessTypes'
  <2>1. /\ call[h].password \in Secrets /\ call[h].locations \in Access!Locations
        /\ [pc |-> "used", c |-> call[h].c] \in AccessCall
    BY <1>0, <1>13, AccessFields DEF Access!createExtensionSession, Access!At, AccessCall
  <2>2. Access!TypeOK'
    BY <1>0, <1>11, <1>13, <2>1 DEF Access!createExtensionSession, Access!TypeOK
  <2> QED BY <1>13, <2>1, <2>2, AccessGoto DEF Access!createExtensionSession
<1>14. ASSUME NEW h \in Handlers, NEW s \in Sessions, Access!createConnectionCode(h, s) PROVE AccessTypes'
  <2>1. \A k \in Access!ConnectionCode : [k EXCEPT !.status = "used"] \in Access!ConnectionCode
    BY DEF Access!ConnectionCode
  <2>2. code' \in [Codes -> Access!ConnectionCode]
    BY <1>0, <1>14, <2>1 DEF Access!createConnectionCode
  <2>3. Access!TypeOK'
    BY <1>0, <1>14, <2>2 DEF Access!createConnectionCode, Access!TypeOK
  <2>4. [pc |-> "code", locations |-> session[s].locations] \in AccessCall
    BY <1>t, <1>14 DEF AccessCall, Access!createConnectionCode
  <2> QED BY <1>14, <2>3, <2>4, AccessGoto DEF Access!createConnectionCode
<1>15. ASSUME NEW h \in Handlers, NEW c \in Codes, Access!insertCode(h, c) PROVE AccessTypes'
  <2>1. call[h].locations \in Access!Locations
    BY <1>0, <1>15, AccessFields DEF Access!insertCode, Access!At
  <2>2. code' \in [Codes -> Access!ConnectionCode]
    BY <1>0, <1>15, <2>1 DEF Access!insertCode, Access!ConnectionCode
  <2>3. Access!TypeOK'
    BY <1>0, <1>15, <2>2 DEF Access!insertCode, Access!TypeOK
  <2> QED BY <1>0, <1>15, <2>3, AccessGoto DEF Access!insertCode
<1>16. ASSUME NEW h \in Handlers, NEW c \in Codes, Access!redeemConnectionCode(h, c) PROVE AccessTypes'
  <2>1. Access!TypeOK'
    BY <1>0, <1>16 DEF Access!redeemConnectionCode, Access!TypeOK
  <2>2. [pc |-> "redeem", c |-> c] \in AccessCall
    BY DEF AccessCall
  <2> QED BY <1>16, <2>1, <2>2, AccessGoto DEF Access!redeemConnectionCode
<1>17. ASSUME NEW h \in Handlers, NEW to \in Access!Locations \cup {"kept"}, NEW disabled \in BOOLEAN,
              NEW capitals \in BOOLEAN, Access!update(h, to, disabled, capitals)
       PROVE  AccessTypes'
  <2>1. CASE to = "kept"
    <3>1. account' \in Access!Admin
      BY <1>0, <1>17, <2>1 DEF Access!update, Access!Admin
    <3> QED BY <1>0, <1>17, <2>1, <3>1 DEF Access!update, Access!TypeOK, AccessTypes
  <2>2. CASE to # "kept"
    <3>1. account' \in Access!Admin
      BY <1>0, <1>17, <2>2 DEF Access!update, Access!Admin
    <3>2. [pc |-> "sync", to |-> to, capitals |-> capitals] \in AccessCall
      BY <2>2 DEF AccessCall
    <3>3. Access!TypeOK'
      BY <1>0, <1>17, <2>2, <3>1 DEF Access!update, Access!TypeOK, Access!Overlaps
    <3> QED BY <1>17, <2>2, <3>2, <3>3, AccessGoto DEF Access!update
  <2> QED BY <2>1, <2>2
<1>18. ASSUME NEW s \in Sessions, Access!destroySession(s) PROVE AccessTypes'
  BY <1>0, <1>18 DEF Access!destroySession, Access!TypeOK, AccessTypes
<1>19. ASSUME NEW to \in Access!Locations, Access!invite(to) PROVE AccessTypes'
  <2>1. account.password + 1 \in Secrets
    BY <1>t, <1>19 DEF Access!invite, Secrets
  <2>2. account' \in Access!Admin
    BY <1>19, <2>1 DEF Access!invite, Access!Admin, Secrets
  <2> QED BY <1>0, <1>19, <2>2 DEF Access!invite, Access!Overlaps, Access!TypeOK, AccessTypes
<1>20. CASE Access!forgotPassword
  <2>1. account' \in Access!Admin
    BY <1>0, <1>20 DEF Access!forgotPassword, Access!Admin
  <2> QED BY <1>0, <1>20, <2>1 DEF Access!forgotPassword, Access!TypeOK, AccessTypes
<1>21. CASE Access!Crash
  BY <1>0, <1>21 DEF Access!Crash, Access!TypeOK, AccessTypes
<1>22. CASE UNCHANGED Access!vars
  BY <1>22 DEF Access!vars, Access!TypeOK, AccessTypes
<1>23. ASSUME NEW h \in Handlers, Access!Handle(h) PROVE AccessTypes'
  BY <1>23, <1>1, <1>2, <1>3, <1>4, <1>5, <1>6, <1>7, <1>8, <1>9, <1>10, <1>12, <1>13, <1>14, <1>15,
     <1>16, <1>17 DEF Access!Handle
<1> QED BY <1>18, <1>19, <1>20, <1>21, <1>22, <1>23 DEF Access!Next

\* Where no session is opened or changed and the account keeps what counts.
LEMMA AccessRests ==
  ASSUME AccessInv, ~cut, NEW h \in Handlers, NEW c,
         Access!Goto(h, c), UNCHANGED <<session, mixed>>,
         account'.known = account.known, account'.password = account.password,
         account'.locations = account.locations,
         c.pc \notin {"sync"}, call[h].pc # "sync",
         call[h].pc \in {"clear", "destroy"} => c.pc \in {"clear", "destroy"}
  PROVE  PasswordsAgree' /\ LocationsAgree'
<1>1. /\ call'[h] = c /\ \A g \in Handlers : g # h => call'[g] = call[g]
  BY DEF AccessInv, AccessTypes, Access!Goto
<1>2. Access!Live' = Access!Live /\ Current' = Current
  BY DEF Access!Live, Current
<1>3. (Purging => Purging') /\ (Syncing => Syncing')
  BY <1>1 DEF Purging, Syncing
<1>4. \A g \in Handlers : call'[g].pc = "sync" => call[g] = call'[g]
  BY <1>1
<1> QED BY <1>2, <1>3, <1>4 DEF AccessInv, PasswordsAgree, LocationsAgree

\* A session is opened: late, or as the account is.
LEMMA AccessOpens ==
  ASSUME AccessInv, ~cut, NEW h \in Handlers, NEW c, NEW s \in Sessions, NEW password, NEW locations,
         Access!Goto(h, c), Access!NewSession(s, password, locations), UNCHANGED <<account, mixed>>,
         c.pc \notin {"sync"}, call[h].pc \notin {"sync", "clear", "destroy"}
  PROVE  PasswordsAgree' /\ LocationsAgree'
<1>1. /\ call'[h] = c /\ \A g \in Handlers : g # h => call'[g] = call[g]
  BY DEF AccessInv, AccessTypes, Access!Goto
<1>2. (Purging => Purging') /\ (Syncing => Syncing')
  BY <1>1 DEF Purging, Syncing
<1>3. \A g \in Handlers : call'[g].pc = "sync" => call[g] = call'[g]
  BY <1>1
<1>4. /\ session'[s] = [live |-> TRUE, locations |-> locations, password |-> password,
                        late |-> ~account.known \/ account.password # password,
                        old |-> account.locations # locations]
      /\ \A t \in Sessions : t # s => session'[t] = session[t]
  BY DEF Access!NewSession, AccessInv, AccessTypes, Access!TypeOK
<1>5. \A t \in Current' :
        \/ t \in Current /\ session'[t] = session[t]
        \/ /\ t = s /\ account.known /\ password = account.password
           /\ session'[s].old \/ locations = account.locations
  <2>1. ASSUME NEW t \in Current', t # s PROVE t \in Current /\ session'[t] = session[t]
    BY <1>4, <2>1 DEF Current, Access!Live
  <2>2. ASSUME s \in Current'
        PROVE  /\ account.known /\ password = account.password
               /\ session'[s].old \/ locations = account.locations
    <3>1. ~session'[s].late
      BY <2>2 DEF Current
    <3>2. session'[s].late = (~account.known \/ account.password # password)
          /\ session'[s].old = (account.locations # locations)
      BY <1>4
    <3> QED BY <3>1, <3>2, Zenon
  <2> QED BY <2>1, <2>2
<1>6. PasswordsAgree'
  BY <1>2, <1>4, <1>5 DEF AccessInv, PasswordsAgree
<1>7. LocationsAgree'
  BY <1>2, <1>3, <1>4, <1>5 DEF AccessInv, LocationsAgree
<1> QED BY <1>6, <1>7

LEMMA AccessStep ==
  ASSUME MaxPasswords \in Nat, AccessInv, [Access!Next]_Access!vars
  PROVE  AccessInv'
<1>0. AccessTypes'
  BY AccessTyped DEF AccessInv
<1>c. CASE cut
  BY <1>0, <1>c DEF AccessInv, PasswordsAgree, LocationsAgree, Purging, Syncing, Current,
         Access!Next, Access!vars, Access!Live
<1> SUFFICES ASSUME ~cut PROVE cut' \/ (PasswordsAgree' /\ LocationsAgree')
  BY <1>0, <1>c DEF AccessInv
<1> DEFINE Agree == PasswordsAgree' /\ LocationsAgree'
<1>t. /\ account \in Access!Admin /\ session \in [Sessions -> Access!Session \cup {Access!NoSession}]
      /\ DOMAIN call = Handlers /\ \A h \in Handlers : call[h] \in AccessCall
      /\ PasswordsAgree /\ LocationsAgree
  BY DEF AccessInv, AccessTypes, Access!TypeOK
<1>1. ASSUME NEW h \in Handlers,
             \/ Access!login(h) \/ Access!findCreator(h) \/ Access!saveUsed(h)
             \/ Access!resetPassword(h) \/ Access!changePassword(h)
             \/ \E s \in Sessions : Access!createConnectionCode(h, s)
             \/ \E c \in Codes : Access!insertCode(h, c) \/ Access!redeemConnectionCode(h, c)
      PROVE  Agree
  <2>1. /\ UNCHANGED <<account, session, mixed>> /\ call[h].pc \notin {"sync", "clear", "destroy"}
        /\ \E c : c.pc # "sync" /\ Access!Goto(h, c)
    BY <1>1 DEF Access!login, Access!findCreator, Access!saveUsed, Access!resetPassword,
         Access!changePassword, Access!createConnectionCode, Access!insertCode,
         Access!redeemConnectionCode, Access!At, Access!Idle, Access!IdleCall
  <2> QED BY <2>1, AccessRests
<1>2. ASSUME NEW h \in Handlers, Access!upgradePassword(h) PROVE cut' \/ Agree
  <2>1. CASE account.password # call[h].password
    BY <1>2, <2>1 DEF Access!upgradePassword
  <2>2. CASE account.password = call[h].password
    <3>1. /\ account'.known = account.known /\ account'.password = account.password
          /\ account'.locations = account.locations
      BY <1>2, <1>t, <2>2 DEF Access!upgradePassword, Access!Admin
    <3>2. call[h] \in SigningIn
      BY <1>t, <1>2, AccessFields DEF Access!upgradePassword, Access!At
    <3>3. [call[h] EXCEPT !.pc = "session"].pc = "session"
      BY <3>2 DEF SigningIn
    <3> QED BY <1>2, <3>1, <3>3, AccessRests DEF Access!upgradePassword, Access!At
  <2> QED BY <2>1, <2>2
<1>3. ASSUME NEW h \in Handlers, NEW s \in Sessions,
             Access!createSession(h, s) \/ Access!createExtensionSession(h, s)
      PROVE  Agree
  <2>1. CASE Access!createSession(h, s)
    BY <2>1, AccessOpens DEF Access!createSession, Access!At, Access!IdleCall
  <2>2. CASE Access!createExtensionSession(h, s)
    BY <2>2, AccessOpens DEF Access!createExtensionSession, Access!At
  <2> QED BY <1>3, <2>1, <2>2
<1>4. ASSUME NEW h \in Handlers, Access!syncAdminLocations(h) PROVE Agree
  <2>1. /\ call[h].pc = "sync" /\ call'[h] = Access!IdleCall
        /\ \A g \in Handlers : g # h => call'[g] = call[g]
        /\ UNCHANGED <<account, mixed>>
    BY <1>4, <1>t DEF Access!syncAdminLocations, Access!At, Access!Goto
  <2>2. Purging => Purging'
    BY <2>1 DEF Purging
  <2>3. /\ \A s \in Sessions : /\ session'[s].live = session[s].live
                               /\ session[s].live => /\ session'[s].late = session[s].late
                                                     /\ session'[s].password = session[s].password
        /\ ~call[h].capitals => \A s \in Access!Live : session'[s].locations = call[h].to
    <3>1. \A s \in Access!Live : session[s] \in Access!Session
      BY <1>t DEF Access!Live, Access!NoSession
    <3>2. \A r \in Access!Session : LET q == [r EXCEPT !.locations = call[h].to, !.old = FALSE] IN
             q.live = r.live /\ q.late = r.late /\ q.password = r.password /\ q.locations = call[h].to
      BY DEF Access!Session
    <3> QED BY <1>4, <3>1, <3>2 DEF Access!syncAdminLocations, Access!Live
  <2>4. Current' = Current /\ Access!Live' = Access!Live
    BY <2>3 DEF Current, Access!Live
  <2>5. PasswordsAgree'
    BY <1>t, <2>1, <2>2, <2>3, <2>4 DEF PasswordsAgree, Current, Access!Live
  <2>6. LocationsAgree'
    BY <1>t, <2>1, <2>3, <2>4 DEF LocationsAgree, Current, Access!IdleCall
  <2> QED BY <2>5, <2>6
<1>5. ASSUME NEW h \in Handlers, Access!remove(h) \/ Access!setPassword(h) PROVE Agree
  <2>1. /\ call[h].pc \in {"idle", "set"} /\ call'[h].pc \in {"clear", "destroy"}
        /\ \A g \in Handlers : g # h => call'[g] = call[g]
        /\ account'.locations = account.locations /\ (mixed => mixed')
    <3>1. CASE Access!remove(h)
      BY <3>1, <1>t DEF Access!remove, Access!At, Access!Idle, Access!Goto, Access!Admin
    <3>2. CASE Access!setPassword(h)
      <4>1. account'.locations = account.locations /\ mixed' = mixed
        BY <3>2, <1>t DEF Access!setPassword, Access!Admin
      <4>2. /\ call[h].pc = "set" /\ \A g \in Handlers : g # h => call'[g] = call[g]
            /\ call'[h] = [pc |-> IF call[h].reset THEN "clear" ELSE "destroy",
                           elsewhere |-> call[h].elsewhere]
        BY <3>2, <1>t DEF Access!setPassword, Access!At, Access!Goto
      <4> QED BY <4>1, <4>2
    <3> QED BY <1>5, <3>1, <3>2
  <2>2. Purging'
    BY <2>1 DEF Purging
  <2> QED BY <1>t, <2>1, <2>2 DEF PasswordsAgree, LocationsAgree
<1>6. ASSUME NEW h \in Handlers, Access!clearPasswordReset(h) PROVE Agree
  <2>1. /\ account'.known = account.known /\ account'.password = account.password
        /\ account'.locations = account.locations
    BY <1>6, <1>t DEF Access!clearPasswordReset, Access!Admin
  <2> QED BY <1>6, <2>1, AccessRests DEF Access!clearPasswordReset, Access!At, Access!IdleCall
<1>7. ASSUME NEW h \in Handlers, Access!destroyAllForUser(h), ~call[h].elsewhere PROVE Agree
  <2>1. Current' = {}
    BY <1>7 DEF Access!destroyAllForUser, Current, Access!Live, Access!NoSession
  <2>2. \A g \in Handlers : call'[g].pc = "sync" => call'[g] = call[g]
    BY <1>7, <1>t DEF Access!destroyAllForUser, Access!Goto, Access!IdleCall
  <2>3. UNCHANGED <<account, mixed>>
    BY <1>7 DEF Access!destroyAllForUser
  <2> QED BY <1>t, <2>1, <2>2, <2>3 DEF PasswordsAgree, LocationsAgree
<1>8. ASSUME NEW h \in Handlers, NEW to \in Access!Locations \cup {"kept"}, NEW disabled \in BOOLEAN,
             NEW capitals \in BOOLEAN, Access!update(h, to, disabled, capitals)
      PROVE  Agree
  <2>1. CASE to = "kept"
    <3>1. /\ account'.known = account.known /\ account'.password = account.password
          /\ account'.locations = account.locations /\ UNCHANGED <<session, mixed, call>>
      BY <1>8, <1>t, <2>1 DEF Access!update, Access!Admin
    <3> QED BY <1>t, <3>1 DEF PasswordsAgree, LocationsAgree, Purging, Syncing, Current, Access!Live
  <2>2. CASE to # "kept"
    <3>1. /\ call[h].pc = "idle" /\ call'[h] = [pc |-> "sync", to |-> to, capitals |-> capitals]
          /\ \A g \in Handlers : g # h => call'[g] = call[g]
          /\ account'.known = account.known /\ account'.password = account.password
          /\ account'.locations = to /\ session' = session
          /\ mixed' = (mixed \/ capitals \/ Access!Overlaps)
      BY <1>8, <1>t, <2>2 DEF Access!update, Access!Admin, Access!Idle, Access!At, Access!Goto
    <3>2. Current' = Current /\ (Purging => Purging') /\ Syncing'
      BY <3>1 DEF Current, Access!Live, Purging, Syncing
    <3>3. PasswordsAgree'
      BY <1>t, <3>1, <3>2 DEF PasswordsAgree
    <3>4. LocationsAgree'
      <4>1. SUFFICES ASSUME ~mixed' PROVE \A g \in Handlers :
                        call'[g].pc = "sync" => call'[g].to = account'.locations /\ ~call'[g].capitals
        BY <3>2 DEF LocationsAgree
      <4>2. ~capitals /\ ~Access!Overlaps
        BY <3>1, <4>1
      <4>3. \A g \in Handlers : call[g].pc # "sync"
        BY <4>2 DEF Access!Overlaps, Access!At
      <4>4. call'[h].to = to /\ call'[h].capitals = capitals
        BY <3>1
      <4> QED BY <3>1, <4>2, <4>3, <4>4
    <3> QED BY <3>3, <3>4
  <2> QED BY <2>1, <2>2
<1>9. ASSUME NEW s \in Sessions, Access!destroySession(s) PROVE Agree
  <2>1. Current' \subseteq Current /\ \A x \in Current' : session'[x] = session[x]
    BY <1>9, <1>t DEF Access!destroySession, Current, Access!Live, Access!NoSession
  <2>2. UNCHANGED <<account, mixed, call>>
    BY <1>9 DEF Access!destroySession
  <2> QED BY <1>t, <2>1, <2>2 DEF PasswordsAgree, LocationsAgree, Purging, Syncing
<1>10. ASSUME NEW to \in Access!Locations, Access!invite(to) PROVE Agree
  <2>1. /\ ~account.known /\ UNCHANGED <<session, call>> /\ mixed' = (mixed \/ Access!Overlaps)
    BY <1>10 DEF Access!invite
  <2>2. Current' = Current /\ Purging' = Purging
    BY <2>1 DEF Current, Access!Live, Purging
  <2>3. Purging \/ Current = {}
    BY <1>t, <2>1 DEF PasswordsAgree
  <2>4. PasswordsAgree'
    BY <2>2, <2>3 DEF PasswordsAgree
  <2>5. LocationsAgree'
    BY <2>1, <2>2, <2>3 DEF LocationsAgree, Access!Overlaps, Access!At
  <2> QED BY <2>4, <2>5
<1>11. CASE Access!forgotPassword
  <2>1. /\ account'.known = account.known /\ account'.password = account.password
        /\ account'.locations = account.locations /\ UNCHANGED <<session, mixed, call>>
    BY <1>11, <1>t DEF Access!forgotPassword, Access!Admin
  <2> QED BY <1>t, <2>1 DEF PasswordsAgree, LocationsAgree, Purging, Syncing, Current, Access!Live
<1>12. CASE Access!Crash
  <2>1. CASE Purging \/ Syncing
    BY <1>12, <2>1 DEF Access!Crash, Purging, Syncing
  <2>2. CASE ~(Purging \/ Syncing)
    <3>1. UNCHANGED <<account, session, mixed>> /\ \A h \in Handlers : call'[h].pc = "idle"
      BY <1>12 DEF Access!Crash, Access!IdleCall
    <3> QED BY <1>t, <2>2, <3>1 DEF PasswordsAgree, LocationsAgree, Current, Access!Live
  <2> QED BY <2>1, <2>2
<1>13. CASE UNCHANGED Access!vars
  BY <1>t, <1>13 DEF Access!vars, PasswordsAgree, LocationsAgree, Purging, Syncing, Current, Access!Live
<1>14. ASSUME NEW h \in Handlers, Access!Handle(h) PROVE cut' \/ Agree
  <2> HIDE DEF Agree
  <2>1. CASE \E s \in Sessions : \/ Access!createSession(h, s) \/ Access!createConnectionCode(h, s)
                               \/ Access!createExtensionSession(h, s)
    BY <2>1, <1>1, <1>3, Zenon
  <2>2. CASE \E c \in Codes : Access!insertCode(h, c) \/ Access!redeemConnectionCode(h, c)
    BY <2>2, <1>1, Zenon
  <2>3. CASE \E to \in Access!Locations \cup {"kept"}, disabled \in BOOLEAN, capitals \in BOOLEAN :
               Access!update(h, to, disabled, capitals)
    BY <2>3, <1>8, Zenon
  <2>5. CASE Access!destroyAllForUser(h) /\ call[h].elsewhere
    BY <2>5 DEF Access!destroyAllForUser
  <2>4. CASE \/ Access!login(h) \/ Access!upgradePassword(h) \/ Access!findCreator(h) \/ Access!saveUsed(h)
             \/ Access!syncAdminLocations(h) \/ Access!remove(h) \/ Access!resetPassword(h)
             \/ Access!changePassword(h) \/ Access!setPassword(h) \/ Access!clearPasswordReset(h)
             \/ Access!destroyAllForUser(h) /\ ~call[h].elsewhere
    BY <2>4, <1>1, <1>2, <1>4, <1>5, <1>6, <1>7, Zenon
  <2> QED BY <1>14, <2>1, <2>2, <2>3, <2>4, <2>5, Zenon DEF Access!Handle
<1> QED BY <1>9, <1>10, <1>11, <1>12, <1>13, <1>14 DEF Access!Next

\* No session goes on that was opened with a password the account no longer
\* has, or before the account was gone, and none keeps locations the account
\* has lost, unless a change is still under way: for any number of requests at
\* once, of sessions and codes of the extension (destroyAllForUser,
\* syncAdminLocations); what SessionsAreCurrent leaves out is left out here.
THEOREM SessionsAreCurrentAlways ==
  ASSUME MaxPasswords \in Nat
  PROVE  Access!Spec => [](Access!TypeOK /\ Access!SessionsAreCurrent)
<1>1. Access!Init => AccessInv
  <2> SUFFICES ASSUME Access!Init PROVE AccessInv
    OBVIOUS
  <2>1. account \in Access!Admin
    <3>1. account \in [known: {TRUE}, password: {0}, hashed: BOOLEAN, locations: Access!Locations,
                       disabled: {FALSE}, passwordReset: {FALSE}]
      BY DEF Access!Init
    <3>2. 0 \in Secrets /\ Secrets = 0..MaxPasswords
      BY DEF Secrets
    <3>3. account \in [known: BOOLEAN, password: Secrets, hashed: BOOLEAN, locations: Access!Locations,
                       disabled: BOOLEAN, passwordReset: BOOLEAN]
      BY <3>1, <3>2
    <3> QED BY <3>2, <3>3 DEF Access!Admin
  <2>2. code \in [Codes -> Access!ConnectionCode]
    BY DEF Access!Init, Access!ConnectionCode, Access!Locations
  <2>3. AccessTypes
    BY <2>1, <2>2 DEF Access!Init, AccessTypes, Access!TypeOK, AccessCall
  <2>4. Access!Live = {}
    BY DEF Access!Init, Access!Live, Access!NoSession
  <2> QED BY <2>3, <2>4 DEF Access!Init, AccessInv, PasswordsAgree, LocationsAgree, Current, Access!IdleCall
<1>2. AccessInv /\ [Access!Next]_Access!vars => AccessInv'
  BY AccessStep
<1>3. AccessInv => Access!TypeOK /\ Access!SessionsAreCurrent
  BY DEF AccessInv, AccessTypes, PasswordsAgree, LocationsAgree, Purging, Syncing, Current,
         Access!SessionsAreCurrent, Access!Changing
<1> QED BY <1>1, <1>2, <1>3, PTL DEF Access!Spec

-----------------------------------------------------------------------------
(* PayrollLedger: one call on the ledger at a time, profiles saved beside.   *)

Fields == {"written", "items", "totals"}
\* What is written back is a ledger, and a month without an entry has no items.
LedgerOK(l) ==
  /\ DOMAIN l = Months
  /\ \A m \in Months : DOMAIN l[m] = Fields /\ (~l[m].written => l[m].items = {})

\* A ledger in hand is the one stored but for one month, in which it holds
\* what will be owed once it is written.
Holds(c) ==
  c.pc = "saveLedger" =>
    /\ c.op \in {"totals", "add", "delete"} /\ c.month \in Months
    /\ LedgerOK(c.next)
    /\ \A m \in Months \ {c.month} : c.next[m] = ledger[m]
    /\ c.op = "totals" => owed[c.month] \subseteq c.next[c.month].items
    /\ c.op = "add" => owed[c.month] \cup c.items \subseteq c.next[c.month].items
    /\ c.op = "delete" => owed[c.month] \ c.items \subseteq c.next[c.month].items

LedgerInv ==
  /\ DOMAIN call = Handlers /\ DOMAIN owed = Months
  /\ LedgerOK(ledger)
  /\ \A h \in Handlers : Holds(call[h])
  /\ \A g, h \in Handlers : call[g].pc = "saveLedger" /\ call[h].pc = "saveLedger" => g = h
  /\ Payroll!NoItemLost

\* Bringing an entry up to date keeps its items: only where there are none do
\* totals become items.
LEMMA NormalKeeps ==
  ASSUME NEW e, NEW s, DOMAIN e = Fields, ~e.written => e.items = {}
  PROVE  LET n == Payroll!normalizeLedgerEntry(e, s)
         IN DOMAIN n = Fields /\ n.written = TRUE /\ e.items \subseteq n.items
<1>1. CASE ~e.written
  BY <1>1 DEF Payroll!normalizeLedgerEntry, Payroll!NoEntry, Fields
<1>2. CASE e.written
  <2> DEFINE n == Payroll!normalizeLedgerEntry(e, s)
  <2>1. n = [written |-> TRUE, items |-> Payroll!migrateLegacyItems(e, s),
             totals |-> Payroll!computeTotals(Payroll!migrateLegacyItems(e, s))]
    BY <1>2 DEF Payroll!normalizeLedgerEntry
  <2>2. e.items \subseteq Payroll!migrateLegacyItems(e, s)
    BY DEF Payroll!migrateLegacyItems
  <2> QED BY <2>1, <2>2 DEF Fields
<1> QED BY <1>1, <1>2

LEMMA AppendKeeps ==
  ASSUME NEW e, NEW item, NEW s, DOMAIN e = Fields, ~e.written => e.items = {}
  PROVE  LET n == Payroll!appendLedgerItem(e, item, s)
         IN DOMAIN n = Fields /\ n.written = TRUE /\ e.items \cup {item} \subseteq n.items
<1> DEFINE normalized == Payroll!normalizeLedgerEntry(e, s)
           longer == [normalized EXCEPT !.items = @ \cup {item}]
<1>1. DOMAIN normalized = Fields /\ normalized.written = TRUE /\ e.items \subseteq normalized.items
  BY NormalKeeps
<1> HIDE DEF normalized
<1>2. /\ DOMAIN longer = Fields /\ longer.written = TRUE
      /\ e.items \cup {item} \subseteq longer.items
  BY <1>1 DEF Fields
<1>3. Payroll!appendLedgerItem(e, item, s) = Payroll!normalizeLedgerEntry(longer, s)
  BY DEF Payroll!appendLedgerItem, normalized
<1> HIDE DEF longer
<1> QED BY <1>2, <1>3, NormalKeeps

LEMMA RemoveKeeps ==
  ASSUME NEW e, NEW gone, NEW s, DOMAIN e = Fields, ~e.written => e.items = {}
  PROVE  LET n == Payroll!removeLedgerItem(e, gone, s)
         IN DOMAIN n = Fields /\ n.written = TRUE /\ e.items \ {gone} \subseteq n.items
<1> DEFINE normalized == Payroll!normalizeLedgerEntry(e, s)
           shorter == [normalized EXCEPT !.items = @ \ {gone}]
<1>1. DOMAIN normalized = Fields /\ normalized.written = TRUE /\ e.items \subseteq normalized.items
  BY NormalKeeps
<1> HIDE DEF normalized
<1>2. /\ DOMAIN shorter = Fields /\ shorter.written = TRUE
      /\ e.items \ {gone} \subseteq shorter.items
  BY <1>1 DEF Fields
<1>3. Payroll!removeLedgerItem(e, gone, s) = Payroll!normalizeLedgerEntry(shorter, s)
  BY DEF Payroll!removeLedgerItem, normalized
<1> HIDE DEF shorter
<1> QED BY <1>2, <1>3, NormalKeeps

\* A call that has rebuilt one month holds a ledger it may write.
LEMMA Rebuilt ==
  ASSUME LedgerInv, NEW h \in Handlers, NEW op \in {"totals", "add", "delete"}, NEW m \in Months,
         NEW e, NEW items, Payroll!LedgerIsFree, UNCHANGED <<ledger, owed>>,
         Payroll!Goto(h, [pc |-> "saveLedger", op |-> op, month |-> m,
                          next |-> [ledger EXCEPT ![m] = e], items |-> items]),
         DOMAIN e = Fields, e.written = TRUE,
         op = "totals" => ledger[m].items \subseteq e.items,
         op = "add" => ledger[m].items \cup items \subseteq e.items,
         op = "delete" => ledger[m].items \ items \subseteq e.items
  PROVE  LedgerInv'
<1> DEFINE new == [pc |-> "saveLedger", op |-> op, month |-> m,
                   next |-> [ledger EXCEPT ![m] = e], items |-> items]
<1>1. /\ call'[h] = new /\ DOMAIN call' = Handlers
      /\ \A g \in Handlers : g # h => call'[g] = call[g]
  BY DEF LedgerInv, Payroll!Goto
<1>2. /\ new.pc = "saveLedger" /\ new.op = op /\ new.month = m /\ new.items = items
      /\ new.next = [ledger EXCEPT ![m] = e]
  OBVIOUS
<1> HIDE DEF new
<1>3. /\ DOMAIN new.next = Months /\ new.next[m] = e
      /\ \A q \in Months \ {m} : new.next[q] = ledger[q]
  BY <1>2 DEF LedgerInv, LedgerOK
<1>4. LedgerOK(new.next)
  BY <1>3 DEF LedgerInv, LedgerOK
<1>5. owed[m] \subseteq ledger[m].items
  BY DEF LedgerInv, Payroll!NoItemLost
<1>6. Holds(call[h])'
  BY <1>1, <1>2, <1>3, <1>4, <1>5 DEF Holds
<1>7. \A g \in Handlers : g # h => call'[g].pc # "saveLedger"
  BY <1>1 DEF Payroll!LedgerIsFree
<1>8. \A g \in Handlers : Holds(call[g])'
  BY <1>6, <1>7 DEF Holds
<1> QED BY <1>1, <1>7, <1>8 DEF LedgerInv, Payroll!NoItemLost

LEMMA LedgerStep ==
  ASSUME LedgerInv, [Payroll!Next]_Payroll!vars
  PROVE  LedgerInv'
<1>0. \A m \in Months : DOMAIN ledger[m] = Fields /\ (~ledger[m].written => ledger[m].items = {})
  BY DEF LedgerInv, LedgerOK
<1>1. ASSUME NEW h \in Handlers, NEW m \in Months, NEW k \in Kinds, NEW amount,
             Payroll!updatePayrollLedger(h, m, k, amount)
      PROVE  LedgerInv'
  <2> DEFINE entry == Payroll!normalizeLedgerEntry(ledger[m], stamp')
             next == [entry EXCEPT !.totals[k] = amount]
  <2>1. DOMAIN entry = Fields /\ entry.written = TRUE /\ ledger[m].items \subseteq entry.items
    BY <1>0, NormalKeeps
  <2>2. /\ Payroll!LedgerIsFree /\ UNCHANGED <<ledger, owed>>
        /\ Payroll!Goto(h, [pc |-> "saveLedger", op |-> "totals", month |-> m,
                            next |-> [ledger EXCEPT ![m] = next], items |-> {}])
    BY <1>1 DEF Payroll!updatePayrollLedger
  <2> HIDE DEF entry
  <2>3. DOMAIN next = Fields /\ next.written = TRUE /\ next.items = entry.items
    BY <2>1 DEF Fields
  <2> HIDE DEF next
  <2> QED BY <2>1, <2>2, <2>3, Rebuilt, ZenonT(60)
<1>2. ASSUME NEW h \in Handlers, NEW m \in Months, NEW k \in Kinds, NEW amount,
             Payroll!addLedgerItems(h, m, k, amount)
      PROVE  LedgerInv'
  <2> DEFINE item == [stamp |-> stamp', from |-> "request", kind |-> k, amount |-> amount]
             next == Payroll!appendLedgerItem(ledger[m], item, stamp')
  <2>1. /\ Payroll!LedgerIsFree /\ UNCHANGED <<ledger, owed>>
        /\ Payroll!Goto(h, [pc |-> "saveLedger", op |-> "add", month |-> m,
                            next |-> [ledger EXCEPT ![m] = next], items |-> {item}])
    BY <1>2 DEF Payroll!addLedgerItems
  <2> HIDE DEF item
  <2>2. DOMAIN next = Fields /\ next.written = TRUE /\ ledger[m].items \cup {item} \subseteq next.items
    BY <1>0, AppendKeeps
  <2> HIDE DEF next
  <2> QED BY <2>1, <2>2, Rebuilt
<1>3. ASSUME NEW h \in Handlers, NEW m \in Months, NEW item, Payroll!deleteLedgerItem(h, m, item)
      PROVE  LedgerInv'
  <2> DEFINE next == Payroll!removeLedgerItem(ledger[m], item, stamp')
  <2>1. /\ Payroll!LedgerIsFree /\ UNCHANGED <<ledger, owed>>
        /\ Payroll!Goto(h, [pc |-> "saveLedger", op |-> "delete", month |-> m,
                            next |-> [ledger EXCEPT ![m] = next], items |-> {item}])
    BY <1>3 DEF Payroll!deleteLedgerItem
  <2>2. DOMAIN next = Fields /\ next.written = TRUE /\ ledger[m].items \ {item} \subseteq next.items
    BY <1>0, RemoveKeeps
  <2> HIDE DEF next
  <2> QED BY <2>1, <2>2, Rebuilt
<1>4. ASSUME NEW h \in Handlers, Payroll!saveLedger(h) PROVE LedgerInv'
  <2> DEFINE c == call[h]
  <2>1. c.pc = "saveLedger" /\ Holds(c) /\ ledger' = c.next
    BY <1>4 DEF Payroll!saveLedger, LedgerInv
  <2>2. /\ call'[h] = Payroll!IdleCall /\ DOMAIN call' = Handlers
        /\ \A g \in Handlers : g # h => call'[g] = call[g]
    BY <1>4 DEF Payroll!saveLedger, Payroll!Goto, LedgerInv
  <2>3. \A g \in Handlers : call'[g].pc # "saveLedger"
    BY <2>1, <2>2 DEF LedgerInv, Payroll!IdleCall
  <2>4. owed' = [owed EXCEPT ![c.month] = CASE c.op = "add"    -> @ \cup c.items
                                           [] c.op = "delete" -> @ \ c.items
                                           [] OTHER           -> @]
    BY <1>4 DEF Payroll!saveLedger
  <2>5. /\ c.month \in Months /\ LedgerOK(c.next) /\ c.op \in {"totals", "add", "delete"}
        /\ \A m \in Months \ {c.month} : c.next[m] = ledger[m]
    BY <2>1 DEF Holds
  <2>6. /\ DOMAIN owed' = Months
        /\ \A m \in Months \ {c.month} : owed'[m] = owed[m]
        /\ c.op = "totals" => owed'[c.month] = owed[c.month]
        /\ c.op = "add" => owed'[c.month] = owed[c.month] \cup c.items
        /\ c.op = "delete" => owed'[c.month] = owed[c.month] \ c.items
    BY <2>4, <2>5 DEF LedgerInv
  <2>7. \A m \in Months : owed'[m] \subseteq ledger'[m].items
    BY <2>1, <2>5, <2>6 DEF Holds, LedgerInv, Payroll!NoItemLost
  <2>8. LedgerOK(ledger')
    BY <2>1, <2>5
  <2>9. \A g \in Handlers : Holds(call[g])'
    BY <2>3 DEF Holds
  <2> QED BY <2>2, <2>3, <2>6, <2>7, <2>8, <2>9 DEF LedgerInv, LedgerOK, Payroll!NoItemLost
<1>5. ASSUME NEW h \in Handlers, Payroll!readProfile(h) \/ Payroll!saveProfile(h) PROVE LedgerInv'
  <2>1. /\ UNCHANGED <<ledger, owed>> /\ DOMAIN call' = Handlers /\ call'[h].pc # "saveLedger"
        /\ \A g \in Handlers : g # h => call'[g] = call[g]
    BY <1>5 DEF Payroll!readProfile, Payroll!saveProfile, Payroll!Goto, Payroll!IdleCall, LedgerInv
  <2>2. \A g \in Handlers : Holds(call[g])'
    BY <2>1 DEF Holds, LedgerInv
  <2> QED BY <2>1, <2>2 DEF LedgerInv, LedgerOK, Payroll!NoItemLost
<1>6. CASE UNCHANGED Payroll!vars
  BY <1>6 DEF Payroll!vars, LedgerInv, LedgerOK, Holds, Payroll!NoItemLost
<1> QED BY <1>1, <1>2, <1>3, <1>4, <1>5, <1>6 DEF Payroll!Next

LEMMA LedgerStarts == ASSUME Payroll!Init PROVE LedgerInv
<1>1. LedgerOK(ledger)
  BY DEF Payroll!Init, LedgerOK, Fields
<1> QED BY <1>1 DEF Payroll!Init, LedgerInv, Holds, Payroll!IdleCall, Payroll!NoItemLost

\* Calls on the ledger rebuild all months and write them back, and a profile is
\* saved from a document read before: an item that was added stays in its month
\* until it is removed, for any months, kinds, amounts and handlers.
THEOREM NoItemLostAlways == Payroll!Spec => []Payroll!NoItemLost
<1>1. Payroll!Init => LedgerInv
  BY LedgerStarts
<1>2. LedgerInv /\ [Payroll!Next]_Payroll!vars => LedgerInv'
  BY LedgerStep
<1>3. LedgerInv => Payroll!NoItemLost
  BY DEF LedgerInv
<1> QED BY <1>1, <1>2, <1>3, PTL DEF Payroll!Spec

\* What the totals say of the items.
LedgerFacts == IsFiniteSet(Kinds) /\ MaxAmount \in Nat /\ MaxStamp \in Nat

OfKind(items, k) == {i \in items : i.kind = k}
AmountsOf(items) == [i \in items |-> i.amount]
NoTotals == [k \in Kinds |-> 0]

\* An entry whose items were made by the calls up to n.
Entries == [written: BOOLEAN, items: SUBSET Payroll!Item, totals: [Kinds -> Nat]]
EntryFits(e, n) ==
  /\ e \in Entries /\ IsFiniteSet(e.items)
  /\ \A i \in e.items : i.stamp <= n
  /\ ~e.written => e.items = {} /\ e.totals = NoTotals

\* Once written, a month will stand where it stood and what was added.
Adds(c) ==
  c.op = "add" /\ Payroll!Consistent(ledger[c.month]) =>
    \A k \in Kinds : c.next[c.month].totals[k] =
                       ledger[c.month].totals[k] + Payroll!computeTotals(c.items)[k]

InHand(c) ==
  c.pc = "saveLedger" =>
    /\ c.month \in Months /\ DOMAIN c.next = Months
    /\ \A m \in Months : EntryFits(c.next[m], stamp)
    /\ c.items \subseteq Payroll!Item /\ Adds(c)

TotalsInv ==
  /\ stamp \in 0..MaxStamp /\ profile \in {"old", "new"} /\ owed \in [Months -> SUBSET Payroll!Item]
  /\ DOMAIN ledger = Months /\ \A m \in Months : EntryFits(ledger[m], stamp)
  /\ \A h \in Handlers : InHand(call[h])

LEMMA SumOfAmounts ==
  ASSUME NEW S, IsFiniteSet(S), NEW w \in [S -> Int], \A i \in S : w[i] = i.amount
  PROVE  Payroll!MapThenSumSet(LAMBDA i : i.amount, S) = Total(w, S)
<1> DEFINE F(g) == g = [s \in SUBSET S |-> IF s = {} THEN 0 ELSE OneOf(s).amount + g[s \ {OneOf(s)}]]
           c == CHOOSE g : F(g)
<1>1. ASSUME NEW g PROVE F(g) <=> Totals(g, w, S)
  <2>1. \A s \in SUBSET S : s # {} => w[OneOf(s)] = OneOf(s).amount
    BY OneOfIsIn
  <2> QED BY <2>1 DEF Totals
<1>2. PICK g : Totals(g, w, S) BY TotalsExist
<1>3. F(c)
  <2>1. F(g) BY <1>1, <1>2
  <2> HIDE DEF F
  <2> QED BY <2>1
<1>4. Payroll!MapThenSumSet(LAMBDA i : i.amount, S) = c[S]
  BY DEF Payroll!MapThenSumSet, Payroll!MapThenFoldSet, OneOf
<1> HIDE DEF F, c
<1> QED BY <1>1, <1>3, <1>4, TotalIs

LEMMA KindTotal ==
  ASSUME NEW I, IsFiniteSet(I), \A i \in I : i.amount \in Nat, NEW k \in Kinds
  PROVE  /\ IsFiniteSet(OfKind(I, k)) /\ AmountsOf(OfKind(I, k)) \in [OfKind(I, k) -> Nat]
         /\ Payroll!computeTotals(I)[k] = Total(AmountsOf(OfKind(I, k)), OfKind(I, k))
         /\ Payroll!computeTotals(I)[k] \in Nat
<1> DEFINE S == OfKind(I, k)
           w == AmountsOf(S)
<1>1. IsFiniteSet(S) /\ S = {i \in I : i.kind = k}
  BY FS_Subset DEF OfKind
<1>2. w \in [S -> Nat] /\ w \in [S -> Int] /\ \A i \in S : w[i] = i.amount
  BY DEF AmountsOf, OfKind
<1>3. Payroll!computeTotals(I)[k] = Payroll!MapThenSumSet(LAMBDA i : i.amount, {i \in I : i.kind = k})
  BY DEF Payroll!computeTotals
<1> HIDE DEF S, w
<1>4. Payroll!MapThenSumSet(LAMBDA i : i.amount, S) = Total(w, S)
  BY <1>1, <1>2, SumOfAmounts
<1>5. Total(w, S) \in Nat
  BY <1>1, <1>2, TotalIsNat
<1> QED BY <1>1, <1>2, <1>3, <1>4, <1>5 DEF S, w

LEMMA NoItems == ASSUME NEW k \in Kinds PROVE Payroll!computeTotals({})[k] = 0
<1>1. IsFiniteSet({})
  BY FS_EmptySet
<1>2. OfKind({}, k) = {}
  BY DEF OfKind
<1>3. AmountsOf({}) \in [{} -> Int]
  BY DEF AmountsOf
<1> QED BY <1>1, <1>2, <1>3, KindTotal, TotalOfNone

LEMMA OneMoreItem ==
  ASSUME NEW I, IsFiniteSet(I), \A i \in I : i.amount \in Nat, NEW k \in Kinds,
         NEW j, j \notin I, j.amount \in Nat
  PROVE  Payroll!computeTotals(I \cup {j})[k] =
           Payroll!computeTotals(I)[k] + (IF j.kind = k THEN j.amount ELSE 0)
<1> DEFINE J == I \cup {j}
           S == OfKind(I, k)
           T == OfKind(J, k)
<1>1. IsFiniteSet(J) /\ \A i \in J : i.amount \in Nat
  BY FS_AddElement
<1>2. /\ IsFiniteSet(T) /\ AmountsOf(T) \in [T -> Nat]
      /\ Payroll!computeTotals(J)[k] = Total(AmountsOf(T), T)
  <2> HIDE DEF J
  <2> QED BY <1>1, KindTotal
<1>3. /\ AmountsOf(S) \in [S -> Nat] /\ Payroll!computeTotals(I)[k] = Total(AmountsOf(S), S)
      /\ Payroll!computeTotals(I)[k] \in Nat
  BY KindTotal
<1>4. CASE j.kind = k
  <2>1. j \in T /\ S = T \ {j}
    BY <1>4 DEF OfKind
  <2>2. \A y \in S : AmountsOf(S)[y] = AmountsOf(T)[y]
    BY <2>1 DEF AmountsOf
  <2>3. AmountsOf(T)[j] = j.amount
    BY <2>1 DEF AmountsOf
  <2> HIDE DEF J, S, T
  <2>4. Total(AmountsOf(T), T) = AmountsOf(T)[j] + Total(AmountsOf(S), S)
    <3>1. PICK v : v = AmountsOf(S)
      OBVIOUS
    <3>2. v \in [T \ {j} -> Int] /\ AmountsOf(T) \in [T -> Int] /\ \A y \in T \ {j} : v[y] = AmountsOf(T)[y]
      <4>1. v \in [S -> Nat] /\ \A y \in S : v[y] = AmountsOf(T)[y]
        BY <1>3, <2>2, <3>1
      <4>2. v \in [S -> Int] /\ AmountsOf(T) \in [T -> Int]
        BY <1>2, <4>1
      <4> QED BY <2>1, <4>1, <4>2
    <3>3. Total(AmountsOf(T), T) = AmountsOf(T)[j] + Total(v, T \ {j})
      BY <1>2, <2>1, <3>2, TotalWith
    <3> QED BY <2>1, <3>1, <3>3
  <2>5. Payroll!computeTotals(J)[k] = Payroll!computeTotals(I)[k] + j.amount
    BY <1>2, <1>3, <2>3, <2>4
  <2> QED BY <1>4, <2>5 DEF J
<1>5. CASE j.kind # k
  <2>1. S = T
    BY <1>5 DEF OfKind
  <2> HIDE DEF S, T
  <2> QED BY <1>2, <1>3, <1>5, <2>1
<1> QED BY <1>4, <1>5

LEMMA OneItem ==
  ASSUME NEW k \in Kinds, NEW j, j.amount \in Nat
  PROVE  Payroll!computeTotals({j})[k] = IF j.kind = k THEN j.amount ELSE 0
<1>1. PICK E : E = {}
  OBVIOUS
<1>2. IsFiniteSet(E) /\ j \notin E /\ E \cup {j} = {j} /\ \A i \in E : i.amount \in Nat
  BY <1>1, FS_EmptySet
<1>3. Payroll!computeTotals(E \cup {j})[k] =
        Payroll!computeTotals(E)[k] + (IF j.kind = k THEN j.amount ELSE 0)
  BY <1>2, OneMoreItem
<1>4. Payroll!computeTotals(E)[k] = 0
  BY <1>1, NoItems
<1> QED BY <1>2, <1>3, <1>4

\* Totals without items come back as the totals of the items they become.
LEMMA TotalsBecomeItems ==
  ASSUME LedgerFacts, NEW e \in Entries, e.items = {}, NEW s \in 1..MaxStamp,
         NEW I, I = Payroll!migrateLegacyItems(e, s)
  PROVE  /\ IsFiniteSet(I) /\ I \subseteq Payroll!Item
         /\ \A i \in I : i.stamp = s /\ i.from = "total"
         /\ \A k \in Kinds : Payroll!computeTotals(I)[k] = e.totals[k]
<1> DEFINE P == {q \in Kinds : e.totals[q] > 0}
           It(q) == [stamp |-> s, from |-> "total", kind |-> q, amount |-> e.totals[q]]
<1>0. e.totals \in [Kinds -> Nat]
  BY DEF Entries
<1>1. I = {It(q) : q \in P}
  BY DEF Payroll!migrateLegacyItems
<1>2. I \subseteq Payroll!Item /\ \A i \in I : i.stamp = s /\ i.from = "total" /\ i.amount \in Nat
  BY <1>0, <1>1 DEF Payroll!Item
<1>3. IsFiniteSet(I)
  <2>1. IsFiniteSet(P)
    BY FS_Subset DEF LedgerFacts
  <2>2. PICK f : f = [q \in P |-> It(q)]
    OBVIOUS
  <2>3. f \in [P -> I] /\ \A i \in I : \E q \in P : f[q] = i
    BY <1>1, <2>2
  <2>4. f \in Surjection(P, I)
    BY <2>3 DEF Surjection
  <2> HIDE DEF P, It
  <2> QED BY <2>1, <2>4, FS_Surjection
<1>4. ASSUME NEW k \in Kinds PROVE Payroll!computeTotals(I)[k] = e.totals[k]
  <2>1. CASE k \in P
    <3>1. PICK j : j = It(k)
      OBVIOUS
    <3>2. OfKind(I, k) = {j} /\ OfKind({j}, k) = {j} /\ j.amount = e.totals[k] /\ j.kind = k
      BY <1>1, <2>1, <3>1 DEF OfKind
    <3>3. IsFiniteSet({j}) /\ j.amount \in Nat /\ \A i \in {j} : i.amount \in Nat
      BY <1>0, <3>2, FS_Singleton
    <3> HIDE DEF P, It
    <3>4. Payroll!computeTotals(I)[k] = Total(AmountsOf({j}), {j})
      <4>1. Payroll!computeTotals(I)[k] = Total(AmountsOf(OfKind(I, k)), OfKind(I, k))
        BY <1>2, <1>3, KindTotal
      <4> QED BY <3>2, <4>1
    <3>6. Payroll!computeTotals({j})[k] = Total(AmountsOf({j}), {j})
      <4>1. PICK J : J = {j}
        OBVIOUS
      <4>2. IsFiniteSet(J) /\ OfKind(J, k) = J /\ \A i \in J : i.amount \in Nat
        BY <3>2, <3>3, <4>1
      <4>3. Payroll!computeTotals(J)[k] = Total(AmountsOf(OfKind(J, k)), OfKind(J, k))
        BY <4>2, KindTotal
      <4> QED BY <4>1, <4>2, <4>3
    <3>5. Payroll!computeTotals({j})[k] = j.amount
      BY <3>2, <3>3, OneItem
    <3> QED BY <3>2, <3>4, <3>5, <3>6
  <2>2. CASE k \notin P
    <3>1. OfKind(I, k) = {} /\ e.totals[k] = 0
      BY <1>0, <1>1, <2>2 DEF OfKind
    <3>2. AmountsOf({}) \in [{} -> Int]
      BY DEF AmountsOf
    <3> HIDE DEF P, It
    <3>3. Payroll!computeTotals(I)[k] = Total(AmountsOf({}), {})
      BY <1>2, <1>3, <3>1, KindTotal
    <3> QED BY <3>1, <3>2, <3>3, TotalOfNone
  <2> QED BY <2>1, <2>2
<1> QED BY <1>2, <1>3, <1>4

LEMMA TotalsAreNat ==
  ASSUME NEW I, IsFiniteSet(I), I \subseteq Payroll!Item
  PROVE  Payroll!computeTotals(I) \in [Kinds -> Nat]
<1>1. \A i \in I : i.amount \in Nat
  BY DEF Payroll!Item
<1>2. \A k \in Kinds : Payroll!computeTotals(I)[k] \in Nat
  BY <1>1, KindTotal
<1>3. PICK t : t = Payroll!computeTotals(I)
  OBVIOUS
<1>4. t = [k \in Kinds |-> t[k]]
  BY <1>3 DEF Payroll!computeTotals
<1> QED BY <1>2, <1>3, <1>4

\* Bringing an entry up to date changes no total that agrees with its items.
LEMMA NormalFits ==
  ASSUME LedgerFacts, NEW n \in Nat, NEW s \in 1..MaxStamp, n <= s, NEW e, EntryFits(e, n),
         NEW r, r = Payroll!normalizeLedgerEntry(e, s)
  PROVE  /\ EntryFits(r, s) /\ r.written
         /\ \A i \in r.items : i \in e.items \/ i.from = "total"
         /\ e.items # {} => r.items = e.items /\ r.totals = Payroll!computeTotals(e.items)
         /\ \A k \in Kinds : r.totals[k] = Payroll!computeTotals(r.items)[k]
         /\ Payroll!Consistent(e) => \A k \in Kinds : r.totals[k] = e.totals[k]
<1>0. /\ e \in Entries /\ e.items \subseteq Payroll!Item /\ IsFiniteSet(e.items)
      /\ \A i \in e.items : i.stamp <= s
  BY DEF EntryFits, Entries, Payroll!Item
<1>1. CASE ~e.written
  <2>1. e.items = {} /\ e.totals = NoTotals
    BY <1>1 DEF EntryFits
  <2>2. r = [written |-> TRUE, items |-> {}, totals |-> NoTotals]
    BY <1>1 DEF Payroll!normalizeLedgerEntry, Payroll!NoEntry, NoTotals
  <2>3. r \in Entries /\ IsFiniteSet(r.items)
    BY <2>2, FS_EmptySet DEF Entries, NoTotals
  <2>4. \A k \in Kinds : NoTotals[k] = Payroll!computeTotals({})[k]
    BY NoItems DEF NoTotals
  <2> QED BY <2>1, <2>2, <2>3, <2>4 DEF EntryFits
<1>2. CASE e.written
  <2>1. PICK I : I = Payroll!migrateLegacyItems(e, s)
    OBVIOUS
  <2>2. r = [written |-> TRUE, items |-> I, totals |-> Payroll!computeTotals(I)]
    BY <1>2, <2>1 DEF Payroll!normalizeLedgerEntry
  <2>3. CASE e.items = {}
    <3>1. /\ IsFiniteSet(I) /\ I \subseteq Payroll!Item
          /\ \A i \in I : i.stamp = s /\ i.from = "total"
          /\ \A k \in Kinds : Payroll!computeTotals(I)[k] = e.totals[k]
      BY <1>0, <2>1, <2>3, TotalsBecomeItems
    <3>2. r \in Entries
      BY <2>2, <3>1, TotalsAreNat DEF Entries
    <3> QED BY <2>2, <2>3, <3>1, <3>2 DEF EntryFits
  <2>4. CASE e.items # {}
    <3>1. I = e.items
      BY <2>1, <2>4 DEF Payroll!migrateLegacyItems
    <3>2. r \in Entries
      BY <1>0, <2>2, <3>1, TotalsAreNat DEF Entries
    <3>3. Payroll!Consistent(e) => e.totals = Payroll!computeTotals(e.items)
      BY <2>4 DEF Payroll!Consistent
    <3> QED BY <1>0, <2>2, <3>1, <3>2, <3>3 DEF EntryFits
  <2> QED BY <2>3, <2>4
<1> QED BY <1>1, <1>2, <1>0 DEF Entries

LEMMA AppendAdds ==
  ASSUME LedgerFacts, NEW n \in Nat, NEW s \in 1..MaxStamp, n < s, NEW e, EntryFits(e, n),
         NEW j \in Payroll!Item, j.stamp = s, j.from = "request",
         NEW r, r = Payroll!appendLedgerItem(e, j, s)
  PROVE  /\ EntryFits(r, s)
         /\ Payroll!Consistent(e) =>
              \A k \in Kinds : r.totals[k] = e.totals[k] + Payroll!computeTotals({j})[k]
<1>1. PICK u : u = Payroll!normalizeLedgerEntry(e, s)
  OBVIOUS
<1>2. PICK l : l = [u EXCEPT !.items = @ \cup {j}]
  OBVIOUS
<1>3. r = Payroll!normalizeLedgerEntry(l, s)
  BY <1>1, <1>2 DEF Payroll!appendLedgerItem
<1>4. /\ EntryFits(u, s) /\ u.written
      /\ \A i \in u.items : i \in e.items \/ i.from = "total"
      /\ \A k \in Kinds : u.totals[k] = Payroll!computeTotals(u.items)[k]
      /\ Payroll!Consistent(e) => \A k \in Kinds : u.totals[k] = e.totals[k]
  BY <1>1, NormalFits
<1>5. u \in Entries /\ u.items \subseteq Payroll!Item /\ IsFiniteSet(u.items)
  BY <1>4 DEF EntryFits, Entries
<1>6. l = [written |-> u.written, items |-> u.items \cup {j}, totals |-> u.totals]
  BY <1>2, <1>5 DEF Entries
<1>7. IsFiniteSet(u.items \cup {j})
  BY <1>5, FS_AddElement
<1>8. l \in Entries
  BY <1>5, <1>6 DEF Entries
<1>9. EntryFits(l, s)
  BY <1>4, <1>6, <1>7, <1>8 DEF EntryFits
<1>10. EntryFits(r, s) /\ r.totals = Payroll!computeTotals(u.items \cup {j})
  <2>1. l.items = u.items \cup {j} /\ l.items # {}
    BY <1>6
  <2>2. EntryFits(r, s) /\ r.totals = Payroll!computeTotals(l.items)
    <3>1. s \in Nat /\ s <= s
      BY DEF LedgerFacts
    <3>2. /\ EntryFits(r, s)
          /\ l.items # {} => r.items = l.items /\ r.totals = Payroll!computeTotals(l.items)
      BY <1>3, <1>9, <3>1, NormalFits
    <3> QED BY <2>1, <3>2
  <2> QED BY <2>1, <2>2
<1>11. j \notin u.items
  <2>1. \A i \in e.items : i.stamp <= n /\ i.stamp \in Nat
    BY DEF EntryFits, Entries, Payroll!Item, LedgerFacts
  <2> QED BY <1>4, <2>1
<1>12. j.amount \in Nat /\ \A i \in u.items : i.amount \in Nat
  BY <1>5 DEF Payroll!Item
<1>13. ASSUME NEW k \in Kinds, Payroll!Consistent(e)
       PROVE  r.totals[k] = e.totals[k] + Payroll!computeTotals({j})[k]
  <2>1. Payroll!computeTotals(u.items \cup {j})[k] =
          Payroll!computeTotals(u.items)[k] + (IF j.kind = k THEN j.amount ELSE 0)
    BY <1>5, <1>11, <1>12, OneMoreItem
  <2>2. Payroll!computeTotals({j})[k] = IF j.kind = k THEN j.amount ELSE 0
    BY <1>12, OneItem
  <2>3. Payroll!computeTotals(u.items)[k] = e.totals[k]
    BY <1>4, <1>13
  <2> QED BY <1>10, <2>1, <2>2, <2>3
<1> QED BY <1>10, <1>13

LEMMA RemoveFits ==
  ASSUME LedgerFacts, NEW n \in Nat, NEW s \in 1..MaxStamp, n <= s, NEW e, EntryFits(e, n),
         NEW gone, NEW r, r = Payroll!removeLedgerItem(e, gone, s)
  PROVE  EntryFits(r, s)
<1>1. PICK u : u = Payroll!normalizeLedgerEntry(e, s)
  OBVIOUS
<1>2. PICK l : l = [u EXCEPT !.items = @ \ {gone}]
  OBVIOUS
<1>3. r = Payroll!normalizeLedgerEntry(l, s)
  BY <1>1, <1>2 DEF Payroll!removeLedgerItem
<1>4. EntryFits(u, s) /\ u.written
  BY <1>1, NormalFits
<1>5. u \in Entries /\ u.items \subseteq Payroll!Item /\ IsFiniteSet(u.items)
  BY <1>4 DEF EntryFits, Entries
<1>6. l = [written |-> u.written, items |-> u.items \ {gone}, totals |-> u.totals]
  BY <1>2, <1>5 DEF Entries
<1>7. IsFiniteSet(u.items \ {gone})
  BY <1>5, FS_Subset
<1>8. l \in Entries
  BY <1>5, <1>6 DEF Entries
<1>9. EntryFits(l, s)
  BY <1>4, <1>6, <1>7, <1>8 DEF EntryFits
<1> QED BY <1>3, <1>9, NormalFits

\* A call that has rebuilt one month holds entries that fit.
LEMMA RebuiltFits ==
  ASSUME LedgerFacts, LedgerInv, TotalsInv, NEW h \in Handlers, NEW m \in Months, NEW e,
         NEW op, NEW items, items \subseteq Payroll!Item, Payroll!LedgerIsFree,
         UNCHANGED <<ledger, profile, owed>>, stamp < MaxStamp, stamp' = stamp + 1,
         Payroll!Goto(h, [pc |-> "saveLedger", op |-> op, month |-> m,
                          next |-> [ledger EXCEPT ![m] = e], items |-> items]),
         EntryFits(e, stamp'),
         op = "add" /\ Payroll!Consistent(ledger[m]) =>
           \A k \in Kinds : e.totals[k] = ledger[m].totals[k] + Payroll!computeTotals(items)[k]
  PROVE  TotalsInv'
<1>1. PICK new : new = [pc |-> "saveLedger", op |-> op, month |-> m,
                         next |-> [ledger EXCEPT ![m] = e], items |-> items]
  OBVIOUS
<1>2. /\ new.pc = "saveLedger" /\ new.op = op /\ new.month = m /\ new.items = items
      /\ new.next = [ledger EXCEPT ![m] = e]
      /\ call'[h] = new /\ \A g \in Handlers : g # h => call'[g] = call[g]
  BY <1>1 DEF LedgerInv, Payroll!Goto
<1>3. stamp \in Nat /\ stamp' \in 0..MaxStamp
  BY DEF TotalsInv, LedgerFacts
<1>4. \A q \in Months : EntryFits(ledger[q], stamp')
  <2>1. \A i \in Payroll!Item : i.stamp \in Int
    BY DEF Payroll!Item
  <2>2. ASSUME NEW q \in Months, EntryFits(ledger[q], stamp) PROVE EntryFits(ledger[q], stamp')
    BY <1>3, <2>1, <2>2 DEF EntryFits, Entries
  <2> QED BY <2>2 DEF TotalsInv
<1>5. DOMAIN new.next = Months /\ new.next[m] = e /\ \A q \in Months : EntryFits(new.next[q], stamp')
  BY <1>2, <1>4 DEF TotalsInv
<1>6. Adds(new)'
  BY <1>2, <1>5 DEF Adds
<1>7. \A g \in Handlers : call'[g].pc = "saveLedger" => g = h
  BY <1>2 DEF Payroll!LedgerIsFree
<1>8. /\ UNCHANGED <<profile, owed>> /\ DOMAIN ledger' = Months
      /\ \A q \in Months : EntryFits(ledger'[q], stamp')
  BY <1>4 DEF TotalsInv
<1>9. InHand(call[h])'
  BY <1>2, <1>5, <1>6 DEF InHand, Adds
<1>10. ASSUME NEW g \in Handlers PROVE InHand(call[g])'
  BY <1>7, <1>9 DEF InHand
<1> QED BY <1>3, <1>4, <1>8, <1>10 DEF TotalsInv

LEMMA TotalsStep ==
  ASSUME LedgerFacts, LedgerInv, TotalsInv, [Payroll!Next]_Payroll!vars
  PROVE  TotalsInv'
<1>0. /\ stamp \in Nat /\ DOMAIN ledger = Months
      /\ \A m \in Months : EntryFits(ledger[m], stamp)
  BY DEF TotalsInv
<1>00. stamp < MaxStamp /\ stamp' = stamp + 1 =>
         stamp' \in 1..MaxStamp /\ stamp < stamp' /\ stamp <= stamp'
  BY <1>0 DEF LedgerFacts
<1>1. ASSUME NEW h \in Handlers, NEW m \in Months, NEW k \in Kinds, NEW amount \in 0..MaxAmount,
             Payroll!updatePayrollLedger(h, m, k, amount)
      PROVE  TotalsInv'
  <2>1. PICK entry : entry = Payroll!normalizeLedgerEntry(ledger[m], stamp')
    OBVIOUS
  <2>2. PICK next : next = [entry EXCEPT !.totals[k] = amount]
    OBVIOUS
  <2>3. /\ Payroll!LedgerIsFree /\ UNCHANGED <<ledger, profile, owed>>
        /\ stamp < MaxStamp /\ stamp' = stamp + 1
        /\ Payroll!Goto(h, [pc |-> "saveLedger", op |-> "totals", month |-> m,
                            next |-> [ledger EXCEPT ![m] = next], items |-> {}])
    BY <1>1, <2>1, <2>2 DEF Payroll!updatePayrollLedger
  <2>4. EntryFits(entry, stamp') /\ entry.written
    BY <1>0, <1>00, <2>1, <2>3, NormalFits
  <2>5. EntryFits(next, stamp')
    <3>1. entry \in Entries /\ amount \in Nat
      BY <2>4 DEF EntryFits, LedgerFacts
    <3>2. /\ next.written = entry.written /\ next.items = entry.items /\ next \in Entries
      BY <2>2, <3>1 DEF Entries
    <3> QED BY <2>4, <3>2 DEF EntryFits
  <2> QED BY <2>3, <2>5, RebuiltFits
<1>2. ASSUME NEW h \in Handlers, NEW m \in Months, NEW k \in Kinds, NEW amount \in 1..MaxAmount,
             Payroll!addLedgerItems(h, m, k, amount)
      PROVE  TotalsInv'
  <2>1. PICK item : item = [stamp |-> stamp', from |-> "request", kind |-> k, amount |-> amount]
    OBVIOUS
  <2>2. PICK next : next = Payroll!appendLedgerItem(ledger[m], item, stamp')
    OBVIOUS
  <2>3. /\ Payroll!LedgerIsFree /\ UNCHANGED <<ledger, profile, owed>>
        /\ stamp < MaxStamp /\ stamp' = stamp + 1
        /\ Payroll!Goto(h, [pc |-> "saveLedger", op |-> "add", month |-> m,
                            next |-> [ledger EXCEPT ![m] = next], items |-> {item}])
    BY <1>2, <2>1, <2>2 DEF Payroll!addLedgerItems
  <2>4. item \in Payroll!Item /\ item.stamp = stamp' /\ item.from = "request"
    BY <1>00, <2>1, <2>3 DEF Payroll!Item, LedgerFacts
  <2>5. /\ EntryFits(next, stamp')
        /\ Payroll!Consistent(ledger[m]) =>
             \A q \in Kinds : next.totals[q] =
                                ledger[m].totals[q] + Payroll!computeTotals({item})[q]
    <3>1. stamp \in Nat /\ stamp' \in 1..MaxStamp /\ stamp < stamp' /\ EntryFits(ledger[m], stamp)
      BY <1>0, <1>00, <2>3
    <3> QED BY <2>2, <2>4, <3>1, AppendAdds, SMTT(60)
  <2>6. {item} \subseteq Payroll!Item
    BY <2>4
  <2> QED BY <2>3, <2>5, <2>6, RebuiltFits
<1>3. ASSUME NEW h \in Handlers, NEW m \in Months, NEW item \in ledger[m].items,
             Payroll!deleteLedgerItem(h, m, item)
      PROVE  TotalsInv'
  <2>2. PICK next : next = Payroll!removeLedgerItem(ledger[m], item, stamp')
    OBVIOUS
  <2>3. /\ Payroll!LedgerIsFree /\ UNCHANGED <<ledger, profile, owed>>
        /\ stamp < MaxStamp /\ stamp' = stamp + 1
        /\ Payroll!Goto(h, [pc |-> "saveLedger", op |-> "delete", month |-> m,
                            next |-> [ledger EXCEPT ![m] = next], items |-> {item}])
    BY <1>3, <2>2 DEF Payroll!deleteLedgerItem
  <2>4. EntryFits(next, stamp')
    BY <1>0, <1>00, <2>2, <2>3, RemoveFits
  <2>5. {item} \subseteq Payroll!Item
    BY <1>0 DEF EntryFits, Entries
  <2> QED BY <2>3, <2>4, <2>5, RebuiltFits
<1>4. ASSUME NEW h \in Handlers, Payroll!saveLedger(h) PROVE TotalsInv'
  <2>1. PICK c : c = call[h]
    OBVIOUS
  <2>2. /\ c.pc = "saveLedger" /\ ledger' = c.next /\ UNCHANGED <<profile, stamp>>
        /\ owed' = [owed EXCEPT ![c.month] = CASE c.op = "add"    -> @ \cup c.items
                                               [] c.op = "delete" -> @ \ c.items
                                               [] OTHER           -> @]
    BY <1>4, <2>1 DEF Payroll!saveLedger
  <2>3. /\ c.month \in Months /\ DOMAIN c.next = Months
        /\ \A m \in Months : EntryFits(c.next[m], stamp)
        /\ c.items \subseteq Payroll!Item /\ c.op \in {"totals", "add", "delete"}
    BY <2>1, <2>2 DEF TotalsInv, InHand, LedgerInv, Holds
  <2>4. owed' \in [Months -> SUBSET Payroll!Item]
    BY <2>2, <2>3 DEF TotalsInv
  <2>5. \A g \in Handlers : call'[g].pc # "saveLedger"
    <3>1. call'[h] = Payroll!IdleCall /\ \A g \in Handlers : g # h => call'[g] = call[g]
      BY <1>4 DEF Payroll!saveLedger, Payroll!Goto, LedgerInv
    <3> QED BY <2>1, <2>2, <3>1 DEF LedgerInv, Payroll!IdleCall
  <2> QED BY <2>2, <2>3, <2>4, <2>5 DEF TotalsInv, InHand
<1>5. ASSUME NEW h \in Handlers, Payroll!readProfile(h) \/ Payroll!saveProfile(h) PROVE TotalsInv'
  <2>1. /\ UNCHANGED <<ledger, owed, stamp>> /\ profile' \in {"old", "new"}
        /\ call'[h].pc # "saveLedger" /\ \A g \in Handlers : g # h => call'[g] = call[g]
    BY <1>5 DEF Payroll!readProfile, Payroll!saveProfile, Payroll!Goto, Payroll!IdleCall,
                LedgerInv, TotalsInv
  <2> QED BY <2>1 DEF TotalsInv, InHand, Adds
<1>6. CASE UNCHANGED Payroll!vars
  BY <1>6 DEF Payroll!vars, TotalsInv, InHand, Adds
<1> QED BY <1>1, <1>2, <1>3, <1>4, <1>5, <1>6 DEF Payroll!Next

LEMMA StepAdds ==
  ASSUME LedgerInv, TotalsInv, [Payroll!Next]_Payroll!vars
  PROVE  [Payroll!AddsOnTop]_Payroll!vars
<1> SUFFICES ASSUME Payroll!Next,
                    NEW h \in Handlers, call[h].pc = "saveLedger", call'[h] = Payroll!IdleCall,
                    call[h].op = "add", Payroll!Consistent(ledger[call[h].month]), NEW k \in Kinds
             PROVE  ledger'[call[h].month].totals[k] =
                      ledger[call[h].month].totals[k] + Payroll!computeTotals(call[h].items)[k]
  BY DEF Payroll!AddsOnTop
<1>1. call'[h] # call[h] /\ call[h] # Payroll!IdleCall
  BY DEF Payroll!IdleCall
<1>2. ASSUME NEW g \in Handlers, g # h, NEW c, Payroll!Goto(g, c) PROVE FALSE
  BY <1>1, <1>2 DEF Payroll!Goto, LedgerInv
<1>3. ASSUME NEW g \in Handlers, Payroll!saveLedger(g) PROVE ledger' = call[h].next
  BY <1>2, <1>3 DEF Payroll!saveLedger
<1>4. ledger' = call[h].next
  <2>1. ASSUME NEW g \in Handlers, NEW m \in Months, NEW q \in Kinds, NEW a,
               Payroll!updatePayrollLedger(g, m, q, a) \/ Payroll!addLedgerItems(g, m, q, a)
        PROVE  FALSE
    BY <1>1, <1>2, <2>1 DEF Payroll!updatePayrollLedger, Payroll!addLedgerItems
  <2>2. ASSUME NEW g \in Handlers, NEW m \in Months, NEW i, Payroll!deleteLedgerItem(g, m, i)
        PROVE  FALSE
    BY <1>1, <1>2, <2>2 DEF Payroll!deleteLedgerItem
  <2>3. ASSUME NEW g \in Handlers, Payroll!readProfile(g) \/ Payroll!saveProfile(g) PROVE FALSE
    BY <1>1, <1>2, <2>3 DEF Payroll!readProfile, Payroll!saveProfile
  <2> QED BY <1>3, <2>1, <2>2, <2>3 DEF Payroll!Next
<1>5. Adds(call[h])
  BY DEF TotalsInv, InHand
<1> QED BY <1>4, <1>5 DEF Adds

\* An item added to a month whose totals say what its items say, or which dates
\* from before the items and has only totals, raises the total of its kind by its
\* amount and no other: appendLedgerItem turns old totals into items once. For
\* any kinds, amounts, months and calls beside profile updates.
THEOREM AddedOnTopAlways ==
  ASSUME LedgerFacts
  PROVE  Payroll!Spec => []Payroll!TypeOK /\ Payroll!AddedOnTop
<1>1. Payroll!Init => LedgerInv /\ TotalsInv
  <2> SUFFICES ASSUME Payroll!Init PROVE LedgerInv /\ TotalsInv
    OBVIOUS
  <2>1. LedgerInv
    BY LedgerStarts
  <2>2. PICK typed \in [Months -> [Kinds -> 0..MaxAmount]] :
          ledger = [m \in Months |->
                      [written |-> \E k \in Kinds : typed[m][k] > 0,
                       items |-> {}, totals |-> typed[m]]]
    BY DEF Payroll!Init
  <2>3. ASSUME NEW m \in Months PROVE EntryFits(ledger[m], 0)
    <3>1. PICK t \in [Kinds -> 0..MaxAmount] : t = typed[m]
      OBVIOUS
    <3>2. t \in [Kinds -> Nat]
      BY DEF LedgerFacts
    <3>3. ledger[m] = [written |-> \E k \in Kinds : t[k] > 0, items |-> {}, totals |-> t]
      BY <2>2, <3>1
    <3>4. (~\E k \in Kinds : t[k] > 0) => t = NoTotals
      <4> SUFFICES ASSUME ~\E k \in Kinds : t[k] > 0 PROVE t = NoTotals
        OBVIOUS
      <4>1. \A k \in Kinds : t[k] = 0
        BY <3>2
      <4> QED BY <3>2, <4>1 DEF NoTotals
    <3>5. IsFiniteSet({})
      BY FS_EmptySet
    <3>6. PICK b \in BOOLEAN : b <=> \E k \in Kinds : t[k] > 0
      OBVIOUS
    <3>7. ledger[m] = [written |-> b, items |-> {}, totals |-> t]
      BY <3>3, <3>6
    <3> QED BY <3>2, <3>4, <3>5, <3>6, <3>7 DEF EntryFits, Entries
  <2>4. stamp = 0 /\ profile = "old" /\ owed = [m \in Months |-> {}] /\ DOMAIN ledger = Months
        /\ \A h \in Handlers : call[h].pc # "saveLedger"
    BY <2>2 DEF Payroll!Init, Payroll!IdleCall
  <2>5. stamp \in 0..MaxStamp
    BY <2>4 DEF LedgerFacts
  <2> QED BY <2>1, <2>3, <2>4, <2>5 DEF TotalsInv, InHand
<1>2. LedgerInv /\ TotalsInv /\ [Payroll!Next]_Payroll!vars => LedgerInv' /\ TotalsInv'
  BY LedgerStep, TotalsStep
<1>3. LedgerInv /\ TotalsInv /\ [Payroll!Next]_Payroll!vars => [Payroll!AddsOnTop]_Payroll!vars
  BY StepAdds
<1>4. TotalsInv => Payroll!TypeOK
  BY DEF TotalsInv, InHand, EntryFits, Entries, Payroll!TypeOK, Payroll!EntryOK
<1> QED BY <1>1, <1>2, <1>3, <1>4, PTL DEF Payroll!Spec, Payroll!AddedOnTop

-----------------------------------------------------------------------------
(* EmployeeRegister: the numbers of one tenant's rows, and the next one.     *)

StaffFacts ==
  /\ Handlers = {me} /\ Tenants = {firm} /\ IsFiniteSet(Ids)
  /\ MaxSerial \in Nat /\ MaxCrashes \in Nat

Crew == Staff!Registered(firm)
Size == Staff!countEmployees(firm)
\* The numbers are those from one on.
FromOneOn == {employees[firm][i].srNo : i \in Crew} = 1..Size

\* A call knows how many there are.
NextNo(c) ==
  \/ c = Staff!IdleCall
  \/ c.pc = "count" /\ c.tenant = firm /\ c.id \in Ids /\ c.given \in Nat
  \/ /\ c.pc = "insert" /\ c.tenant = firm /\ c.id \in Ids /\ c.given \in BOOLEAN
     /\ c.srNo \in Nat \ {0} /\ (~c.given => c.srNo = Size + 1)
  \/ /\ c = [pc |-> "bulk", tenant |-> firm, todo |-> c.todo, srNo |-> Size]
     /\ c.todo \in SUBSET Ids
  \/ c.pc = "bulkCreate" /\ c.tenant = firm /\ c.todo \in SUBSET Ids /\ c.id \in Ids /\ c.srNo = Size + 1
  \/ /\ c.pc = "setPatch" /\ c.tenant = firm /\ c.id \in Ids
     /\ c.exit \in {"unsaid", "set", "clear"} /\ c.status \in {"active", "exited"}
  \/ c.pc = "readRemaining" /\ c.tenant = firm
  \/ c.pc = "bulkWrite" /\ c.tenant = firm /\ c.position \in Staff!Orders(firm)

Renumbers(c) == c.pc \in {"readRemaining", "bulkWrite"}
StaffTypes ==
  /\ employees \in [Tenants -> [Ids -> Staff!Row \cup {Staff!NoRow}]]
  /\ disturbed \in SUBSET Tenants /\ crashes \in 0..MaxCrashes
StaffInv ==
  /\ StaffTypes
  /\ DOMAIN call = Handlers /\ call = [h \in Handlers |-> call[h]]
  /\ NextNo(call[me])
  /\ firm \in disturbed \/ Renumbers(call[me]) \/ FromOneOn

LEMMA StaffCardinality ==
  ASSUME NEW S
  PROVE  Staff!Cardinality(S) = Cardinality(S)
BY DEF Staff!Cardinality, Cardinality

LEMMA StaffCount ==
  ASSUME StaffFacts
  PROVE  IsFiniteSet(Crew) /\ Crew \subseteq Ids /\ Size \in Nat /\ Size = Cardinality(Crew)
<1>1. Crew \in SUBSET Ids BY DEF Crew, Staff!Registered
<1>2. IsFiniteSet(Crew) BY <1>1, FS_Subset DEF StaffFacts
<1>3. Size = Cardinality(Crew) BY StaffCardinality DEF Size, Crew, Staff!countEmployees
<1> QED BY <1>1, <1>2, <1>3, FS_CardinalityType

LEMMA CrewRows ==
  ASSUME StaffFacts, StaffTypes
  PROVE  /\ \A i \in Ids : employees[firm][i] \in Staff!Row \cup {Staff!NoRow}
         /\ \A i \in Crew : i \in Ids /\ employees[firm][i] \in Staff!Row /\ employees[firm][i] # Staff!NoRow
         /\ \A i \in Ids : i \notin Crew => employees[firm][i] = Staff!NoRow
BY DEF StaffFacts, StaffTypes, Crew, Staff!Registered

LEMMA ARowIsNotNone ==
  ASSUME NEW new \in Staff!Row
  PROVE  new # Staff!NoRow
<1>1. new.srNo # 0 BY DEF Staff!Row
<1>2. Staff!NoRow.srNo = 0 BY DEF Staff!NoRow
<1> QED BY <1>1, <1>2

LEMMA StaffGoesOn ==
  ASSUME StaffFacts, StaffInv, NEW c, Staff!Goto(me, c), StaffTypes', NextNo(c)',
         firm \in disturbed' \/ Renumbers(c) \/ FromOneOn'
  PROVE  StaffInv'
<1>1. call'[me] = c /\ DOMAIN call' = Handlers /\ call' = [h \in Handlers |-> call'[h]]
  BY DEF StaffFacts, StaffInv, Staff!Goto
<1>2. NextNo(call[me])' /\ (firm \in disturbed' \/ Renumbers(call[me])' \/ FromOneOn')
  BY <1>1 DEF Renumbers
<1> QED BY <1>1, <1>2 DEF StaffInv

\* Rows that keep their numbers keep the count, and what a call knows of it.
LEMMA NumbersStay ==
  ASSUME StaffFacts, StaffInv,
         employees' \in [Tenants -> [Ids -> Staff!Row \cup {Staff!NoRow}]],
         \A i \in Ids : /\ employees'[firm][i] = Staff!NoRow <=> employees[firm][i] = Staff!NoRow
                        /\ employees'[firm][i].srNo = employees[firm][i].srNo
  PROVE  Crew' = Crew /\ Size' = Size /\ (FromOneOn => FromOneOn')
<1>1. Crew' = Crew BY DEF Crew, Staff!Registered
<1>2. Size' = Size BY <1>1 DEF Size, Crew, Staff!countEmployees
<1>3. \A i \in Crew : i \in Ids BY StaffCount
<1>4. {employees'[firm][i].srNo : i \in Crew} = {employees[firm][i].srNo : i \in Crew}
  BY <1>3
<1> QED BY <1>1, <1>2, <1>4 DEF FromOneOn

\* A row with the next number leaves the numbers from one on.
LEMMA OneMore ==
  ASSUME StaffFacts, StaffInv, NEW i \in Ids \ Crew, NEW new \in Staff!Row,
         employees' = [employees EXCEPT ![firm][i] = new]
  PROVE  /\ employees' \in [Tenants -> [Ids -> Staff!Row \cup {Staff!NoRow}]]
         /\ Size' = Size + 1
         /\ new.srNo = Size + 1 /\ FromOneOn => FromOneOn'
<1>1. /\ employees' \in [Tenants -> [Ids -> Staff!Row \cup {Staff!NoRow}]]
      /\ employees'[firm][i] = new /\ \A j \in Ids : j # i => employees'[firm][j] = employees[firm][j]
  BY DEF StaffFacts, StaffInv, StaffTypes
<1>2. Crew' = Crew \cup {i}
  BY <1>1, ARowIsNotNone DEF Crew, Staff!Registered
<1>3. Size' = Cardinality(Crew') BY StaffCardinality DEF Size, Crew, Staff!countEmployees
<1>4. Size' = Size + 1
  BY <1>2, <1>3, StaffCount, FS_AddElement
<1>5. ASSUME new.srNo = Size + 1, FromOneOn PROVE FromOneOn'
  <2>1. \A j \in Crew : j \in Ids /\ j # i BY StaffCount
  <2>2. {employees'[firm][j].srNo : j \in Crew'} = {employees[firm][j].srNo : j \in Crew} \cup {new.srNo}
    BY <1>1, <1>2, <2>1
  <2>3. (1..Size) \cup {Size + 1} = 1..(Size + 1) BY StaffCount
  <2> QED BY <1>4, <1>5, <2>2, <2>3 DEF FromOneOn
<1> QED BY <1>1, <1>4, <1>5

\* Positions given one to each are all those from one on.
LEMMA AllPlaces ==
  ASSUME NEW S, IsFiniteSet(S), NEW n \in Nat, n = Cardinality(S), NEW p \in [S -> 1..n],
         \A i, j \in S : i # j => p[i] # p[j]
  PROVE  {p[i] : i \in S} = 1..n
<1>1. ASSUME NEW k \in 1..n, \A i \in S : p[i] # k PROVE FALSE
  <2>1. p \in [S -> (1..n) \ {k}] BY <1>1
  <2>2. IsFiniteSet((1..n) \ {k}) /\ Cardinality((1..n) \ {k}) = n - 1
    <3>1. IsFiniteSet(1..n) /\ Cardinality(1..n) = IF 1 > n THEN 0 ELSE n - 1 + 1
      BY FS_Interval, SMTT(60)
    <3>2. IsFiniteSet(1..n) /\ Cardinality(1..n) = n BY <3>1
    <3> QED BY <3>2, <1>1, FS_RemoveElement
  <2>3. \E i, j \in S : i # j /\ p[i] = p[j]
    BY <2>1, <2>2, FS_PigeonHole
  <2> QED BY <2>3
<1> QED BY <1>1

LEMMA PositionsAreAll ==
  ASSUME StaffFacts, NEW p \in Staff!Orders(firm)
  PROVE  /\ p \in [Crew -> 1..Size] /\ {p[i] : i \in Crew} = 1..Size
<1>1. p \in [Crew -> 1..Size] /\ \A i, j \in Crew : i # j => p[i] # p[j]
  BY StaffCount, StaffCardinality DEF Staff!Orders, Crew
<1> QED BY <1>1, StaffCount, AllPlaces

LEMMA CreatesEmployee ==
  ASSUME StaffFacts, StaffInv, NEW i \in Ids, NEW given \in 0..MaxSerial, Staff!create(me, firm, i, given)
  PROVE  StaffInv'
<1> DEFINE c == [pc |-> "count", tenant |-> firm, id |-> i, given |-> given]
<1>1. Staff!Goto(me, c) /\ employees' = employees /\ disturbed' = disturbed /\ crashes' = crashes
  BY DEF Staff!create
<1>2. NextNo(c)' BY DEF NextNo, StaffFacts
<1>3. StaffTypes' BY <1>1 DEF StaffInv, StaffTypes
<1>4. call[me] = Staff!IdleCall BY DEF Staff!create
<1>5. ~Renumbers(call[me]) BY <1>4 DEF Renumbers, Staff!IdleCall
<1>6. firm \in disturbed' \/ FromOneOn' BY <1>1, <1>5 DEF StaffInv, FromOneOn, Crew, Size, Staff!Registered, Staff!countEmployees
<1> QED BY <1>1, <1>2, <1>3, <1>6, StaffGoesOn

\* What the rows hold is read by every step that does not change them.
LEMMA RowsRest ==
  ASSUME StaffFacts, StaffInv, employees' = employees, disturbed' = disturbed, crashes' = crashes
  PROVE  /\ StaffTypes' /\ Crew' = Crew /\ Size' = Size
         /\ Staff!Orders(firm)' = Staff!Orders(firm)
         /\ ~Renumbers(call[me]) => firm \in disturbed' \/ FromOneOn'
BY DEF StaffInv, StaffTypes, FromOneOn, Crew, Size, Staff!Registered, Staff!countEmployees, Staff!Orders

LEMMA CountsForCreate ==
  ASSUME StaffFacts, StaffInv, Staff!countForCreate(me)
  PROVE  StaffInv'
<1>1. /\ call[me].pc = "count" /\ call[me].tenant = firm /\ call[me].id \in Ids /\ call[me].given \in Nat
      /\ ~Renumbers(call[me])
  BY DEF StaffInv, NextNo, Renumbers, Staff!countForCreate, Staff!At, Staff!IdleCall
<1>2. employees' = employees /\ disturbed' = disturbed /\ crashes' = crashes
  BY DEF Staff!countForCreate
<1>3. /\ StaffTypes' /\ Size' = Size /\ (firm \in disturbed' \/ FromOneOn')
  BY <1>1, <1>2, RowsRest
<1>0. PICK c : c = [pc |-> "insert", tenant |-> firm, id |-> call[me].id,
                     srNo |-> IF call[me].given > 0 THEN call[me].given ELSE Size + 1,
                     given |-> call[me].given > 0]
  OBVIOUS
<1>4. Staff!Goto(me, c) \/ Staff!Goto(me, Staff!IdleCall)
  BY <1>0, <1>1 DEF Staff!countForCreate, Size
<1>5. NextNo(c)'
  <2>1. Size \in Nat BY StaffCount
  <2>2. CASE call[me].given > 0
    <3>1. c.srNo = call[me].given /\ c.srNo \in Nat \ {0} BY <1>0, <1>1, <2>2
    <3>3. c.given = (call[me].given > 0) BY <1>0, Zenon
    <3>4. (call[me].given > 0) = TRUE BY <2>2
    <3>5. c.given = TRUE BY <3>3, <3>4, Zenon
    <3>2. c.pc = "insert" /\ c.tenant = firm /\ c.id \in Ids BY <1>0, <1>1
    <3> QED BY <3>1, <3>2, <3>5 DEF NextNo
  <2>3. CASE ~(call[me].given > 0)
    <3>1. c.srNo = Size + 1 /\ c.srNo \in Nat \ {0} BY <1>0, <1>1, <2>1, <2>3
    <3>3. c.given = (call[me].given > 0) BY <1>0, Zenon
    <3>4. (call[me].given > 0) = FALSE BY <2>3
    <3>5. c.given = FALSE BY <3>3, <3>4, Zenon
    <3>2. c.pc = "insert" /\ c.tenant = firm /\ c.id \in Ids BY <1>0, <1>1
    <3> QED BY <1>3, <3>1, <3>2, <3>5 DEF NextNo
  <2> QED BY <2>2, <2>3
<1>6. NextNo(Staff!IdleCall)' BY DEF NextNo
<1> QED BY <1>3, <1>4, <1>5, <1>6, StaffGoesOn

LEMMA InsertsEmployee ==
  ASSUME StaffFacts, StaffInv, NEW exitDate \in BOOLEAN, Staff!insert(me, exitDate)
  PROVE  StaffInv'
<1> DEFINE c == call[me]
<1>1. /\ c.pc = "insert" /\ c.tenant = firm /\ c.id \in Ids /\ c.given \in BOOLEAN
      /\ c.srNo \in Nat \ {0} /\ (~c.given => c.srNo = Size + 1)
      /\ ~Renumbers(c)
  BY DEF StaffInv, NextNo, Renumbers, Staff!insert, Staff!At, Staff!IdleCall
<1>2. Staff!Goto(me, Staff!IdleCall) /\ crashes' = crashes BY DEF Staff!insert
<1>3. NextNo(Staff!IdleCall)' BY DEF NextNo
<1>4. CASE Staff!existsByCode(firm, c.id)
  <2>1. employees' = employees /\ disturbed' = disturbed BY <1>1, <1>4 DEF Staff!insert
  <2> QED BY <1>1, <1>2, <1>3, <2>1, RowsRest, StaffGoesOn
<1>5. CASE ~Staff!existsByCode(firm, c.id)
  <2> DEFINE new == Staff!NewRow(c.srNo, exitDate)
  <2>1. /\ employees' = [employees EXCEPT ![firm][c.id] = new]
        /\ disturbed' = IF c.given THEN disturbed \cup {firm} ELSE disturbed
    BY <1>1, <1>5 DEF Staff!insert
  <2>2. c.id \in Ids \ Crew BY <1>1, <1>5 DEF Crew, Staff!Registered, Staff!existsByCode
  <2>3. new \in Staff!Row /\ new.srNo = c.srNo BY <1>1 DEF Staff!NewRow, Staff!Row
  <2> HIDE DEF new
  <2>4. /\ employees' \in [Tenants -> [Ids -> Staff!Row \cup {Staff!NoRow}]]
        /\ new.srNo = Size + 1 /\ FromOneOn => FromOneOn'
    BY <2>1, <2>2, <2>3, OneMore
  <2>5. StaffTypes' BY <1>2, <2>1, <2>4 DEF StaffInv, StaffTypes, StaffFacts
  <2>6. firm \in disturbed' \/ FromOneOn'
    BY <1>1, <2>1, <2>3, <2>4 DEF StaffInv
  <2> QED BY <1>2, <1>3, <2>5, <2>6, StaffGoesOn
<1> QED BY <1>4, <1>5

LEMMA BulkOpens ==
  ASSUME StaffFacts, StaffInv, NEW S \in SUBSET Ids, Staff!bulkInsert(me, firm, S)
  PROVE  StaffInv'
<1>1. PICK c : c = [pc |-> "bulk", tenant |-> firm, todo |-> S, srNo |-> Size] OBVIOUS
<1>2. /\ call[me] = Staff!IdleCall /\ Staff!Goto(me, c)
      /\ employees' = employees /\ disturbed' = disturbed /\ crashes' = crashes
  BY <1>1 DEF Staff!bulkInsert, Size
<1>3. ~Renumbers(call[me]) BY <1>2 DEF Renumbers, Staff!IdleCall
<1>4. StaffTypes' /\ Size' = Size /\ (firm \in disturbed' \/ FromOneOn') BY <1>2, <1>3, RowsRest
<1>5. NextNo(c)' BY <1>1, <1>4 DEF NextNo
<1> QED BY <1>2, <1>4, <1>5, StaffGoesOn

LEMMA BulkLooks ==
  ASSUME StaffFacts, StaffInv, NEW i \in Ids, Staff!bulkCheck(me, i)
  PROVE  StaffInv'
<1>1. /\ call[me].pc = "bulk" /\ call[me].tenant = firm /\ call[me].todo \in SUBSET Ids
      /\ call[me].srNo = Size /\ ~Renumbers(call[me])
  BY DEF StaffInv, NextNo, Renumbers, Staff!bulkCheck, Staff!At, Staff!IdleCall
<1>2. employees' = employees /\ disturbed' = disturbed /\ crashes' = crashes
  BY DEF Staff!bulkCheck
<1>3. StaffTypes' /\ Size' = Size /\ (firm \in disturbed' \/ FromOneOn') BY <1>1, <1>2, RowsRest
<1>4. PICK c : c = [call[me] EXCEPT !.todo = @ \ {i}] OBVIOUS
<1>5. PICK b : b = [pc |-> "bulkCreate", tenant |-> firm, todo |-> call[me].todo \ {i},
                    srNo |-> call[me].srNo + 1, id |-> i]
  OBVIOUS
<1>6. Staff!Goto(me, c) \/ Staff!Goto(me, b)
  BY <1>1, <1>4, <1>5, Zenon DEF Staff!bulkCheck
<1>7. b.pc = "bulkCreate" /\ b.tenant = firm /\ b.todo \in SUBSET Ids /\ b.id \in Ids /\ b.srNo = Size + 1
  BY <1>1, <1>5
<1>8. NextNo(b)' BY <1>3, <1>7 DEF NextNo
<1>9. NextNo(c)'
  <2>1. call[me] = [pc |-> "bulk", tenant |-> firm, todo |-> call[me].todo, srNo |-> Size]
    BY <1>1 DEF StaffInv, NextNo, Staff!IdleCall
  <2>2. c = [pc |-> "bulk", tenant |-> firm, todo |-> call[me].todo \ {i}, srNo |-> Size]
    <3>1. PICK d, a, n : d = call[me].todo /\ a = call[me] /\ n = Size OBVIOUS
    <3>2. a = [pc |-> "bulk", tenant |-> firm, todo |-> d, srNo |-> n] /\ c = [a EXCEPT !.todo = @ \ {i}]
      BY <1>4, <2>1, <3>1, Zenon
    <3>3. c = [pc |-> "bulk", tenant |-> firm, todo |-> d \ {i}, srNo |-> n] BY <3>2
    <3> QED BY <3>1, <3>3, Zenon
  <2>3. c.todo = call[me].todo \ {i} BY <2>2
  <2>4. c.todo \in SUBSET Ids BY <1>1, <2>3
  <2>5. c = [pc |-> "bulk", tenant |-> firm, todo |-> c.todo, srNo |-> Size'] BY <1>3, <2>2, <2>3
  <2> QED BY <2>4, <2>5 DEF NextNo
<1> QED BY <1>3, <1>6, <1>8, <1>9, StaffGoesOn

LEMMA BulkCreatesEmployee ==
  ASSUME StaffFacts, StaffInv, NEW exitDate \in BOOLEAN, Staff!bulkCreate(me, exitDate)
  PROVE  StaffInv'
<1>1. PICK c : c = call[me] OBVIOUS
<1>2. /\ c.pc = "bulkCreate" /\ c.tenant = firm /\ c.todo \in SUBSET Ids /\ c.id \in Ids
      /\ c.srNo = Size + 1 /\ ~Renumbers(c)
  BY <1>1 DEF StaffInv, NextNo, Renumbers, Staff!bulkCreate, Staff!At, Staff!IdleCall
<1>3. disturbed' = disturbed /\ crashes' = crashes BY DEF Staff!bulkCreate
<1>4. CASE Staff!existsByCode(firm, c.id)
  <2>1. employees' = employees /\ Staff!Goto(me, Staff!IdleCall)
    BY <1>1, <1>2, <1>4 DEF Staff!bulkCreate
  <2>2. NextNo(Staff!IdleCall)' BY DEF NextNo
  <2> QED BY <1>1, <1>2, <1>3, <2>1, <2>2, RowsRest, StaffGoesOn
<1>5. CASE ~Staff!existsByCode(firm, c.id)
  <2>1. PICK new : new = Staff!NewRow(c.srNo, exitDate) OBVIOUS
  <2>2. PICK b : b = [pc |-> "bulk", tenant |-> firm, todo |-> c.todo, srNo |-> c.srNo] OBVIOUS
  <2>3. employees' = [employees EXCEPT ![firm][c.id] = new] /\ Staff!Goto(me, b)
    BY <1>1, <1>2, <1>5, <2>1, <2>2 DEF Staff!bulkCreate
  <2>4. c.id \in Ids \ Crew BY <1>2, <1>5 DEF Crew, Staff!Registered, Staff!existsByCode
  <2>5. new \in Staff!Row /\ new.srNo = c.srNo
    BY <1>2, <2>1, StaffCount DEF Staff!NewRow, Staff!Row
  <2>6. /\ employees' \in [Tenants -> [Ids -> Staff!Row \cup {Staff!NoRow}]]
        /\ Size' = Size + 1 /\ (FromOneOn => FromOneOn')
    BY <1>2, <2>3, <2>4, <2>5, OneMore
  <2>7. StaffTypes' BY <1>3, <2>6 DEF StaffInv, StaffTypes
  <2>8. firm \in disturbed' \/ FromOneOn' BY <1>1, <1>2, <1>3, <2>6 DEF StaffInv
  <2>9. NextNo(b)' BY <1>2, <2>2, <2>6 DEF NextNo
  <2> QED BY <2>3, <2>7, <2>8, <2>9, StaffGoesOn
<1> QED BY <1>4, <1>5

LEMMA BulkEnds ==
  ASSUME StaffFacts, StaffInv, Staff!bulkDone(me)
  PROVE  StaffInv'
<1>1. ~Renumbers(call[me]) BY DEF Staff!bulkDone, Staff!At, Renumbers
<1>2. /\ Staff!Goto(me, Staff!IdleCall)
      /\ employees' = employees /\ disturbed' = disturbed /\ crashes' = crashes
  BY DEF Staff!bulkDone
<1>3. NextNo(Staff!IdleCall)' BY DEF NextNo
<1> QED BY <1>1, <1>2, <1>3, RowsRest, StaffGoesOn

LEMMA UpdatesEmployee ==
  ASSUME StaffFacts, StaffInv, NEW i \in Ids, NEW exit \in {"unsaid", "set", "clear"},
         Staff!update(me, firm, i, exit)
  PROVE  StaffInv'
<1>1. PICK c : c = [pc |-> "setPatch", tenant |-> firm, id |-> i, exit |-> exit,
                    status |-> Staff!mergedStatus(employees[firm][i], exit)]
  OBVIOUS
<1>2. /\ call[me] = Staff!IdleCall /\ Staff!Goto(me, c) /\ employees[firm][i] # Staff!NoRow
      /\ employees' = employees /\ disturbed' = disturbed /\ crashes' = crashes
  BY <1>1 DEF Staff!update
<1>3. ~Renumbers(call[me]) BY <1>2 DEF Renumbers, Staff!IdleCall
<1>4. employees[firm][i].status \in {"active", "exited"}
  BY <1>2, CrewRows DEF StaffInv, Staff!Row
<1>5. c.status \in {"active", "exited"} BY <1>1, <1>4 DEF Staff!mergedStatus
<1>6. NextNo(c)' BY <1>1, <1>5 DEF NextNo
<1> QED BY <1>2, <1>3, <1>6, RowsRest, StaffGoesOn

\* An update leaves the number of its row alone.
LEMMA PatchesEmployee ==
  ASSUME StaffFacts, StaffInv, Staff!setPatch(me)
  PROVE  StaffInv'
<1>1. PICK c : c = call[me] OBVIOUS
<1>2. /\ c.pc = "setPatch" /\ c.tenant = firm /\ c.id \in Ids
      /\ c.exit \in {"unsaid", "set", "clear"} /\ c.status \in {"active", "exited"} /\ ~Renumbers(c)
  <2>1. c.pc = "setPatch" /\ NextNo(c) BY <1>1, Zenon DEF StaffInv, Staff!setPatch, Staff!At
  <2>2. c # Staff!IdleCall BY <2>1 DEF Staff!IdleCall
  <2> QED BY <2>1, <2>2 DEF NextNo, Renumbers
<1>3. Staff!Goto(me, Staff!IdleCall) /\ disturbed' = disturbed /\ crashes' = crashes
  BY DEF Staff!setPatch
<1>4. NextNo(Staff!IdleCall)' BY DEF NextNo
<1>5. CASE employees[firm][c.id] = Staff!NoRow
  <2>1. employees' = employees BY <1>1, <1>2, <1>5 DEF Staff!setPatch
  <2> QED BY <1>1, <1>2, <1>3, <1>4, <2>1, RowsRest, StaffGoesOn
<1>6. CASE employees[firm][c.id] # Staff!NoRow
  <2>1. PICK was : was = employees[firm][c.id] OBVIOUS
  <2>2. PICK new : new = [was EXCEPT !.status = c.status,
                            !.exitDate = IF c.exit = "unsaid" THEN was.exitDate ELSE c.exit = "set"]
    OBVIOUS
  <2>3. employees' = [employees EXCEPT ![firm][c.id] = new]
    BY <1>1, <1>2, <1>6, <2>1, <2>2, Zenon DEF Staff!setPatch
  <2>4. was \in Staff!Row BY <1>2, <1>6, <2>1, CrewRows DEF StaffInv
  <2>5. new \in Staff!Row /\ new.srNo = was.srNo BY <1>2, <2>2, <2>4 DEF Staff!Row
  <2>6. new # Staff!NoRow BY <2>5, ARowIsNotNone
  <2>7. /\ employees' \in [Tenants -> [Ids -> Staff!Row \cup {Staff!NoRow}]]
        /\ employees'[firm][c.id] = new /\ \A j \in Ids : j # c.id => employees'[firm][j] = employees[firm][j]
    BY <1>2, <2>3, <2>5 DEF StaffFacts, StaffInv, StaffTypes
  <2>8. \A i \in Ids : /\ employees'[firm][i] = Staff!NoRow <=> employees[firm][i] = Staff!NoRow
                       /\ employees'[firm][i].srNo = employees[firm][i].srNo
    BY <1>2, <1>6, <2>1, <2>5, <2>6, <2>7
  <2>9. FromOneOn => FromOneOn' BY <2>7, <2>8, NumbersStay
  <2>10. StaffTypes' BY <1>3, <2>7 DEF StaffInv, StaffTypes
  <2> QED BY <1>1, <1>2, <1>3, <1>4, <2>9, <2>10, StaffGoesOn DEF StaffInv
<1> QED BY <1>5, <1>6

LEMMA MarksExits ==
  ASSUME StaffFacts, StaffInv, NEW S \in SUBSET Ids, Staff!markExitByIds(me, firm, S)
  PROVE  StaffInv'
<1> DEFINE out(row) == [row EXCEPT !.exitDate = TRUE, !.status = "exited"]
<1>1. /\ call[me] = Staff!IdleCall /\ call' = call /\ disturbed' = disturbed /\ crashes' = crashes
      /\ S \subseteq Crew
      /\ employees' = [employees EXCEPT ![firm] =
           [i \in Ids |-> IF i \in S THEN out(employees[firm][i]) ELSE employees[firm][i]]]
  BY DEF Staff!markExitByIds, Crew
<1>2. \A row \in Staff!Row : out(row) \in Staff!Row /\ out(row).srNo = row.srNo
  BY DEF Staff!Row
<1> HIDE DEF out
<1>3. /\ \A i \in S : employees'[firm][i] = out(employees[firm][i])
      /\ \A i \in Ids \ S : employees'[firm][i] = employees[firm][i]
      /\ employees' \in [Tenants -> [Ids -> Staff!Row \cup {Staff!NoRow}]]
  BY <1>1, <1>2, CrewRows DEF StaffFacts, StaffInv, StaffTypes
<1>4. \A i \in Ids : /\ employees'[firm][i] = Staff!NoRow <=> employees[firm][i] = Staff!NoRow
                     /\ employees'[firm][i].srNo = employees[firm][i].srNo
  <2> TAKE i \in Ids
  <2>1. CASE i \in S
    <3>1. employees[firm][i] \in Staff!Row /\ employees[firm][i] # Staff!NoRow
      BY <1>1, <2>1, CrewRows DEF StaffInv
    <3> QED BY <1>2, <1>3, <2>1, <3>1, ARowIsNotNone
  <2>2. CASE i \notin S BY <1>3, <2>2
  <2> QED BY <2>1, <2>2
<1>5. (FromOneOn => FromOneOn') /\ Size' = Size BY <1>3, <1>4, NumbersStay
<1>6. StaffTypes' BY <1>1, <1>3 DEF StaffInv, StaffTypes
<1>7. NextNo(call[me])' BY <1>1 DEF NextNo
<1>8. ~Renumbers(call[me]) BY <1>1 DEF Renumbers, Staff!IdleCall
<1> QED BY <1>1, <1>5, <1>6, <1>7, <1>8 DEF StaffInv

LEMMA DeletesEmployees ==
  ASSUME StaffFacts, StaffInv, NEW S \in SUBSET Ids, Staff!deleteByIds(me, firm, S)
  PROVE  StaffInv'
<1>1. PICK c : c = [pc |-> "readRemaining", tenant |-> firm] OBVIOUS
<1>2. /\ Staff!Goto(me, c) /\ disturbed' = disturbed /\ crashes' = crashes
      /\ employees' = [employees EXCEPT ![firm] =
           [i \in Ids |-> IF i \in S THEN Staff!NoRow ELSE employees[firm][i]]]
  BY <1>1 DEF Staff!deleteByIds
<1>3. employees' \in [Tenants -> [Ids -> Staff!Row \cup {Staff!NoRow}]]
  BY <1>2, CrewRows DEF StaffFacts, StaffInv, StaffTypes
<1>4. StaffTypes' BY <1>2, <1>3 DEF StaffInv, StaffTypes
<1>5. NextNo(c)' /\ Renumbers(c) BY <1>1 DEF NextNo, Renumbers
<1> QED BY <1>2, <1>4, <1>5, StaffGoesOn

LEMMA ReadsRemaining ==
  ASSUME StaffFacts, StaffInv, Staff!readRemaining(me)
  PROVE  StaffInv'
<1>1. call[me].tenant = firm
  <2>1. call[me].pc = "readRemaining" /\ NextNo(call[me]) BY DEF StaffInv, Staff!readRemaining, Staff!At
  <2>2. call[me] # Staff!IdleCall BY <2>1 DEF Staff!IdleCall
  <2> QED BY <2>1, <2>2 DEF NextNo
<1>2. PICK p \in Staff!Orders(firm) :
        Staff!Goto(me, [pc |-> "bulkWrite", tenant |-> firm, position |-> p])
  BY <1>1 DEF Staff!readRemaining
<1>3. PICK c : c = [pc |-> "bulkWrite", tenant |-> firm, position |-> p] OBVIOUS
<1>4. employees' = employees /\ disturbed' = disturbed /\ crashes' = crashes
  BY DEF Staff!readRemaining
<1>5. StaffTypes' /\ p \in Staff!Orders(firm)' BY <1>2, <1>4, RowsRest
<1>6. NextNo(c)' /\ Renumbers(c) BY <1>3, <1>5 DEF NextNo, Renumbers
<1> QED BY <1>2, <1>3, <1>5, <1>6, StaffGoesOn

\* The renumbering writes to every row the position it was given.
LEMMA Renumbering ==
  ASSUME StaffFacts, StaffInv, Staff!bulkWrite(me)
  PROVE  StaffInv'
<1>1. call[me].tenant = firm /\ call[me].position \in Staff!Orders(firm)
  <2>1. call[me].pc = "bulkWrite" /\ NextNo(call[me]) BY DEF StaffInv, Staff!bulkWrite, Staff!At
  <2>2. call[me] # Staff!IdleCall BY <2>1 DEF Staff!IdleCall
  <2> QED BY <2>1, <2>2 DEF NextNo
<1>2. PICK p : p = call[me].position OBVIOUS
<1>3. p \in [Crew -> 1..Size] /\ {p[i] : i \in Crew} = 1..Size
  BY <1>1, <1>2, PositionsAreAll
<1>4. Staff!Goto(me, Staff!IdleCall) /\ disturbed' = disturbed \ {firm} /\ crashes' = crashes
  BY <1>1 DEF Staff!bulkWrite
<1> DEFINE Held(i) == {t \in Tenants : employees[t][i] # Staff!NoRow}
<1>5. DOMAIN p = Crew BY <1>3
<1>6. PICK hit \in [Crew -> Tenants] :
        employees' = [t \in Tenants |-> [i \in Ids |->
          IF i \in Crew /\ hit[i] = t /\ t \in Held(i)
          THEN [employees[t][i] EXCEPT !.srNo = p[i]] ELSE employees[t][i]]]
  BY <1>2, <1>5 DEF Staff!bulkWrite
<1>7. \A i \in Crew : i \in Ids /\ hit[i] = firm /\ firm \in Held(i)
  BY <1>6, CrewRows DEF StaffFacts, StaffInv
<1>8. /\ employees' = [t \in Tenants |-> employees'[t]]
      /\ employees'[firm] = [i \in Ids |-> IF i \in Crew THEN [employees[firm][i] EXCEPT !.srNo = p[i]]
                                           ELSE employees[firm][i]]
  BY <1>6, <1>7 DEF StaffFacts
<1>9. \A i \in Crew : employees'[firm][i] \in Staff!Row /\ employees'[firm][i].srNo = p[i]
  <2> TAKE i \in Crew
  <2>1. employees'[firm][i] = [employees[firm][i] EXCEPT !.srNo = p[i]] BY <1>7, <1>8
  <2>2. employees[firm][i] \in Staff!Row BY CrewRows DEF StaffInv
  <2>3. p[i] \in Nat \ {0} BY <1>3, StaffCount
  <2> QED BY <2>1, <2>2, <2>3 DEF Staff!Row
<1>10. \A i \in Ids : i \notin Crew => employees'[firm][i] = Staff!NoRow
  BY <1>8, CrewRows DEF StaffInv
<1>11. \A i \in Ids : employees'[firm][i] \in Staff!Row \cup {Staff!NoRow} BY <1>9, <1>10
<1>12. employees' \in [Tenants -> [Ids -> Staff!Row \cup {Staff!NoRow}]]
  BY <1>8, <1>11 DEF StaffFacts
<1>13. Crew' = Crew
  BY <1>7, <1>9, <1>10, ARowIsNotNone DEF Crew, Staff!Registered
<1>14. Size' = Size BY <1>13 DEF Size, Crew, Staff!countEmployees
<1>15. {employees'[firm][i].srNo : i \in Crew} = {p[i] : i \in Crew} BY <1>9
<1>16. FromOneOn' BY <1>3, <1>13, <1>14, <1>15 DEF FromOneOn
<1>17. StaffTypes' BY <1>4, <1>12 DEF StaffInv, StaffTypes
<1>18. NextNo(Staff!IdleCall)' BY DEF NextNo
<1> QED BY <1>4, <1>16, <1>17, <1>18, StaffGoesOn

LEMMA StaffCrash ==
  ASSUME StaffFacts, StaffInv, Staff!Crash
  PROVE  StaffInv'
<1>1. /\ crashes < MaxCrashes /\ crashes' = crashes + 1 /\ employees' = employees
      /\ call' = [h \in Handlers |-> Staff!IdleCall]
      /\ disturbed' = disturbed \cup
           {call[h].tenant : h \in {g \in Handlers : call[g].pc \in {"readRemaining", "bulkWrite"}}}
  BY DEF Staff!Crash
<1>2. Renumbers(call[me]) => call[me].tenant = firm
  BY DEF StaffInv, NextNo, Renumbers, Staff!IdleCall
<1>3. disturbed' \in SUBSET Tenants /\ (Renumbers(call[me]) => firm \in disturbed')
  BY <1>1, <1>2 DEF StaffFacts, StaffInv, StaffTypes, Renumbers
<1>4. StaffTypes'
  <2>1. crashes' \in 0..MaxCrashes BY <1>1 DEF StaffFacts, StaffInv, StaffTypes
  <2>2. employees' \in [Tenants -> [Ids -> Staff!Row \cup {Staff!NoRow}]]
    BY <1>1 DEF StaffInv, StaffTypes
  <2> QED BY <1>3, <2>1, <2>2 DEF StaffTypes
<1>5. FromOneOn => FromOneOn'
  BY <1>1 DEF FromOneOn, Crew, Size, Staff!Registered, Staff!countEmployees
<1>6. NextNo(call[me])' BY <1>1 DEF NextNo, StaffFacts
<1>7. DOMAIN call' = Handlers /\ call' = [h \in Handlers |-> call'[h]] BY <1>1
<1>8. firm \in disturbed => firm \in disturbed' BY <1>1
<1> QED BY <1>3, <1>4, <1>5, <1>6, <1>7, <1>8 DEF StaffInv

LEMMA StaffSteps ==
  ASSUME StaffFacts, StaffInv, Staff!Next
  PROVE  StaffInv'
<1>1. CASE Staff!Crash BY <1>1, StaffCrash
<1>2. CASE \E i \in Ids : (\E given \in 0..MaxSerial : Staff!create(me, firm, i, given))
                          \/ (\E exit \in {"unsaid", "set", "clear"} : Staff!update(me, firm, i, exit))
  BY <1>2, CreatesEmployee, UpdatesEmployee
<1>3. CASE \E S \in SUBSET Ids : \/ Staff!bulkInsert(me, firm, S) \/ Staff!markExitByIds(me, firm, S)
                                 \/ Staff!deleteByIds(me, firm, S)
  BY <1>3, BulkOpens, MarksExits, DeletesEmployees
<1>4. CASE \E exitDate \in BOOLEAN : Staff!insert(me, exitDate) \/ Staff!bulkCreate(me, exitDate)
  BY <1>4, InsertsEmployee, BulkCreatesEmployee
<1>5. CASE \/ Staff!countForCreate(me) \/ Staff!bulkDone(me) \/ Staff!setPatch(me)
           \/ Staff!readRemaining(me) \/ Staff!bulkWrite(me) \/ \E i \in Ids : Staff!bulkCheck(me, i)
  BY <1>5, CountsForCreate, BulkEnds, PatchesEmployee, ReadsRemaining, Renumbering, BulkLooks
<1> QED BY <1>1, <1>2, <1>3, <1>4, <1>5 DEF Staff!Next, StaffFacts

LEMMA StaffStarts ==
  ASSUME StaffFacts, Staff!Init
  PROVE  StaffInv
<1>1. /\ employees = [t \in Tenants |-> [i \in Ids |-> Staff!NoRow]]
      /\ call = [h \in Handlers |-> Staff!IdleCall] /\ disturbed = {} /\ crashes = 0
  BY DEF Staff!Init
<1>2. StaffTypes BY <1>1 DEF StaffTypes, StaffFacts
<1>3. NextNo(call[me]) BY <1>1 DEF NextNo, StaffFacts
<1>4. Crew = {} BY <1>1 DEF Crew, Staff!Registered, StaffFacts
<1>5. Size = 0 BY <1>4, StaffCount, FS_EmptySet
<1>6. FromOneOn BY <1>4, <1>5 DEF FromOneOn
<1> QED BY <1>1, <1>2, <1>3, <1>6 DEF StaffInv

\* While a firm's requests are handled one at a time, the serial numbers of
\* its employees are those from one to their number: creation and import
\* number on from the count, and a deletion closes the gap it leaves.  A
\* number the request gives, and a crash between a deletion and its
\* renumbering, disturb them until the next deletion (create, bulkInsert,
\* deleteByIds and renumberSerialNumbers of employees.service.ts).
THEOREM SerialsAreContiguousAlways ==
  ASSUME StaffFacts
  PROVE  Staff!Spec => [](Staff!TypeOK /\ Staff!SerialsAreContiguous)
<1>1. Staff!Init => StaffInv BY StaffStarts
<1>2. StaffInv /\ [Staff!Next]_(Staff!vars) => StaffInv'
  <2>1. ASSUME StaffInv, UNCHANGED Staff!vars PROVE StaffInv'
    <3>1. employees' = employees /\ call' = call /\ disturbed' = disturbed /\ crashes' = crashes
      BY <2>1 DEF Staff!vars
    <3>2. /\ StaffTypes' /\ Crew' = Crew /\ Size' = Size /\ Staff!Orders(firm)' = Staff!Orders(firm)
      BY <2>1, <3>1, RowsRest
    <3>3. FromOneOn' = FromOneOn BY <3>1, <3>2 DEF FromOneOn
    <3>4. NextNo(call[me])' BY <2>1, <3>1, <3>2 DEF StaffInv, NextNo
    <3> QED BY <2>1, <3>1, <3>2, <3>3, <3>4 DEF StaffInv, Renumbers
  <2> QED BY <2>1, StaffSteps
<1>3. StaffInv => Staff!TypeOK /\ Staff!SerialsAreContiguous
  <2> SUFFICES ASSUME StaffInv PROVE Staff!TypeOK /\ Staff!SerialsAreContiguous
    OBVIOUS
  <2>1. call[me] = Staff!IdleCall \/ call[me].tenant = firm BY DEF StaffInv, NextNo
  <2>2. Staff!TypeOK BY <2>1 DEF StaffInv, StaffTypes, StaffFacts, Staff!TypeOK
  <2>3. Renumbers(call[me]) => Staff!Renumbering(firm)
    BY <2>1 DEF StaffFacts, Renumbers, Staff!Renumbering, Staff!IdleCall
  <2> QED BY <2>2, <2>3 DEF StaffInv, StaffFacts, Staff!SerialsAreContiguous, FromOneOn, Crew, Size
<1> QED BY <1>1, <1>2, <1>3, PTL DEF Staff!Spec

-----------------------------------------------------------------------------
(* SchoolRegister: which partners may be behind their schools.               *)

RollFacts ==
  /\ Handlers = {me} /\ IsFiniteSet(Udises) /\ MaxSerial \in Nat /\ MaxCrashes \in Nat

SchoolRow == [srNo : Nat \ {0}, pay : Pays]
PartnerRow == [pay : Pays, paid : BOOLEAN]
Enrolled == Roll!Registered
Heads == Roll!count
Contiguous == {school[u].srNo : u \in Enrolled} = 1..Heads

\* A school has its partner with its pay; a code without a school has none.
Follows(u) ==
  /\ u \in Enrolled => partner[u] # Roll!NoPartner /\ partner[u].pay = school[u].pay
  /\ u \notin Enrolled => partner[u] = Roll!NoPartner

RollCall(c) ==
  \/ c = Roll!IdleCall
  \/ c.pc = "number" /\ c.u \in Udises /\ c.pay \in Pays /\ c.given \in Nat
  \/ /\ c.pc = "insert" /\ c.u \in Udises /\ c.pay \in Pays /\ c.given \in BOOLEAN
     /\ c.srNo \in Nat \ {0} /\ (~c.given => c.srNo = Heads + 1)
  \/ c.pc = "partner" /\ c.u \in Enrolled /\ c.row = school[c.u]
  \/ /\ c = [pc |-> "bulk", items |-> c.items, pay |-> c.pay, srNo |-> Heads, added |-> c.added]
     /\ c.items \in SUBSET Udises /\ c.pay \in Pays /\ c.added \in BOOLEAN
  \/ /\ c = [pc |-> "patch", items |-> c.items, pay |-> c.pay, changed |-> c.changed]
     /\ c.items \in SUBSET Udises /\ c.pay \in Pays /\ c.changed \in BOOLEAN
  \/ c.pc = "sync"
  \/ /\ c = [pc |-> "syncing", rows |-> [u \in Enrolled |-> school[u]], left |-> c.left]
     /\ c.left \in SUBSET Enrolled
  \/ c.pc = "list" /\ c.some \in SUBSET (Udises \ Enrolled)
  \/ c.pc = "renumber" /\ c.some \in SUBSET (Udises \ Enrolled) /\ c.order \in Roll!Orders
  \/ c.pc = "partners" /\ c.some \in SUBSET (Udises \ Enrolled)

\* Whose partner the call has still to write.
Behind(c, u) ==
  \/ c.pc = "partner" /\ u = c.u
  \/ c.pc = "bulk" /\ c.added /\ u \in Enrolled
  \/ c.pc = "patch" /\ c.changed /\ u \in Enrolled
  \/ c.pc = "sync" /\ u \in Enrolled
  \/ c.pc = "syncing" /\ u \in c.left
  \/ c.pc \in {"list", "renumber", "partners"} /\ u \in c.some

Numbering(c) == c.pc \in {"list", "renumber"}
RollTypes ==
  /\ school \in [Udises -> SchoolRow \cup {Roll!NoSchool}]
  /\ partner \in [Udises -> PartnerRow \cup {Roll!NoPartner}]
  /\ disturbed \in BOOLEAN /\ apart \in SUBSET Udises
RollInv ==
  /\ RollTypes
  /\ DOMAIN call = Handlers /\ call = [h \in Handlers |-> call[h]]
  /\ RollCall(call[me])
  /\ disturbed \/ Numbering(call[me]) \/ Contiguous
  /\ \A u \in Udises \ apart : Behind(call[me], u) \/ Follows(u)

LEMMA RollCardinality ==
  ASSUME NEW S
  PROVE  Roll!Cardinality(S) = Cardinality(S)
BY DEF Roll!Cardinality, Cardinality

LEMMA RollCount ==
  ASSUME RollFacts
  PROVE  IsFiniteSet(Enrolled) /\ Enrolled \subseteq Udises /\ Heads \in Nat /\ Heads = Cardinality(Enrolled)
<1>1. Enrolled \in SUBSET Udises BY DEF Enrolled, Roll!Registered
<1>2. IsFiniteSet(Enrolled) BY <1>1, FS_Subset DEF RollFacts
<1>3. Heads = Cardinality(Enrolled) BY RollCardinality DEF Heads, Enrolled, Roll!count
<1> QED BY <1>1, <1>2, <1>3, FS_CardinalityType

LEMMA RollRows ==
  ASSUME RollTypes
  PROVE  /\ \A u \in Enrolled : u \in Udises /\ school[u] \in SchoolRow /\ school[u] # Roll!NoSchool
         /\ \A u \in Udises : u \notin Enrolled => school[u] = Roll!NoSchool
BY DEF RollTypes, Enrolled, Roll!Registered

LEMMA ASchoolIsNotNone ==
  ASSUME NEW new \in SchoolRow
  PROVE  new # Roll!NoSchool
<1>1. new.srNo # 0 BY DEF SchoolRow
<1>2. Roll!NoSchool.srNo = 0 BY DEF Roll!NoSchool
<1> QED BY <1>1, <1>2

LEMMA APartnerIsNotNone ==
  ASSUME NEW new \in PartnerRow
  PROVE  new # Roll!NoPartner
<1>1. "paid" \in DOMAIN new BY DEF PartnerRow
<1>2. DOMAIN Roll!NoPartner = {"pay"} BY DEF Roll!NoPartner
<1> QED BY <1>1, <1>2

LEMMA RollGoesOn ==
  ASSUME RollFacts, RollInv, NEW c, Roll!Goto(me, c), RollTypes', RollCall(c)',
         disturbed' \/ Numbering(c) \/ Contiguous',
         \A u \in Udises \ apart' : Behind(c, u)' \/ Follows(u)'
  PROVE  RollInv'
<1>1. call'[me] = c /\ DOMAIN call' = Handlers /\ call' = [h \in Handlers |-> call'[h]]
  BY DEF RollFacts, RollInv, Roll!Goto
<1>2. RollCall(call[me])' BY <1>1
<1>3. disturbed' \/ Numbering(call[me])' \/ Contiguous' BY <1>1 DEF Numbering
<1>4. \A u \in Udises \ apart' : Behind(call[me], u)' \/ Follows(u)' BY <1>1 DEF Behind
<1> QED BY <1>1, <1>2, <1>3, <1>4 DEF RollInv

\* What the schools hold is read by every step that does not change them.
LEMMA SchoolsRest ==
  ASSUME RollFacts, RollInv, school' = school
  PROVE  /\ Enrolled' = Enrolled /\ Heads' = Heads /\ Contiguous' = Contiguous
         /\ Roll!Orders' = Roll!Orders
         /\ partner' = partner => \A u : Follows(u)' = Follows(u)
BY DEF Contiguous, Enrolled, Heads, Roll!Registered, Roll!count, Roll!Orders, Follows

\* A request that has only read knows no more than before.
LEMMA OnlyReads ==
  ASSUME RollFacts, RollInv, NEW c, Roll!Goto(me, c),
         school' = school, partner' = partner, disturbed' = disturbed, apart' = apart,
         RollCall(c)', Numbering(call[me]) => Numbering(c),
         \A u \in Udises : Behind(call[me], u) => Behind(c, u)'
  PROVE  RollInv'
<1>1. RollTypes' BY DEF RollInv, RollTypes
<1>2. disturbed' \/ Numbering(c) \/ Contiguous' BY SchoolsRest DEF RollInv
<1>3. \A u \in Udises \ apart' : Behind(c, u)' \/ Follows(u)' BY SchoolsRest DEF RollInv
<1> QED BY <1>1, <1>2, <1>3, RollGoesOn

\* A row under a free code with the next number leaves the numbers from one on.
LEMMA OneSchoolMore ==
  ASSUME RollFacts, RollInv, NEW u \in Udises \ Enrolled, NEW new \in SchoolRow,
         school' = [school EXCEPT ![u] = new]
  PROVE  /\ school' \in [Udises -> SchoolRow \cup {Roll!NoSchool}]
         /\ school'[u] = new /\ \A v \in Udises : v # u => school'[v] = school[v]
         /\ Enrolled' = Enrolled \cup {u} /\ Heads' = Heads + 1
         /\ new.srNo = Heads + 1 /\ Contiguous => Contiguous'
<1>1. /\ school' \in [Udises -> SchoolRow \cup {Roll!NoSchool}]
      /\ school'[u] = new /\ \A v \in Udises : v # u => school'[v] = school[v]
  BY DEF RollInv, RollTypes
<1>2. Enrolled' = Enrolled \cup {u}
  BY <1>1, ASchoolIsNotNone DEF Enrolled, Roll!Registered
<1>3. Heads' = Cardinality(Enrolled') BY RollCardinality DEF Heads, Enrolled, Roll!count
<1>4. Heads' = Heads + 1
  BY <1>2, <1>3, RollCount, FS_AddElement
<1>5. ASSUME new.srNo = Heads + 1, Contiguous PROVE Contiguous'
  <2>1. \A v \in Enrolled : v \in Udises /\ v # u BY RollCount
  <2>2. {school'[v].srNo : v \in Enrolled'} = {school[v].srNo : v \in Enrolled} \cup {new.srNo}
    BY <1>1, <1>2, <2>1
  <2>3. (1..Heads) \cup {Heads + 1} = 1..(Heads + 1) BY RollCount
  <2> QED BY <1>4, <1>5, <2>2, <2>3 DEF Contiguous
<1> QED BY <1>1, <1>2, <1>4, <1>5

\* A row that is written anew stays a row, and keeps its number unless it is given one.
LEMMA OneSchoolAnew ==
  ASSUME RollFacts, RollInv, NEW u \in Enrolled, NEW new \in SchoolRow,
         school' = [school EXCEPT ![u] = new]
  PROVE  /\ school' \in [Udises -> SchoolRow \cup {Roll!NoSchool}]
         /\ school'[u] = new /\ \A v \in Udises : v # u => school'[v] = school[v]
         /\ Enrolled' = Enrolled /\ Heads' = Heads
         /\ new.srNo = school[u].srNo /\ Contiguous => Contiguous'
<1>1. /\ school' \in [Udises -> SchoolRow \cup {Roll!NoSchool}]
      /\ school'[u] = new /\ \A v \in Udises : v # u => school'[v] = school[v]
  BY RollCount DEF RollInv, RollTypes
<1>2. Enrolled' = Enrolled
  BY <1>1, RollCount, ASchoolIsNotNone DEF Enrolled, Roll!Registered
<1>3. Heads' = Heads BY <1>2 DEF Heads, Enrolled, Roll!count
<1>4. ASSUME new.srNo = school[u].srNo, Contiguous PROVE Contiguous'
  <2>1. \A v \in Enrolled : v \in Udises BY RollCount
  <2>2. {school'[v].srNo : v \in Enrolled'} = {school[v].srNo : v \in Enrolled}
    BY <1>1, <1>2, <1>4, <2>1
  <2> QED BY <1>3, <1>4, <2>2 DEF Contiguous
<1> QED BY <1>1, <1>2, <1>3, <1>4

\* What a stage knows, read off RollCall.
LEMMA RollStages ==
  ASSUME NEW c, RollCall(c)
  PROVE  /\ c.pc = "idle" => c = Roll!IdleCall
         /\ c.pc = "number" => c.u \in Udises /\ c.pay \in Pays /\ c.given \in Nat
         /\ c.pc = "insert" => /\ c.u \in Udises /\ c.pay \in Pays /\ c.given \in BOOLEAN
                               /\ c.srNo \in Nat \ {0} /\ (~c.given => c.srNo = Heads + 1)
         /\ c.pc = "partner" => c.u \in Enrolled /\ c.row = school[c.u]
         /\ c.pc = "bulk" =>
              /\ c = [pc |-> "bulk", items |-> c.items, pay |-> c.pay, srNo |-> Heads, added |-> c.added]
              /\ c.items \in SUBSET Udises /\ c.pay \in Pays /\ c.added \in BOOLEAN
         /\ c.pc = "patch" =>
              /\ c = [pc |-> "patch", items |-> c.items, pay |-> c.pay, changed |-> c.changed]
              /\ c.items \in SUBSET Udises /\ c.pay \in Pays /\ c.changed \in BOOLEAN
         /\ c.pc = "syncing" =>
              /\ c = [pc |-> "syncing", rows |-> [u \in Enrolled |-> school[u]], left |-> c.left]
              /\ c.left \in SUBSET Enrolled
         /\ c.pc \in {"list", "renumber", "partners"} => c.some \in SUBSET (Udises \ Enrolled)
         /\ c.pc = "renumber" => c.order \in Roll!Orders
<1>1. CASE c = Roll!IdleCall BY <1>1 DEF Roll!IdleCall
<1>2. CASE c = [pc |-> "bulk", items |-> c.items, pay |-> c.pay, srNo |-> Heads, added |-> c.added]
           /\ c.items \in SUBSET Udises /\ c.pay \in Pays /\ c.added \in BOOLEAN
  <2>1. c.pc = "bulk" BY <1>2
  <2> QED BY <1>2, <2>1
<1>3. CASE c = [pc |-> "patch", items |-> c.items, pay |-> c.pay, changed |-> c.changed]
           /\ c.items \in SUBSET Udises /\ c.pay \in Pays /\ c.changed \in BOOLEAN
  <2>1. c.pc = "patch" BY <1>3
  <2> QED BY <1>3, <2>1
<1>4. CASE c = [pc |-> "syncing", rows |-> [u \in Enrolled |-> school[u]], left |-> c.left]
           /\ c.left \in SUBSET Enrolled
  <2>1. c.pc = "syncing" BY <1>4
  <2> QED BY <1>4, <2>1
<1>5. CASE c.pc = "number" /\ c.u \in Udises /\ c.pay \in Pays /\ c.given \in Nat BY <1>5
<1>6. CASE /\ c.pc = "insert" /\ c.u \in Udises /\ c.pay \in Pays /\ c.given \in BOOLEAN
           /\ c.srNo \in Nat \ {0} /\ (~c.given => c.srNo = Heads + 1)
  BY <1>6
<1>7. CASE c.pc = "partner" /\ c.u \in Enrolled /\ c.row = school[c.u] BY <1>7
<1>8. CASE c.pc = "sync" BY <1>8
<1>9. CASE c.pc \in {"list", "partners"} /\ c.some \in SUBSET (Udises \ Enrolled) BY <1>9
<1>10. CASE c.pc = "renumber" /\ c.some \in SUBSET (Udises \ Enrolled) /\ c.order \in Roll!Orders
  BY <1>10
<1> QED BY <1>1, <1>2, <1>3, <1>4, <1>5, <1>6, <1>7, <1>8, <1>9, <1>10, Zenon DEF RollCall

\* A request that has nothing to write leaves no partner behind.
LEMMA NothingBehind ==
  ASSUME RollFacts, RollInv, call[me].pc \in {"idle", "number", "insert"}
  PROVE  (\A u \in Udises \ apart : Follows(u)) /\ (disturbed \/ Contiguous)
BY DEF RollInv, Behind, Numbering

LEMMA SchoolIsCreated ==
  ASSUME RollFacts, RollInv, NEW u \in Udises, NEW pay \in Pays, NEW given \in 0..MaxSerial,
         Roll!create(me, u, pay, given)
  PROVE  RollInv'
<1>1. PICK c : c = [pc |-> "number", u |-> u, pay |-> pay, given |-> given] OBVIOUS
<1>2. /\ call[me].pc = "idle" /\ Roll!Goto(me, c)
      /\ school' = school /\ partner' = partner /\ disturbed' = disturbed /\ apart' = apart
  BY <1>1 DEF Roll!create, Roll!Idle, Roll!At
<1>3. RollCall(c)' BY <1>1 DEF RollCall, RollFacts
<1> QED BY <1>2, <1>3, OnlyReads DEF Numbering, Behind

LEMMA SchoolIsNumbered ==
  ASSUME RollFacts, RollInv, Roll!number(me)
  PROVE  RollInv'
<1>0. PICK b : b = call[me] OBVIOUS
<1>1. b.pc = "number" /\ RollCall(b) BY <1>0, Zenon DEF RollInv, Roll!number, Roll!At
<1>2. b.u \in Udises /\ b.pay \in Pays /\ b.given \in Nat BY <1>1, RollStages
<1>3. PICK c : c = [pc |-> "insert", u |-> b.u, pay |-> b.pay, given |-> b.given > 0,
                    srNo |-> IF b.given > 0 THEN b.given ELSE Heads + 1]
  OBVIOUS
<1>4. /\ Roll!Goto(me, c)
      /\ school' = school /\ partner' = partner /\ disturbed' = disturbed /\ apart' = apart
  BY <1>0, <1>3 DEF Roll!number, Heads
<1>5. RollCall(c)'
  <2>1. Heads \in Nat /\ Heads' = Heads BY <1>4, RollCount, SchoolsRest
  <2>2. c.pc = "insert" /\ c.u \in Udises /\ c.pay \in Pays BY <1>2, <1>3
  <2>3. c.given = (b.given > 0) BY <1>3, Zenon
  <2>4. CASE b.given > 0
    <3>1. c.srNo = b.given /\ c.srNo \in Nat \ {0} BY <1>2, <1>3, <2>4
    <3>2. (b.given > 0) = TRUE BY <2>4
    <3>3. c.given = TRUE BY <2>3, <3>2, Zenon
    <3> QED BY <2>2, <3>1, <3>3 DEF RollCall
  <2>5. CASE ~(b.given > 0)
    <3>1. c.srNo = Heads + 1 /\ c.srNo \in Nat \ {0} BY <1>2, <1>3, <2>1, <2>5
    <3>2. (b.given > 0) = FALSE BY <2>5
    <3>3. c.given = FALSE BY <2>3, <3>2, Zenon
    <3> QED BY <2>1, <2>2, <3>1, <3>3 DEF RollCall
  <2> QED BY <2>4, <2>5
<1> QED BY <1>0, <1>1, <1>4, <1>5, OnlyReads DEF Numbering, Behind

LEMMA SchoolIsInserted ==
  ASSUME RollFacts, RollInv, Roll!insert(me)
  PROVE  RollInv'
<1>0. PICK b : b = call[me] OBVIOUS
<1>1. b.pc = "insert" /\ RollCall(b) BY <1>0, Zenon DEF RollInv, Roll!insert, Roll!At
<1>2. /\ b.u \in Udises /\ b.pay \in Pays /\ b.given \in BOOLEAN
      /\ b.srNo \in Nat \ {0} /\ (~b.given => b.srNo = Heads + 1)
  BY <1>1, RollStages
<1>3. PICK new : new = [srNo |-> b.srNo, pay |-> b.pay] OBVIOUS
<1>4. new \in SchoolRow /\ new.srNo = b.srNo BY <1>2, <1>3 DEF SchoolRow
<1>5. partner' = partner /\ apart' = apart BY DEF Roll!insert
<1>6. CASE b.u \in Enrolled
  <2>1. Roll!Goto(me, Roll!IdleCall) /\ school' = school /\ disturbed' = disturbed
    BY <1>0, <1>6 DEF Roll!insert, Roll!existsByUdise, Enrolled
  <2>2. RollCall(Roll!IdleCall)' BY DEF RollCall
  <2> QED BY <1>0, <1>1, <1>5, <2>1, <2>2, OnlyReads DEF Numbering, Behind
<1>7. CASE b.u \notin Enrolled
  <2>0. PICK c : c = [pc |-> "partner", u |-> b.u, row |-> new] OBVIOUS
  <2>1. Roll!Goto(me, c) /\ school' = [school EXCEPT ![b.u] = new] /\ disturbed' = (disturbed \/ b.given)
    BY <1>0, <1>3, <1>7, <2>0 DEF Roll!insert, Roll!existsByUdise, Enrolled
  <2>2. /\ school' \in [Udises -> SchoolRow \cup {Roll!NoSchool}]
        /\ school'[b.u] = new /\ \A v \in Udises : v # b.u => school'[v] = school[v]
        /\ Enrolled' = Enrolled \cup {b.u}
        /\ new.srNo = Heads + 1 /\ Contiguous => Contiguous'
    BY <1>2, <1>4, <1>7, <2>1, OneSchoolMore
  <2>3. RollTypes' BY <1>2, <1>5, <2>1, <2>2 DEF RollInv, RollTypes
  <2>4. RollCall(c)' BY <2>0, <2>2 DEF RollCall
  <2>5. disturbed' \/ Contiguous' BY <1>0, <1>1, <1>2, <1>4, <2>1, <2>2, NothingBehind
  <2>6. \A v \in Udises \ apart' : Behind(c, v)' \/ Follows(v)'
    <3> SUFFICES ASSUME NEW v \in Udises \ apart, v # b.u PROVE Follows(v)'
      BY <1>5, <2>0 DEF Behind
    <3>1. Follows(v) BY <1>0, <1>1, NothingBehind
    <3> QED BY <1>5, <2>2, <3>1 DEF Follows
  <2> QED BY <2>1, <2>3, <2>4, <2>5, <2>6, RollGoesOn
<1> QED BY <1>6, <1>7

\* What a partner is made of: the pay of its school, and its own payment mark.
LEMMA PartnerOfSchool ==
  ASSUME RollInv, NEW u \in Enrolled, NEW new, new = Roll!partnerFromSchool(u, school[u])
  PROVE  new \in PartnerRow /\ new.pay = school[u].pay /\ new # Roll!NoPartner
<1>1. school[u].pay \in Pays /\ u \in Udises BY RollRows DEF RollInv, SchoolRow
<1>2. partner[u] # Roll!NoPartner => partner[u].paid \in BOOLEAN
  BY <1>1 DEF RollInv, RollTypes, PartnerRow
<1>3. new.pay = school[u].pay /\ new = [pay |-> new.pay, paid |-> new.paid]
  BY DEF Roll!partnerFromSchool
<1>4. new.paid \in BOOLEAN BY <1>2 DEF Roll!partnerFromSchool
<1>5. new \in PartnerRow BY <1>1, <1>3, <1>4 DEF PartnerRow
<1> QED BY <1>3, <1>5, APartnerIsNotNone

\* The partner is written from the row the request holds, which is the stored one.
LEMMA PartnerIsUpserted ==
  ASSUME RollFacts, RollInv, Roll!upsertFromSchoolRecord(me)
  PROVE  RollInv'
<1>0. PICK b : b = call[me] OBVIOUS
<1>1. b.pc = "partner" /\ RollCall(b) BY <1>0, Zenon DEF RollInv, Roll!upsertFromSchoolRecord, Roll!At
<1>2. b.u \in Enrolled /\ b.row = school[b.u] /\ b.u \in Udises BY <1>1, RollStages, RollCount
<1>3. PICK new : new = Roll!partnerFromSchool(b.u, b.row) OBVIOUS
<1>4. /\ partner' = [partner EXCEPT ![b.u] = new] /\ apart' = apart \ {b.u}
      /\ Roll!Goto(me, Roll!IdleCall) /\ school' = school /\ disturbed' = disturbed
  BY <1>0, <1>3 DEF Roll!upsertFromSchoolRecord
<1>5. new \in PartnerRow /\ new.pay = school[b.u].pay /\ new # Roll!NoPartner
  BY <1>2, <1>3, PartnerOfSchool
<1>6. /\ partner' \in [Udises -> PartnerRow \cup {Roll!NoPartner}]
      /\ partner'[b.u] = new /\ \A v \in Udises : v # b.u => partner'[v] = partner[v]
  BY <1>2, <1>4, <1>5 DEF RollInv, RollTypes
<1>7. RollTypes' BY <1>4, <1>6 DEF RollInv, RollTypes
<1>8. Enrolled' = Enrolled /\ Contiguous' = Contiguous BY <1>4, SchoolsRest
<1>9. \A v \in Udises \ apart' : Follows(v)'
  <2> TAKE v \in Udises \ apart'
  <2>1. CASE v = b.u BY <1>2, <1>4, <1>5, <1>6, <1>8, <2>1 DEF Follows
  <2>2. CASE v # b.u
    <3>1. v \in Udises \ apart BY <1>4, <2>2
    <3>2. Follows(v) BY <1>0, <1>1, <2>2, <3>1 DEF RollInv, Behind
    <3> QED BY <1>4, <1>6, <1>8, <2>2, <3>2 DEF Follows
  <2> QED BY <2>1, <2>2
<1>10. disturbed' \/ Contiguous' BY <1>0, <1>1, <1>4, <1>8 DEF RollInv, Numbering
<1>11. RollCall(Roll!IdleCall)' BY DEF RollCall
<1> QED BY <1>4, <1>7, <1>9, <1>10, <1>11, RollGoesOn

LEMMA BulkOfSchools ==
  ASSUME RollFacts, RollInv, NEW S \in SUBSET Udises, NEW pay \in Pays, Roll!bulkInsert(me, S, pay)
  PROVE  RollInv'
<1>1. PICK c : c = [pc |-> "bulk", items |-> S, pay |-> pay, srNo |-> Heads, added |-> FALSE] OBVIOUS
<1>2. /\ call[me].pc = "idle" /\ Roll!Goto(me, c)
      /\ school' = school /\ partner' = partner /\ disturbed' = disturbed /\ apart' = apart
  BY <1>1 DEF Roll!bulkInsert, Roll!Idle, Roll!At, Heads
<1>3. RollCall(c)'
  <2>1. c.items = S /\ c.pay = pay /\ c.added = FALSE BY <1>1
  <2>2. c = [pc |-> "bulk", items |-> c.items, pay |-> c.pay, srNo |-> Heads', added |-> c.added]
    BY <1>1, <1>2, <2>1, SchoolsRest
  <2> QED BY <2>1, <2>2 DEF RollCall
<1> QED BY <1>2, <1>3, OnlyReads DEF Numbering, Behind

LEMMA BulkAddsSchool ==
  ASSUME RollFacts, RollInv, NEW u \in Udises, Roll!bulkItem(me, u)
  PROVE  RollInv'
<1>0. PICK b : b = call[me] OBVIOUS
<1>1. b.pc = "bulk" /\ RollCall(b) BY <1>0, Zenon DEF RollInv, Roll!bulkItem, Roll!At
<1>2. /\ b = [pc |-> "bulk", items |-> b.items, pay |-> b.pay, srNo |-> Heads, added |-> b.added]
      /\ b.items \in SUBSET Udises /\ b.pay \in Pays /\ b.added \in BOOLEAN
  BY <1>1, RollStages
<1>3. b.srNo = Heads /\ Heads \in Nat
  <2>1. PICK n, i, p, a : b = [pc |-> "bulk", items |-> i, pay |-> p, srNo |-> n, added |-> a] /\ n = Heads
    BY <1>2
  <2> QED BY <2>1, RollCount
<1>4. partner' = partner /\ apart' = apart /\ disturbed' = disturbed BY DEF Roll!bulkItem
<1>5. CASE u \in Enrolled
  <2>1. PICK c : c = [b EXCEPT !.items = @ \ {u}] OBVIOUS
  <2>2. Roll!Goto(me, c) /\ school' = school
    BY <1>0, <1>5, <2>1 DEF Roll!bulkItem, Roll!existsByUdise, Enrolled
  <2>3. c = [pc |-> "bulk", items |-> b.items \ {u}, pay |-> b.pay, srNo |-> Heads, added |-> b.added]
    <3>1. PICK n, i, p, a : /\ b = [pc |-> "bulk", items |-> i, pay |-> p, srNo |-> n, added |-> a]
                            /\ n = Heads /\ i = b.items /\ p = b.pay /\ a = b.added
      BY <1>2
    <3>2. c = [pc |-> "bulk", items |-> i \ {u}, pay |-> p, srNo |-> n, added |-> a] BY <2>1, <3>1
    <3> QED BY <3>1, <3>2
  <2>4. c.pc = "bulk" /\ c.items = b.items \ {u} /\ c.pay = b.pay /\ c.added = b.added BY <2>3
  <2>5. c = [pc |-> "bulk", items |-> c.items, pay |-> c.pay, srNo |-> Heads', added |-> c.added]
    BY <2>2, <2>3, <2>4, SchoolsRest
  <2>6. RollCall(c)' BY <1>2, <2>4, <2>5 DEF RollCall
  <2>7. \A v \in Udises : Behind(b, v) => Behind(c, v)' BY <1>1, <2>2, <2>4, SchoolsRest DEF Behind
  <2> QED BY <1>0, <1>1, <1>4, <2>2, <2>6, <2>7, OnlyReads DEF Numbering
<1>6. CASE u \notin Enrolled
  <2>0. PICK new : new = [srNo |-> b.srNo + 1, pay |-> b.pay] OBVIOUS
  <2>1. PICK c : c = [b EXCEPT !.items = @ \ {u}, !.srNo = @ + 1, !.added = TRUE] OBVIOUS
  <2>2. Roll!Goto(me, c) /\ school' = [school EXCEPT ![u] = new]
    BY <1>0, <1>6, <2>0, <2>1 DEF Roll!bulkItem, Roll!existsByUdise, Enrolled
  <2>3. new \in SchoolRow /\ new.srNo = Heads + 1 BY <1>2, <1>3, <2>0 DEF SchoolRow
  <2>4. /\ school' \in [Udises -> SchoolRow \cup {Roll!NoSchool}]
        /\ school'[u] = new /\ \A v \in Udises : v # u => school'[v] = school[v]
        /\ Enrolled' = Enrolled \cup {u} /\ Heads' = Heads + 1
        /\ Contiguous => Contiguous'
    BY <1>6, <2>2, <2>3, OneSchoolMore
  <2>5. c = [pc |-> "bulk", items |-> b.items \ {u}, pay |-> b.pay, srNo |-> Heads + 1, added |-> TRUE]
    <3>1. PICK n, i, p, a : /\ b = [pc |-> "bulk", items |-> i, pay |-> p, srNo |-> n, added |-> a]
                            /\ n = Heads /\ i = b.items /\ p = b.pay
      BY <1>2
    <3>2. c = [pc |-> "bulk", items |-> i \ {u}, pay |-> p, srNo |-> n + 1, added |-> TRUE] BY <2>1, <3>1
    <3> QED BY <3>1, <3>2
  <2>6. c.pc = "bulk" /\ c.items = b.items \ {u} /\ c.pay = b.pay /\ c.added = TRUE BY <2>5
  <2>7. c = [pc |-> "bulk", items |-> c.items, pay |-> c.pay, srNo |-> Heads', added |-> c.added]
    BY <2>4, <2>5, <2>6
  <2>8. RollCall(c)' BY <1>2, <2>6, <2>7 DEF RollCall
  <2>9. RollTypes' BY <1>4, <2>4 DEF RollInv, RollTypes
  <2>10. disturbed' \/ Contiguous' BY <1>0, <1>1, <1>4, <2>4 DEF RollInv, Numbering
  <2>11. \A v \in Udises \ apart' : Behind(c, v)' \/ Follows(v)'
    <3> SUFFICES ASSUME NEW v \in Udises \ apart, v \notin Enrolled' PROVE Follows(v)'
      BY <1>4, <2>6 DEF Behind
    <3>1. v # u /\ v \notin Enrolled BY <2>4
    <3>2. Follows(v) BY <1>0, <1>1, <3>1 DEF RollInv, Behind
    <3> QED BY <1>4, <3>1, <3>2 DEF Follows
  <2> QED BY <2>2, <2>8, <2>9, <2>10, <2>11, RollGoesOn
<1> QED BY <1>5, <1>6

LEMMA BulkOfSchoolsEnds ==
  ASSUME RollFacts, RollInv, Roll!bulkEnd(me)
  PROVE  RollInv'
<1>0. PICK b : b = call[me] OBVIOUS
<1>1. b.pc = "bulk" /\ RollCall(b) BY <1>0, Zenon DEF RollInv, Roll!bulkEnd, Roll!At
<1>2. b.added \in BOOLEAN BY <1>1, RollStages
<1>3. PICK s : s = [pc |-> "sync"] OBVIOUS
<1>4. /\ school' = school /\ partner' = partner /\ disturbed' = disturbed /\ apart' = apart
      /\ Roll!Goto(me, IF b.added THEN s ELSE Roll!IdleCall)
  BY <1>0, <1>3 DEF Roll!bulkEnd
<1>5. CASE b.added
  <2>1. RollCall(s)' /\ Roll!Goto(me, s) BY <1>3, <1>4, <1>5 DEF RollCall
  <2> QED BY <1>0, <1>1, <1>3, <1>4, <2>1, OnlyReads, SchoolsRest DEF Numbering, Behind
<1>6. CASE ~b.added
  <2>1. RollCall(Roll!IdleCall)' /\ Roll!Goto(me, Roll!IdleCall) BY <1>4, <1>6 DEF RollCall
  <2> QED BY <1>0, <1>1, <1>4, <1>6, <2>1, OnlyReads DEF Numbering, Behind
<1> QED BY <1>5, <1>6

LEMMA SyncReads ==
  ASSUME RollFacts, RollInv, Roll!syncFromSchools(me)
  PROVE  RollInv'
<1>0. PICK b : b = call[me] OBVIOUS
<1>1. b.pc = "sync" BY <1>0 DEF Roll!syncFromSchools, Roll!At
<1>2. PICK c : c = [pc |-> "syncing", rows |-> [u \in Enrolled |-> school[u]], left |-> Enrolled] OBVIOUS
<1>3. /\ school' = school /\ partner' = partner /\ disturbed' = disturbed /\ apart' = apart
      /\ Roll!Goto(me, c)
  BY <1>2 DEF Roll!syncFromSchools, Enrolled
<1>4. c.left = Enrolled /\ c.pc = "syncing" BY <1>2
<1>5. c = [pc |-> "syncing", rows |-> [u \in Enrolled' |-> school'[u]], left |-> c.left]
  BY <1>2, <1>3, <1>4, SchoolsRest
<1>6. RollCall(c)' BY <1>3, <1>4, <1>5, SchoolsRest DEF RollCall
<1> QED BY <1>0, <1>1, <1>3, <1>4, <1>6, OnlyReads DEF Numbering, Behind

\* The sync writes from what it read, which is what is stored.
LEMMA SyncWrites ==
  ASSUME RollFacts, RollInv, NEW u \in Udises, Roll!syncOne(me, u)
  PROVE  RollInv'
<1>0. PICK b : b = call[me] OBVIOUS
<1>1. b.pc = "syncing" /\ RollCall(b) /\ u \in b.left
  BY <1>0, Zenon DEF RollInv, Roll!syncOne, Roll!At
<1>2. /\ b = [pc |-> "syncing", rows |-> [v \in Enrolled |-> school[v]], left |-> b.left]
      /\ b.left \in SUBSET Enrolled
  BY <1>1, RollStages
<1>3. u \in Enrolled /\ b.rows[u] = school[u]
  <2>1. PICK r, l : b = [pc |-> "syncing", rows |-> r, left |-> l] /\ r = [v \in Enrolled |-> school[v]]
    BY <1>2
  <2> QED BY <1>1, <1>2, <2>1
<1>4. PICK new : new = Roll!partnerFromSchool(u, b.rows[u]) OBVIOUS
<1>5. PICK c : c = [b EXCEPT !.left = @ \ {u}] OBVIOUS
<1>6. /\ partner' = [partner EXCEPT ![u] = new] /\ apart' = apart \ {u}
      /\ Roll!Goto(me, c) /\ school' = school /\ disturbed' = disturbed
  BY <1>0, <1>4, <1>5 DEF Roll!syncOne
<1>7. new \in PartnerRow /\ new.pay = school[u].pay /\ new # Roll!NoPartner
  BY <1>3, <1>4, PartnerOfSchool
<1>8. /\ partner' \in [Udises -> PartnerRow \cup {Roll!NoPartner}]
      /\ partner'[u] = new /\ \A v \in Udises : v # u => partner'[v] = partner[v]
  BY <1>6, <1>7 DEF RollInv, RollTypes
<1>9. RollTypes' BY <1>6, <1>8 DEF RollInv, RollTypes
<1>10. Enrolled' = Enrolled /\ Contiguous' = Contiguous BY <1>6, SchoolsRest
<1>11. c = [pc |-> "syncing", rows |-> [v \in Enrolled |-> school[v]], left |-> b.left \ {u}]
  <2>1. PICK r, l : /\ b = [pc |-> "syncing", rows |-> r, left |-> l]
                    /\ r = [v \in Enrolled |-> school[v]] /\ l = b.left
    BY <1>2
  <2>2. c = [pc |-> "syncing", rows |-> r, left |-> l \ {u}] BY <1>5, <2>1
  <2> QED BY <2>1, <2>2
<1>12. c.pc = "syncing" /\ c.left = b.left \ {u} BY <1>11
<1>13. c = [pc |-> "syncing", rows |-> [v \in Enrolled' |-> school'[v]], left |-> c.left]
  BY <1>6, <1>10, <1>11, <1>12
<1>14. RollCall(c)' BY <1>2, <1>10, <1>12, <1>13 DEF RollCall
<1>15. \A v \in Udises \ apart' : Behind(c, v)' \/ Follows(v)'
  <2> TAKE v \in Udises \ apart'
  <2>1. CASE v = u BY <1>3, <1>6, <1>7, <1>8, <1>10, <2>1 DEF Follows
  <2>2. CASE v # u /\ v \in b.left BY <1>12, <2>2 DEF Behind
  <2>3. CASE v # u /\ v \notin b.left
    <3>1. v \in Udises \ apart BY <1>6, <2>3
    <3>2. Follows(v) BY <1>0, <1>1, <2>3, <3>1 DEF RollInv, Behind
    <3> QED BY <1>6, <1>8, <1>10, <2>3, <3>2 DEF Follows
  <2> QED BY <2>1, <2>2, <2>3
<1>16. disturbed' \/ Contiguous' BY <1>0, <1>1, <1>6, <1>10 DEF RollInv, Numbering
<1> QED BY <1>6, <1>9, <1>14, <1>15, <1>16, RollGoesOn

LEMMA SyncEnds ==
  ASSUME RollFacts, RollInv, Roll!syncEnd(me)
  PROVE  RollInv'
<1>1. /\ call[me].pc = "syncing" /\ call[me].left = {} /\ Roll!Goto(me, Roll!IdleCall)
      /\ school' = school /\ partner' = partner /\ disturbed' = disturbed /\ apart' = apart
  BY DEF Roll!syncEnd, Roll!At
<1>2. RollCall(Roll!IdleCall)' BY DEF RollCall
<1> QED BY <1>1, <1>2, OnlyReads DEF Numbering, Behind

\* Asking for a sync, or listing partners when there are none.
LEMMA SyncIsAsked ==
  ASSUME RollFacts, RollInv, Roll!findAllPartners(me) \/ Roll!requestSync(me)
  PROVE  RollInv'
<1>1. PICK s : s = [pc |-> "sync"] OBVIOUS
<1>2. /\ call[me].pc = "idle" /\ Roll!Goto(me, s)
      /\ school' = school /\ partner' = partner /\ disturbed' = disturbed /\ apart' = apart
  BY <1>1 DEF Roll!findAllPartners, Roll!requestSync, Roll!Idle, Roll!At
<1>3. RollCall(s)' BY <1>1 DEF RollCall
<1> QED BY <1>2, <1>3, OnlyReads DEF Numbering, Behind

LEMMA PatchedFits ==
  ASSUME NEW row \in SchoolRow, NEW pay \in Pays \cup {0}, NEW given \in Nat
  PROVE  /\ Roll!Patched(row, pay, given) \in SchoolRow
         /\ given = 0 => Roll!Patched(row, pay, given).srNo = row.srNo
BY DEF Roll!Patched, SchoolRow

LEMMA SchoolIsUpdated ==
  ASSUME RollFacts, RollInv, NEW u \in Udises, NEW pay \in Pays \cup {0}, NEW given \in 0..MaxSerial,
         Roll!update(me, u, pay, given)
  PROVE  RollInv'
<1>1. PICK new : new = Roll!Patched(school[u], pay, given) OBVIOUS
<1>2. PICK c : c = [pc |-> "partner", u |-> u, row |-> new] OBVIOUS
<1>3. /\ call[me].pc = "idle" /\ u \in Enrolled /\ Roll!Goto(me, c)
      /\ school' = [school EXCEPT ![u] = new] /\ disturbed' = (disturbed \/ given > 0)
      /\ partner' = partner /\ apart' = apart
  BY <1>1, <1>2 DEF Roll!update, Roll!Idle, Roll!At, Enrolled
<1>4. given \in Nat BY DEF RollFacts
<1>5. new \in SchoolRow /\ (given = 0 => new.srNo = school[u].srNo)
  BY <1>1, <1>3, <1>4, RollRows, PatchedFits DEF RollInv
<1>6. /\ school' \in [Udises -> SchoolRow \cup {Roll!NoSchool}]
      /\ school'[u] = new /\ \A v \in Udises : v # u => school'[v] = school[v]
      /\ Enrolled' = Enrolled
      /\ new.srNo = school[u].srNo /\ Contiguous => Contiguous'
  BY <1>3, <1>5, OneSchoolAnew
<1>7. RollTypes' BY <1>3, <1>6 DEF RollInv, RollTypes
<1>8. RollCall(c)' BY <1>2, <1>3, <1>6 DEF RollCall
<1>9. disturbed' \/ Contiguous'
  <2>1. CASE given > 0 BY <1>3, <2>1
  <2>2. CASE given = 0 BY <1>3, <1>5, <1>6, <2>2, NothingBehind
  <2> QED BY <1>4, <2>1, <2>2
<1>10. \A v \in Udises \ apart' : Behind(c, v)' \/ Follows(v)'
  <2> SUFFICES ASSUME NEW v \in Udises \ apart, v # u PROVE Follows(v)'
    BY <1>2, <1>3 DEF Behind
  <2>1. Follows(v) BY <1>3, NothingBehind
  <2> QED BY <1>3, <1>6, <2>1 DEF Follows
<1> QED BY <1>3, <1>7, <1>8, <1>9, <1>10, RollGoesOn

LEMMA PatchOfSchools ==
  ASSUME RollFacts, RollInv, NEW S \in SUBSET Udises, NEW pay \in Pays, Roll!bulkUpdate(me, S, pay)
  PROVE  RollInv'
<1>1. PICK c : c = [pc |-> "patch", items |-> S, pay |-> pay, changed |-> FALSE] OBVIOUS
<1>2. /\ call[me].pc = "idle" /\ Roll!Goto(me, c)
      /\ school' = school /\ partner' = partner /\ disturbed' = disturbed /\ apart' = apart
  BY <1>1 DEF Roll!bulkUpdate, Roll!Idle, Roll!At
<1>3. RollCall(c)'
  <2>1. c.items = S /\ c.pay = pay /\ c.changed = FALSE BY <1>1
  <2>2. c = [pc |-> "patch", items |-> c.items, pay |-> c.pay, changed |-> c.changed] BY <1>1, <2>1
  <2> QED BY <2>1, <2>2 DEF RollCall
<1> QED BY <1>2, <1>3, OnlyReads DEF Numbering, Behind

LEMMA PatchChangesSchool ==
  ASSUME RollFacts, RollInv, NEW u \in Udises, Roll!patchItem(me, u)
  PROVE  RollInv'
<1>0. PICK b : b = call[me] OBVIOUS
<1>1. b.pc = "patch" /\ RollCall(b) BY <1>0, Zenon DEF RollInv, Roll!patchItem, Roll!At
<1>2. /\ b = [pc |-> "patch", items |-> b.items, pay |-> b.pay, changed |-> b.changed]
      /\ b.items \in SUBSET Udises /\ b.pay \in Pays /\ b.changed \in BOOLEAN
  BY <1>1, RollStages
<1>3. partner' = partner /\ apart' = apart /\ disturbed' = disturbed BY DEF Roll!patchItem
<1>4. PICK i, p, a : b = [pc |-> "patch", items |-> i, pay |-> p, changed |-> a]
                     /\ i = b.items /\ p = b.pay /\ a = b.changed
  BY <1>2
<1>5. CASE u \in Enrolled
  <2>0. PICK new : new = Roll!Patched(school[u], b.pay, 0) OBVIOUS
  <2>1. PICK c : c = [b EXCEPT !.items = @ \ {u}, !.changed = TRUE] OBVIOUS
  <2>2. Roll!Goto(me, c) /\ school' = [school EXCEPT ![u] = new]
    BY <1>0, <1>5, <2>0, <2>1 DEF Roll!patchItem, Enrolled
  <2>3. new \in SchoolRow /\ new.srNo = school[u].srNo
    BY <1>2, <1>5, <2>0, RollRows, PatchedFits DEF RollInv
  <2>4. /\ school' \in [Udises -> SchoolRow \cup {Roll!NoSchool}]
        /\ school'[u] = new /\ \A v \in Udises : v # u => school'[v] = school[v]
        /\ Enrolled' = Enrolled /\ (Contiguous => Contiguous')
    BY <1>5, <2>2, <2>3, OneSchoolAnew
  <2>5. c = [pc |-> "patch", items |-> i \ {u}, pay |-> p, changed |-> TRUE] BY <1>4, <2>1
  <2>6. /\ c.pc = "patch" /\ c.items = b.items \ {u} /\ c.pay = b.pay /\ c.changed = TRUE
        /\ c = [pc |-> "patch", items |-> c.items, pay |-> c.pay, changed |-> c.changed]
    BY <1>4, <2>5
  <2>7. RollCall(c)' BY <1>2, <2>6 DEF RollCall
  <2>8. RollTypes' BY <1>3, <2>4 DEF RollInv, RollTypes
  <2>9. disturbed' \/ Contiguous' BY <1>0, <1>1, <1>3, <2>4 DEF RollInv, Numbering
  <2>10. \A v \in Udises \ apart' : Behind(c, v)' \/ Follows(v)'
    <3> SUFFICES ASSUME NEW v \in Udises \ apart, v \notin Enrolled PROVE Follows(v)'
      BY <1>3, <2>4, <2>6 DEF Behind
    <3>1. Follows(v) BY <1>0, <1>1 DEF RollInv, Behind
    <3> QED BY <1>3, <2>4, <3>1 DEF Follows
  <2> QED BY <2>2, <2>7, <2>8, <2>9, <2>10, RollGoesOn
<1>6. CASE u \notin Enrolled
  <2>1. PICK c : c = [b EXCEPT !.items = @ \ {u}] OBVIOUS
  <2>2. Roll!Goto(me, c) /\ school' = school
    BY <1>0, <1>6, <2>1 DEF Roll!patchItem, Enrolled
  <2>3. c = [pc |-> "patch", items |-> i \ {u}, pay |-> p, changed |-> a] BY <1>4, <2>1
  <2>4. /\ c.pc = "patch" /\ c.items = b.items \ {u} /\ c.pay = b.pay /\ c.changed = b.changed
        /\ c = [pc |-> "patch", items |-> c.items, pay |-> c.pay, changed |-> c.changed]
    BY <1>4, <2>3
  <2>5. RollCall(c)' BY <1>2, <2>4 DEF RollCall
  <2>6. \A v \in Udises : Behind(b, v) => Behind(c, v)' BY <1>1, <2>2, <2>4, SchoolsRest DEF Behind
  <2> QED BY <1>0, <1>1, <1>3, <2>2, <2>5, <2>6, OnlyReads DEF Numbering
<1> QED BY <1>5, <1>6

LEMMA PatchOfSchoolsEnds ==
  ASSUME RollFacts, RollInv, Roll!patchEnd(me)
  PROVE  RollInv'
<1>0. PICK b : b = call[me] OBVIOUS
<1>1. b.pc = "patch" /\ RollCall(b) BY <1>0, Zenon DEF RollInv, Roll!patchEnd, Roll!At
<1>2. b.changed \in BOOLEAN BY <1>1, RollStages
<1>3. PICK s : s = [pc |-> "sync"] OBVIOUS
<1>4. /\ school' = school /\ partner' = partner /\ disturbed' = disturbed /\ apart' = apart
      /\ Roll!Goto(me, IF b.changed THEN s ELSE Roll!IdleCall)
  BY <1>0, <1>3 DEF Roll!patchEnd
<1>5. CASE b.changed
  <2>1. RollCall(s)' /\ Roll!Goto(me, s) BY <1>3, <1>4, <1>5 DEF RollCall
  <2> QED BY <1>0, <1>1, <1>3, <1>4, <2>1, OnlyReads, SchoolsRest DEF Numbering, Behind
<1>6. CASE ~b.changed
  <2>1. RollCall(Roll!IdleCall)' /\ Roll!Goto(me, Roll!IdleCall) BY <1>4, <1>6 DEF RollCall
  <2> QED BY <1>0, <1>1, <1>4, <1>6, <2>1, OnlyReads DEF Numbering, Behind
<1> QED BY <1>5, <1>6

LEMMA SchoolsAreDeleted ==
  ASSUME RollFacts, RollInv, NEW S \in SUBSET Udises, Roll!deleteByIds(me, S)
  PROVE  RollInv'
<1>1. PICK c : c = [pc |-> "list", some |-> S] OBVIOUS
<1>2. /\ call[me].pc = "idle" /\ Roll!Goto(me, c)
      /\ school' = [u \in Udises |-> IF u \in S THEN Roll!NoSchool ELSE school[u]]
      /\ partner' = partner /\ disturbed' = disturbed /\ apart' = apart
  BY <1>1 DEF Roll!deleteByIds, Roll!Idle, Roll!At
<1>3. RollTypes' BY <1>2 DEF RollInv, RollTypes
<1>4. Enrolled' = Enrolled \ S BY <1>2 DEF Enrolled, Roll!Registered
<1>5. RollCall(c)' BY <1>1, <1>4 DEF RollCall
<1>6. Numbering(c) BY <1>1 DEF Numbering
<1>7. \A v \in Udises \ apart' : Behind(c, v)' \/ Follows(v)'
  <2> SUFFICES ASSUME NEW v \in Udises \ apart, v \notin S PROVE Follows(v)'
    BY <1>1, <1>2 DEF Behind
  <2>1. Follows(v) BY <1>2, NothingBehind
  <2> QED BY <1>2, <1>4, <2>1 DEF Follows
<1> QED BY <1>2, <1>3, <1>5, <1>6, <1>7, RollGoesOn

LEMMA SchoolsAreListed ==
  ASSUME RollFacts, RollInv, Roll!renumberSerialNumbers(me)
  PROVE  RollInv'
<1>0. PICK b : b = call[me] OBVIOUS
<1>1. b.pc = "list" /\ RollCall(b) BY <1>0, Zenon DEF RollInv, Roll!renumberSerialNumbers, Roll!At
<1>2. b.some \in SUBSET (Udises \ Enrolled) BY <1>1, RollStages
<1>3. PICK o \in Roll!Orders : Roll!Goto(me, [pc |-> "renumber", some |-> b.some, order |-> o])
  BY <1>0 DEF Roll!renumberSerialNumbers
<1>4. PICK c : c = [pc |-> "renumber", some |-> b.some, order |-> o] OBVIOUS
<1>5. school' = school /\ partner' = partner /\ disturbed' = disturbed /\ apart' = apart
  BY DEF Roll!renumberSerialNumbers
<1>6. RollCall(c)' BY <1>2, <1>3, <1>4, <1>5, SchoolsRest DEF RollCall
<1> QED BY <1>0, <1>1, <1>3, <1>4, <1>5, <1>6, OnlyReads DEF Numbering, Behind

\* The renumbering writes to every school the place it was given.
LEMMA SchoolsAreRenumbered ==
  ASSUME RollFacts, RollInv, Roll!renumber(me)
  PROVE  RollInv'
<1>0. PICK b : b = call[me] OBVIOUS
<1>1. b.pc = "renumber" /\ RollCall(b) BY <1>0, Zenon DEF RollInv, Roll!renumber, Roll!At
<1>2. b.some \in SUBSET (Udises \ Enrolled) /\ b.order \in Roll!Orders BY <1>1, RollStages
<1>3. PICK o : o = b.order OBVIOUS
<1>4. o \in [Enrolled -> 1..Heads] /\ \A i, j \in Enrolled : i # j => o[i] # o[j]
  BY <1>2, <1>3 DEF Roll!Orders, Enrolled, Heads
<1>5. {o[i] : i \in Enrolled} = 1..Heads BY <1>4, RollCount, AllPlaces
<1>6. PICK c : c = [pc |-> "partners", some |-> b.some] OBVIOUS
<1>7. /\ school' = [u \in Udises |-> IF u \in Enrolled THEN [school[u] EXCEPT !.srNo = o[u]] ELSE school[u]]
      /\ Roll!Goto(me, c) /\ partner' = partner /\ apart' = apart
  BY <1>0, <1>3, <1>4, <1>6 DEF Roll!renumber, Enrolled
<1>8. disturbed' = FALSE BY DEF Roll!renumber
<1>9. \A u \in Enrolled : /\ school'[u] \in SchoolRow
                          /\ school'[u].srNo = o[u] /\ school'[u].pay = school[u].pay
  <2> TAKE u \in Enrolled
  <2>1. school[u] \in SchoolRow /\ u \in Udises BY RollRows DEF RollInv
  <2>2. school'[u] = [school[u] EXCEPT !.srNo = o[u]] BY <1>7, <2>1
  <2>3. o[u] \in Nat \ {0} BY <1>4, RollCount
  <2> QED BY <2>1, <2>2, <2>3 DEF SchoolRow
<1>10. \A u \in Udises : u \notin Enrolled => school'[u] = Roll!NoSchool
  BY <1>7, RollRows DEF RollInv
<1>11. RollTypes' BY <1>7, <1>8, <1>9, <1>10 DEF RollInv, RollTypes
<1>12. Enrolled' = Enrolled
  BY <1>9, <1>10, RollCount, ASchoolIsNotNone DEF Enrolled, Roll!Registered
<1>13. Heads' = Heads BY <1>12 DEF Heads, Enrolled, Roll!count
<1>14. {school'[u].srNo : u \in Enrolled} = {o[u] : u \in Enrolled} BY <1>9
<1>15. Contiguous' BY <1>5, <1>12, <1>13, <1>14 DEF Contiguous
<1>16. RollCall(c)' BY <1>2, <1>6, <1>12 DEF RollCall
<1>17. \A v \in Udises \ apart' : Behind(c, v)' \/ Follows(v)'
  <2> SUFFICES ASSUME NEW v \in Udises \ apart, v \notin b.some PROVE Follows(v)'
    BY <1>6, <1>7 DEF Behind
  <2>1. Follows(v) BY <1>0, <1>1 DEF RollInv, Behind
  <2> QED BY <1>7, <1>9, <1>12, <2>1 DEF Follows
<1> QED BY <1>7, <1>11, <1>15, <1>16, <1>17, RollGoesOn

LEMMA PartnersAreDeleted ==
  ASSUME RollFacts, RollInv, Roll!deleteBySchoolWorkIds(me)
  PROVE  RollInv'
<1>0. PICK b : b = call[me] OBVIOUS
<1>1. b.pc = "partners" /\ RollCall(b) BY <1>0, Zenon DEF RollInv, Roll!deleteBySchoolWorkIds, Roll!At
<1>2. b.some \in SUBSET (Udises \ Enrolled) BY <1>1, RollStages
<1>3. /\ partner' = [u \in Udises |-> IF u \in b.some THEN Roll!NoPartner ELSE partner[u]]
      /\ apart' = apart \ b.some
      /\ Roll!Goto(me, Roll!IdleCall) /\ school' = school /\ disturbed' = disturbed
  BY <1>0 DEF Roll!deleteBySchoolWorkIds
<1>4. RollTypes' BY <1>3 DEF RollInv, RollTypes
<1>5. Enrolled' = Enrolled /\ Contiguous' = Contiguous BY <1>3, SchoolsRest
<1>6. \A v \in Udises \ apart' : Follows(v)'
  <2> TAKE v \in Udises \ apart'
  <2>1. CASE v \in b.some BY <1>2, <1>3, <1>5, <2>1 DEF Follows
  <2>2. CASE v \notin b.some
    <3>1. v \in Udises \ apart BY <1>3, <2>2
    <3>2. Follows(v) BY <1>0, <1>1, <2>2, <3>1 DEF RollInv, Behind
    <3> QED BY <1>3, <1>5, <2>2, <3>2 DEF Follows
  <2> QED BY <2>1, <2>2
<1>7. disturbed' \/ Contiguous' BY <1>0, <1>1, <1>3, <1>5 DEF RollInv, Numbering
<1>8. RollCall(Roll!IdleCall)' BY DEF RollCall
<1> QED BY <1>3, <1>4, <1>6, <1>7, <1>8, RollGoesOn

\* The partners' own endpoints touch no school and no request.
LEMMA PartnersAreEdited ==
  ASSUME RollFacts, RollInv, school' = school, call' = call, disturbed' = disturbed,
         partner' \in [Udises -> PartnerRow \cup {Roll!NoPartner}], apart' \in SUBSET Udises,
         \A u \in Udises \ apart' : u \notin apart /\ (Follows(u) => Follows(u)')
  PROVE  RollInv'
<1>1. RollTypes' BY DEF RollInv, RollTypes
<1>2. /\ Enrolled' = Enrolled /\ Heads' = Heads /\ Contiguous' = Contiguous
      /\ Roll!Orders' = Roll!Orders
  BY SchoolsRest
<1>3. RollCall(call[me])' BY <1>2 DEF RollInv, RollCall
<1>4. \A u \in Udises \ apart' : Behind(call[me], u)' \/ Follows(u)'
  BY <1>2 DEF RollInv, Behind
<1> QED BY <1>1, <1>2, <1>3, <1>4 DEF RollInv, Numbering

LEMMA PartnerIsMade ==
  ASSUME RollFacts, RollInv, NEW u \in Udises, NEW pay \in Pays,
         Roll!createPartner(u, pay) \/ Roll!updatePartner(u, pay)
  PROVE  RollInv'
<1>1. PICK new : partner' = [partner EXCEPT ![u] = new] /\ new \in PartnerRow
  <2>1. CASE Roll!createPartner(u, pay)
    <3>1. [pay |-> pay, paid |-> FALSE] \in PartnerRow BY DEF PartnerRow
    <3> QED BY <2>1, <3>1 DEF Roll!createPartner
  <2>2. CASE Roll!updatePartner(u, pay)
    <3>1. partner[u] \in PartnerRow BY <2>2 DEF Roll!updatePartner, RollInv, RollTypes
    <3>2. [partner[u] EXCEPT !.pay = pay] \in PartnerRow BY <3>1 DEF PartnerRow
    <3>3. partner' = [partner EXCEPT ![u] = [partner[u] EXCEPT !.pay = pay]]
      BY <2>2 DEF Roll!updatePartner
    <3> QED BY <3>2, <3>3
  <2> QED BY <2>1, <2>2
<1>2. /\ apart' = apart \cup {u} /\ school' = school /\ call' = call /\ disturbed' = disturbed
  BY DEF Roll!createPartner, Roll!updatePartner
<1>3. /\ partner' \in [Udises -> PartnerRow \cup {Roll!NoPartner}] /\ apart' \in SUBSET Udises
      /\ \A v \in Udises : v # u => partner'[v] = partner[v]
  BY <1>1, <1>2 DEF RollInv, RollTypes
<1>4. \A v \in Udises \ apart' : v \notin apart /\ (Follows(v) => Follows(v)')
  BY <1>2, <1>3, SchoolsRest DEF Follows
<1> QED BY <1>2, <1>3, <1>4, PartnersAreEdited

\* The payment ledger writes the mark of a partner, never its pay.
LEMMA PartnerIsPaid ==
  ASSUME RollFacts, RollInv, NEW u \in Udises, NEW paid \in BOOLEAN, Roll!bulkUpdatePayLedger(u, paid)
  PROVE  RollInv'
<1>1. PICK new : new = [partner[u] EXCEPT !.paid = paid] OBVIOUS
<1>2. /\ partner[u] # Roll!NoPartner /\ partner' = [partner EXCEPT ![u] = new]
      /\ school' = school /\ call' = call /\ disturbed' = disturbed /\ apart' = apart
  BY <1>1 DEF Roll!bulkUpdatePayLedger
<1>3. partner[u] \in PartnerRow BY <1>2 DEF RollInv, RollTypes
<1>4. new \in PartnerRow /\ new.pay = partner[u].pay BY <1>1, <1>3 DEF PartnerRow
<1>5. new # Roll!NoPartner BY <1>4, APartnerIsNotNone
<1>6. /\ partner' \in [Udises -> PartnerRow \cup {Roll!NoPartner}]
      /\ partner'[u] = new /\ \A v \in Udises : v # u => partner'[v] = partner[v]
  BY <1>2, <1>4 DEF RollInv, RollTypes
<1>7. \A v \in Udises \ apart' : v \notin apart /\ (Follows(v) => Follows(v)')
  <2> SUFFICES ASSUME NEW v \in Udises \ apart, Follows(v) PROVE Follows(v)'
    BY <1>2
  <2>1. CASE v = u BY <1>2, <1>4, <1>5, <1>6, <2>1, SchoolsRest DEF Follows
  <2>2. CASE v # u BY <1>2, <1>6, <2>2, SchoolsRest DEF Follows
  <2> QED BY <2>1, <2>2
<1>8. apart' \in SUBSET Udises BY <1>2 DEF RollInv, RollTypes
<1> QED BY <1>2, <1>6, <1>7, <1>8, PartnersAreEdited

LEMMA PartnersAreRemoved ==
  ASSUME RollFacts, RollInv, NEW S \in SUBSET Udises, Roll!deletePartners(S)
  PROVE  RollInv'
<1>1. /\ partner' = [u \in Udises |-> IF u \in S THEN Roll!NoPartner ELSE partner[u]]
      /\ apart' = apart \cup S /\ school' = school /\ call' = call /\ disturbed' = disturbed
  BY DEF Roll!deletePartners
<1>2. partner' \in [Udises -> PartnerRow \cup {Roll!NoPartner}] /\ apart' \in SUBSET Udises
  BY <1>1 DEF RollInv, RollTypes
<1>3. \A v \in Udises \ apart' : v \notin apart /\ (Follows(v) => Follows(v)')
  BY <1>1, SchoolsRest DEF Follows
<1> QED BY <1>1, <1>2, <1>3, PartnersAreEdited

LEMMA RollCrash ==
  ASSUME RollFacts, RollInv, Roll!Crash
  PROVE  RollInv'
<1>0. PICK b : b = call[me] OBVIOUS
<1>1. /\ school' = school /\ partner' = partner /\ call' = [h \in Handlers |-> Roll!IdleCall]
      /\ disturbed' = (disturbed \/ \E h \in Handlers : call[h].pc \in {"list", "renumber"})
      /\ apart' = apart \cup UNION {Roll!Unfinished(call[h]) : h \in Handlers}
  BY DEF Roll!Crash
<1>2. apart' = apart \cup Roll!Unfinished(b)
  BY <1>0, <1>1 DEF RollFacts
<1>3. RollCall(b) BY <1>0 DEF RollInv
<1>4. Roll!Unfinished(b) \in SUBSET Udises
  BY <1>3, RollStages, RollCount DEF Roll!Unfinished
<1>5. \A u \in Udises : Behind(b, u) => u \in Roll!Unfinished(b)
  BY DEF Behind, Roll!Unfinished
<1>6. Numbering(b) => disturbed' BY <1>0, <1>1 DEF Numbering, RollFacts
<1>7. disturbed => disturbed' BY <1>1
<1>8. disturbed' \in BOOLEAN BY <1>1 DEF RollInv, RollTypes
<1>9. RollTypes' BY <1>1, <1>2, <1>4, <1>8 DEF RollInv, RollTypes
<1>10. RollCall(call[me])' BY <1>1 DEF RollCall, RollFacts
<1>11. disturbed' \/ Contiguous' BY <1>0, <1>1, <1>6, <1>7, SchoolsRest DEF RollInv
<1>12. \A u \in Udises \ apart' : Follows(u)'
  BY <1>0, <1>1, <1>2, <1>5, SchoolsRest DEF RollInv
<1>13. DOMAIN call' = Handlers /\ call' = [h \in Handlers |-> call'[h]] BY <1>1
<1> QED BY <1>9, <1>10, <1>11, <1>12, <1>13 DEF RollInv

LEMMA RollSteps ==
  ASSUME RollFacts, RollInv, Roll!Next
  PROVE  RollInv'
<1>1. CASE Roll!Crash BY <1>1, RollCrash
<1>2. CASE Roll!Partners
  BY <1>2, PartnerIsMade, PartnerIsPaid, PartnersAreRemoved DEF Roll!Partners
<1>3. CASE Roll!Ask(me)
  BY <1>3, SchoolIsCreated, BulkOfSchools, PatchOfSchools, SchoolIsUpdated, SchoolsAreDeleted,
     SyncIsAsked DEF Roll!Ask
<1>4. CASE Roll!Work(me)
  BY <1>4, SchoolIsNumbered, SchoolIsInserted, PartnerIsUpserted, BulkAddsSchool, PatchChangesSchool,
     SyncWrites, BulkOfSchoolsEnds, PatchOfSchoolsEnds, SyncReads, SyncEnds, SchoolsAreListed,
     SchoolsAreRenumbered, PartnersAreDeleted DEF Roll!Work
<1> QED BY <1>1, <1>2, <1>3, <1>4 DEF Roll!Next, RollFacts

LEMMA RollStarts ==
  ASSUME RollFacts, Roll!Init
  PROVE  RollInv
<1>1. /\ school = [u \in Udises |-> Roll!NoSchool] /\ partner = [u \in Udises |-> Roll!NoPartner]
      /\ call = [h \in Handlers |-> Roll!IdleCall] /\ disturbed = FALSE /\ apart = {}
  BY DEF Roll!Init
<1>2. RollTypes BY <1>1 DEF RollTypes
<1>3. RollCall(call[me]) BY <1>1 DEF RollCall, RollFacts
<1>4. Enrolled = {} BY <1>1 DEF Enrolled, Roll!Registered
<1>5. Heads = 0 BY <1>4, RollCount, FS_EmptySet
<1>6. Contiguous BY <1>4, <1>5 DEF Contiguous
<1>7. \A u \in Udises : Follows(u) BY <1>1, <1>4 DEF Follows
<1> QED BY <1>1, <1>2, <1>3, <1>6, <1>7 DEF RollInv

\* While a tenant's requests are handled one at a time, between them the
\* schools are numbered from one on, every school has its partner with its
\* pay, and no partner outlives its school: each school handler ends by
\* writing the partners.  A number the request gives or a crash disturbs the
\* numbers, and an edit of the partner itself or a crash sets it apart, until
\* they are next written (school-works.controller.ts, school-works.service.ts
\* and school-partners.service.ts).
THEOREM PartnersFollowSchoolsAlways ==
  ASSUME RollFacts
  PROVE  Roll!Spec => [](Roll!TypeOK /\ Roll!SerialsAreContiguous /\ Roll!PartnersFollowSchools)
<1>1. Roll!Init => RollInv BY RollStarts
<1>2. RollInv /\ [Roll!Next]_(Roll!vars) => RollInv'
  <2>1. ASSUME RollInv, UNCHANGED Roll!vars PROVE RollInv'
    <3>1. /\ school' = school /\ partner' = partner /\ call' = call /\ disturbed' = disturbed
          /\ apart' = apart
      BY <2>1 DEF Roll!vars
    <3>2. /\ partner' \in [Udises -> PartnerRow \cup {Roll!NoPartner}] /\ apart' \in SUBSET Udises
      BY <2>1, <3>1 DEF RollInv, RollTypes
    <3> QED BY <2>1, <3>1, <3>2, SchoolsRest, PartnersAreEdited
  <2> QED BY <2>1, RollSteps
<1>3. RollInv => Roll!TypeOK /\ Roll!SerialsAreContiguous /\ Roll!PartnersFollowSchools
  <2> SUFFICES ASSUME RollInv PROVE Roll!TypeOK /\ Roll!SerialsAreContiguous /\ Roll!PartnersFollowSchools
    OBVIOUS
  <2>1. Roll!TypeOK BY DEF RollInv, RollTypes, Roll!TypeOK, SchoolRow, PartnerRow
  <2>2. Roll!Quiet => (\A u \in Udises \ apart : Follows(u)) /\ (disturbed \/ Contiguous)
    BY NothingBehind DEF Roll!Quiet, Roll!Idle, Roll!At, RollFacts
  <2>3. Roll!SerialsAreContiguous
    BY <2>2 DEF Roll!SerialsAreContiguous, Contiguous, Enrolled, Heads
  <2>4. Roll!PartnersFollowSchools
    BY <2>2 DEF Roll!PartnersFollowSchools, Follows, Enrolled
  <2> QED BY <2>1, <2>3, <2>4
<1> QED BY <1>1, <1>2, <1>3, PTL DEF Roll!Spec

-----------------------------------------------------------------------------
(* SchoolExpenses: what an amount split over a block leaves in the ledgers,  *)
(* and what the invoices come to.                                            *)

LEMMA SumOfShares ==
  ASSUME NEW S, IsFiniteSet(S), NEW k, NEW w \in [S -> Int],
         \A s \in S : w[s] = school[s].expense[k]
  PROVE  Expenses!MapThenSumSet(LAMBDA s : school[s].expense[k], S) = Total(w, S)
<1> DEFINE F(g) == g = [s \in SUBSET S |-> IF s = {} THEN 0
                                           ELSE school[OneOf(s)].expense[k] + g[s \ {OneOf(s)}]]
           c == CHOOSE g : F(g)
<1>1. ASSUME NEW g PROVE F(g) <=> Totals(g, w, S)
  <2>1. \A s \in SUBSET S : s # {} => w[OneOf(s)] = school[OneOf(s)].expense[k]
    BY OneOfIsIn
  <2> QED BY <2>1 DEF Totals
<1>2. PICK g : Totals(g, w, S) BY TotalsExist
<1>3. F(c)
  <2>1. F(g) BY <1>1, <1>2
  <2> HIDE DEF F
  <2> QED BY <2>1
<1>4. Expenses!MapThenSumSet(LAMBDA s : school[s].expense[k], S) = c[S]
  BY DEF Expenses!MapThenSumSet, Expenses!MapThenFoldSet, OneOf
<1> HIDE DEF F, c
<1> QED BY <1>1, <1>3, <1>4, TotalIs

LEMMA Division ==
  ASSUME NEW a \in Nat, NEW n \in Nat \ {0}
  PROVE  /\ a = (a \div n) * n + (a % n)
         /\ a \div n \in Nat /\ a % n \in Nat /\ a % n < n
OBVIOUS

\* Members of two sizes, one apart: the larger ones count once more.
TwoSized(w, S, q, large) ==
  /\ w \in [S -> Int] /\ q \in Nat /\ large \subseteq S
  /\ \A x \in S : w[x] = IF x \in large THEN q + 1 ELSE q

LEMMA TwoSizes ==
  ASSUME NEW S, IsFiniteSet(S), NEW q, NEW w, NEW large, TwoSized(w, S, q, large)
  PROVE  Total(w, S) = Cardinality(S) * q + Cardinality(large)
<1> DEFINE Big(s) == {x \in s : w[x] = q + 1}
           Sum(s) == Cardinality(s) * q + Cardinality(Big(s))
           F == {s \in SUBSET S : Total([y \in s |-> w[y]], s) # Sum(s)}
<1>0. /\ w \in [S -> Int] /\ q \in Nat /\ large = Big(S)
      /\ \A x \in S : w[x] \in {q, q + 1}
  BY DEF TwoSized
<1>1. w = [y \in S |-> w[y]]
  BY <1>0
<1>2. SUFFICES ASSUME F # {} PROVE FALSE
  <2>1. S \in SUBSET S /\ large = Big(S) BY <1>0
  <2> QED BY <1>1, <2>1
<1>3. \A s \in SUBSET S : IsFiniteSet(s) /\ IsFiniteSet(Big(s))
  BY FS_Subset
<1>4. PICK s \in F : \A r \in F : ~(Cardinality(r) < Cardinality(s))
  <2>1. \A s \in F : IsFiniteSet(s)
    BY FS_Subset
  <2> HIDE DEF F
  <2> QED BY <1>2, <2>1, SmallestSet
<1>5. PICK ws : ws = [y \in s |-> w[y]]
  OBVIOUS
<1>6. ws \in [s -> Int] /\ Total(ws, s) # Sum(s) /\ s \in SUBSET S
  BY <1>0, <1>5
<1>7. s # {}
  <2>1. SUFFICES ASSUME s = {} PROVE FALSE
    OBVIOUS
  <2>2. Total(ws, s) = 0
    <3>1. ws \in [{} -> Int] BY <1>6, <2>1
    <3> HIDE DEF Sum, F
    <3> QED BY <2>1, <3>1, TotalOfNone
  <2>3. Cardinality(s) = 0 /\ Cardinality(Big(s)) = 0
    <3>1. Big(s) = {} BY <2>1
    <3> HIDE DEF Big
    <3> QED BY <2>1, <3>1, FS_EmptySet
  <2> HIDE DEF Big, F
  <2> QED BY <1>0, <1>6, <2>2, <2>3
<1>8. PICK x \in s : TRUE
  BY <1>7
<1>9. PICK t : t = s \ {x}
  OBVIOUS
<1>10. /\ t \in SUBSET S /\ Cardinality(s) = Cardinality(t) + 1
       /\ Cardinality(t) \in Nat /\ Cardinality(t) < Cardinality(s)
  <2>1. IsFiniteSet(s) BY <1>3, <1>6
  <2>2. /\ Cardinality(t) = Cardinality(s) - 1 /\ Cardinality(s) \in Nat /\ Cardinality(t) \in Nat
        /\ Cardinality(t) < Cardinality(s)
    BY <1>9, <2>1, OneLess
  <2> QED BY <1>6, <1>9, <2>2
<1>11. PICK wt : wt = [y \in t |-> w[y]]
  OBVIOUS
<1>12. Total(wt, t) = Sum(t)
  <2>1. t \notin F BY <1>4, <1>10
  <2> HIDE DEF Sum
  <2> QED BY <1>10, <1>11, <2>1
<1>13. Total(ws, s) = ws[x] + Total(wt, t)
  <2>1. wt \in [s \ {x} -> Int] /\ \A y \in s \ {x} : wt[y] = ws[y]
    BY <1>0, <1>5, <1>6, <1>9, <1>11
  <2>2. IsFiniteSet(s) BY <1>3, <1>6
  <2> HIDE DEF Sum, F
  <2> QED BY <1>6, <1>9, <2>1, <2>2, TotalWith
<1>14. ws[x] \in {q, q + 1} /\ ws[x] = w[x]
  BY <1>0, <1>5, <1>6
<1>15. Cardinality(Big(s)) = Cardinality(Big(t)) + (IF w[x] = q + 1 THEN 1 ELSE 0)
       /\ Cardinality(Big(t)) \in Nat
  <2>1. IsFiniteSet(Big(t)) /\ x \notin Big(t)
    BY <1>3, <1>9, <1>10
  <2>2. Big(s) = IF w[x] = q + 1 THEN Big(t) \cup {x} ELSE Big(t)
    BY <1>8, <1>9
  <2>3. PICK B : B = Big(t)
    OBVIOUS
  <2> HIDE DEF Big, Sum, F
  <2>4. Cardinality(B \cup {x}) = Cardinality(B) + 1 /\ Cardinality(B) \in Nat
    BY <2>1, <2>3, FS_AddElement, FS_CardinalityType
  <2> QED BY <2>2, <2>3, <2>4
<1>16. Cardinality(s) * q = Cardinality(t) * q + q /\ Cardinality(t) * q \in Nat
  BY <1>0, <1>10, OneMoreTimes
<1> HIDE DEF Big, F
<1> QED BY <1>0, <1>6, <1>12, <1>13, <1>14, <1>15, <1>16

LEMMA LargestOf ==
  ASSUME NEW S, IsFiniteSet(S), S \subseteq Int, S # {}
  PROVE  \E x \in S : \A y \in S : y <= x
<1> DEFINE F == {s \in SUBSET S : s # {} /\ \A x \in s : \E y \in s : ~(y <= x)}
<1>1. SUFFICES ASSUME F # {} PROVE FALSE
  OBVIOUS
<1>2. \A s \in F : IsFiniteSet(s)
  BY FS_Subset
<1>3. PICK s \in F : \A r \in F : ~(Cardinality(r) < Cardinality(s))
  <2> HIDE DEF F
  <2> QED BY <1>1, <1>2, SmallestSet
<1>4. PICK x \in s : TRUE
  OBVIOUS
<1>5. s \ {x} \notin F
  BY <1>2, <1>3, OneLess
<1>6. s \ {x} # {}
  <2>1. SUFFICES ASSUME s = {x} PROVE FALSE
    OBVIOUS
  <2>2. x <= x /\ \E y \in s : ~(y <= x)
    OBVIOUS
  <2> QED BY <2>1, <2>2
<1>7. PICK z \in s \ {x} : \A y \in s \ {x} : y <= z
  BY <1>5, <1>6
<1>8. PICK m \in {x, z} : x <= m /\ z <= m
  OBVIOUS
<1>9. \A y \in s : y <= m
  <2>1. \A y \in s : y \in Int /\ m \in Int /\ z \in Int
    OBVIOUS
  <2> HIDE DEF F
  <2> QED BY <1>7, <1>8, <2>1
<1> QED BY <1>9

LEMMA ExpensesCount ==
  ASSUME NEW S
  PROVE  Expenses!Cardinality(S) = Cardinality(S)
BY DEF Expenses!Cardinality, Cardinality

LEMMA PlaceIs ==
  ASSUME NEW s, NEW K
  PROVE  Expenses!Place(s, K) = Cardinality({r \in K : r <= s})
BY ExpensesCount DEF Expenses!Place

\* The first m places are m.
LEMMA FirstPlaces ==
  ASSUME NEW K, IsFiniteSet(K), K \subseteq Int, NEW m \in Nat, m <= Cardinality(K)
  PROVE  Cardinality({s \in K : Expenses!Place(s, K) <= m}) = m
<1> DEFINE First(k) == {s \in k : Expenses!Place(s, k) <= m}
           F == {k \in SUBSET K : m <= Cardinality(k) /\ Cardinality(First(k)) # m}
<1>1. SUFFICES ASSUME F # {} PROVE FALSE
  <2>1. K \in SUBSET K OBVIOUS
  <2> QED BY <2>1
<1>2. \A k \in SUBSET K : IsFiniteSet(k) /\ Cardinality(k) \in Nat
  BY FS_Subset, FS_CardinalityType
<1>3. PICK k \in F : \A r \in F : ~(Cardinality(r) < Cardinality(k))
  <2>1. \A k \in F : IsFiniteSet(k) BY <1>2
  <2> HIDE DEF F
  <2> QED BY <1>1, <2>1, SmallestSet
<1>4. k \in SUBSET K /\ m <= Cardinality(k) /\ Cardinality(First(k)) # m
  OBVIOUS
<1>5. m < Cardinality(k)
  <2>1. SUFFICES ASSUME m = Cardinality(k) PROVE FALSE
    BY <1>2, <1>4
  <2>2. ASSUME NEW s \in k PROVE Expenses!Place(s, k) <= m
    <3>1. {r \in k : r <= s} \subseteq k /\ IsFiniteSet(k)
      BY <1>2, <1>4
    <3>2. Cardinality({r \in k : r <= s}) <= Cardinality(k)
      BY <3>1, FS_Subset
    <3> QED BY <2>1, <3>2, PlaceIs
  <2>3. First(k) = k
    BY <2>2
  <2> HIDE DEF First, F
  <2> QED BY <1>4, <2>1, <2>3
<1>6. k # {} /\ IsFiniteSet(k) /\ k \subseteq Int
  <2>1. k = {} => Cardinality(k) = 0
    BY FS_EmptySet
  <2> HIDE DEF F, First
  <2> QED BY <1>2, <1>4, <1>5, <2>1
<1>7. PICK x \in k : \A y \in k : y <= x
  <2> HIDE DEF F, First
  <2> QED BY <1>6, LargestOf
<1>8. PICK t : t = k \ {x}
  OBVIOUS
<1>9. t \in SUBSET K /\ Cardinality(t) < Cardinality(k) /\ m <= Cardinality(t)
  <2>1. /\ Cardinality(t) = Cardinality(k) - 1 /\ Cardinality(k) \in Nat /\ Cardinality(t) \in Nat
        /\ Cardinality(t) < Cardinality(k)
    <3> HIDE DEF F, First
    <3> QED BY <1>6, <1>8, OneLess
  <2> HIDE DEF F, First
  <2> QED BY <1>4, <1>5, <1>8, <2>1
<1>10. Cardinality(First(t)) = m
  <2> HIDE DEF First
  <2> QED BY <1>3, <1>9
<1>11. First(k) = First(t)
  <2>1. Expenses!Place(x, k) = Cardinality(k)
    <3>1. {r \in k : r <= x} = k BY <1>7
    <3> QED BY <3>1, PlaceIs
  <2>2. x \notin First(k)
    BY <1>2, <1>4, <1>5, <2>1
  <2>3. ASSUME NEW s \in t PROVE Expenses!Place(s, k) = Expenses!Place(s, t)
    <3>1. s \in k /\ s # x /\ s \in Int /\ x \in Int /\ s <= x
      BY <1>6, <1>7, <1>8
    <3>2. {r \in k : r <= s} = {r \in t : r <= s}
      BY <1>8, <3>1
    <3> QED BY <3>2, PlaceIs
  <2> QED BY <1>8, <2>2, <2>3
<1> QED BY <1>4, <1>10, <1>11

LEMMA PlaceIn ==
  ASSUME NEW K, IsFiniteSet(K), K \subseteq Int, NEW s \in K
  PROVE  Expenses!Place(s, K) \in 1..Cardinality(K) /\ Cardinality(K) \in Nat \ {0}
<1>1. PICK r : r = {t \in K : t <= s}
  OBVIOUS
<1>2. r \subseteq K /\ s \in r
  BY <1>1
<1>3. /\ IsFiniteSet(r) /\ Cardinality(r) <= Cardinality(K)
      /\ Cardinality(r) \in Nat /\ Cardinality(K) \in Nat
  BY <1>2, FS_Subset, FS_CardinalityType
<1>4. Cardinality(r) # 0
  BY <1>2, <1>3, FS_EmptySet
<1> QED BY <1>1, <1>3, <1>4, PlaceIs

\* The shares of an amount are within one of another and add up to it.
LEMMA SharesOf ==
  ASSUME NEW K, IsFiniteSet(K), K \subseteq Int, K # {}, NEW a \in Nat, NEW w \in [K -> Int],
         \A s \in K : w[s] = Expenses!splitAmountEqually(a, Cardinality(K))[Expenses!Place(s, K)]
  PROVE  /\ Total(w, K) = a
         /\ \A r, s \in K : w[r] <= w[s] + 1
<1>1. PICK n \in Nat \ {0} : n = Cardinality(K)
  BY PlaceIn
<1>2. PICK q \in Nat, m \in Nat : q = a \div n /\ m = a % n /\ a = q * n + m /\ m < n
  BY Division
<1>3. ASSUME NEW s \in K
      PROVE  w[s] = q + (IF Expenses!Place(s, K) <= m THEN 1 ELSE 0)
  <2>1. Expenses!Place(s, K) \in 1..n
    BY <1>1, PlaceIn
  <2>2. w[s] = Expenses!splitAmountEqually(a, n)[Expenses!Place(s, K)]
    BY <1>1
  <2> QED BY <1>2, <2>1, <2>2 DEF Expenses!splitAmountEqually
<1>4. \A s \in K : w[s] \in {q, q + 1}
  BY <1>3
<1>5. PICK B : B = {s \in K : w[s] = q + 1}
  OBVIOUS
<1>6. Cardinality(B) = m
  <2>1. m <= Cardinality(K)
    BY <1>1, <1>2
  <2>2. Cardinality({s \in K : Expenses!Place(s, K) <= m}) = m
    BY <2>1, FirstPlaces
  <2>3. \A s \in K : w[s] = q + 1 <=> Expenses!Place(s, K) <= m
    BY <1>3
  <2>4. B = {s \in K : Expenses!Place(s, K) <= m}
    BY <1>5, <2>3
  <2> QED BY <2>2, <2>4
<1>7. Total(w, K) = n * q + m
  <2>1. TwoSized(w, K, q, B)
    BY <1>4, <1>5 DEF TwoSized
  <2>2. Total(w, K) = Cardinality(K) * q + Cardinality(B)
    BY <2>1, TwoSizes
  <2> QED BY <1>1, <1>6, <2>2
<1>8. n * q = q * n
  OBVIOUS
<1> QED BY <1>2, <1>4, <1>7, <1>8

ExpenseFacts ==
  /\ Handlers = {me} /\ IsFiniteSet(Schools) /\ Schools \subseteq Nat
  /\ Amounts \subseteq Nat /\ MaxInvoices \in Nat

SchoolLedgers == [state: {"unknown", "kept", "deleted"}, expense: [Kinds -> Nat], days: {0, 24, 31}]
Spread == [kind: Kinds \cup {"none"}, amount: Nat, over: SUBSET Schools, said: BOOLEAN]
Sets == UNION {[K -> [Kinds -> Nat] \cup {0, 24, 31}] : K \in SUBSET Schools}
Writing == [pc: {"write"}, field: {"expense", "days"}, left: SUBSET Schools, missed: BOOLEAN,
            set: Sets, spread: Spread]
ExpenseCall(c) ==
  \/ c = Expenses!IdleCall
  \/ c \in Writing
  \/ c \in [pc: {"audit"}, spread: Spread]
  \/ c.pc \in {"find", "save"}

ShareOf(d, s) == Expenses!splitAmountEqually(d.amount, Cardinality(d.over))[Expenses!Place(s, d.over)]

\* An amount is split over schools that exist, or did.
Split(d) ==
  d.said => /\ d.kind \in Kinds /\ d.over # {}
            /\ \A s \in d.over : school[s].state # "unknown"
\* What a write will leave in each ledger.
Set(c) ==
  /\ c.left \subseteq DOMAIN c.set
  /\ \A s \in DOMAIN c.set :
       c.set[s] \in IF c.field = "expense" THEN [Kinds -> Nat] ELSE {0, 24, 31}
  /\ c.spread.said =>
       /\ c.field = "expense" /\ DOMAIN c.set = c.spread.over
       /\ \A s \in c.spread.over : c.set[s][c.spread.kind] = ShareOf(c.spread, s)
Has(d, s) == school[s].expense[d.kind] = ShareOf(d, s)
Spent(c) ==
  /\ c.pc = "write" =>
       /\ Set(c) /\ Split(c.spread)
       /\ c.spread.said /\ ~c.missed => \A s \in c.spread.over \ c.left : Has(c.spread, s)
  /\ c.pc = "audit" =>
       /\ Split(c.spread)
       /\ c.spread.said => \A s \in c.spread.over : Has(c.spread, s)

SpendInv ==
  /\ school \in [Schools -> SchoolLedgers] /\ me \in DOMAIN call
  /\ ExpenseCall(call[me]) /\ Spent(call[me])


LEMMA SharesAreNat ==
  ASSUME NEW K, IsFiniteSet(K), K \subseteq Int, NEW s \in K, NEW a \in Nat
  PROVE  Expenses!splitAmountEqually(a, Cardinality(K))[Expenses!Place(s, K)] \in Nat
<1>1. PICK n \in Nat \ {0} : n = Cardinality(K) /\ Expenses!Place(s, K) \in 1..n
  BY PlaceIn
<1>2. a \div n \in Nat
  BY Division
<1> QED BY <1>1, <1>2 DEF Expenses!splitAmountEqually

LEMMA SpendStarts == ASSUME ExpenseFacts, Expenses!Init PROVE SpendInv
<1>1. PICK kept \in SUBSET Schools :
        school = [s \in Schools |-> [Expenses!NewSchool EXCEPT !.state = IF s \in kept THEN @ ELSE "unknown"]]
  BY DEF Expenses!Init
<1>2. school \in [Schools -> SchoolLedgers]
  BY <1>1 DEF SchoolLedgers, Expenses!NewSchool, Expenses!NoLedger
<1>3. me \in DOMAIN call /\ call[me] = Expenses!IdleCall
  BY DEF Expenses!Init, ExpenseFacts
<1> QED BY <1>2, <1>3 DEF SpendInv, ExpenseCall, Spent, Expenses!IdleCall

\* A step of the request that leaves the ledgers alone.
LEMMA SpendGo ==
  ASSUME SpendInv, school' = school, NEW c, Expenses!Goto(me, c), ExpenseCall(c), Spent(c)
  PROVE  SpendInv'
<1>1. me \in DOMAIN call' /\ call'[me] = c
  BY DEF SpendInv, Expenses!Goto
<1>2. Spent(c)' /\ ExpenseCall(c)'
  BY DEF Spent, Split, Has, ExpenseCall, Set
<1>3. Spent(call[me])' /\ ExpenseCall(call[me])'
  BY <1>1, <1>2 DEF Spent, Split, Has, ExpenseCall, Set
<1> QED BY <1>1, <1>3 DEF SpendInv

LEMMA KeptOnes ==
  ASSUME ExpenseFacts, SpendInv, NEW K, K = Expenses!Kept
  PROVE  /\ IsFiniteSet(K) /\ K \subseteq Schools /\ K \subseteq Int
         /\ \A s \in K : school[s].state = "kept" /\ school[s] \in SchoolLedgers
                         /\ school[s].expense \in [Kinds -> Nat]
<1>1. K \subseteq Schools /\ \A s \in K : school[s].state = "kept" /\ school[s] \in SchoolLedgers
  BY DEF Expenses!Kept, SpendInv
<1>2. IsFiniteSet(Schools) /\ Schools \subseteq Int
  BY DEF ExpenseFacts
<1>3. IsFiniteSet(K) /\ K \subseteq Int
  BY <1>1, <1>2, FS_Subset
<1>4. \A s \in K : school[s].expense \in [Kinds -> Nat]
  BY <1>1 DEF SchoolLedgers
<1> QED BY <1>1, <1>3, <1>4

LEMMA SpendDistribute ==
  ASSUME ExpenseFacts, SpendInv, NEW k \in Kinds, NEW a \in Amounts, NEW remark \in BOOLEAN,
         Expenses!distributeBlockExpense(me, k, a, remark)
  PROVE  SpendInv'
<1>1. PICK K : K = Expenses!Kept
  OBVIOUS
<1>2. PICK said \in BOOLEAN : said <=> a > 0 \/ remark
  OBVIOUS
<1>3. PICK v : v = [s \in K |->
                     IF said
                     THEN [Expenses!normalizeMonthlyLedger(school[s].expense) EXCEPT ![k] =
                             Expenses!splitAmountEqually(a, Cardinality(K))[Expenses!Place(s, K)]]
                     ELSE Expenses!normalizeMonthlyLedger(school[s].expense)]
  OBVIOUS
<1>4. PICK d : d = [kind |-> k, amount |-> a, over |-> K, said |-> said]
  OBVIOUS
<1>5. PICK c : c = [pc |-> "write", field |-> "expense", left |-> K, missed |-> FALSE,
                    set |-> v, spread |-> d]
  OBVIOUS
<1>6. Expenses!Goto(me, c) /\ school' = school /\ K # {}
  BY <1>1, <1>2, <1>3, <1>4, <1>5, ExpensesCount
  DEF Expenses!distributeBlockExpense, Expenses!findSchoolsInBlock
<1>7. /\ IsFiniteSet(K) /\ K \subseteq Schools /\ K \subseteq Int
      /\ \A s \in K : school[s].state = "kept" /\ school[s].expense \in [Kinds -> Nat]
  BY <1>1, KeptOnes
<1>8. ASSUME NEW s \in K
      PROVE  v[s] \in [Kinds -> Nat] /\ (said => v[s][k] = ShareOf(d, s))
  <2>1. PICK n \in Nat : n = Expenses!splitAmountEqually(a, Cardinality(K))[Expenses!Place(s, K)]
    BY <1>7, SharesAreNat DEF ExpenseFacts
  <2>2. ShareOf(d, s) = n
    BY <1>4, <2>1 DEF ShareOf
  <2>3. PICK l \in [Kinds -> Nat] : l = Expenses!normalizeMonthlyLedger(school[s].expense)
    BY <1>7 DEF Expenses!normalizeMonthlyLedger
  <2>4. v[s] = IF said THEN [l EXCEPT ![k] = n] ELSE l
    BY <1>3, <2>1, <2>3
  <2> QED BY <2>2, <2>3, <2>4
<1>9. v \in Sets /\ DOMAIN v = K /\ d \in Spread
  <2>1. v \in [K -> [Kinds -> Nat] \cup {0, 24, 31}] /\ DOMAIN v = K
    BY <1>3, <1>8
  <2>2. d \in Spread
    BY <1>4, <1>7 DEF Spread, ExpenseFacts
  <2> QED BY <1>7, <2>1, <2>2 DEF Sets
<1>10. ExpenseCall(c)
  BY <1>5, <1>7, <1>9 DEF ExpenseCall, Writing
<1>11. Set(c)
  BY <1>4, <1>5, <1>8, <1>9 DEF Set
<1>12. Split(d)
  BY <1>4, <1>6, <1>7 DEF Split
<1>13. Spent(c)
  BY <1>4, <1>5, <1>11, <1>12 DEF Spent
<1> QED BY <1>6, <1>10, <1>13, SpendGo

\* The changes that hand out nothing.
LEMMA SpendSays ==
  ASSUME ExpenseFacts, SpendInv, school' = school, NEW K \in SUBSET Schools, NEW v,
         NEW f \in {"expense", "days"}, NEW k \in Kinds \cup {"none"}, NEW c,
         c = [pc |-> "write", field |-> f, left |-> K, missed |-> FALSE, set |-> v,
              spread |-> [kind |-> k, amount |-> 0, over |-> {}, said |-> FALSE]],
         v \in [K -> IF f = "expense" THEN [Kinds -> Nat] ELSE {0, 24, 31}],
         Expenses!Goto(me, c)
  PROVE  SpendInv'
<1>1. v \in Sets
  <2>1. v \in [K -> [Kinds -> Nat] \cup {0, 24, 31}]
    OBVIOUS
  <2> QED BY <2>1 DEF Sets
<1>2. PICK d : d = [kind |-> k, amount |-> 0, over |-> {}, said |-> FALSE]
  OBVIOUS
<1>3. c \in Writing
  BY <1>1, <1>2 DEF Writing, Spread
<1>4. Spent(c)
  BY DEF Spent, Set, Split
<1> QED BY <1>3, <1>4, SpendGo DEF ExpenseCall

LEMMA SpendTakesBack ==
  ASSUME ExpenseFacts, SpendInv, NEW k \in Kinds, Expenses!deleteBlockExpense(me, k)
  PROVE  SpendInv'
<1>1. PICK K : K = Expenses!Kept
  OBVIOUS
<1>2. PICK v : v = [s \in K |-> [school[s].expense EXCEPT ![k] = 0]]
  OBVIOUS
<1>3. PICK c : c = [pc |-> "write", field |-> "expense", left |-> K, missed |-> FALSE, set |-> v,
                    spread |-> [kind |-> k, amount |-> 0, over |-> {}, said |-> FALSE]]
  OBVIOUS
<1>4. v \in [K -> [Kinds -> Nat]] /\ K \in SUBSET Schools
  BY <1>1, <1>2, KeptOnes
<1>5. Expenses!Goto(me, c) /\ school' = school
  BY <1>1, <1>2, <1>3 DEF Expenses!deleteBlockExpense
<1> QED BY <1>3, <1>4, <1>5, SpendSays

LEMMA SpendDays ==
  ASSUME ExpenseFacts, SpendInv, NEW named, NEW days \in {0, 40},
         Expenses!bulkUpdateWorkdays(me, named, days, 0)
  PROVE  SpendInv'
<1>1. PICK K : K = Expenses!Kept
  OBVIOUS
<1>2. PICK v : v = [s \in K |-> Expenses!Clamped(IF s \in named THEN days ELSE 0)]
  OBVIOUS
<1>3. PICK c : c = [pc |-> "write", field |-> "days", left |-> K, missed |-> FALSE, set |-> v,
                    spread |-> [kind |-> "none", amount |-> 0, over |-> {}, said |-> FALSE]]
  OBVIOUS
<1>4. v \in [K -> {0, 24, 31}] /\ K \in SUBSET Schools
  BY <1>1, <1>2, KeptOnes DEF Expenses!Clamped
<1>5. Expenses!Goto(me, c) /\ school' = school
  BY <1>1, <1>2, <1>3 DEF Expenses!bulkUpdateWorkdays
<1> QED BY <1>3, <1>4, <1>5, SpendSays

\* A school's ledger is replaced by what was made for it.
LEMMA SpendWrites ==
  ASSUME ExpenseFacts, SpendInv, Expenses!bulkSetSchoolFields(me)
  PROVE  SpendInv'
<1>1. PICK c : c = call[me]
  OBVIOUS
<1>2. c.pc = "write" /\ c.left # {} /\ c \in Writing /\ Spent(c)
  BY <1>1 DEF Expenses!bulkSetSchoolFields, Expenses!At, SpendInv, ExpenseCall, Expenses!IdleCall,
              Writing
<1>3. PICK s : s = Expenses!Min(c.left)
  OBVIOUS
<1>4. s \in c.left /\ s \in Schools /\ s \in DOMAIN c.set
  <2>1. c.left \subseteq Nat /\ c.left \subseteq Schools
    BY <1>2 DEF Writing, ExpenseFacts
  <2>2. s \in c.left
    BY <1>2, <1>3, <2>1, SmallestOf DEF Expenses!Min
  <2> QED BY <1>2, <2>1, <2>2 DEF Spent, Set
<1>5. PICK b : b = [c EXCEPT !.left = @ \ {s}, !.missed = @ \/ s \notin Expenses!Kept]
  OBVIOUS
<1>6. /\ b.pc = "write" /\ b.field = c.field /\ b.set = c.set /\ b.spread = c.spread
      /\ b.left = c.left \ {s} /\ (b.missed <=> c.missed \/ s \notin Expenses!Kept)
      /\ b \in Writing
  BY <1>2, <1>5 DEF Writing
<1>7. me \in DOMAIN call' /\ call'[me] = b
  BY <1>1, <1>3, <1>5 DEF Expenses!bulkSetSchoolFields, Expenses!Goto, SpendInv
<1>8. school' = IF s \in Expenses!Kept THEN [school EXCEPT ![s] = [@ EXCEPT ![c.field] = c.set[s]]]
                                       ELSE school
  BY <1>1, <1>3 DEF Expenses!bulkSetSchoolFields
<1>9. /\ school' \in [Schools -> SchoolLedgers]
      /\ \A r \in Schools : school'[r].state = school[r].state
      /\ \A r \in Schools \ {s} : school'[r] = school[r]
      /\ s \in Expenses!Kept /\ c.field = "expense" => school'[s].expense = c.set[s]
  <2>0. school \in [Schools -> SchoolLedgers]
    BY DEF SpendInv
  <2>1. CASE s \notin Expenses!Kept
    BY <1>8, <2>0, <2>1
  <2>2. CASE s \in Expenses!Kept /\ c.field = "expense"
    <3>1. PICK l \in [Kinds -> Nat] : l = c.set[s]
      BY <1>2, <1>4, <2>2 DEF Spent, Set
    <3>2. PICK row : row = [school[s] EXCEPT !.expense = l]
      OBVIOUS
    <3>3. row \in SchoolLedgers /\ row.state = school[s].state /\ row.expense = l
      BY <1>4, <2>0, <3>2 DEF SchoolLedgers
    <3>4. school' = [school EXCEPT ![s] = row]
      BY <1>8, <2>2, <3>1, <3>2
    <3> QED BY <1>4, <2>0, <3>1, <3>3, <3>4
  <2>3. CASE s \in Expenses!Kept /\ c.field # "expense"
    <3>1. c.field = "days"
      BY <1>2, <2>3 DEF Writing
    <3>2. PICK n \in {0, 24, 31} : n = c.set[s]
      BY <1>2, <1>4, <2>3 DEF Spent, Set
    <3>3. PICK row : row = [school[s] EXCEPT !.days = n]
      OBVIOUS
    <3>4. row \in SchoolLedgers /\ row.state = school[s].state
      BY <1>4, <2>0, <3>3 DEF SchoolLedgers
    <3>5. school' = [school EXCEPT ![s] = row]
      BY <1>8, <2>3, <3>1, <3>2, <3>3
    <3> QED BY <1>4, <2>0, <2>3, <3>4, <3>5
  <2> QED BY <2>1, <2>2, <2>3
<1>10. Set(b) /\ Set(b)'
  BY <1>2, <1>6 DEF Spent, Set, ShareOf
<1>11. Split(b.spread)'
  <2>1. c.spread.over \subseteq Schools /\ Split(c.spread)
    BY <1>2 DEF Spent, Writing, Spread
  <2> QED BY <1>6, <1>9, <2>1 DEF Split
<1>12. ASSUME b.spread.said, ~b.missed, NEW r \in b.spread.over \ b.left
       PROVE  Has(b.spread, r)'
  <2>1. r \in Schools /\ s \in Expenses!Kept /\ ~c.missed /\ c.spread.said
    BY <1>2, <1>6, <1>12 DEF Writing, Spread
  <2>2. CASE r = s
    <3>1. c.field = "expense" /\ c.set[s][c.spread.kind] = ShareOf(c.spread, s)
      BY <1>2, <1>6, <1>12, <2>1, <2>2 DEF Spent, Set
    <3>2. school'[s].expense = c.set[s]
      BY <1>9, <2>1, <3>1
    <3> QED BY <1>6, <2>2, <3>1, <3>2 DEF Has, ShareOf
  <2>3. CASE r # s
    <3>1. Has(c.spread, r)
      BY <1>2, <1>6, <1>12, <2>1, <2>3 DEF Spent
    <3>2. school'[r] = school[r]
      BY <1>9, <2>1, <2>3
    <3> QED BY <1>6, <3>1, <3>2 DEF Has, ShareOf
  <2> QED BY <2>2, <2>3
<1>13. Spent(b)'
  BY <1>6, <1>10, <1>11, <1>12 DEF Spent
<1>14. Spent(call[me])' /\ ExpenseCall(call[me])'
  BY <1>6, <1>7, <1>13 DEF Spent, Split, Has, ShareOf, ExpenseCall, Set
<1> QED BY <1>7, <1>9, <1>14 DEF SpendInv

LEMMA SpendAnswers ==
  ASSUME ExpenseFacts, SpendInv, Expenses!Answer(me) \/ Expenses!audit(me)
  PROVE  SpendInv'
<1>1. PICK c : c = call[me]
  OBVIOUS
<1>2. school' = school
  BY DEF Expenses!Answer, Expenses!audit
<1>3. ExpenseCall(Expenses!IdleCall) /\ Spent(Expenses!IdleCall)
  BY DEF ExpenseCall, Spent, Expenses!IdleCall
<1>4. CASE Expenses!Goto(me, Expenses!IdleCall)
  <2>1. PICK i : i = Expenses!IdleCall
    OBVIOUS
  <2> QED BY <1>2, <1>3, <1>4, <2>1, SpendGo
<1>5. CASE ~Expenses!Goto(me, Expenses!IdleCall)
  <2>1. PICK b : b = [pc |-> "audit", spread |-> c.spread]
    OBVIOUS
  <2>2. Expenses!Goto(me, b) /\ c.pc = "write" /\ c.left = {} /\ ~c.missed
    BY <1>1, <1>5, <2>1 DEF Expenses!Answer, Expenses!audit, Expenses!At
  <2>3. c \in Writing /\ Spent(c)
    BY <1>1, <2>2 DEF SpendInv, ExpenseCall, Expenses!IdleCall
  <2>4. ExpenseCall(b)
    BY <2>1, <2>3 DEF ExpenseCall, Writing
  <2>5. Spent(b)
    BY <2>1, <2>2, <2>3 DEF Spent
  <2> QED BY <1>2, <2>2, <2>4, <2>5, SpendGo
<1> QED BY <1>4, <1>5

LEMMA SpendInvoices ==
  ASSUME SpendInv, school' = school, NEW c, Expenses!Goto(me, c),
         c = Expenses!IdleCall \/ c.pc \in {"find", "save"}
  PROVE  SpendInv'
<1>1. ExpenseCall(c) /\ Spent(c)
  BY DEF ExpenseCall, Spent, Expenses!IdleCall
<1> QED BY <1>1, SpendGo

\* Schools come and go beside the request.
LEMMA SpendSchools ==
  ASSUME ExpenseFacts, SpendInv, NEW s \in Schools, Expenses!Register(s) \/ Expenses!Delete(s)
  PROVE  SpendInv'
<1>1. PICK c : c = call[me]
  OBVIOUS
<1>2. call' = call /\ ExpenseCall(c) /\ Spent(c)
  BY <1>1 DEF Expenses!Register, Expenses!Delete, SpendInv
<1>3. school \in [Schools -> SchoolLedgers]
  BY DEF SpendInv
<1>4. /\ school' \in [Schools -> SchoolLedgers]
      /\ \A r \in Schools : school[r].state # "unknown" =>
           school'[r].state # "unknown" /\ school'[r].expense = school[r].expense
  <2>1. CASE Expenses!Register(s)
    <3>1. PICK row : row = Expenses!NewSchool
      OBVIOUS
    <3>2. row \in SchoolLedgers
      BY <3>1 DEF SchoolLedgers, Expenses!NewSchool, Expenses!NoLedger
    <3>3. school' = [school EXCEPT ![s] = row] /\ school[s].state = "unknown"
      BY <2>1, <3>1 DEF Expenses!Register
    <3> QED BY <1>3, <3>2, <3>3
  <2>2. CASE Expenses!Delete(s)
    <3>1. PICK row : row = [school[s] EXCEPT !.state = "deleted"]
      OBVIOUS
    <3>2. row \in SchoolLedgers /\ row.state = "deleted" /\ row.expense = school[s].expense
      BY <1>3, <3>1 DEF SchoolLedgers
    <3>3. school' = [school EXCEPT ![s] = row]
      BY <2>2, <3>1 DEF Expenses!Delete
    <3> QED BY <1>3, <3>2, <3>3
  <2> QED BY <2>1, <2>2
<1>5. ASSUME NEW d \in Spread, Split(d)
      PROVE  Split(d)' /\ \A r \in d.over : d.said /\ Has(d, r) => Has(d, r)'
  <2>1. d.over \subseteq Schools
    BY DEF Spread
  <2> QED BY <1>4, <1>5, <2>1 DEF Split, Has, ShareOf
<1>6. Set(c) => Set(c)'
  BY DEF Set, ShareOf
<1>7. Spent(c)'
  <2>1. c.pc \in {"write", "audit"} => c.spread \in Spread
    BY <1>2 DEF ExpenseCall, Writing, Expenses!IdleCall
  <2> QED BY <1>2, <1>5, <1>6, <2>1 DEF Spent
<1>8. Spent(call[me])' /\ ExpenseCall(call[me])'
  BY <1>1, <1>2, <1>7 DEF Spent, Split, Has, ShareOf, ExpenseCall, Set
<1> QED BY <1>2, <1>4, <1>8 DEF SpendInv

LEMMA SpendStep ==
  ASSUME ExpenseFacts, SpendInv, [Expenses!Next]_(Expenses!vars)
  PROVE  SpendInv'
<1>1. CASE UNCHANGED Expenses!vars
  BY <1>1 DEF Expenses!vars, SpendInv, Spent, Split, Has, ShareOf, ExpenseCall, Set
<1>2. CASE Expenses!Ask(me)
  <2>1. CASE \E c \in Categories, given \in 0..drawn : Expenses!generate(me, c, given)
    <3>1. PICK k \in Categories, given \in 0..drawn : Expenses!generate(me, k, given)
      BY <2>1
    <3>2. PICK c : c = [pc |-> "find", category |-> k, given |-> given,
                        totals |-> Expenses!RowTotal(Expenses!lineItems(k))]
      OBVIOUS
    <3>3. Expenses!Goto(me, c) /\ school' = school /\ c.pc = "find"
      BY <3>1, <3>2 DEF Expenses!generate
    <3> QED BY <3>3, SpendInvoices
  <2> QED
    BY <1>2, <2>1, SpendDistribute, SpendTakesBack, SpendDays DEF Expenses!Ask
<1>3. CASE Expenses!findInvoice(me)
  <2>1. school' = school
    BY <1>3 DEF Expenses!findInvoice
  <2>2. PICK i : i = Expenses!IdleCall
    OBVIOUS
  <2>3. CASE Expenses!Goto(me, Expenses!IdleCall)
    BY <2>1, <2>2, <2>3, SpendInvoices
  <2>4. CASE ~Expenses!Goto(me, Expenses!IdleCall)
    <3>1. PICK id, c : c = [pc |-> "save", category |-> call[me].category, id |-> id,
                            totals |-> call[me].totals] /\ Expenses!Goto(me, c)
      BY <1>3, <2>4 DEF Expenses!findInvoice
    <3>2. c.pc = "save"
      BY <3>1
    <3> QED BY <2>1, <3>1, <3>2, SpendInvoices
  <2> QED BY <2>3, <2>4
<1>4. CASE Expenses!saveInvoice(me)
  <2>1. PICK i : i = Expenses!IdleCall
    OBVIOUS
  <2> QED BY <1>4, <2>1, SpendInvoices DEF Expenses!saveInvoice
<1>5. CASE \E c \in Categories : Expenses!remove(c)
  <2>1. school' = school /\ call' = call
    BY <1>5 DEF Expenses!remove
  <2> QED BY <2>1 DEF SpendInv, Spent, Split, Has, ShareOf, ExpenseCall, Set
<1> QED
  BY <1>1, <1>2, <1>3, <1>4, <1>5, SpendWrites, SpendAnswers, SpendSchools
  DEF Expenses!Next, ExpenseFacts

LEMMA SpentAddsUp ==
  ASSUME ExpenseFacts, SpendInv
  PROVE  Expenses!SharesAddUp
<1> SUFFICES ASSUME Expenses!At(me, "audit"), call[me].spread.said,
                    call[me].spread.over \subseteq Expenses!Kept
             PROVE  Expenses!SharesAddUp
  BY DEF ExpenseFacts, Expenses!SharesAddUp
<1>1. PICK d \in Spread : d = call[me].spread /\ d.said /\ Split(d) /\ \A s \in d.over : Has(d, s)
  BY DEF SpendInv, ExpenseCall, Spent, Expenses!At, Expenses!IdleCall, Writing
<1>2. PICK K : K = d.over
  OBVIOUS
<1>3. PICK a \in Nat : a = d.amount
  BY DEF Spread
<1>4. PICK k : k = d.kind
  OBVIOUS
<1>5. IsFiniteSet(K) /\ K \subseteq Schools /\ K \subseteq Int /\ K # {} /\ k \in Kinds
  <2>1. K \subseteq Schools /\ K # {} /\ k \in Kinds
    BY <1>1, <1>2, <1>4 DEF Spread, Split
  <2>2. IsFiniteSet(Schools) /\ Schools \subseteq Int
    BY DEF ExpenseFacts
  <2>3. IsFiniteSet(K)
    BY <2>1, <2>2, FS_Subset
  <2> QED BY <2>1, <2>2, <2>3
<1>6. PICK w : w = [s \in K |-> school[s].expense[k]]
  OBVIOUS
<1>7. w \in [K -> Int] /\ \A s \in K : w[s] = school[s].expense[k]
  BY <1>5, <1>6 DEF SpendInv, SchoolLedgers
<1>8. \A s \in K : w[s] = Expenses!splitAmountEqually(a, Cardinality(K))[Expenses!Place(s, K)]
  BY <1>1, <1>2, <1>3, <1>4, <1>7 DEF Has, ShareOf
<1>9. Total(w, K) = a /\ \A r, s \in K : w[r] <= w[s] + 1
  BY <1>5, <1>7, <1>8, SharesOf
<1>10. Expenses!MapThenSumSet(LAMBDA s : school[s].expense[k], K) = a
  BY <1>5, <1>7, <1>9, SumOfShares
<1>11. \A r, s \in K : school[r].expense[k] <= school[s].expense[k] + 1
  BY <1>7, <1>9
<1>12. me \in Handlers /\ Handlers = {me}
  BY DEF ExpenseFacts
<1>13. k = call[me].spread.kind /\ K = call[me].spread.over /\ a = call[me].spread.amount
  BY <1>1, <1>2, <1>3, <1>4
<1> QED BY <1>10, <1>11, <1>12, <1>13, SMTT(60) DEF Expenses!SharesAddUp, Expenses!At, Expenses!Kept

Most == 31 * Cardinality(Schools)
Billing(c) ==
  /\ c.pc = "find" => c.category \in Categories /\ c.given \in 0..drawn /\ c.totals \in 0..Most
  /\ c.pc = "save" => c.category \in Categories /\ c.id \in 1..drawn /\ c.totals \in 0..Most
BillInv ==
  /\ drawn \in 0..MaxInvoices
  /\ invoice \in [Categories -> [id: Nat, totals: Nat]]
  /\ \A k \in Categories : invoice[k] # Expenses!NoInvoice =>
       invoice[k].id \in 1..drawn /\ invoice[k].totals \in 0..Most
  /\ me \in DOMAIN call /\ Billing(call[me])

LEMMA SumOfRows ==
  ASSUME NEW S, IsFiniteSet(S), NEW w \in [S -> Int]
  PROVE  Expenses!MapThenSumSet(LAMBDA s : w[s], S) = Total(w, S)
<1> DEFINE F(g) == g = [s \in SUBSET S |-> IF s = {} THEN 0 ELSE w[OneOf(s)] + g[s \ {OneOf(s)}]]
           c == CHOOSE g : F(g)
<1>1. PICK g : Totals(g, w, S) BY TotalsExist
<1>2. F(c) /\ \A f : F(f) <=> Totals(f, w, S)
  <2>1. \A f : F(f) <=> Totals(f, w, S)
    BY DEF Totals
  <2> HIDE DEF F
  <2> QED BY <1>1, <2>1
<1>3. Expenses!MapThenSumSet(LAMBDA s : w[s], S) = c[S]
  BY DEF Expenses!MapThenSumSet, Expenses!MapThenFoldSet, OneOf
<1> HIDE DEF F, c
<1> QED BY <1>2, <1>3, TotalIs

\* A month has at most 31 cleanings at each school of the block.
LEMMA RowsAddUp ==
  ASSUME ExpenseFacts, SpendInv, NEW k, NEW t, t = Expenses!RowTotal(Expenses!lineItems(k))
  PROVE  t \in 0..Most
<1>1. PICK X : X = Expenses!filterByCategory(Expenses!Kept, k)
  OBVIOUS
<1>2. PICK w : w = Expenses!lineItems(k)
  OBVIOUS
<1>3. X \subseteq Expenses!Kept
  BY <1>1 DEF Expenses!filterByCategory
<1>4. X \subseteq Schools /\ \A s \in X : school[s].days \in {0, 24, 31}
  BY <1>3 DEF Expenses!Kept, SpendInv, SchoolLedgers
<1>5. w \in [X -> Nat] /\ w \in [X -> Int] /\ DOMAIN w = X /\ \A s \in X : w[s] <= 31
  <2>1. w = [s \in X |-> IF school[s].days > 0 THEN school[s].days ELSE 24]
    BY <1>1, <1>2 DEF Expenses!lineItems
  <2>2. \A s \in X : w[s] \in {24, 31}
    BY <1>4, <2>1
  <2> QED BY <2>1, <2>2
<1>6. IsFiniteSet(X) /\ Cardinality(X) <= Cardinality(Schools) /\ Cardinality(X) \in Nat
      /\ Cardinality(Schools) \in Nat
  <2>1. IsFiniteSet(Schools)
    BY DEF ExpenseFacts
  <2> QED BY <1>4, <2>1, FS_Subset, FS_CardinalityType
<1>7. PICK v : v = [s \in X |-> 31]
  OBVIOUS
<1>8. v \in [X -> Int] /\ \A s \in X : w[s] <= v[s]
  BY <1>5, <1>7
<1>9. Total(v, X) = Cardinality(X) * 31 + 0
  <2>1. PICK none : none = {}
    OBVIOUS
  <2>2. TwoSized(v, X, 31, none)
    BY <1>7, <1>8, <2>1 DEF TwoSized
  <2>3. Cardinality(none) = 0
    BY <2>1, FS_EmptySet
  <2> QED BY <1>6, <2>2, <2>3, TwoSizes
<1>10. Total(w, X) <= Total(v, X)
  BY <1>5, <1>6, <1>8, TotalGrows
<1>11. Total(w, X) \in Nat
  BY <1>5, <1>6, TotalIsNat
<1>12. t = Total(w, X)
  BY <1>2, <1>5, <1>6, SumOfRows DEF Expenses!RowTotal
<1> QED BY <1>6, <1>9, <1>10, <1>11, <1>12 DEF Most

LEMMA BillStarts == ASSUME ExpenseFacts, Expenses!Init PROVE BillInv
BY DEF Expenses!Init, ExpenseFacts, BillInv, Billing, Expenses!NoInvoice, Expenses!IdleCall

\* A step that leaves the invoices alone.
LEMMA BillGo ==
  ASSUME BillInv, UNCHANGED <<invoice, drawn>>, NEW c, Expenses!Goto(me, c), Billing(c)
  PROVE  BillInv'
<1>1. me \in DOMAIN call' /\ call'[me] = c
  BY DEF BillInv, Expenses!Goto
<1> QED BY <1>1 DEF BillInv, Billing

LEMMA BillStep ==
  ASSUME ExpenseFacts, SpendInv, BillInv, [Expenses!Next]_(Expenses!vars)
  PROVE  BillInv'
<1>1. CASE call' = call /\ UNCHANGED <<invoice, drawn>>
  BY <1>1 DEF BillInv, Billing
<1>2. ASSUME NEW c, Expenses!Goto(me, c), UNCHANGED <<invoice, drawn>>, c.pc \notin {"find", "save"}
      PROVE  BillInv'
  BY <1>2, BillGo DEF Billing
<1>3. CASE \E k \in Kinds, a \in Amounts, remark \in BOOLEAN :
             Expenses!distributeBlockExpense(me, k, a, remark)
  <2>1. PICK k \in Kinds, a \in Amounts, remark \in BOOLEAN :
          Expenses!distributeBlockExpense(me, k, a, remark)
    BY <1>3
  <2>2. \E c : Expenses!Goto(me, c) /\ c.pc = "write"
    BY <2>1 DEF Expenses!distributeBlockExpense
  <2>3. UNCHANGED <<invoice, drawn>>
    BY <2>1 DEF Expenses!distributeBlockExpense
  <2> QED BY <1>2, <2>2, <2>3
<1>4. CASE \E k \in Kinds : Expenses!deleteBlockExpense(me, k)
  <2>1. UNCHANGED <<invoice, drawn>> /\ \E c : Expenses!Goto(me, c) /\ c.pc = "write"
    BY <1>4 DEF Expenses!deleteBlockExpense
  <2> QED BY <1>2, <2>1
<1>5. CASE \E named \in SUBSET Schools, days \in {0, 40} :
             Expenses!bulkUpdateWorkdays(me, named, days, 0)
  <2>1. UNCHANGED <<invoice, drawn>> /\ \E c : Expenses!Goto(me, c) /\ c.pc = "write"
    BY <1>5 DEF Expenses!bulkUpdateWorkdays
  <2> QED BY <1>2, <2>1
<1>6. CASE \E c \in Categories, given \in 0..drawn : Expenses!generate(me, c, given)
  <2>1. PICK k \in Categories, given \in 0..drawn : Expenses!generate(me, k, given)
    BY <1>6
  <2>2. PICK t \in 0..Most : t = Expenses!RowTotal(Expenses!lineItems(k))
    BY RowsAddUp
  <2>3. PICK c : c = [pc |-> "find", category |-> k, given |-> given, totals |-> t]
    OBVIOUS
  <2>4. Expenses!Goto(me, c) /\ UNCHANGED <<invoice, drawn>>
    BY <2>1, <2>2, <2>3 DEF Expenses!generate
  <2>5. Billing(c)
    BY <2>3 DEF Billing
  <2> QED BY <2>4, <2>5, BillGo
<1>7. CASE Expenses!bulkSetSchoolFields(me)
  <2>1. PICK c : c = call[me]
    OBVIOUS
  <2>2. c \in Writing
    BY <1>7, <2>1 DEF Expenses!bulkSetSchoolFields, Expenses!At, SpendInv, ExpenseCall,
                      Expenses!IdleCall
  <2>3. PICK b : /\ Expenses!Goto(me, b)
                 /\ b = [c EXCEPT !.left = @ \ {Expenses!Min(c.left)},
                                  !.missed = @ \/ Expenses!Min(c.left) \notin Expenses!Kept]
    BY <1>7, <2>1 DEF Expenses!bulkSetSchoolFields
  <2>4. b.pc = "write" /\ UNCHANGED <<invoice, drawn>>
    BY <1>7, <2>2, <2>3 DEF Writing, Expenses!bulkSetSchoolFields
  <2> QED BY <1>2, <2>3, <2>4
<1>8. CASE Expenses!Answer(me) \/ Expenses!audit(me)
  <2>1. UNCHANGED <<invoice, drawn>> /\ \E c : Expenses!Goto(me, c) /\ c.pc \in {"idle", "audit"}
    BY <1>8 DEF Expenses!Answer, Expenses!audit, Expenses!IdleCall
  <2> QED BY <1>2, <2>1
<1>9. CASE Expenses!findInvoice(me)
  <2>1. PICK c : c = call[me]
    OBVIOUS
  <2>2. c.category \in Categories /\ c.given \in 0..drawn /\ c.totals \in 0..Most
    BY <1>9, <2>1 DEF Expenses!findInvoice, Expenses!At, BillInv, Billing
  <2>3. PICK id : id = IF c.given # 0 THEN c.given ELSE drawn + 1
    OBVIOUS
  <2>4. CASE Expenses!Goto(me, Expenses!IdleCall) /\ drawn' = drawn
    <3>1. \E i : Expenses!Goto(me, i) /\ i.pc = "idle"
      BY <2>4 DEF Expenses!IdleCall
    <3>2. UNCHANGED <<invoice, drawn>>
      BY <1>9, <2>4 DEF Expenses!findInvoice
    <3> QED BY <1>2, <3>1, <3>2
  <2>5. CASE ~(Expenses!Goto(me, Expenses!IdleCall) /\ drawn' = drawn)
    <3>1. PICK b : b = [pc |-> "save", category |-> c.category, id |-> id, totals |-> c.totals]
      OBVIOUS
    <3>2. /\ id <= MaxInvoices /\ Expenses!Goto(me, b) /\ invoice' = invoice
          /\ drawn' = IF id > drawn THEN id ELSE drawn
      BY <1>9, <2>1, <2>3, <2>5, <3>1 DEF Expenses!findInvoice
    <3>3. /\ drawn \in 0..MaxInvoices /\ drawn' \in 0..MaxInvoices /\ drawn <= drawn'
          /\ id \in 1..drawn'
      BY <2>2, <2>3, <3>2 DEF BillInv, ExpenseFacts
    <3>4. me \in DOMAIN call' /\ call'[me] = b
      BY <3>2 DEF BillInv, Expenses!Goto
    <3>5. Billing(call[me])'
      BY <2>2, <3>1, <3>3, <3>4 DEF Billing
    <3>6. \A k \in Categories : invoice[k] # Expenses!NoInvoice =>
            invoice[k].id \in 1..drawn' /\ invoice[k].totals \in 0..Most
      BY <3>3 DEF BillInv, ExpenseFacts
    <3> QED BY <3>2, <3>3, <3>4, <3>5, <3>6 DEF BillInv
  <2> QED BY <2>4, <2>5
<1>10. CASE Expenses!saveInvoice(me)
  <2>1. PICK c : c = call[me]
    OBVIOUS
  <2>2. c.category \in Categories /\ c.id \in 1..drawn /\ c.totals \in 0..Most
    BY <1>10, <2>1 DEF Expenses!saveInvoice, Expenses!At, BillInv, Billing
  <2>3. PICK row : row = [id |-> c.id, totals |-> c.totals]
    OBVIOUS
  <2>4. /\ invoice' \in {invoice, [invoice EXCEPT ![c.category] = row]}
        /\ drawn' = drawn
    BY <1>10, <2>1, <2>3 DEF Expenses!saveInvoice
  <2>5. row \in [id: Nat, totals: Nat] /\ row.id \in 1..drawn /\ row.totals \in 0..Most
    <3>1. drawn \in Nat /\ Most \in Nat
      BY FS_CardinalityType DEF BillInv, ExpenseFacts, Most
    <3> QED BY <2>2, <2>3, <3>1
  <2>6. /\ invoice' \in [Categories -> [id: Nat, totals: Nat]]
        /\ \A k \in Categories : invoice'[k] # Expenses!NoInvoice =>
             invoice'[k].id \in 1..drawn /\ invoice'[k].totals \in 0..Most
    BY <2>2, <2>4, <2>5 DEF BillInv
  <2>7. me \in DOMAIN call' /\ call'[me] = Expenses!IdleCall
    BY <1>10 DEF Expenses!saveInvoice, Expenses!Goto, BillInv
  <2> QED BY <2>4, <2>6, <2>7 DEF BillInv, Billing, Expenses!IdleCall
<1>11. CASE \E k \in Categories : Expenses!remove(k)
  <2>1. PICK k \in Categories :
          invoice' = [invoice EXCEPT ![k] = Expenses!NoInvoice] /\ drawn' = drawn /\ call' = call
    BY <1>11 DEF Expenses!remove
  <2>2. PICK row : row = Expenses!NoInvoice
    OBVIOUS
  <2>3. row \in [id: Nat, totals: Nat]
    BY <2>2 DEF Expenses!NoInvoice
  <2>4. /\ invoice' \in [Categories -> [id: Nat, totals: Nat]]
        /\ \A j \in Categories : invoice'[j] # row =>
             invoice'[j].id \in 1..drawn /\ invoice'[j].totals \in 0..Most
    BY <2>1, <2>2, <2>3 DEF BillInv
  <2> QED BY <2>1, <2>2, <2>4 DEF BillInv, Billing
<1>12. CASE UNCHANGED Expenses!vars
  BY <1>1, <1>12 DEF Expenses!vars
<1>13. CASE \E s \in Schools : Expenses!Register(s) \/ Expenses!Delete(s)
  BY <1>1, <1>13 DEF Expenses!Register, Expenses!Delete
<1>14. CASE Expenses!Ask(me)
  BY <1>3, <1>4, <1>5, <1>6, <1>14 DEF Expenses!Ask
<1> QED
  BY <1>7, <1>8, <1>9, <1>10, <1>11, <1>12, <1>13, <1>14 DEF Expenses!Next, ExpenseFacts

\* One request at a time, schools registered and deleted beside it: when
\* distributeBlockExpense answers success, what the schools it was split over now
\* carry adds up to the amount, and no two of them differ by more than one, for
\* every amount and every number of schools; and an invoice never comes to more
\* than 31 days a school.
THEOREM SharesAddUpAlways ==
  ASSUME ExpenseFacts
  PROVE  Expenses!Spec => [](Expenses!TypeOK /\ Expenses!SharesAddUp)
<1>1. Expenses!Init => SpendInv /\ BillInv
  BY SpendStarts, BillStarts
<1>2. (SpendInv /\ BillInv) /\ [Expenses!Next]_(Expenses!vars) => (SpendInv /\ BillInv)'
  BY SpendStep, BillStep
<1>3. SpendInv /\ BillInv => Expenses!TypeOK /\ Expenses!SharesAddUp
  <2> SUFFICES ASSUME SpendInv, BillInv PROVE Expenses!TypeOK /\ Expenses!SharesAddUp
    OBVIOUS
  <2>1. Expenses!Cardinality(Schools) = Cardinality(Schools)
    BY ExpensesCount
  <2>2. Expenses!TypeOK
    BY <2>1 DEF SpendInv, BillInv, Expenses!TypeOK, SchoolLedgers, Most
  <2> QED BY <2>2, SpentAddsUp
<1> QED BY <1>1, <1>2, <1>3, PTL DEF Expenses!Spec

==============================================================================
