----------------------- MODULE SupervisorRequestsProofs -----------------------
(***************************************************************************)
(* Proofs about SupervisorRequests for any number of requests, days and    *)
(* replies: its types, whatever calls interleave; that calls served one at *)
(* a time implement RequestTicket, wherever the process dies; and that     *)
(* what expires was announced, while the process lives. Then about the     *)
(* office's registers, each an instance under a name of its own that keeps *)
(* its Init, Next and Spec (no theorem speaks of two of them, and call,    *)
(* Handlers, ... serve each in its turn): contracts and their guarantees   *)
(* (Contracts), the register of renewals (Renewals), the documents of      *)
(* renewals, guarantees and employees (StoredDocuments) and the tenders a  *)
(* firm bids for (Tenders).                                                *)
(***************************************************************************)
EXTENDS SupervisorRequests, FiniteSets, TLAPS

CONSTANTS
  me,                                     \* the one request at a time, where one is assumed
  Contracts, Records, ContractNos, Numbers, Amounts,       \* of Contracts
  Ids, Items,                             \* of Renewals
  Owners, Docs, MaxFiles, RowFirst,       \* of StoredDocuments
  Old, Bids, Asked, Stages, Outcomes      \* of Tenders, with Ids
VARIABLES contract, record, apart, renewal, byHand,
          owner, doc, cloud, sent, cut,
          tender, logged, backfill, backfillDone

Deals == INSTANCE Contracts
Sheets == INSTANCE Renewals
Papers == INSTANCE StoredDocuments
Bidding == INSTANCE Tenders

OpenStatus == {"pending", "responded"}

\* How the copy a call saves relates to the request it read.
Fits(op, d, e) ==
  \/ /\ op = "respond" /\ d.status \in OpenStatus
     /\ \E s \in {"responded", "closed"} : e = Answered(d, s)
  \/ /\ op = "reply" /\ d.status \in OpenStatus
     /\ e = [d EXCEPT !.followUps = @ + 1, !.status = "pending"]
  \/ /\ op = "close" /\ d.status \in OpenStatus
     /\ \/ e = [d EXCEPT !.status = "closed"]
        \/ e = [d EXCEPT !.status = "closed", !.answered = TRUE, !.age = 0]
  \/ /\ op = "escalate" /\ d.status = "closed"
     /\ e = [d EXCEPT !.status = "escalated"]
  \/ /\ op = "resolve" /\ d.status = "escalated"
     /\ \E s \in {"responded", "closed"} : e = Answered(d, s)
  \/ op = "markRead" /\ d.status # "none" /\ e = [d EXCEPT !.read = TRUE]

CopiesFit ==
  \A h \in Handlers : At(h, "save") => Fits(call[h].op, call[h].seen, call[h].doc)

\* One call at a time: what a call remembers is what is stored.
CopiesCurrent ==
  \A h \in Handlers :
    /\ At(h, "save") => call[h].seen = request[call[h].r]
    /\ call[h].pc \in {"sweep", "sweepNotify"} => \A r \in call[h].todo : IsStale(r)

LEMMA CallShape ==
  ASSUME NEW c \in Call
  PROVE  /\ c.pc \in {"idle", "save", "notify", "sweep", "sweepNotify"}
         /\ c.pc = "save" => c.op \in Op /\ c.r \in Requests
                             /\ c.seen \in Request /\ c.doc \in Request
         /\ c.pc = "notify" => c.op \in Op \cup {"create"} /\ c.r \in Requests
         /\ c.pc = "sweep" => c.todo \subseteq Requests
         /\ c.pc = "sweepNotify" => c.r \in Requests /\ c.todo \subseteq Requests
BY DEF Call, IdleCall

LEMMA RequestShape ==
  ASSUME NEW q \in Request
  PROVE  /\ q.status \in Status /\ q.answered \in BOOLEAN /\ q.age \in 0..AckDays
         /\ q.read \in BOOLEAN /\ q.followUps \in Nat
         /\ DOMAIN q = {"status", "answered", "age", "read", "followUps"}
         /\ q = [status |-> q.status, answered |-> q.answered, age |-> q.age,
                 read |-> q.read, followUps |-> q.followUps]
BY DEF Request

LEMMA Assemble ==
  ASSUME NEW st \in Status, NEW an \in BOOLEAN, NEW ag \in 0..AckDays,
         NEW rd \in BOOLEAN, NEW n \in Nat
  PROVE  [status |-> st, answered |-> an, age |-> ag, read |-> rd, followUps |-> n]
           \in Request
BY DEF Request

\* The copy a call saves is a request that has at least the follow-ups it read.
LEMMA FitsGrows ==
  ASSUME NEW op, NEW d \in Request, NEW e, Fits(op, d, e)
  PROVE  e \in Request /\ e.followUps - d.followUps \in Nat
<1>1. 0 \in 0..AckDays
  BY AckDaysAssumption
<1>a. d = [status |-> d.status, answered |-> d.answered, age |-> d.age,
           read |-> d.read, followUps |-> d.followUps]
      /\ d.status \in Status /\ d.answered \in BOOLEAN /\ d.age \in 0..AckDays
      /\ d.read \in BOOLEAN /\ d.followUps \in Nat
  BY RequestShape
<1>2. CASE \E s \in {"responded", "closed"} : e = Answered(d, s)
  <2>1. PICK s \in {"responded", "closed"} : e = Answered(d, s)
    BY <1>2
  <2>2. e = [status |-> s, answered |-> TRUE, age |-> 0, read |-> FALSE,
              followUps |-> d.followUps]
    BY <1>a, <2>1 DEF Answered
  <2>3. s \in Status
    BY DEF Status
  <2>4. e \in Request
    BY <1>1, <1>a, <2>2, <2>3, Assemble
  <2>5. e.followUps = d.followUps
    BY <2>2
  <2> QED BY <1>a, <2>4, <2>5
<1>3. CASE e = [d EXCEPT !.followUps = @ + 1, !.status = "pending"]
  <2>1. e = [status |-> "pending", answered |-> d.answered, age |-> d.age, read |-> d.read,
              followUps |-> d.followUps + 1]
    BY <1>a, <1>3
  <2>2. {"pending", "closed", "escalated"} \subseteq Status
    BY DEF Status
  <2>3. e \in Request
    BY <1>1, <1>a, <2>1, <2>2, Assemble
  <2>4. e.followUps \in {d.followUps, d.followUps + 1}
    BY <2>1
  <2> QED BY <1>a, <2>3, <2>4
<1>4. CASE e = [d EXCEPT !.status = "closed"]
  <2>1. e = [status |-> "closed", answered |-> d.answered, age |-> d.age, read |-> d.read,
              followUps |-> d.followUps]
    BY <1>a, <1>4
  <2>2. {"pending", "closed", "escalated"} \subseteq Status
    BY DEF Status
  <2>3. e \in Request
    BY <1>1, <1>a, <2>1, <2>2, Assemble
  <2>4. e.followUps \in {d.followUps, d.followUps + 1}
    BY <2>1
  <2> QED BY <1>a, <2>3, <2>4
<1>5. CASE e = [d EXCEPT !.status = "closed", !.answered = TRUE, !.age = 0]
  <2>1. e = [status |-> "closed", answered |-> TRUE, age |-> 0, read |-> d.read,
              followUps |-> d.followUps]
    BY <1>a, <1>5
  <2>2. {"pending", "closed", "escalated"} \subseteq Status
    BY DEF Status
  <2>3. e \in Request
    BY <1>1, <1>a, <2>1, <2>2, Assemble
  <2>4. e.followUps \in {d.followUps, d.followUps + 1}
    BY <2>1
  <2> QED BY <1>a, <2>3, <2>4
<1>6. CASE e = [d EXCEPT !.status = "escalated"]
  <2>1. e = [status |-> "escalated", answered |-> d.answered, age |-> d.age, read |-> d.read,
              followUps |-> d.followUps]
    BY <1>a, <1>6
  <2>2. {"pending", "closed", "escalated"} \subseteq Status
    BY DEF Status
  <2>3. e \in Request
    BY <1>1, <1>a, <2>1, <2>2, Assemble
  <2>4. e.followUps \in {d.followUps, d.followUps + 1}
    BY <2>1
  <2> QED BY <1>a, <2>3, <2>4
<1>7. CASE e = [d EXCEPT !.read = TRUE]
  <2>1. e = [status |-> d.status, answered |-> d.answered, age |-> d.age, read |-> TRUE,
              followUps |-> d.followUps]
    BY <1>a, <1>7
  <2>2. {"pending", "closed", "escalated"} \subseteq Status
    BY DEF Status
  <2>3. e \in Request
    BY <1>1, <1>a, <2>1, <2>2, Assemble
  <2>4. e.followUps \in {d.followUps, d.followUps + 1}
    BY <2>1
  <2> QED BY <1>a, <2>3, <2>4
<1> QED BY <1>2, <1>3, <1>4, <1>5, <1>6, <1>7 DEF Fits

\* save() leaves a request, whatever was stored in between.
LEMMA StoreRequest ==
  ASSUME NEW s \in Request, NEW d \in Request, NEW e \in Request,
         e.followUps - d.followUps \in Nat
  PROVE  Store(s, d, e) \in Request
<1> DEFINE w == Saved(s, d, e)
<1>1. w \in Request
  <2>1. DOMAIN s = {"status", "answered", "age", "read", "followUps"}
    BY RequestShape
  <2>2. w = [f \in {"status", "answered", "age", "read", "followUps"} |->
               IF e[f] = d[f] THEN s[f] ELSE e[f]]
    BY <2>1 DEF Saved
  <2>3. w = [status |-> w.status, answered |-> w.answered, age |-> w.age,
             read |-> w.read, followUps |-> w.followUps]
    BY <2>2
  <2>4. /\ w.status \in Status /\ w.answered \in BOOLEAN /\ w.age \in 0..AckDays
        /\ w.read \in BOOLEAN /\ w.followUps \in Nat
    BY <2>2, RequestShape
  <2> HIDE DEF w
  <2> QED BY <2>3, <2>4 DEF Request
<1>2. s.followUps + (e.followUps - d.followUps) \in Nat
  BY RequestShape
<1>3. Store(s, d, e) = [w EXCEPT !.followUps = s.followUps + (e.followUps - d.followUps)]
  BY DEF Store
<1> HIDE DEF w
<1> QED BY <1>1, <1>2, <1>3 DEF Request

\* When nothing was stored in between, save() stores the handler's copy.
LEMMA StoreCurrent ==
  ASSUME NEW d \in Request, NEW e \in Request
  PROVE  Store(d, d, e) = e
<1> DEFINE w == Saved(d, d, e)
<1>1. DOMAIN d = {"status", "answered", "age", "read", "followUps"}
  BY RequestShape
<1>2. w = [f \in {"status", "answered", "age", "read", "followUps"} |-> e[f]]
  BY <1>1 DEF Saved
<1>3. w = e
  BY <1>2, RequestShape
<1>4. d.followUps + (e.followUps - d.followUps) = e.followUps
  BY RequestShape
<1>5. Store(d, d, e) = [w EXCEPT !.followUps = e.followUps]
  BY <1>4 DEF Store
<1> HIDE DEF w
<1> QED BY <1>3, <1>5, RequestShape

-----------------------------------------------------------------------------
(* Types, whatever calls interleave.                                       *)

TypeInv == TypeOK /\ CopiesFit

\* A step that moves handler h to the await c, where c's copy fits.
LEMMA GotoTypeInv ==
  ASSUME TypeInv, NEW h \in Handlers, NEW c \in Call, Goto(h, c),
         c.pc = "save" => Fits(c.op, c.seen, c.doc)
  PROVE  call' \in [Handlers -> Call] /\ CopiesFit'
<1>1. call \in [Handlers -> Call] /\ CopiesFit
  BY DEF TypeInv, TypeOK
<1>2. call' \in [Handlers -> Call]
  BY <1>1 DEF Goto
<1>3. ASSUME NEW g \in Handlers PROVE call'[g] = IF g = h THEN c ELSE call[g]
  BY <1>1 DEF Goto
<1> QED BY <1>1, <1>2, <1>3 DEF CopiesFit, At

LEMMA BeginTypeInv ==
  ASSUME TypeInv, NEW h \in Handlers, NEW op \in Op, NEW r \in Requests, NEW new,
         Begin(h, op, r, new), Fits(op, request[r], new)
  PROVE  TypeInv'
<1> DEFINE c == [pc |-> "save", op |-> op, r |-> r, seen |-> request[r], doc |-> new]
<1>1. request[r] \in Request
  BY DEF TypeInv, TypeOK
<1>2. new \in Request
  BY <1>1, FitsGrows
<1>3. c \in Call
  BY <1>1, <1>2 DEF Call
<1>4. Goto(h, c) /\ UNCHANGED <<request, told, crashes>>
  BY DEF Begin
<1>5. call' \in [Handlers -> Call] /\ CopiesFit'
  BY <1>3, <1>4, GotoTypeInv
<1> QED BY <1>4, <1>5 DEF TypeInv, TypeOK

\* A step that only moves handler h to an await other than a save.
LEMMA MoveTypeInv ==
  ASSUME TypeInv, NEW h \in Handlers, NEW c \in Call, Goto(h, c), c.pc # "save",
         request' \in [Requests -> Request], told' \in [Requests -> BOOLEAN],
         crashes' \in Nat
  PROVE  TypeInv'
BY GotoTypeInv DEF TypeInv, TypeOK

LEMMA InitTypeInv == Init => TypeInv
<1> SUFFICES ASSUME Init PROVE TypeInv
  OBVIOUS
<1>1. NoRequest \in Request
  BY AckDaysAssumption DEF NoRequest, Request, Status
<1>2. TypeOK
  BY <1>1 DEF Init, TypeOK, Call, IdleCall
<1>3. CopiesFit
  BY DEF Init, CopiesFit, At, IdleCall
<1> QED BY <1>2, <1>3 DEF TypeInv

LEMMA NewIsRequest == NewRequest \in Request
BY AckDaysAssumption DEF NewRequest, Request, Status

\* The requests after the calls that change them without reading them first.
LEMMA SetTypes ==
  ASSUME TypeOK, NEW r \in Requests
  PROVE  /\ [request[r] EXCEPT !.status = "closed"] \in Request
         /\ [request[r] EXCEPT !.read = TRUE] \in Request
         /\ [request[r] EXCEPT !.age =
               IF request[r].status = "none" \/ @ = AckDays THEN @ ELSE @ + 1] \in Request
<1> DEFINE q == request[r]
<1>1. q \in Request
  BY DEF TypeOK
<1>2. /\ q = [status |-> q.status, answered |-> q.answered, age |-> q.age,
              read |-> q.read, followUps |-> q.followUps]
      /\ q.status \in Status /\ q.answered \in BOOLEAN /\ q.age \in 0..AckDays
      /\ q.read \in BOOLEAN /\ q.followUps \in Nat
  BY <1>1, RequestShape
<1> HIDE DEF q
<1> DEFINE a == IF q.status = "none" \/ q.age = AckDays THEN q.age ELSE q.age + 1
<1>3. a \in 0..AckDays
  BY <1>2, AckDaysAssumption
<1>4. "closed" \in Status /\ TRUE \in BOOLEAN
  BY DEF Status
<1>6. [q EXCEPT !.status = "closed"] \in Request
  BY <1>1, <1>4 DEF Request
<1>7. [q EXCEPT !.read = TRUE] \in Request
  BY <1>1, <1>4 DEF Request
<1> HIDE DEF a
<1>8. [q EXCEPT !.age = a] \in Request
  BY <1>1, <1>3 DEF Request
<1> QED BY <1>6, <1>7, <1>8 DEF q, a

LEMMA StepTypeInv == TypeInv /\ [Next]_vars => TypeInv'
<1> SUFFICES ASSUME TypeInv, [Next]_vars PROVE TypeInv'
  OBVIOUS
<1>a. /\ TypeOK /\ request \in [Requests -> Request] /\ told \in [Requests -> BOOLEAN]
      /\ call \in [Handlers -> Call] /\ crashes \in Nat
  BY DEF TypeInv, TypeOK
<1>b. IdleCall \in Call /\ IdleCall.pc = "idle"
  BY DEF Call, IdleCall
<1>1. ASSUME NEW h \in Handlers, NEW r \in Requests, Create(h, r) PROVE TypeInv'
  <2> DEFINE c == [pc |-> "notify", op |-> "create", r |-> r]
  <2>1. c \in Call /\ c.pc # "save" /\ Goto(h, c)
    BY <1>1 DEF Create, Call
  <2>2. request' = [request EXCEPT ![r] = NewRequest]
        /\ UNCHANGED <<told, crashes>>
    BY <1>1 DEF Create
  <2>3. request' \in [Requests -> Request]
    BY <1>a, <2>2, NewIsRequest
  <2> HIDE DEF c
  <2> QED BY <1>a, <2>1, <2>2, <2>3, MoveTypeInv
<1>2. ASSUME NEW h \in Handlers, NEW r \in Requests, Respond(h, r) PROVE TypeInv'
  BY <1>2, BeginTypeInv DEF Respond, Fits, OpenStatus, Op
<1>3. ASSUME NEW h \in Handlers, NEW r \in Requests, Reply(h, r) PROVE TypeInv'
  BY <1>3, BeginTypeInv DEF Reply, Fits, OpenStatus, Op
<1>4. ASSUME NEW h \in Handlers, NEW r \in Requests, Close(h, r) PROVE TypeInv'
  BY <1>4, BeginTypeInv DEF Close, Fits, OpenStatus, Op
<1>5. ASSUME NEW h \in Handlers, NEW r \in Requests, Escalate(h, r) PROVE TypeInv'
  BY <1>5, BeginTypeInv DEF Escalate, Fits, Op
<1>6. ASSUME NEW h \in Handlers, NEW r \in Requests, ResolveEscalation(h, r) PROVE TypeInv'
  BY <1>6, BeginTypeInv DEF ResolveEscalation, Fits, Op
<1>7. ASSUME NEW h \in Handlers, NEW r \in Requests, MarkRead(h, r) PROVE TypeInv'
  BY <1>7, BeginTypeInv DEF MarkRead, Fits, Op
<1>8. ASSUME NEW h \in Handlers, Save(h) PROVE TypeInv'
  <2> DEFINE c == call[h]
             n == IF c.op = "markRead" THEN IdleCall
                  ELSE [pc |-> "notify", op |-> c.op, r |-> c.r]
  <2>1. /\ c.op \in Op /\ c.r \in Requests /\ c.seen \in Request /\ c.doc \in Request
        /\ Fits(c.op, c.seen, c.doc)
    BY <1>a, <1>8, CallShape DEF Save, At, TypeInv, CopiesFit
  <2>2. c.doc.followUps - c.seen.followUps \in Nat
    BY <2>1, FitsGrows
  <2>3. /\ request' = [request EXCEPT ![c.r] = Store(@, c.seen, c.doc)]
        /\ told' = [told EXCEPT ![c.r] = IF c.op \in {"respond", "resolve"} THEN FALSE ELSE @]
        /\ Goto(h, n) /\ crashes' = crashes
    BY <1>8 DEF Save
  <2>4. request[c.r] \in Request
    BY <1>a, <2>1
  <2>5. Store(request[c.r], c.seen, c.doc) \in Request
    BY <2>1, <2>2, <2>4, StoreRequest
  <2>6. n \in Call /\ n.pc # "save"
    BY <1>b, <2>1 DEF Call
  <2> HIDE DEF c, n
  <2>7. request' \in [Requests -> Request]
    BY <1>a, <2>3, <2>5
  <2>8. told' \in [Requests -> BOOLEAN]
    <3>1. CASE c.op \in {"respond", "resolve"}
      <4>1. told' = [told EXCEPT ![c.r] = FALSE]
        BY <2>3, <3>1
      <4> QED BY <1>a, <4>1
    <3>2. CASE c.op \notin {"respond", "resolve"}
      <4>1. told' = [told EXCEPT ![c.r] = told[c.r]]
        BY <2>3, <3>2
      <4> QED BY <1>a, <4>1
    <3> QED BY <3>1, <3>2
  <2> QED BY <1>a, <2>3, <2>6, <2>7, <2>8, MoveTypeInv
<1>9. ASSUME NEW h \in Handlers, Notify(h) PROVE TypeInv'
  <2>1. told' \in [Requests -> BOOLEAN] /\ Goto(h, IdleCall)
        /\ UNCHANGED <<request, crashes>>
    BY <1>a, <1>9 DEF Notify
  <2> QED BY <1>a, <1>b, <2>1, MoveTypeInv
<1>10. ASSUME NEW h \in Handlers, MarkAllRead(h) PROVE TypeInv'
  <2>1. request' \in [Requests -> Request] /\ UNCHANGED <<told, call, crashes>>
    BY <1>a, <1>10, SetTypes DEF MarkAllRead
  <2> QED BY <1>a, <2>1 DEF TypeInv, TypeOK, CopiesFit, At
<1>11. ASSUME NEW h \in Handlers, FindAll(h) PROVE TypeInv'
  <2> DEFINE c == [pc |-> "sweep", todo |-> {r \in Requests : IsStale(r)}]
  <2>1. c \in Call /\ c.pc # "save" /\ Goto(h, c) /\ UNCHANGED <<request, told, crashes>>
    BY <1>11 DEF FindAll, Call
  <2> HIDE DEF c
  <2> QED BY <1>a, <2>1, MoveTypeInv
<1>12. ASSUME NEW h \in Handlers, CloseStale(h) PROVE TypeInv'
  <2>1. call[h].todo \subseteq Requests
    BY <1>a, <1>12, CallShape DEF CloseStale, At
  <2>2. PICK r \in call[h].todo :
          /\ request' = [request EXCEPT ![r].status = "closed"]
          /\ Goto(h, [pc |-> "sweepNotify", r |-> r, todo |-> call[h].todo \ {r}])
    BY <1>12 DEF CloseStale
  <2> DEFINE c == [pc |-> "sweepNotify", r |-> r, todo |-> call[h].todo \ {r}]
  <2>3. c \in Call /\ c.pc # "save" /\ Goto(h, c)
    BY <2>1, <2>2 DEF Call
  <2>4. request' \in [Requests -> Request]
    BY <1>a, <2>1, <2>2, SetTypes
  <2> HIDE DEF c
  <2> QED BY <1>a, <1>12, <2>3, <2>4, MoveTypeInv DEF CloseStale
<1>13. ASSUME NEW h \in Handlers, NotifyStale(h) PROVE TypeInv'
  <2> DEFINE c == SweepOrFinish(call[h].todo)
  <2>1. call[h].todo \subseteq Requests
    BY <1>a, <1>13, CallShape DEF NotifyStale, At
  <2>2. c \in Call /\ c.pc # "save"
    BY <1>b, <2>1 DEF SweepOrFinish, Call
  <2>3. Goto(h, c) /\ UNCHANGED <<request, told, crashes>>
    BY <1>13 DEF NotifyStale
  <2> HIDE DEF c
  <2> QED BY <1>a, <2>2, <2>3, MoveTypeInv
<1>14. CASE DayPasses
  <2>1. request' \in [Requests -> Request] /\ UNCHANGED <<told, call, crashes>>
    BY <1>a, <1>14, SetTypes DEF DayPasses
  <2> QED BY <1>a, <2>1 DEF TypeInv, TypeOK, CopiesFit, At
<1>15. CASE Crash
  BY <1>a, <1>b, <1>15 DEF Crash, TypeInv, TypeOK, CopiesFit, At
<1>16. CASE UNCHANGED vars
  BY <1>16 DEF vars, TypeInv, TypeOK, CopiesFit, At
<1> QED
  BY <1>1, <1>2, <1>3, <1>4, <1>5, <1>6, <1>7, <1>8, <1>9, <1>10, <1>11, <1>12,
     <1>13, <1>14, <1>15, <1>16
  DEF Next, Step, Supervisor, Administrator

\* Whatever calls interleave and wherever the process dies, what save() merges
\* into the store is a request, and every handler remembers one.
THEOREM TypeCorrect == Spec => []TypeOK
<1>1. TypeInv => TypeOK
  BY DEF TypeInv
<1> QED BY InitTypeInv, StepTypeInv, <1>1, PTL DEF Spec

-----------------------------------------------------------------------------
(* One call at a time implements RequestTicket.                            *)

SerialInv == TypeInv /\ CopiesCurrent

LEMMA InitSerialInv == Init => SerialInv
<1> SUFFICES ASSUME Init PROVE SerialInv
  OBVIOUS
<1>1. CopiesCurrent
  BY DEF Init, CopiesCurrent, At, IdleCall
<1> QED BY <1>1, InitTypeInv DEF SerialInv

\* While the only handler is idle, or about to be, nothing is remembered.
LEMMA StepSerialInv ==
  ASSUME IsSerial, SerialInv, [Next]_vars
  PROVE  SerialInv'
<1>a. TypeInv' /\ TypeInv /\ CopiesCurrent
  BY StepTypeInv DEF SerialInv
<1>b. call \in [Handlers -> Call]
  BY <1>a DEF TypeInv, TypeOK
<1>c. ASSUME NEW h \in Handlers, NEW c, Goto(h, c),
             c.pc \notin {"save", "sweep", "sweepNotify"}
      PROVE CopiesCurrent'
  BY <1>b, <1>c DEF IsSerial, CopiesCurrent, Goto, At
<1>d. IdleCall.pc = "idle"
  BY DEF IdleCall
<1>1. ASSUME NEW h \in Handlers, NEW op, NEW r \in Requests, NEW new, Begin(h, op, r, new)
      PROVE CopiesCurrent'
  <2> DEFINE c == [pc |-> "save", op |-> op, r |-> r, seen |-> request[r], doc |-> new]
  <2>1. \A g \in Handlers : call'[g] = c
    BY <1>b, <1>1 DEF Begin, Goto, IsSerial
  <2>2. request' = request
    BY <1>1 DEF Begin
  <2> QED BY <2>1, <2>2 DEF CopiesCurrent, At
<1>2. ASSUME NEW h \in Handlers, NEW r \in Requests, Create(h, r) PROVE CopiesCurrent'
  BY <1>2, <1>c DEF Create
<1>3. ASSUME NEW h \in Handlers, NEW r \in Requests, Supervisor(h, r) \/ Administrator(h, r)
      PROVE CopiesCurrent'
  BY <1>1, <1>2, <1>3 DEF Supervisor, Administrator, Respond, Reply, Close, Escalate,
     ResolveEscalation, MarkRead
<1>4. ASSUME NEW h \in Handlers, Save(h) PROVE CopiesCurrent'
  <2> DEFINE n == IF call[h].op = "markRead" THEN IdleCall
                  ELSE [pc |-> "notify", op |-> call[h].op, r |-> call[h].r]
  <2>1. Goto(h, n) /\ n.pc \in {"idle", "notify"}
    BY <1>4, <1>d DEF Save
  <2> HIDE DEF n
  <2> QED BY <1>c, <2>1
<1>5. ASSUME NEW h \in Handlers, Notify(h) PROVE CopiesCurrent'
  BY <1>5, <1>c, <1>d DEF Notify
<1>6. ASSUME NEW h \in Handlers, MarkAllRead(h) PROVE CopiesCurrent'
  <2>1. \A g \in Handlers : call'[g] = call[g] /\ call[g].pc = "idle"
    BY <1>6 DEF MarkAllRead, Idle, At, IsSerial
  <2> QED BY <2>1 DEF CopiesCurrent, At
<1>7. ASSUME NEW h \in Handlers, FindAll(h) PROVE CopiesCurrent'
  <2>1. \A g \in Handlers : call'[g] = [pc |-> "sweep", todo |-> {r \in Requests : IsStale(r)}]
    BY <1>7, <1>b DEF FindAll, Goto, IsSerial
  <2>2. \A r \in Requests : IsStale(r) => IsStale(r)'
    BY <1>7 DEF FindAll, IsStale
  <2>3. ASSUME NEW g \in Handlers
        PROVE  call'[g].pc = "sweep" /\ \A r \in call'[g].todo : IsStale(r)'
    <3> DEFINE stale == {r \in Requests : IsStale(r)}
    <3>1. call'[g].pc = "sweep" /\ call'[g].todo = stale
      <4>1. call'[g] = [pc |-> "sweep", todo |-> stale]
        BY <2>1
      <4> HIDE DEF stale
      <4> QED BY <4>1
    <3>2. \A r \in stale : IsStale(r)'
      BY <2>2
    <3> HIDE DEF stale
    <3> QED BY <3>1, <3>2
  <2> QED BY <2>3 DEF CopiesCurrent, At
<1>8. ASSUME NEW h \in Handlers, CloseStale(h) PROVE CopiesCurrent'
  <2>1. PICK r \in call[h].todo :
          /\ request' = [request EXCEPT ![r].status = "closed"]
          /\ Goto(h, [pc |-> "sweepNotify", r |-> r, todo |-> call[h].todo \ {r}])
    BY <1>8 DEF CloseStale
  <2>2. \A g \in Handlers :
          call'[g] = [pc |-> "sweepNotify", r |-> r, todo |-> call[h].todo \ {r}]
    BY <1>b, <2>1 DEF Goto, IsSerial
  <2>3. call[h].todo \subseteq Requests /\ \A x \in call[h].todo : IsStale(x)
    BY <1>a, <1>b, <1>8, CallShape DEF CloseStale, At, CopiesCurrent
  <2>4. \A x \in Requests \ {r} : request'[x] = request[x]
    BY <1>a, <2>1 DEF TypeInv, TypeOK
  <2> QED BY <2>2, <2>3, <2>4 DEF CopiesCurrent, At, IsStale
<1>9. ASSUME NEW h \in Handlers, NotifyStale(h) PROVE CopiesCurrent'
  <2>1. \A g \in Handlers : call'[g] = SweepOrFinish(call[h].todo)
    BY <1>9, <1>b DEF NotifyStale, Goto, IsSerial
  <2>2. \A x \in call[h].todo : IsStale(x)
    BY <1>a, <1>9 DEF NotifyStale, CopiesCurrent, At
  <2>3. request' = request
    BY <1>9 DEF NotifyStale
  <2> QED BY <1>d, <2>1, <2>2, <2>3 DEF CopiesCurrent, At, SweepOrFinish, IsStale
<1>10. ASSUME DayPasses PROVE CopiesCurrent'
  BY <1>10 DEF DayPasses, CopiesCurrent, Idle, At
<1>11. ASSUME Crash PROVE CopiesCurrent'
  BY <1>11, <1>d DEF Crash, CopiesCurrent, At
<1>12. ASSUME UNCHANGED vars PROVE CopiesCurrent'
  BY <1>a, <1>12 DEF vars, CopiesCurrent, At, IsStale
<1>13. CopiesCurrent'
  BY <1>3, <1>4, <1>5, <1>6, <1>7, <1>8, <1>9, <1>10, <1>11, <1>12 DEF Next, Step
<1> QED BY <1>a, <1>13 DEF SerialInv

\* What the ticket sees of a write to one request.
LEMMA ViewOne ==
  ASSUME request \in [Requests -> Request], NEW r \in Requests, NEW q \in Request,
         request' = [request EXCEPT ![r] = q]
  PROVE  [x \in Requests |-> View(request'[x])]
           = [[x \in Requests |-> View(request[x])] EXCEPT ![r] = View(q)]
BY DEF View

LEMMA ViewMarked ==
  ASSUME NEW q \in Request, NEW b
  PROVE  View([q EXCEPT !.read = b]) = [View(q) EXCEPT !.read = b]
<1>1. q = [status |-> q.status, answered |-> q.answered, age |-> q.age,
           read |-> q.read, followUps |-> q.followUps]
  BY RequestShape
<1>2. View([q EXCEPT !.read = b]) = [status |-> q.status, age |-> q.age, read |-> b]
  BY <1>1 DEF View
<1>3. [View(q) EXCEPT !.read = b] = [status |-> q.status, age |-> q.age, read |-> b]
  BY DEF View
<1> QED BY <1>2, <1>3

LEMMA ViewSame ==
  ASSUME request' = request
  PROVE  [x \in Requests |-> View(request'[x])] = [x \in Requests |-> View(request[x])]
OBVIOUS

\* Saving a current copy is the ticket's step of the same name.
LEMMA SaveIsTicketStep ==
  ASSUME request \in [Requests -> Request], NEW op, NEW r \in Requests, NEW new \in Request,
         Fits(op, request[r], new), request' = [request EXCEPT ![r] = new]
  PROVE  Ticket!Next
<1> DEFINE t == [x \in Requests |-> View(request[x])]
           q == request[r]
<1>a. q \in Request
  OBVIOUS
<1>1. [x \in Requests |-> View(request'[x])] = [t EXCEPT ![r] = View(new)]
  BY ViewOne
<1>2. t[r] = View(q) /\ t[r].status = q.status /\ t[r].age = q.age /\ t[r].read = q.read
  BY DEF View
<1>q. q = [status |-> q.status, answered |-> q.answered, age |-> q.age,
           read |-> q.read, followUps |-> q.followUps]
  BY RequestShape
<1>3. ASSUME NEW s \in {"responded", "closed"}, new = Answered(q, s)
      PROVE View(new) = [status |-> s, age |-> 0, read |-> FALSE]
  BY <1>3, <1>q DEF View, Answered
<1>4. CASE op = "respond"
  <2>1. PICK s \in {"responded", "closed"} : new = Answered(q, s)
    BY <1>4 DEF Fits
  <2>2. q.status \in {"pending", "responded"}
    BY <1>4 DEF Fits, OpenStatus
  <2>3. Ticket!Respond(r)
    BY <1>1, <1>2, <1>3, <2>1, <2>2
    DEF Ticket!Respond, Ticket!Move, Ticket!Open, Ticket!Outcome
  <2> QED BY <2>3 DEF Ticket!Next
<1>5. CASE op = "reply"
  <2>1. /\ q.status \in {"pending", "responded"}
        /\ new = [q EXCEPT !.followUps = @ + 1, !.status = "pending"]
    BY <1>5 DEF Fits, OpenStatus
  <2>2. View(new) = [status |-> "pending", age |-> q.age, read |-> q.read]
    BY <1>q, <2>1 DEF View
  <2>3. Ticket!Reply(r)
    BY <1>1, <1>2, <2>1, <2>2 DEF Ticket!Reply, Ticket!Move, Ticket!Open
  <2> QED BY <2>3 DEF Ticket!Next
<1>6. CASE op = "close"
  <2>1. q.status \in {"pending", "responded"}
    BY <1>6 DEF Fits, OpenStatus
  <2>2. PICK a \in {q.age, 0} : View(new) = [status |-> "closed", age |-> a, read |-> q.read]
    BY <1>6, <1>q DEF Fits, View
  <2>3. Ticket!Close(r)
    BY <1>1, <1>2, <2>1, <2>2 DEF Ticket!Close, Ticket!Move, Ticket!Open
  <2> QED BY <2>3 DEF Ticket!Next
<1>7. CASE op = "escalate"
  <2>1. q.status = "closed" /\ new = [q EXCEPT !.status = "escalated"]
    BY <1>7 DEF Fits
  <2>2. View(new) = [status |-> "escalated", age |-> q.age, read |-> q.read]
    BY <1>q, <2>1 DEF View
  <2>3. Ticket!Escalate(r)
    BY <1>1, <1>2, <2>1, <2>2 DEF Ticket!Escalate, Ticket!Move
  <2> QED BY <2>3 DEF Ticket!Next
<1>8. CASE op = "resolve"
  <2>1. PICK s \in {"responded", "closed"} : new = Answered(q, s)
    BY <1>8 DEF Fits
  <2>2. q.status = "escalated"
    BY <1>8 DEF Fits
  <2>3. Ticket!Resolve(r)
    BY <1>1, <1>2, <1>3, <2>1, <2>2 DEF Ticket!Resolve, Ticket!Move, Ticket!Outcome
  <2> QED BY <2>3 DEF Ticket!Next
<1>9. CASE op = "markRead"
  <2>1. new = [q EXCEPT !.read = TRUE]
    BY <1>9 DEF Fits
  <2>2. View(new) = [t[r] EXCEPT !.read = TRUE]
    BY <2>1, ViewMarked, <1>a
  <2>3. [t EXCEPT ![r] = View(new)]
          = [x \in Requests |-> IF x \in {r} THEN [t[x] EXCEPT !.read = TRUE] ELSE t[x]]
    BY <2>2
  <2>4. Ticket!Acknowledge({r})
    BY <1>1, <2>3 DEF Ticket!Acknowledge
  <2> QED BY <2>4 DEF Ticket!Next
<1> QED BY <1>4, <1>5, <1>6, <1>7, <1>8, <1>9 DEF Fits

LEMMA StepImplements ==
  ASSUME SerialInv, [Next]_vars
  PROVE  [Ticket!Next]_([r \in Requests |-> View(request[r])])
<1> DEFINE t == [x \in Requests |-> View(request[x])]
           Stutter == [x \in Requests |-> View(request'[x])] = t
<1>a. /\ TypeOK /\ CopiesFit /\ CopiesCurrent /\ request \in [Requests -> Request]
      /\ call \in [Handlers -> Call]
  BY DEF SerialInv, TypeInv, TypeOK
<1>t. \A x \in Requests : t[x] = View(request[x]) /\ t[x].status = request[x].status
        /\ t[x].age = request[x].age /\ t[x].read = request[x].read
  BY DEF View
<1>1. ASSUME NEW h \in Handlers, NEW r \in Requests, Create(h, r) PROVE Ticket!Next
  <2>1. /\ request' = [request EXCEPT ![r] = NewRequest]
        /\ NewRequest \in Request /\ request[r].status = "none"
    BY <1>1, NewIsRequest DEF Create
  <2>2. [x \in Requests |-> View(request'[x])] = [t EXCEPT ![r] = View(NewRequest)]
    BY <1>a, <2>1, ViewOne
  <2>3. Ticket!Create(r)
    BY <1>t, <2>1, <2>2 DEF Ticket!Create, Ticket!Move, NewRequest, View
  <2> QED BY <2>3 DEF Ticket!Next
<1>2. ASSUME NEW h \in Handlers, NEW r \in Requests, Supervisor(h, r) \/ Administrator(h, r)
      PROVE Ticket!Next \/ request' = request
  BY <1>1, <1>2 DEF Supervisor, Administrator, Respond, Reply, Close, Escalate,
     ResolveEscalation, MarkRead, Begin
<1>3. ASSUME NEW h \in Handlers, Save(h) PROVE Ticket!Next
  <2> DEFINE c == call[h]
  <2>1. /\ c.r \in Requests /\ c.doc \in Request /\ c.seen = request[c.r]
        /\ Fits(c.op, request[c.r], c.doc)
    BY <1>a, <1>3, CallShape DEF Save, At, CopiesFit, CopiesCurrent
  <2>2. request' = [request EXCEPT ![c.r] = Store(request[c.r], c.seen, c.doc)]
    BY <1>3 DEF Save
  <2>3. Store(request[c.r], c.seen, c.doc) = c.doc
    BY <1>a, <2>1, StoreCurrent
  <2>4. request' = [request EXCEPT ![c.r] = c.doc]
    BY <2>2, <2>3
  <2> HIDE DEF c
  <2> QED BY <1>a, <2>1, <2>4, SaveIsTicketStep
<1>4. ASSUME NEW h \in Handlers, MarkAllRead(h) PROVE Ticket!Next
  <2> DEFINE S == {r \in Requests : request[r].status \in {"responded", "closed"}
                                    /\ request[r].answered}
  <2>1. \A x \in Requests : request'[x] =
          IF x \in S THEN [request[x] EXCEPT !.read = TRUE] ELSE request[x]
    BY <1>4 DEF MarkAllRead
  <2>2. \A x \in Requests : View([request[x] EXCEPT !.read = TRUE]) = [t[x] EXCEPT !.read = TRUE]
    BY <1>a, ViewMarked
  <2>3. [x \in Requests |-> View(request'[x])]
          = [x \in Requests |-> IF x \in S THEN [t[x] EXCEPT !.read = TRUE] ELSE t[x]]
    BY <2>1, <2>2
  <2>4. S \in SUBSET Requests
    OBVIOUS
  <2> HIDE DEF S
  <2>5. Ticket!Acknowledge(S)
    BY <2>3 DEF Ticket!Acknowledge
  <2> QED BY <2>4, <2>5 DEF Ticket!Next
<1>5. ASSUME NEW h \in Handlers, CloseStale(h) PROVE Ticket!Next
  <2>1. PICK r \in call[h].todo : request' = [request EXCEPT ![r].status = "closed"]
    BY <1>5 DEF CloseStale
  <2>2. r \in Requests /\ IsStale(r)
    BY <1>a, <1>5, <2>1, CallShape DEF CloseStale, At, CopiesCurrent
  <2> DEFINE q == request[r]
             e == [q EXCEPT !.status = "closed"]
  <2>3. q \in Request /\ e \in Request
    BY <1>a, <2>2, SetTypes
  <2>4. [x \in Requests |-> View(request'[x])] = [t EXCEPT ![r] = View(e)]
    BY <1>a, <2>1, <2>2, <2>3, ViewOne
  <2>5. View(e) = [status |-> "closed", age |-> q.age, read |-> q.read]
    BY <2>3, RequestShape DEF View
  <2>6. q.read = FALSE
    BY <2>2, <2>3, RequestShape DEF IsStale
  <2>7. Ticket!Expire(r)
    BY <1>t, <2>2, <2>4, <2>5, <2>6 DEF Ticket!Expire, Ticket!Move, IsStale
  <2> QED BY <2>2, <2>7 DEF Ticket!Next
<1>6. ASSUME DayPasses PROVE Ticket!Next
  <2>1. \A x \in Requests : View(request'[x]) =
          [t[x] EXCEPT !.age = IF t[x].status = "none" \/ @ = AckDays THEN @ ELSE @ + 1]
    <3> TAKE x \in Requests
    <3> DEFINE a == IF request[x].status = "none" \/ request[x].age = AckDays
                    THEN request[x].age ELSE request[x].age + 1
    <3>1. request'[x] = [request[x] EXCEPT !.age = a]
      BY <1>6 DEF DayPasses
    <3>2. [t[x] EXCEPT !.age = IF t[x].status = "none" \/ @ = AckDays THEN @ ELSE @ + 1]
            = [t[x] EXCEPT !.age = a]
      BY <1>t
    <3> HIDE DEF a
    <3>3. View([request[x] EXCEPT !.age = a])
            = [status |-> request[x].status, age |-> a, read |-> request[x].read]
      BY <1>a, RequestShape DEF View
    <3>4. t[x] = [status |-> request[x].status, age |-> request[x].age,
                  read |-> request[x].read]
      BY DEF View
    <3>5. [t[x] EXCEPT !.age = a]
            = [status |-> request[x].status, age |-> a, read |-> request[x].read]
      BY <3>4
    <3> QED BY <3>1, <3>2, <3>3, <3>5
  <2>2. Ticket!Day
    BY <2>1 DEF Ticket!Day
  <2> QED BY <2>2 DEF Ticket!Next
<1>7. ASSUME NEW h \in Handlers, Notify(h) \/ FindAll(h) \/ NotifyStale(h)
      PROVE request' = request
  BY <1>7 DEF Notify, FindAll, NotifyStale
<1>8. ASSUME Crash \/ UNCHANGED vars PROVE request' = request
  BY <1>8 DEF Crash, vars
<1>9. Ticket!Next \/ request' = request
  BY <1>2, <1>3, <1>4, <1>5, <1>6, <1>7, <1>8 DEF Next, Step
<1> QED BY <1>9, ViewSame

\* One call at a time, for any number of requests and wherever the process
\* dies: an escalation ends only by a resolution, only an unread response of
\* AckDays days expires, an answer is always unread, a closed request takes no
\* reply (respond, reply, close, escalate, resolveEscalation and the sweep).
THEOREM SerialImplementsTicket == IsSerial /\ Spec => ImplementsTicket
<1>1. Init => Ticket!Init
  BY DEF Init, Ticket!Init, View, NoRequest
<1>2. IsSerial /\ SerialInv /\ [Next]_vars => SerialInv'
  BY StepSerialInv
<1>3. SerialInv /\ [Next]_vars => [Ticket!Next]_([r \in Requests |-> View(request[r])])
  BY StepImplements
<1>4. CASE IsSerial
  <2>1. SerialInv /\ [Next]_vars => SerialInv'
    BY <1>2, <1>4
  <2> QED
    BY InitSerialInv, <1>1, <1>3, <2>1, PTL DEF Spec, ImplementsTicket, Ticket!Spec
<1> QED BY <1>4

-----------------------------------------------------------------------------
(* What expires was announced: while the process has not died, whoever has *)
(* an answer has been told, or is being told by the call that stored it.   *)

Telling(r) ==
  \E h \in Handlers : At(h, "notify") /\ call[h].r = r /\ call[h].op \in {"respond", "resolve"}
Announced ==
  crashes = 0 => \A r \in Requests : request[r].status = "responded" => told[r] \/ Telling(r)
AnnounceInv == SerialInv /\ Announced

\* A step that tells nothing, is not taken amid telling, and answers nobody.
LEMMA UntoldStep ==
  ASSUME Announced, UNCHANGED <<told, crashes>>, NEW h \in Handlers, IsSerial, ~At(h, "notify"),
         \A r \in Requests : request'[r].status = "responded" => request[r].status = "responded"
  PROVE  Announced'
BY DEF Announced, Telling, IsSerial, At

\* Of the calls that save a copy only an answer makes a request responded.
LEMMA FitsStatus ==
  ASSUME NEW op, NEW d \in Request, NEW e, Fits(op, d, e), e.status = "responded"
  PROVE  op \in {"respond", "resolve"} \/ d.status = "responded"
<1>1. d = [status |-> d.status, answered |-> d.answered, age |-> d.age,
           read |-> d.read, followUps |-> d.followUps]
  BY RequestShape
<1>2. /\ [d EXCEPT !.followUps = @ + 1, !.status = "pending"].status = "pending"
      /\ [d EXCEPT !.status = "closed"].status = "closed"
      /\ [d EXCEPT !.status = "closed", !.answered = TRUE, !.age = 0].status = "closed"
      /\ [d EXCEPT !.status = "escalated"].status = "escalated"
      /\ [d EXCEPT !.read = TRUE].status = d.status
  BY <1>1
<1> QED BY <1>2 DEF Fits

\* What the calls that change requests without reading them leave of a status.
LEMMA SetStatus ==
  ASSUME NEW q \in Request, NEW a
  PROVE  /\ [q EXCEPT !.status = "closed"].status = "closed"
         /\ [q EXCEPT !.read = TRUE].status = q.status
         /\ [q EXCEPT !.age = a].status = q.status
<1>1. q = [status |-> q.status, answered |-> q.answered, age |-> q.age,
           read |-> q.read, followUps |-> q.followUps]
  BY RequestShape
<1> QED BY <1>1

LEMMA StepAnnounceInv ==
  ASSUME IsSerial, AnnounceInv, [Next]_vars
  PROVE  AnnounceInv'
<1>a. SerialInv /\ SerialInv'
  BY StepSerialInv DEF AnnounceInv
<1>b. /\ TypeOK /\ CopiesFit /\ CopiesCurrent /\ Announced
      /\ request \in [Requests -> Request] /\ call \in [Handlers -> Call]
      /\ told \in [Requests -> BOOLEAN] /\ crashes \in Nat
  BY <1>a DEF AnnounceInv, SerialInv, TypeInv, TypeOK
<1>1. ASSUME NEW h \in Handlers, NEW r \in Requests, Create(h, r) PROVE Announced'
  <2>1. \A x \in Requests : request'[x].status = "responded" => request[x].status = "responded"
    BY <1>1, <1>b DEF Create, NewRequest
  <2> QED BY <1>1, <1>b, <2>1, UntoldStep DEF Create, Idle, At
<1>2. ASSUME NEW h \in Handlers, Idle(h), UNCHANGED <<request, told, crashes>> PROVE Announced'
  BY <1>2, <1>b, UntoldStep DEF Idle, At
<1>3. ASSUME NEW h \in Handlers, NEW r \in Requests, Supervisor(h, r) \/ Administrator(h, r)
      PROVE Announced'
  BY <1>1, <1>2, <1>3 DEF Supervisor, Administrator, Respond, Reply, Close, Escalate,
     ResolveEscalation, MarkRead, Begin
<1>4. ASSUME NEW h \in Handlers, Save(h) PROVE Announced'
  <2> DEFINE c == call[h]
             stored == IF c.op \in {"respond", "resolve"} THEN FALSE ELSE told[c.r]
  <2>1. /\ At(h, "save") /\ c.r \in Requests /\ c.doc \in Request /\ c.seen = request[c.r]
        /\ Fits(c.op, request[c.r], c.doc) /\ c.op \in Op
    BY <1>b, <1>4, CallShape DEF Save, At, CopiesFit, CopiesCurrent
  <2>2. Store(request[c.r], c.seen, c.doc) = c.doc
    BY <1>b, <2>1, StoreCurrent
  <2>3. \A x \in Requests : request'[x] = IF x = c.r THEN c.doc ELSE request[x]
    BY <1>b, <1>4, <2>2 DEF Save
  <2>4. /\ \A x \in Requests : told'[x] = IF x = c.r THEN stored ELSE told[x]
        /\ crashes' = crashes
    BY <1>b, <1>4 DEF Save
  <2>5. c.op \in {"respond", "resolve"} =>
          call'[h] = [pc |-> "notify", op |-> c.op, r |-> c.r]
    BY <1>b, <1>4 DEF Save, Goto
  <2>6. c.op \notin {"respond", "resolve"} /\ c.doc.status = "responded"
          => request[c.r].status = "responded"
    <3>1. request[c.r] \in Request
      BY <1>b, <2>1
    <3> QED BY <2>1, <3>1, FitsStatus
  <2>7. \A x \in Requests : crashes = 0 /\ request[x].status = "responded" => told[x]
    BY <1>b, <2>1 DEF Announced, Telling, IsSerial, At
  <2>8. ASSUME crashes = 0, NEW x \in Requests, request'[x].status = "responded"
        PROVE  told'[x] \/ Telling(x)'
    <3>1. CASE x # c.r
      BY <2>3, <2>4, <2>7, <2>8, <3>1
    <3>2. CASE x = c.r /\ c.op \in {"respond", "resolve"}
      BY <2>5, <3>2 DEF Telling, At
    <3>3. CASE x = c.r /\ c.op \notin {"respond", "resolve"}
      BY <2>3, <2>4, <2>6, <2>7, <2>8, <3>3
    <3> QED BY <3>1, <3>2, <3>3
  <2> HIDE DEF c, stored
  <2> QED BY <2>4, <2>8 DEF Announced
<1>5. ASSUME NEW h \in Handlers, Notify(h) PROVE Announced'
  <2>1. /\ At(h, "notify") /\ UNCHANGED <<request, crashes>>
        /\ \A x \in Requests : told'[x] = IF x = call[h].r /\ call[h].op \in {"respond", "resolve"}
                                          THEN TRUE ELSE told[x]
    BY <1>5, <1>b DEF Notify
  <2>2. \A x \in Requests :
          Telling(x) => x = call[h].r /\ call[h].op \in {"respond", "resolve"}
    BY DEF Telling, IsSerial
  <2>3. ASSUME crashes = 0, NEW x \in Requests, request[x].status = "responded"
        PROVE  told'[x]
    BY <1>b, <2>1, <2>2, <2>3 DEF Announced
  <2> QED BY <2>1, <2>3 DEF Announced
<1>6. ASSUME NEW h \in Handlers, MarkAllRead(h) PROVE Announced'
  <2>1. \A x \in Requests : request'[x].status = request[x].status
    <3> TAKE x \in Requests
    <3>1. request'[x] \in {request[x], [request[x] EXCEPT !.read = TRUE]}
      BY <1>6 DEF MarkAllRead
    <3> QED BY <1>b, <3>1, SetStatus
  <2> QED BY <1>6, <1>b, <2>1, UntoldStep DEF MarkAllRead, Idle, At
<1>7. ASSUME NEW h \in Handlers, CloseStale(h) PROVE Announced'
  <2>1. PICK r \in call[h].todo : request' = [request EXCEPT ![r].status = "closed"]
    BY <1>7 DEF CloseStale
  <2>2. \A x \in Requests : request'[x].status \in {request[x].status, "closed"}
    <3> TAKE x \in Requests
    <3>1. request'[x] \in {request[x], [request[x] EXCEPT !.status = "closed"]}
      BY <1>b, <2>1
    <3> QED BY <1>b, <3>1, SetStatus
  <2> QED BY <1>7, <1>b, <2>2, UntoldStep DEF CloseStale, At
<1>8. ASSUME NEW h \in Handlers, NotifyStale(h) PROVE Announced'
  BY <1>8, <1>b, UntoldStep DEF NotifyStale, At
<1>9. ASSUME DayPasses PROVE Announced'
  <2>1. \A x \in Requests : request'[x].status = request[x].status
    <3> TAKE x \in Requests
    <3>1. PICK a : request'[x] = [request[x] EXCEPT !.age = a]
      BY <1>9 DEF DayPasses
    <3> QED BY <1>b, <3>1, SetStatus
  <2> QED BY <1>9, <1>b, <2>1 DEF DayPasses, Announced, Telling, At
<1>10. ASSUME Crash PROVE Announced'
  BY <1>10, <1>b DEF Crash, Announced
<1>11. ASSUME UNCHANGED vars PROVE Announced'
  BY <1>11, <1>b DEF vars, Announced, Telling, At
<1>12. ASSUME NEW h \in Handlers, FindAll(h) PROVE Announced'
  BY <1>2, <1>12 DEF FindAll
<1>13. Announced'
  BY <1>3, <1>4, <1>5, <1>6, <1>7, <1>8, <1>9, <1>10, <1>11, <1>12 DEF Next, Step
<1> QED BY <1>a, <1>13 DEF AnnounceInv

\* One call at a time and until the process dies, no response is closed for
\* want of an acknowledgment unless its supervisor was told of it (respond,
\* resolveEscalation and their notifications; closeStaleRespondedRequests).
THEOREM ExpiryWasAnnouncedAlways == IsSerial /\ Spec => ExpiryWasAnnounced
<1> SUFFICES ASSUME IsSerial PROVE Spec => ExpiryWasAnnounced
  OBVIOUS
<1>1. Init => AnnounceInv
  BY InitSerialInv DEF Init, AnnounceInv, Announced, NoRequest
<1>2. AnnounceInv /\ [Next]_vars => AnnounceInv'
  BY StepAnnounceInv
<1>3. AnnounceInv /\ [Next]_vars =>
        [\A h \in Handlers, r \in Requests :
           /\ crashes = 0 /\ At(h, "sweep")
           /\ call'[h] = [pc |-> "sweepNotify", r |-> r, todo |-> call[h].todo \ {r}]
           => told[r]]_vars
  <2> SUFFICES ASSUME AnnounceInv, Next, NEW h \in Handlers, NEW r \in Requests,
                      crashes = 0, At(h, "sweep"),
                      call'[h] = [pc |-> "sweepNotify", r |-> r, todo |-> call[h].todo \ {r}]
               PROVE  told[r]
    BY DEF vars
  <2>1. \A g \in Handlers : g = h
    BY DEF IsSerial
  <2>2. call \in [Handlers -> Call] /\ CopiesCurrent /\ Announced
    BY DEF AnnounceInv, SerialInv, TypeInv, TypeOK
  <2>3. CloseStale(h)
    <3>1. \A g \in Handlers : call[g].pc = "sweep"
      BY <2>1 DEF At
    <3>2. ~Crash /\ ~DayPasses
      BY <3>1 DEF Crash, DayPasses, IdleCall, Idle, At
    <3>3. \A g \in Handlers :
            ~Idle(g) /\ ~Save(g) /\ ~Notify(g) /\ ~NotifyStale(g)
      BY <3>1 DEF Save, Notify, NotifyStale, Idle, At
    <3>4. \A g \in Handlers, x \in Requests : ~Supervisor(g, x) /\ ~Administrator(g, x)
      BY <3>3 DEF Supervisor, Administrator, Create, Respond, Reply, Close, Escalate,
         ResolveEscalation, MarkRead, Begin
    <3>5. \A g \in Handlers : ~MarkAllRead(g) /\ ~FindAll(g)
      BY <3>3 DEF MarkAllRead, FindAll
    <3> QED BY <2>1, <3>2, <3>3, <3>4, <3>5 DEF Next, Step
  <2>4. r \in call[h].todo
    BY <2>2, <2>3 DEF CloseStale, Goto
  <2>5. request[r].status = "responded"
    BY <2>2, <2>4 DEF CopiesCurrent, At, IsStale
  <2> QED BY <2>1, <2>2, <2>5 DEF Announced, Telling, At
<1> QED BY <1>1, <1>2, <1>3, PTL DEF Spec, ExpiryWasAnnounced

-----------------------------------------------------------------------------
(* Contracts: the one contract whose guarantee may differ while a request is *)
(* under way.                                                                *)

DealFacts == Handlers = {me} /\ "" \notin Numbers /\ "" \notin ContractNos

Rows == [pc: {"create", "import"}, todo: SUBSET ContractNos, patch: Deals!Patches]
          \cup [pc: {"update"}, todo: SUBSET Contracts, patch: Deals!Patches]
          \cup [pc: {"delete"}, todo: SUBSET Contracts, patch: {{}}]
Resume == {Deals!IdleCall} \cup Rows
Whole == [id: Contracts, doc: Deals!Contract]
\* What knows nothing of what is stored.
Unread ==
  Resume \cup [pc: {"insert"}, job: [doc: Deals!Contract], back: Resume]
    \cup [pc: {"persist", "clash"}, job: Whole, back: Resume]

\* What a request under way has in hand is what is stored, or will be once it
\* is written.
OfStored(c) ==
  /\ c.job \in Whole /\ c.back \in Resume
  /\ c.job.id \in Deals!Entered /\ c.job.doc = contract[c.job.id]
ToCarry(c) == c.pc = "carry" /\ OfStored(c)
ToSaveFound(c) ==
  /\ c.pc = "saveFound" /\ c.back \in Resume
  /\ \E id \in Deals!Entered : \E r \in Deals!GuaranteesOf(id) :
       c.job = [id |-> id, r |-> r,
                set |-> Deals!Changes(record[r], Deals!Carried(record[r], contract[id]))]
ToIssue(c) == c.pc = "issue" /\ OfStored(c) /\ c.job.doc.bgNumber # ""
ToCarryBack(c) ==
  /\ c.pc = "carryBack" /\ c.back \in Resume
  /\ \E r \in Deals!Issued : c.job = [row |-> record[r]]
ToSaveRecord(c) ==
  /\ c.pc = "saveRecord" /\ c.back \in Resume
  /\ \E r \in Deals!Issued, rec \in Deals!Record :
       c.job = [r |-> r, row |-> rec, set |-> Deals!Changes(record[r], rec)]
ToWrite(c) ==
  /\ c.pc = "writeContract" /\ c.job \in Whole /\ c.back \in Resume
  /\ c.job.id \in Deals!Entered /\ c.job.doc.no = contract[c.job.id].no
  /\ \E r \in Deals!GuaranteesOf(c.job.id) :
       record[r].number = c.job.doc.bgNumber /\ record[r].amount = c.job.doc.bgAmount
ToDelete(c) == c.pc = "deleteOne" /\ c.job.r \in Deals!Issued /\ c.back \in Resume
Carrying(c) ==
  \/ c \in Unread
  \/ ToCarry(c) \/ ToSaveFound(c) \/ ToIssue(c) \/ ToCarryBack(c)
  \/ ToSaveRecord(c) \/ ToWrite(c) \/ ToDelete(c)

\* A contract shows what the register holds for it.
Agrees(id) ==
  contract[id].bgApplicable /\ contract[id].bgNumber # "" =>
    \E r \in Deals!GuaranteesOf(id) :
      record[r].number = contract[id].bgNumber /\ record[r].amount = contract[id].bgAmount
\* The contract a request has yet to bring in line.
Pending(c) ==
  CASE c.pc \in {"carry", "saveFound", "issue", "writeContract"} -> {c.job.id}
    [] c.pc = "carryBack" /\ c.job.row.instrumentType = "bg" -> {c.job.row.contractId}
    [] OTHER -> {}

DealTypes ==
  /\ contract \in [Contracts -> Deals!Contract \cup {Deals!NoContract}]
  /\ record \in [Records -> Deals!Record \cup {Deals!NoRecord}]
  /\ apart \in SUBSET Contracts
NosAreUnique ==
  \A c, d \in Deals!Entered : contract[c].no = contract[d].no => c = d
AllAgree(c) == \A id \in (Deals!Entered \ apart) \ Pending(c) : Agrees(id)
DealInv ==
  /\ DealTypes /\ NosAreUnique
  /\ DOMAIN call = Handlers /\ call = [h \in Handlers |-> call[h]]
  /\ Carrying(call[me]) /\ AllAgree(call[me])

Unmoved == UNCHANGED <<contract, record, apart>>

LEMMA CallTo ==
  ASSUME DealFacts, DealInv, NEW c, Deals!Goto(me, c)
  PROVE  call'[me] = c /\ DOMAIN call' = Handlers /\ call' = [h \in Handlers |-> call'[h]]
BY DEF DealFacts, DealInv, Deals!Goto

LEMMA RowsOf ==
  /\ \A id \in Deals!Entered : id \in Contracts
  /\ \A r \in Deals!Issued : r \in Records
  /\ DealTypes => /\ \A id \in Deals!Entered : contract[id] \in Deals!Contract
                  /\ \A r \in Deals!Issued : record[r] \in Deals!Record
BY DEF Deals!Entered, Deals!Issued, DealTypes

\* What save() sends makes of the row that was read the row that was meant.
LEMMA WritesWhatIsMeant ==
  ASSUME NEW a \in Deals!Record, NEW b \in Deals!Record
  PROVE  Deals!Written(a, Deals!Changes(a, b)) = b
<1> DEFINE FormFields == {"instrumentType", "number", "contractId", "amount"}
           set == Deals!Changes(a, b)
<1>1. DOMAIN a = FormFields /\ b = [f \in FormFields |-> b[f]]
  BY DEF Deals!Record
<1>2. DOMAIN set = {g \in FormFields : b[g] # a[g]} /\ \A f \in DOMAIN set : set[f] = b[f]
  BY <1>1 DEF Deals!Changes
<1> HIDE DEF set
<1>3. Deals!Written(a, set) = [f \in FormFields |-> IF f \in DOMAIN set THEN set[f] ELSE a[f]]
  BY <1>1 DEF Deals!Written
<1>4. \A f \in FormFields : (IF f \in DOMAIN set THEN set[f] ELSE a[f]) = b[f]
  BY <1>2
<1>5. [f \in FormFields |-> IF f \in DOMAIN set THEN set[f] ELSE a[f]] = [f \in FormFields |-> b[f]]
  BY <1>4
<1> QED BY <1>1, <1>3, <1>5 DEF set

\* A step that stores nothing and leaves nobody behind.
LEMMA Unreads ==
  ASSUME NEW c \in Unread
  PROVE  Carrying(c) /\ Carrying(c)' /\ Pending(c) = {} /\ Pending(c)' = {}
<1>1. Carrying(c) /\ Carrying(c)'
  BY DEF Carrying
<1>2. c.pc \in {"idle", "create", "import", "update", "delete", "insert", "persist", "clash"}
  BY DEF Unread, Resume, Rows, Deals!IdleCall
<1>3. Pending(c) = {} /\ Pending(c)' = {}
  BY <1>2 DEF Pending
<1> QED BY <1>1, <1>3

LEMMA StoresNothing ==
  ASSUME DealFacts, DealInv, Unmoved, Pending(call[me]) = {}, NEW c \in Unread, Deals!Goto(me, c)
  PROVE  DealInv'
<1>1. call'[me] = c /\ DOMAIN call' = Handlers /\ call' = [h \in Handlers |-> call'[h]]
  BY CallTo
<1>2. DealTypes' /\ NosAreUnique'
  BY DEF DealInv, Unmoved, DealTypes, NosAreUnique, Deals!Entered
<1>3. Carrying(call[me])' /\ AllAgree(call[me])
  BY <1>1, Unreads DEF DealInv
<1>4. Pending(call[me])' = {}
  BY <1>1, Unreads
<1>5. AllAgree(call[me])'
  BY <1>3, <1>4 DEF AllAgree, Unmoved, Agrees, Deals!Entered, Deals!GuaranteesOf, Deals!Issued
<1> QED BY <1>1, <1>2, <1>3, <1>5 DEF DealInv

LEMMA StandsOn ==
  ASSUME DealFacts, DealInv, NEW c, Deals!Goto(me, c),
         DealTypes', NosAreUnique', Carrying(c)', AllAgree(c)'
  PROVE  DealInv'
<1>1. call'[me] = c /\ DOMAIN call' = Handlers /\ call' = [h \in Handlers |-> call'[h]]
  BY CallTo
<1>2. Carrying(call[me])' /\ AllAgree(call[me])'
  BY <1>1
<1> QED BY <1>1, <1>2 DEF DealInv

LEMMA StagesOf ==
  ASSUME NEW c, Carrying(c)
  PROVE  /\ c.pc \in {"idle", "create", "import", "update", "delete", "insert", "persist", "clash"}
              <=> c \in Unread
         /\ c.pc = "carry" <=> ToCarry(c)
         /\ c.pc = "saveFound" <=> ToSaveFound(c)
         /\ c.pc = "issue" <=> ToIssue(c)
         /\ c.pc = "carryBack" <=> ToCarryBack(c)
         /\ c.pc = "saveRecord" <=> ToSaveRecord(c)
         /\ c.pc = "writeContract" <=> ToWrite(c)
         /\ c.pc = "deleteOne" <=> ToDelete(c)
<1>1. c \in Unread => c.pc \in {"idle", "create", "import", "update", "delete", "insert", "persist", "clash"}
  BY DEF Unread, Resume, Rows, Deals!IdleCall
<1>2. /\ ToCarry(c) => c.pc = "carry"
      /\ ToSaveFound(c) => c.pc = "saveFound"
      /\ ToIssue(c) => c.pc = "issue"
      /\ ToCarryBack(c) => c.pc = "carryBack"
      /\ ToSaveRecord(c) => c.pc = "saveRecord"
      /\ ToWrite(c) => c.pc = "writeContract"
      /\ ToDelete(c) => c.pc = "deleteOne"
  BY DEF ToCarry, ToSaveFound, ToIssue, ToCarryBack, ToSaveRecord, ToWrite, ToDelete
<1> QED BY <1>1, <1>2 DEF Carrying

LEMMA UnreadFields ==
  ASSUME NEW c \in Unread
  PROVE  /\ c.pc \in {"create", "import", "update"} => c \in Rows /\ c.patch \in Deals!Patches
         /\ c.pc = "delete" => c \in Rows
         /\ c.pc = "insert" => c.job.doc \in Deals!Contract /\ c.back \in Resume
         /\ c.pc \in {"persist", "clash"} => c.job \in Whole /\ c.back \in Resume
BY DEF Unread, Resume, Rows, Deals!IdleCall

\* No row of a request makes a contract that is not one.
LEMMA PatchesFit ==
  ASSUME NEW rec \in Deals!Contract, NEW patch \in Deals!Patches
  PROVE  Deals!applyPatch(rec, patch) \in Deals!Contract
<1>1. /\ rec.no \in ContractNos /\ rec.bgApplicable \in BOOLEAN
      /\ rec.bgNumber \in Numbers \cup {""} /\ rec.bgAmount \in Amounts \cup {""}
      /\ patch.bgNumber \in Numbers \cup {"", "keep"} /\ patch.bgAmount \in Amounts \cup {"", "keep"}
      /\ rec = [no |-> rec.no, bgApplicable |-> rec.bgApplicable, bgNumber |-> rec.bgNumber, bgAmount |-> rec.bgAmount]
  BY DEF Deals!Contract, Deals!Patches
<1>2. /\ Deals!Or(patch.bgNumber, rec.bgNumber) \in Numbers \cup {""}
      /\ Deals!Or(patch.bgAmount, rec.bgAmount) \in Amounts \cup {""}
  BY <1>1 DEF Deals!Or
<1>3. PICK x \in BOOLEAN, n \in Numbers \cup {""}, a \in Amounts \cup {""} :
        Deals!applyPatch(rec, patch) = [no |-> rec.no, bgApplicable |-> x, bgNumber |-> n, bgAmount |-> a]
  <2>1. CASE patch.bgApplicable = "no"
    BY <1>1, <2>1 DEF Deals!applyPatch
  <2>2. CASE patch.bgApplicable # "no"
    <3>1. (rec.bgApplicable \/ patch.bgApplicable = "yes") \in BOOLEAN
      OBVIOUS
    <3> QED BY <1>1, <1>2, <2>2, <3>1 DEF Deals!applyPatch
  <2> QED BY <2>1, <2>2
<1>4. [no |-> rec.no, bgApplicable |-> x, bgNumber |-> n, bgAmount |-> a] \in Deals!Contract
  BY <1>1 DEF Deals!Contract
<1> QED BY <1>3, <1>4

LEMMA PayloadsFit ==
  ASSUME NEW no \in ContractNos, NEW patch \in Deals!Patches
  PROVE  Deals!buildPayload(no, patch) \in Deals!Contract
<1> DEFINE blank == [no |-> no, bgApplicable |-> FALSE, bgNumber |-> "", bgAmount |-> ""]
           given == [patch EXCEPT !.bgNumber = Deals!Or(@, ""), !.bgAmount = Deals!Or(@, "")]
<1>1. blank \in Deals!Contract
  BY DEF Deals!Contract
<1>2. given \in Deals!Patches
  BY DEF Deals!Patches, Deals!Or
<1> QED BY <1>1, <1>2, PatchesFit DEF Deals!buildPayload

LEMMA Resumes ==
  ASSUME NEW c \in Rows, NEW x
  PROVE  /\ [c EXCEPT !.todo = @ \ {x}] \in Rows
         /\ [c EXCEPT !.todo = @ \ {x}].patch = c.patch
         /\ \A b \in Rows : b \in Unread /\ b \in Resume
         /\ Deals!IdleCall \in Unread /\ Deals!IdleCall \in Resume
         /\ c.pc \in {"create", "import"} => c.todo \subseteq ContractNos
         /\ c.pc \in {"update", "delete"} => c.todo \subseteq Contracts
BY DEF Rows, Resume, Unread

LEMMA Opens ==
  ASSUME DealFacts, DealInv, Deals!Idle(me)
  PROVE  Pending(call[me]) = {} /\ call[me] \in Unread
<1>1. PICK b : b = call[me] OBVIOUS
<1>2. b.pc = "idle" /\ Carrying(b) BY <1>1 DEF DealInv, Deals!Idle, Deals!At
<1>3. b \in Unread BY <1>2, StagesOf
<1> QED BY <1>1, <1>3, Unreads

LEMMA RequestKeeps ==
  ASSUME DealFacts, DealInv,
         \/ \E nos \in SUBSET ContractNos, patch \in Deals!Patches :
              \/ \E no \in ContractNos : nos = {no} /\ Deals!Request(me, "create", nos, patch)
              \/ Deals!Request(me, "import", nos, patch)
         \/ \E ids \in SUBSET Contracts, patch \in Deals!Patches : Deals!Request(me, "update", ids, patch)
         \/ \E ids \in SUBSET Deals!Entered : Deals!Request(me, "delete", ids, {})
  PROVE  DealInv'
<1>1. PICK c : c \in Rows /\ Deals!Goto(me, c) /\ Unmoved /\ Deals!Idle(me)
  <2>1. CASE \E nos \in SUBSET ContractNos, patch \in Deals!Patches :
               \/ \E no \in ContractNos : nos = {no} /\ Deals!Request(me, "create", nos, patch)
               \/ Deals!Request(me, "import", nos, patch)
    <3>1. PICK nos \in SUBSET ContractNos, patch \in Deals!Patches, kind \in {"create", "import"} :
            Deals!Request(me, kind, nos, patch)
      BY <2>1
    <3>2. [pc |-> kind, todo |-> nos, patch |-> patch] \in Rows
      BY DEF Rows
    <3> QED BY <3>1, <3>2 DEF Deals!Request, Unmoved
  <2>2. CASE \E ids \in SUBSET Contracts, patch \in Deals!Patches : Deals!Request(me, "update", ids, patch)
    <3>1. PICK ids \in SUBSET Contracts, patch \in Deals!Patches : Deals!Request(me, "update", ids, patch)
      BY <2>2
    <3>2. [pc |-> "update", todo |-> ids, patch |-> patch] \in Rows
      BY DEF Rows
    <3> QED BY <3>1, <3>2 DEF Deals!Request, Unmoved
  <2>3. CASE \E ids \in SUBSET Deals!Entered : Deals!Request(me, "delete", ids, {})
    <3>1. PICK ids \in SUBSET Deals!Entered : Deals!Request(me, "delete", ids, {})
      BY <2>3
    <3>2. [pc |-> "delete", todo |-> ids, patch |-> {}] \in Rows
      BY DEF Rows, Deals!Entered
    <3> QED BY <3>1, <3>2 DEF Deals!Request, Unmoved
  <2> QED BY <2>1, <2>2, <2>3
<1>2. c \in Unread /\ Pending(call[me]) = {}
  BY <1>1, Resumes, Opens
<1> QED BY <1>1, <1>2, StoresNothing

LEMMA RowsKeep ==
  ASSUME DealFacts, DealInv,
         \/ \E no \in ContractNos : Deals!create(me, no) \/ Deals!bulkImport(me, no)
         \/ \E id \in Contracts, no \in ContractNos \cup {"keep"} : Deals!update(me, id, no)
  PROVE  DealInv'
<1> DEFINE Follows(b, c) == \/ c = Deals!IdleCall
                            \/ \E x : c = [b EXCEPT !.todo = @ \ {x}]
                            \/ \E job \in [doc: Deals!Contract], back \in Resume :
                                 c = [pc |-> "insert", job |-> job, back |-> back]
                            \/ \E pc \in {"persist", "clash"}, work \in Whole, next \in Resume :
                                 c = [pc |-> pc, job |-> work, back |-> next]
<1>1. PICK b : b = call[me] OBVIOUS
<1>2. Carrying(b) BY <1>1 DEF DealInv
<1>3. ASSUME NEW c, b \in Rows, Follows(b, c) PROVE c \in Unread
  <2>1. CASE c = Deals!IdleCall BY <2>1, <1>3, Resumes
  <2>2. CASE \E x : c = [b EXCEPT !.todo = @ \ {x}] BY <2>2, <1>3, Resumes
  <2>3. CASE \E job \in [doc: Deals!Contract], back \in Resume :
               c = [pc |-> "insert", job |-> job, back |-> back]
    BY <2>3 DEF Unread
  <2>4. CASE \E pc \in {"persist", "clash"}, job \in Whole, back \in Resume :
               c = [pc |-> pc, job |-> job, back |-> back]
    BY <2>4 DEF Unread
  <2> QED BY <1>3, <2>1, <2>2, <2>3, <2>4
<1>4. ASSUME NEW x, NEW pc, NEW job, NEW back, back = [b EXCEPT !.todo = @ \ {x}], b \in Rows,
             Deals!OneOf(me, pc, job, back),
             (pc = "insert" /\ job \in [doc: Deals!Contract]) \/ (pc \in {"persist", "clash"} /\ job \in Whole)
      PROVE  \E c : Follows(b, c) /\ Deals!Goto(me, c)
  <2>1. PICK k : k = IF back.todo = {} THEN Deals!IdleCall ELSE back
    OBVIOUS
  <2>2. k \in Resume /\ Deals!Goto(me, [pc |-> pc, job |-> job, back |-> k])
    BY <1>4, <2>1, Resumes DEF Deals!OneOf
  <2> QED BY <1>4, <2>2
<1>5. ASSUME NEW x, NEW back, back = [b EXCEPT !.todo = @ \ {x}], Deals!Skip(me, back)
      PROVE  \E c : Follows(b, c) /\ Deals!Goto(me, c)
  <2>1. PICK k : k = IF back.todo = {} THEN Deals!IdleCall ELSE back
    OBVIOUS
  <2>2. Deals!Goto(me, k)
    BY <1>5, <2>1 DEF Deals!Skip
  <2> QED BY <1>5, <2>1, <2>2
<1>6. b \in Unread /\ b \in Rows /\ Unmoved /\ \E c : Follows(b, c) /\ Deals!Goto(me, c)
  <2> HIDE DEF Follows
  <2>1. CASE \E no \in ContractNos : Deals!create(me, no)
    <3>1. PICK no \in ContractNos : Deals!create(me, no) BY <2>1
    <3>2. PICK k : k = [b EXCEPT !.todo = @ \ {no}] OBVIOUS
    <3>3. b.pc = "create" /\ (Deals!Skip(me, k) \/ Deals!OneOf(me, "insert", [doc |-> Deals!buildPayload(no, k.patch)], k))
      BY <1>1, <3>1, <3>2, Zenon DEF Deals!create, Deals!At
    <3>4. b \in Unread /\ b \in Rows /\ b.patch \in Deals!Patches
      BY <1>2, <3>3, StagesOf, UnreadFields
    <3>5. k.patch = b.patch BY <3>2, <3>4, Resumes
    <3>6. [doc |-> Deals!buildPayload(no, k.patch)] \in [doc: Deals!Contract]
      BY <3>4, <3>5, PayloadsFit
    <3>7. Unmoved BY <3>1 DEF Deals!create, Unmoved
    <3> QED BY <3>2, <3>3, <3>4, <3>6, <3>7, <1>4, <1>5
  <2>2. CASE \E no \in ContractNos : Deals!bulkImport(me, no)
    <3>1. PICK no \in ContractNos : Deals!bulkImport(me, no) BY <2>2
    <3>2. PICK k : k = [b EXCEPT !.todo = @ \ {no}] OBVIOUS
    <3>3. /\ b.pc = "import"
          /\ \/ \E id \in Deals!WithNo(no) :
                  Deals!OneOf(me, "persist", [id |-> id, doc |-> Deals!applyPatch(contract[id], k.patch)], k)
             \/ \E id \in Deals!Entered :
                  Deals!OneOf(me, "persist", [id |-> id, doc |-> Deals!applyPatch(contract[id], k.patch)], k)
             \/ Deals!OneOf(me, "insert", [doc |-> Deals!buildPayload(no, k.patch)], k)
      BY <1>1, <3>1, <3>2, Zenon DEF Deals!bulkImport, Deals!At
    <3>4. b \in Unread /\ b \in Rows /\ b.patch \in Deals!Patches
      BY <1>2, <3>3, StagesOf, UnreadFields
    <3>5. k.patch = b.patch BY <3>2, <3>4, Resumes
    <3>6. [doc |-> Deals!buildPayload(no, k.patch)] \in [doc: Deals!Contract]
      BY <3>4, <3>5, PayloadsFit
    <3>7. Unmoved BY <3>1 DEF Deals!bulkImport, Unmoved
    <3>8. \A id \in Deals!Entered :
            [id |-> id, doc |-> Deals!applyPatch(contract[id], k.patch)] \in Whole
      BY <3>4, <3>5, PatchesFit, RowsOf DEF DealInv, Whole
    <3>9. \A id \in Deals!WithNo(no) : id \in Deals!Entered
      BY DEF Deals!WithNo
    <3>10. CASE Deals!OneOf(me, "insert", [doc |-> Deals!buildPayload(no, k.patch)], k)
      BY <3>2, <3>4, <3>6, <3>7, <3>10, <1>4
    <3>11. CASE \E id \in Deals!Entered :
                  Deals!OneOf(me, "persist", [id |-> id, doc |-> Deals!applyPatch(contract[id], k.patch)], k)
      BY <3>2, <3>4, <3>7, <3>8, <3>11, <1>4
    <3> QED BY <3>3, <3>9, <3>10, <3>11
  <2>3. CASE \E id \in Contracts, no \in ContractNos \cup {"keep"} : Deals!update(me, id, no)
    <3>1. PICK id \in Contracts, no \in ContractNos \cup {"keep"} : Deals!update(me, id, no) BY <2>3
    <3>2. PICK k : k = [b EXCEPT !.todo = @ \ {id}] OBVIOUS
    <3>3. PICK w : w = [contract[id] EXCEPT !.no = Deals!Or(no, @)] OBVIOUS
    <3>4. /\ b.pc = "update"
          /\ \/ Deals!Skip(me, k)
             \/ /\ id \in Deals!Entered
                /\ Deals!OneOf(me, IF w.no = contract[id].no THEN "persist" ELSE "clash",
                               [id |-> id, doc |-> Deals!applyPatch(w, k.patch)], k)
      BY <1>1, <3>1, <3>2, <3>3, Zenon DEF Deals!update, Deals!At
    <3>5. b \in Unread /\ b \in Rows /\ b.patch \in Deals!Patches
      BY <1>2, <3>4, StagesOf, UnreadFields
    <3>6. k.patch = b.patch BY <3>2, <3>5, Resumes
    <3>7. Unmoved BY <3>1 DEF Deals!update, Unmoved
    <3>8. id \in Deals!Entered => [id |-> id, doc |-> Deals!applyPatch(w, k.patch)] \in Whole
      <4>1. id \in Deals!Entered => contract[id] \in Deals!Contract
        BY RowsOf DEF DealInv
      <4>2. id \in Deals!Entered => w \in Deals!Contract
        BY <3>1, <3>3, <4>1 DEF Deals!Contract, Deals!Or
      <4> QED BY <4>2, <3>5, <3>6, PatchesFit DEF Whole
    <3>9. CASE Deals!Skip(me, k)
      BY <3>2, <3>5, <3>7, <3>9, <1>5
    <3>10. CASE ~Deals!Skip(me, k)
      <4>1. PICK pc \in {"persist", "clash"} :
              Deals!OneOf(me, pc, [id |-> id, doc |-> Deals!applyPatch(w, k.patch)], k)
        BY <3>4, <3>10
      <4>2. [id |-> id, doc |-> Deals!applyPatch(w, k.patch)] \in Whole
        BY <3>4, <3>8, <3>10
      <4> QED BY <3>2, <3>5, <3>7, <4>1, <4>2, <1>4
    <3> QED BY <3>9, <3>10
  <2> QED BY <2>1, <2>2, <2>3
<1> HIDE DEF Follows
<1>7. PICK c : c \in Unread /\ Deals!Goto(me, c)
  BY <1>3, <1>6
<1>8. Pending(call[me]) = {} BY <1>1, <1>6, Unreads
<1> QED BY <1>6, <1>7, <1>8, StoresNothing

\* A request that is done with a row goes on, or ends.
LEMMA DealGoesOn ==
  ASSUME NEW c \in Resume
  PROVE  c \in Unread
BY DEF Unread

\* What the contract of `id` becomes leaves the others in line.
LEMMA OthersAgree ==
  ASSUME DealFacts, DealInv, NEW id \in Contracts, record' = record, apart \ {id} \subseteq apart',
         contract' = [contract EXCEPT ![id] = contract'[id]],
         Pending(call[me]) \subseteq {id}
  PROVE  \A d \in (Deals!Entered' \ apart') \ {id} : Agrees(d)'
<1>1. ASSUME NEW d \in (Deals!Entered' \ apart') \ {id} PROVE Agrees(d)'
  <2>1. d \in (Deals!Entered \ apart) \ Pending(call[me]) /\ contract'[d] = contract[d]
    BY DEF DealInv, DealTypes, Deals!Entered
  <2>2. Agrees(d)
    BY <2>1 DEF DealInv, AllAgree
  <2> QED BY <2>1, <2>2 DEF Agrees, Deals!GuaranteesOf, Deals!Issued
<1> QED BY <1>1

\* A contract may take a number nobody has.
LEMMA TakesNo ==
  ASSUME DealFacts, DealInv, NEW id \in Contracts, NEW rec \in Deals!Contract,
         Deals!WithNo(rec.no) \ {id} = {}, contract' = [contract EXCEPT ![id] = rec]
  PROVE  /\ contract' \in [Contracts -> Deals!Contract \cup {Deals!NoContract}]
         /\ contract'[id] = rec /\ id \in Deals!Entered' /\ NosAreUnique'
<1>1. contract' \in [Contracts -> Deals!Contract \cup {Deals!NoContract}] /\ contract'[id] = rec
  BY DEF DealInv, DealTypes
<1>2. rec # Deals!NoContract
  <2>1. rec.no \in ContractNos BY DEF Deals!Contract
  <2>2. Deals!NoContract.no = "" BY DEF Deals!NoContract
  <2> QED BY <2>1, <2>2 DEF DealFacts
<1>3. \A d \in Contracts : d # id => contract'[d] = contract[d]
  BY DEF DealInv, DealTypes
<1>4. \A d \in Deals!Entered' : d # id => d \in Deals!Entered /\ contract[d].no # rec.no
  BY <1>3 DEF Deals!WithNo, Deals!Entered
<1>5. NosAreUnique'
  BY <1>1, <1>3, <1>4 DEF NosAreUnique, DealInv, Deals!Entered
<1> QED BY <1>1, <1>2, <1>5 DEF Deals!Entered

LEMMA InsertKeeps ==
  ASSUME DealFacts, DealInv, Deals!insert(me)
  PROVE  DealInv'
<1>1. PICK b : b = call[me] OBVIOUS
<1>2. PICK con : con = b.job.doc OBVIOUS
<1>3. /\ b.pc = "insert"
      /\ \/ Deals!Goto(me, b.back) /\ contract' = contract
         \/ /\ Deals!WithNo(con.no) = {}
            /\ \E c \in Contracts \ Deals!Entered :
                 /\ contract' = [contract EXCEPT ![c] = con]
                 /\ Deals!Goto(me, [pc |-> "carry", job |-> [id |-> c, doc |-> con], back |-> b.back])
      /\ record' = record /\ apart' = apart
  BY <1>1, <1>2, Zenon DEF Deals!insert, Deals!At, Deals!Return, Deals!Onward
<1>4. b \in Unread /\ con \in Deals!Contract /\ b.back \in Resume
  BY <1>1, <1>2, <1>3, StagesOf, UnreadFields DEF DealInv
<1>5. Pending(call[me]) = {} BY <1>1, <1>4, Unreads
<1>6. CASE Deals!Goto(me, b.back) /\ contract' = contract
  BY <1>3, <1>4, <1>5, <1>6, DealGoesOn, StoresNothing DEF Unmoved
<1>7. CASE ~(Deals!Goto(me, b.back) /\ contract' = contract)
  <2>1. PICK c \in Contracts \ Deals!Entered :
          /\ contract' = [contract EXCEPT ![c] = con]
          /\ Deals!Goto(me, [pc |-> "carry", job |-> [id |-> c, doc |-> con], back |-> b.back])
    BY <1>3, <1>7
  <2>2. /\ contract' \in [Contracts -> Deals!Contract \cup {Deals!NoContract}]
        /\ contract'[c] = con /\ c \in Deals!Entered' /\ NosAreUnique'
    BY <1>3, <1>4, <1>7, <2>1, TakesNo
  <2>3. PICK k : k = [pc |-> "carry", job |-> [id |-> c, doc |-> con], back |-> b.back] OBVIOUS
  <2>4. Carrying(k)'
    BY <1>4, <2>2, <2>3 DEF Carrying, ToCarry, OfStored, Whole
  <2>5. Pending(k)' = {c}
    BY <2>3 DEF Pending
  <2>6. AllAgree(k)'
    BY <1>3, <1>5, <2>1, <2>2, <2>5, OthersAgree DEF AllAgree
  <2>7. DealTypes' BY <1>3, <2>2 DEF DealInv, DealTypes
  <2> QED BY <2>1, <2>2, <2>3, <2>4, <2>6, <2>7, StandsOn
<1> QED BY <1>6, <1>7

LEMMA PersistKeeps ==
  ASSUME DealFacts, DealInv, Deals!persistContractDocument(me)
  PROVE  DealInv'
<1>1. PICK b : b = call[me] OBVIOUS
<1>2. PICK j : j = b.job OBVIOUS
<1>3. /\ b.pc = "persist"
      /\ \/ Deals!Goto(me, b.back) /\ contract' = contract
         \/ /\ Deals!WithNo(j.doc.no) \ {j.id} = {}
            /\ contract' = [contract EXCEPT ![j.id] = j.doc]
            /\ Deals!Goto(me, [pc |-> "carry", job |-> j, back |-> b.back])
      /\ record' = record /\ apart' = apart
  BY <1>1, <1>2, Zenon DEF Deals!persistContractDocument, Deals!At, Deals!Return, Deals!Onward
<1>4. b \in Unread /\ j \in Whole /\ b.back \in Resume
  BY <1>1, <1>2, <1>3, StagesOf, UnreadFields DEF DealInv
<1>5. Pending(call[me]) = {} BY <1>1, <1>4, Unreads
<1>6. CASE Deals!Goto(me, b.back) /\ contract' = contract
  BY <1>3, <1>4, <1>5, <1>6, DealGoesOn, StoresNothing DEF Unmoved
<1>7. CASE ~(Deals!Goto(me, b.back) /\ contract' = contract)
  <2>1. j.id \in Contracts /\ j.doc \in Deals!Contract BY <1>4 DEF Whole
  <2>2. /\ contract' \in [Contracts -> Deals!Contract \cup {Deals!NoContract}]
        /\ contract'[j.id] = j.doc /\ j.id \in Deals!Entered' /\ NosAreUnique'
    BY <1>3, <1>7, <2>1, TakesNo
  <2>3. PICK k : k = [pc |-> "carry", job |-> j, back |-> b.back] OBVIOUS
  <2>4. Carrying(k)'
    BY <1>4, <2>2, <2>3 DEF Carrying, ToCarry, OfStored
  <2>5. Pending(k)' = {j.id}
    BY <2>3 DEF Pending
  <2>6. contract' = [contract EXCEPT ![j.id] = contract'[j.id]]
    BY <1>3, <1>7, <2>2
  <2>7. AllAgree(k)'
    BY <1>3, <1>5, <2>1, <2>5, <2>6, OthersAgree DEF AllAgree
  <2>8. DealTypes' BY <1>3, <2>2 DEF DealInv, DealTypes
  <2> QED BY <1>3, <1>7, <2>2, <2>3, <2>4, <2>7, <2>8, StandsOn
<1> QED BY <1>6, <1>7

LEMMA ClashKeeps ==
  ASSUME DealFacts, DealInv, Deals!clash(me)
  PROVE  DealInv'
<1>1. PICK b : b = call[me] OBVIOUS
<1>2. /\ b.pc = "clash" /\ Unmoved
      /\ \/ Deals!Goto(me, b.back)
         \/ Deals!Goto(me, [pc |-> "persist", job |-> b.job, back |-> b.back])
  BY <1>1, Zenon DEF Deals!clash, Deals!At, Deals!Return, Deals!Onward, Unmoved
<1>3. b \in Unread /\ b.job \in Whole /\ b.back \in Resume
  BY <1>1, <1>2, StagesOf, UnreadFields DEF DealInv
<1>4. [pc |-> "persist", job |-> b.job, back |-> b.back] \in Unread /\ b.back \in Unread
  BY <1>3, DealGoesOn DEF Unread
<1>5. Pending(call[me]) = {} BY <1>1, <1>3, Unreads
<1> QED BY <1>2, <1>4, <1>5, StoresNothing

LEMMA RemovalKeeps ==
  ASSUME DealFacts, DealInv, NEW id \in Contracts, Deals!delete(me, id)
  PROVE  DealInv'
<1>1. PICK b : b = call[me] OBVIOUS
<1>2. PICK k : k = [b EXCEPT !.todo = @ \ {id}] OBVIOUS
<1>3. /\ b.pc = "delete" /\ record' = record /\ apart' = apart
      /\ contract' = [contract EXCEPT ![id] = Deals!NoContract]
      /\ Deals!Skip(me, k)
  BY <1>1, <1>2, Zenon DEF Deals!delete, Deals!At
<1>4. b \in Unread /\ b \in Rows
  BY <1>1, <1>3, StagesOf, UnreadFields DEF DealInv
<1>5. k \in Unread BY <1>2, <1>4, Resumes
<1>6. PICK c \in Unread : Deals!Goto(me, c)
  <2>1. PICK c : c = IF k.todo = {} THEN Deals!IdleCall ELSE k OBVIOUS
  <2> QED BY <1>3, <1>4, <1>5, <2>1, Resumes DEF Deals!Skip
<1>7. Pending(call[me]) = {} BY <1>1, <1>4, Unreads
<1>8. DealTypes' /\ NosAreUnique' /\ id \notin Deals!Entered'
  BY <1>3 DEF DealInv, DealTypes, NosAreUnique, Deals!Entered
<1>9. contract' = [contract EXCEPT ![id] = contract'[id]]
  BY <1>3 DEF DealInv, DealTypes
<1>10. \A d \in Deals!Entered' \ apart' : Agrees(d)'
  BY <1>3, <1>7, <1>8, <1>9, OthersAgree
<1>11. Carrying(c)' /\ AllAgree(c)'
  BY <1>10, Unreads DEF AllAgree
<1> QED BY <1>6, <1>8, <1>11, StandsOn

\* What becomes of one guarantee leaves the contracts it was not for in line.
LEMMA OneGuarantee ==
  ASSUME DealFacts, DealInv, NEW r \in Records, contract' = contract,
         \A q \in Records : q # r => record'[q] = record[q],
         NEW id \in Deals!Entered, Agrees(id),
         \/ r \notin Deals!GuaranteesOf(id)
         \/ r \in Deals!Issued' /\ record'[r] = record[r]
  PROVE  Agrees(id)'
<1>1. SUFFICES ASSUME contract[id].bgApplicable, contract[id].bgNumber # ""
               PROVE  \E q \in Deals!GuaranteesOf(id)' :
                        record'[q].number = contract[id].bgNumber /\ record'[q].amount = contract[id].bgAmount
  BY DEF Agrees
<1>2. PICK q \in Deals!GuaranteesOf(id) :
        record[q].number = contract[id].bgNumber /\ record[q].amount = contract[id].bgAmount
  BY <1>1 DEF Agrees
<1>3. q \in Records /\ record'[q] = record[q]
  BY <1>2 DEF Deals!GuaranteesOf, Deals!Issued
<1>4. q \in Deals!GuaranteesOf(id)'
  BY <1>2, <1>3 DEF Deals!GuaranteesOf, Deals!Issued
<1> QED BY <1>2, <1>3, <1>4

\* A row takes the place of another, or of none.
LEMMA TakesRecord ==
  ASSUME DealFacts, DealInv, NEW r \in Records, NEW rec \in Deals!Record,
         record' = [record EXCEPT ![r] = rec]
  PROVE  /\ record' \in [Records -> Deals!Record \cup {Deals!NoRecord}]
         /\ record'[r] = rec /\ r \in Deals!Issued'
         /\ \A q \in Records : q # r => record'[q] = record[q]
<1>1. /\ record' \in [Records -> Deals!Record \cup {Deals!NoRecord}] /\ record'[r] = rec
      /\ \A q \in Records : q # r => record'[q] = record[q]
  BY DEF DealInv, DealTypes
<1>2. rec # Deals!NoRecord
  <2>1. rec.number \in Numbers BY DEF Deals!Record
  <2>2. Deals!NoRecord.number = "" BY DEF Deals!NoRecord
  <2> QED BY <2>1, <2>2 DEF DealFacts
<1> QED BY <1>1, <1>2 DEF Deals!Issued

LEMMA CreatesRecord ==
  ASSUME DealFacts, DealInv, NEW rec \in Deals!Record, Deals!createRecord(me, rec)
  PROVE  DealInv'
<1>1. PICK r \in Records \ Deals!Issued : record' = [record EXCEPT ![r] = rec]
  BY DEF Deals!createRecord
<1>2. PICK k : k = [pc |-> "carryBack", job |-> [row |-> rec], back |-> Deals!IdleCall] OBVIOUS
<1>3. Deals!Goto(me, k) /\ contract' = contract /\ apart' = apart /\ Deals!Idle(me)
  BY <1>2 DEF Deals!createRecord
<1>4. /\ record' \in [Records -> Deals!Record \cup {Deals!NoRecord}]
      /\ record'[r] = rec /\ r \in Deals!Issued'
      /\ \A q \in Records : q # r => record'[q] = record[q]
  BY <1>1, TakesRecord
<1>5. DealTypes' /\ NosAreUnique'
  BY <1>3, <1>4 DEF DealInv, DealTypes, NosAreUnique, Deals!Entered
<1>6. Carrying(k)'
  <2>1. ToCarryBack(k)' BY <1>2, <1>4 DEF ToCarryBack, Resume
  <2> QED BY <2>1 DEF Carrying
<1>7. \A id \in Deals!Entered' \ apart' : Agrees(id)'
  <2>1. \A id \in Deals!Entered \ apart : Agrees(id)
    BY <1>3, Opens DEF DealInv, AllAgree
  <2>2. \A id : r \notin Deals!GuaranteesOf(id)
    BY <1>1 DEF Deals!GuaranteesOf
  <2>3. Deals!Entered' = Deals!Entered
    BY <1>3 DEF Deals!Entered
  <2> QED BY <1>1, <1>3, <1>4, <2>1, <2>2, <2>3, OneGuarantee
<1>8. AllAgree(k)' BY <1>7 DEF AllAgree
<1> QED BY <1>3, <1>5, <1>6, <1>8, StandsOn

LEMMA AsksToUpdate ==
  ASSUME DealFacts, DealInv, NEW r \in Records, NEW patch \in Deals!RecordPatches,
         Deals!updateRecord(me, r, patch) \/ Deals!deleteRecord(me, r)
  PROVE  DealInv'
<1>1. Unmoved /\ Deals!Idle(me) /\ r \in Deals!Issued
  BY DEF Deals!updateRecord, Deals!deleteRecord, Unmoved
<1>2. PICK k : Deals!Goto(me, k) /\ (ToSaveRecord(k) \/ ToDelete(k)) /\ Pending(k) = {}
  <2>1. CASE Deals!updateRecord(me, r, patch)
    <3>1. PICK rec : rec = [f \in DOMAIN record[r] |-> Deals!Or(patch[f], record[r][f])] OBVIOUS
    <3>2. PICK k : k = [pc |-> "saveRecord", back |-> Deals!IdleCall,
                        job |-> [r |-> r, row |-> rec, set |-> Deals!Changes(record[r], rec)]] OBVIOUS
    <3>3. Deals!Goto(me, k)
      BY <2>1, <3>1, <3>2, Zenon DEF Deals!updateRecord
    <3>4. record[r] \in Deals!Record
      BY <1>1, RowsOf DEF DealInv
    <3>5. rec \in Deals!Record
      <4>1. /\ DOMAIN record[r] = {"instrumentType", "number", "contractId", "amount"}
            /\ record[r].instrumentType \in {"bg", "dd"} /\ record[r].number \in Numbers
            /\ record[r].contractId \in Contracts \cup {""} /\ record[r].amount \in Amounts \cup {""}
        BY <3>4 DEF Deals!Record
      <4>2. /\ patch.instrumentType \in {"bg", "dd", "keep"} /\ patch.number \in Numbers \cup {"keep"}
            /\ patch.contractId \in Contracts \cup {"", "keep"} /\ patch.amount \in Amounts \cup {"", "keep"}
        BY DEF Deals!RecordPatches
      <4>3. /\ Deals!Or(patch.instrumentType, record[r].instrumentType) \in {"bg", "dd"}
            /\ Deals!Or(patch.number, record[r].number) \in Numbers
            /\ Deals!Or(patch.contractId, record[r].contractId) \in Contracts \cup {""}
            /\ Deals!Or(patch.amount, record[r].amount) \in Amounts \cup {""}
        BY <4>1, <4>2 DEF Deals!Or
      <4>4. /\ DOMAIN rec = {"instrumentType", "number", "contractId", "amount"}
            /\ rec = [f \in {"instrumentType", "number", "contractId", "amount"} |-> rec[f]]
            /\ rec.instrumentType \in {"bg", "dd"} /\ rec.number \in Numbers
            /\ rec.contractId \in Contracts \cup {""} /\ rec.amount \in Amounts \cup {""}
        BY <3>1, <4>1, <4>3
      <4>5. rec = [instrumentType |-> rec.instrumentType, number |-> rec.number,
                   contractId |-> rec.contractId, amount |-> rec.amount]
        BY <4>4
      <4> QED BY <4>4, <4>5 DEF Deals!Record
    <3>6. ToSaveRecord(k)
      BY <1>1, <3>2, <3>5 DEF ToSaveRecord, Resume
    <3> QED BY <3>2, <3>3, <3>6 DEF Pending
  <2>2. CASE Deals!deleteRecord(me, r)
    <3>1. PICK k : k = [pc |-> "deleteOne", job |-> [r |-> r], back |-> Deals!IdleCall] OBVIOUS
    <3>2. Deals!Goto(me, k) BY <2>2, <3>1, Zenon DEF Deals!deleteRecord
    <3>3. ToDelete(k) BY <1>1, <3>1 DEF ToDelete, Resume
    <3> QED BY <3>1, <3>2, <3>3 DEF Pending
  <2> QED BY <2>1, <2>2
<1>3. DealTypes' /\ NosAreUnique'
  BY <1>1 DEF DealInv, Unmoved, DealTypes, NosAreUnique, Deals!Entered
<1>4. ToSaveRecord(k)' \/ ToDelete(k)'
  BY <1>1, <1>2 DEF Unmoved, ToSaveRecord, ToDelete, Deals!Issued
<1>5. Carrying(k)' BY <1>4 DEF Carrying
<1>6. Pending(call[me]) = {} BY <1>1, Opens
<1>7. AllAgree(k)'
  <2>1. \A id \in Deals!Entered \ apart : Agrees(id) BY <1>6 DEF DealInv, AllAgree
  <2> QED BY <1>1, <2>1 DEF AllAgree, Unmoved, Agrees, Deals!Entered, Deals!GuaranteesOf, Deals!Issued
<1> QED BY <1>2, <1>3, <1>5, <1>7, StandsOn

\* A step that stores nothing and leaves only what `c` has yet to do.
LEMMA LooksOn ==
  ASSUME DealFacts, DealInv, Unmoved, NEW c, Deals!Goto(me, c), Carrying(c),
         \A id \in (Deals!Entered \ apart) \ Pending(c) : id \in Pending(call[me]) => Agrees(id)
  PROVE  DealInv'
<1>1. DealTypes' /\ NosAreUnique'
  BY DEF DealInv, Unmoved, DealTypes, NosAreUnique, Deals!Entered
<1>2. Carrying(c)'
  BY DEF Unmoved, Carrying, ToCarry, OfStored, ToSaveFound, ToIssue, ToCarryBack, ToSaveRecord,
         ToWrite, ToDelete, Deals!Entered, Deals!Issued, Deals!GuaranteesOf
<1>3. AllAgree(c)
  BY DEF DealInv, AllAgree
<1>4. AllAgree(c)'
  <2>1. Pending(c)' = Pending(c) BY DEF Pending
  <2>2. (Deals!Entered \ apart)' = Deals!Entered \ apart BY DEF Unmoved, Deals!Entered
  <2>3. \A id : Agrees(id) => Agrees(id)'
    BY DEF Unmoved, Agrees, Deals!GuaranteesOf, Deals!Issued
  <2> QED BY <1>3, <2>1, <2>2, <2>3 DEF AllAgree
<1> QED BY <1>1, <1>2, <1>4, StandsOn

LEMMA CarryKeeps ==
  ASSUME DealFacts, DealInv, Deals!syncFromContract(me)
  PROVE  DealInv'
<1>1. PICK b : b = call[me] OBVIOUS
<1>2. PICK id, con : id = b.job.id /\ con = b.job.doc OBVIOUS
<1>3. b.pc = "carry" /\ Unmoved
  BY <1>1, Zenon DEF Deals!syncFromContract, Deals!At, Unmoved
<1>4. \/ (~con.bgApplicable \/ ~Deals!hasBgPayload(con)) /\ Deals!Goto(me, b.back)
      \/ con.bgNumber = "" /\ Deals!Goto(me, b.back)
      \/ \E r \in Deals!For(id, con) :
           Deals!Goto(me, [pc |-> "saveFound", back |-> b.back,
                           job |-> [id |-> id, r |-> r,
                                    set |-> Deals!Changes(record[r], Deals!Carried(record[r], con))]])
      \/ con.bgNumber # "" /\ Deals!Goto(me, [pc |-> "issue", job |-> [id |-> id, doc |-> con], back |-> b.back])
  BY <1>1, <1>2 DEF Deals!syncFromContract, Deals!At, Deals!Return, Deals!Onward
<1>5. /\ id \in Deals!Entered /\ con = contract[id] /\ b.back \in Resume
      /\ id \in Contracts /\ con \in Deals!Contract /\ Pending(call[me]) = {id}
  <2>1. ToCarry(b) BY <1>1, <1>3, StagesOf DEF DealInv
  <2> QED BY <1>1, <1>2, <2>1, RowsOf DEF DealInv, ToCarry, OfStored, Pending
<1>6. ASSUME NEW r \in Deals!For(id, con), NEW c,
             c = [pc |-> "saveFound", back |-> b.back,
                  job |-> [id |-> id, r |-> r, set |-> Deals!Changes(record[r], Deals!Carried(record[r], con))]]
      PROVE  Carrying(c) /\ Pending(c) = {id}
  <2>1. r \in Deals!GuaranteesOf(id) BY DEF Deals!For
  <2>2. c.pc = "saveFound" /\ c.back = b.back /\ c.job.id = id
        /\ c.job = [id |-> id, r |-> r, set |-> Deals!Changes(record[r], Deals!Carried(record[r], con))]
    BY <1>6
  <2>3. ToSaveFound(c) BY <1>5, <2>1, <2>2 DEF ToSaveFound
  <2> QED BY <2>2, <2>3 DEF Carrying, Pending
<1>7. ASSUME NEW c, con.bgNumber # "", c = [pc |-> "issue", job |-> [id |-> id, doc |-> con], back |-> b.back]
      PROVE  Carrying(c) /\ Pending(c) = {id}
  <2>1. c.pc = "issue" /\ c.back = b.back /\ c.job.id = id /\ c.job.doc = con /\ c.job \in Whole
    BY <1>5, <1>7 DEF Whole
  <2>2. ToIssue(c) BY <1>5, <1>7, <2>1 DEF ToIssue, OfStored
  <2> QED BY <2>1, <2>2 DEF Carrying, Pending
<1>8. PICK c : /\ Deals!Goto(me, c) /\ Carrying(c)
               /\ Pending(c) = {id} \/ (con.bgApplicable => con.bgNumber = "")
  <2>1. CASE Deals!Goto(me, b.back) /\ (con.bgApplicable => con.bgNumber = "")
    BY <1>5, <2>1, DealGoesOn, Unreads
  <2>2. CASE \E r \in Deals!For(id, con) :
               Deals!Goto(me, [pc |-> "saveFound", back |-> b.back,
                               job |-> [id |-> id, r |-> r,
                                        set |-> Deals!Changes(record[r], Deals!Carried(record[r], con))]])
    BY <1>6, <2>2
  <2>3. CASE con.bgNumber # "" /\ Deals!Goto(me, [pc |-> "issue", job |-> [id |-> id, doc |-> con], back |-> b.back])
    BY <1>7, <2>3
  <2> QED BY <1>4, <2>1, <2>2, <2>3 DEF Deals!hasBgPayload
<1>9. (con.bgApplicable => con.bgNumber = "") => Agrees(id)
  BY <1>5 DEF Agrees
<1> QED BY <1>3, <1>5, <1>8, <1>9, LooksOn

LEMMA SaveFoundKeeps ==
  ASSUME DealFacts, DealInv, Deals!saveFound(me)
  PROVE  DealInv'
<1>1. PICK b : b = call[me] OBVIOUS
<1>2. PICK j : j = b.job OBVIOUS
<1>3. /\ b.pc = "saveFound" /\ contract' = contract /\ Deals!Goto(me, b.back)
      /\ j.r \in Deals!Issued =>
           record' = [record EXCEPT ![j.r] = Deals!Written(@, j.set)] /\ apart' = apart \ {j.id}
  BY <1>1, <1>2, Zenon DEF Deals!saveFound, Deals!At, Deals!Return
<1>4. ToSaveFound(b) BY <1>1, <1>3, StagesOf DEF DealInv
<1>5. PICK id \in Deals!Entered : \E r \in Deals!GuaranteesOf(id) :
        j = [id |-> id, r |-> r,
             set |-> Deals!Changes(record[r], Deals!Carried(record[r], contract[id]))]
  BY <1>2, <1>4 DEF ToSaveFound
<1>6. PICK r \in Deals!GuaranteesOf(id) :
        j = [id |-> id, r |-> r,
             set |-> Deals!Changes(record[r], Deals!Carried(record[r], contract[id]))]
  BY <1>5
<1>7. PICK new : new = Deals!Carried(record[r], contract[id]) OBVIOUS
<1>8. /\ r \in Deals!Issued /\ r \in Records /\ id \in Contracts
      /\ record[r] \in Deals!Record /\ contract[id] \in Deals!Contract
      /\ record[r].instrumentType = "bg" /\ record[r].contractId = id
  BY RowsOf DEF DealInv, Deals!GuaranteesOf
<1>9. /\ new \in Deals!Record /\ new.instrumentType = "bg" /\ new.contractId = id
      /\ new.amount = contract[id].bgAmount
      /\ contract[id].bgNumber # "" => new.number = contract[id].bgNumber
  BY <1>7, <1>8 DEF Deals!Carried, Deals!Record, Deals!Contract
<1>10. record' = [record EXCEPT ![r] = new] /\ apart' = apart \ {id}
  <2>1. Deals!Written(record[r], j.set) = new
    BY <1>6, <1>7, <1>8, <1>9, WritesWhatIsMeant
  <2>2. j.r = r /\ j.id = id BY <1>6
  <2> QED BY <1>3, <1>8, <2>1, <2>2 DEF DealInv, DealTypes
<1>11. /\ record' \in [Records -> Deals!Record \cup {Deals!NoRecord}]
       /\ record'[r] = new /\ r \in Deals!Issued'
       /\ \A q \in Records : q # r => record'[q] = record[q]
  BY <1>8, <1>9, <1>10, TakesRecord
<1>12. DealTypes' /\ NosAreUnique'
  BY <1>3, <1>10, <1>11 DEF DealInv, DealTypes, NosAreUnique, Deals!Entered
<1>13. b.back \in Unread BY <1>4, DealGoesOn DEF ToSaveFound
<1>14. Pending(call[me]) = {id} BY <1>1, <1>2, <1>3, <1>6 DEF Pending
<1>15. AllAgree(b.back)'
  <2>1. SUFFICES ASSUME NEW d \in Deals!Entered' \ apart' PROVE Agrees(d)'
    BY DEF AllAgree
  <2>2. d \in Deals!Entered BY <1>3 DEF Deals!Entered
  <2>3. CASE d = id
    <3>1. r \in Deals!GuaranteesOf(id)'
      BY <1>9, <1>11 DEF Deals!GuaranteesOf
    <3> QED BY <1>3, <1>9, <1>11, <2>3, <3>1 DEF Agrees
  <2>4. CASE d # id
    <3>1. Agrees(d) BY <1>10, <1>14, <2>2, <2>4 DEF DealInv, AllAgree
    <3>2. r \notin Deals!GuaranteesOf(d) BY <1>8, <2>4 DEF Deals!GuaranteesOf
    <3> QED BY <1>3, <1>8, <1>11, <2>2, <3>1, <3>2, OneGuarantee
  <2> QED BY <2>3, <2>4
<1>16. Carrying(b.back)' BY <1>13, Unreads
<1> QED BY <1>3, <1>12, <1>15, <1>16, StandsOn

LEMMA IssueKeeps ==
  ASSUME DealFacts, DealInv, Deals!issue(me)
  PROVE  DealInv'
<1>1. PICK b : b = call[me] OBVIOUS
<1>2. PICK id, con : id = b.job.id /\ con = b.job.doc OBVIOUS
<1>3. /\ b.pc = "issue" /\ contract' = contract /\ Deals!Goto(me, b.back) /\ apart' = apart \ {id}
      /\ \E r \in Records \ Deals!Issued :
           record' = [record EXCEPT ![r] = [instrumentType |-> "bg", number |-> con.bgNumber,
                                            contractId |-> id, amount |-> con.bgAmount]]
  BY <1>1, <1>2, Zenon DEF Deals!issue, Deals!At, Deals!Return
<1>4. PICK r \in Records \ Deals!Issued :
        record' = [record EXCEPT ![r] = [instrumentType |-> "bg", number |-> con.bgNumber,
                                         contractId |-> id, amount |-> con.bgAmount]]
  BY <1>3
<1>5. PICK new : new = [instrumentType |-> "bg", number |-> con.bgNumber,
                        contractId |-> id, amount |-> con.bgAmount] OBVIOUS
<1>6. /\ id \in Deals!Entered /\ con = contract[id] /\ b.back \in Resume /\ con.bgNumber # ""
      /\ id \in Contracts /\ con \in Deals!Contract /\ Pending(call[me]) = {id}
  <2>1. ToIssue(b) BY <1>1, <1>3, StagesOf DEF DealInv
  <2> QED BY <1>1, <1>2, <2>1, RowsOf DEF DealInv, ToIssue, OfStored, Pending
<1>7. new \in Deals!Record
  BY <1>5, <1>6 DEF Deals!Record, Deals!Contract
<1>8. /\ record' \in [Records -> Deals!Record \cup {Deals!NoRecord}]
      /\ record'[r] = new /\ r \in Deals!Issued'
      /\ \A q \in Records : q # r => record'[q] = record[q]
  BY <1>4, <1>5, <1>7, TakesRecord
<1>9. DealTypes' /\ NosAreUnique'
  BY <1>3, <1>8 DEF DealInv, DealTypes, NosAreUnique, Deals!Entered
<1>10. AllAgree(b.back)'
  <2>1. SUFFICES ASSUME NEW d \in Deals!Entered' \ apart' PROVE Agrees(d)'
    BY DEF AllAgree
  <2>2. d \in Deals!Entered BY <1>3 DEF Deals!Entered
  <2>3. CASE d = id
    <3>1. r \in Deals!GuaranteesOf(id)'
      BY <1>5, <1>8 DEF Deals!GuaranteesOf
    <3>2. record'[r].number = contract'[id].bgNumber /\ record'[r].amount = contract'[id].bgAmount
      <4>1. new.number = con.bgNumber /\ new.amount = con.bgAmount BY <1>5
      <4>2. contract'[id] = con BY <1>3, <1>6
      <4> QED BY <1>8, <4>1, <4>2
    <3>3. Agrees(id)' BY <3>1, <3>2 DEF Agrees
    <3> QED BY <2>3, <3>3
  <2>4. CASE d # id
    <3>1. Agrees(d) BY <1>3, <1>6, <2>2, <2>4 DEF DealInv, AllAgree
    <3>2. r \notin Deals!GuaranteesOf(d) BY DEF Deals!GuaranteesOf
    <3> QED BY <1>3, <1>8, <2>2, <3>1, <3>2, OneGuarantee
  <2> QED BY <2>3, <2>4
<1>11. Carrying(b.back)' BY <1>6, DealGoesOn, Unreads
<1> QED BY <1>3, <1>9, <1>10, <1>11, StandsOn

LEMMA SaveRecordKeeps ==
  ASSUME DealFacts, DealInv, Deals!saveRecord(me)
  PROVE  DealInv'
<1>1. PICK b : b = call[me] OBVIOUS
<1>2. PICK j : j = b.job OBVIOUS
<1>3. /\ b.pc = "saveRecord" /\ contract' = contract
      /\ j.r \in Deals!Issued =>
           /\ record' = [record EXCEPT ![j.r] = Deals!Written(@, j.set)]
           /\ apart' = apart \cup Deals!Left(record[j.r], j.row)
           /\ Deals!Goto(me, [pc |-> "carryBack", job |-> [row |-> j.row], back |-> b.back])
  BY <1>1, <1>2, Zenon DEF Deals!saveRecord, Deals!At, Deals!Onward
<1>4. ToSaveRecord(b) BY <1>1, <1>3, StagesOf DEF DealInv
<1>5. PICK r \in Deals!Issued, rec \in Deals!Record :
        j = [r |-> r, row |-> rec, set |-> Deals!Changes(record[r], rec)]
  BY <1>2, <1>4 DEF ToSaveRecord
<1>6. r \in Records /\ record[r] \in Deals!Record
  BY RowsOf DEF DealInv
<1>7. PICK k : k = [pc |-> "carryBack", job |-> [row |-> rec], back |-> b.back] OBVIOUS
<1>8. /\ record' = [record EXCEPT ![r] = rec] /\ Deals!Goto(me, k)
      /\ apart' = apart \cup Deals!Left(record[r], rec)
  <2>1. j.r = r /\ j.row = rec /\ j.set = Deals!Changes(record[r], rec) BY <1>5
  <2>2. Deals!Written(record[r], j.set) = rec BY <1>6, <2>1, WritesWhatIsMeant
  <2> QED BY <1>3, <1>6, <1>7, <2>1, <2>2 DEF DealInv, DealTypes
<1>9. /\ record' \in [Records -> Deals!Record \cup {Deals!NoRecord}]
      /\ record'[r] = rec /\ r \in Deals!Issued'
      /\ \A q \in Records : q # r => record'[q] = record[q]
  BY <1>6, <1>8, TakesRecord
<1>10. DealTypes' /\ NosAreUnique'
  <2>1. apart' \in SUBSET Contracts BY <1>8 DEF DealInv, DealTypes, Deals!Left
  <2> QED BY <1>3, <1>9, <2>1 DEF DealInv, DealTypes, NosAreUnique, Deals!Entered
<1>11. k.pc = "carryBack" /\ k.job = [row |-> rec] /\ k.back = b.back /\ k.job.row = rec
  BY <1>7
<1>12. Carrying(k)'
  <2>1. ToCarryBack(k)' BY <1>4, <1>9, <1>11 DEF ToCarryBack, ToSaveRecord
  <2> QED BY <2>1 DEF Carrying
<1>13. Pending(call[me]) = {} BY <1>1, <1>3 DEF Pending
<1>14. AllAgree(k)'
  <2>1. SUFFICES ASSUME NEW d \in (Deals!Entered' \ apart') \ Pending(k)' PROVE Agrees(d)'
    BY DEF AllAgree
  <2>2. d \in Deals!Entered /\ d \in Contracts /\ d \notin apart
    BY <1>3, <1>8 DEF Deals!Entered
  <2>3. Agrees(d) BY <1>13, <2>2 DEF DealInv, AllAgree
  <2>4. r \notin Deals!GuaranteesOf(d)
    <3>1. SUFFICES ASSUME record[r].instrumentType = "bg", record[r].contractId = d PROVE FALSE
      BY DEF Deals!GuaranteesOf
    <3>2. d \notin Deals!Left(record[r], rec) BY <1>8
    <3>3. rec.instrumentType = "bg" /\ rec.contractId = d
      BY <2>2, <3>1, <3>2 DEF Deals!Left
    <3>4. Pending(k)' = {d} BY <1>11, <3>3 DEF Pending
    <3> QED BY <3>4
  <2> QED BY <1>3, <1>6, <1>9, <2>2, <2>3, <2>4, OneGuarantee
<1> QED BY <1>8, <1>10, <1>12, <1>14, StandsOn

LEMMA CarryBackKeeps ==
  ASSUME DealFacts, DealInv, Deals!syncFromBgRecord(me)
  PROVE  DealInv'
<1>1. PICK b : b = call[me] OBVIOUS
<1>2. PICK rec : rec = b.job.row OBVIOUS
<1>3. PICK con : con = [contract[rec.contractId] EXCEPT !.bgApplicable = TRUE, !.bgNumber = rec.number,
                                                        !.bgAmount = rec.amount] OBVIOUS
<1>4. /\ b.pc = "carryBack" /\ Unmoved
      /\ IF rec.instrumentType = "bg" /\ rec.contractId \in Deals!Entered
         THEN Deals!Goto(me, [pc |-> "writeContract", job |-> [id |-> rec.contractId, doc |-> con], back |-> b.back])
         ELSE Deals!Goto(me, b.back)
  BY <1>1, <1>2, <1>3, Zenon DEF Deals!syncFromBgRecord, Deals!At, Deals!Return, Deals!Onward, Unmoved
<1>5. ToCarryBack(b) BY <1>1, <1>4, StagesOf DEF DealInv
<1>6. PICK r \in Deals!Issued : rec = record[r]
  BY <1>2, <1>5 DEF ToCarryBack
<1>7. rec \in Deals!Record /\ b.back \in Resume
  BY <1>5, <1>6, RowsOf DEF DealInv, ToCarryBack
<1>8. CASE rec.instrumentType = "bg" /\ rec.contractId \in Deals!Entered
  <2>1. PICK id : id = rec.contractId OBVIOUS
  <2>2. PICK k : k = [pc |-> "writeContract", job |-> [id |-> id, doc |-> con], back |-> b.back] OBVIOUS
  <2>3. k.pc = "writeContract" /\ k.job = [id |-> id, doc |-> con] /\ k.job.id = id /\ k.job.doc = con /\ k.back = b.back
    BY <2>2
  <2>4. id \in Deals!Entered /\ id \in Contracts /\ contract[id] \in Deals!Contract
    BY <1>8, <2>1, RowsOf DEF DealInv
  <2>5. rec.number \in Numbers /\ rec.amount \in Amounts \cup {""}
    BY <1>7 DEF Deals!Record
  <2>6. con = [no |-> contract[id].no, bgApplicable |-> TRUE, bgNumber |-> rec.number, bgAmount |-> rec.amount]
    BY <1>3, <2>1, <2>4 DEF Deals!Contract
  <2>7. con \in Deals!Contract /\ con.no = contract[id].no /\ con.bgNumber = rec.number /\ con.bgAmount = rec.amount
    BY <2>4, <2>5, <2>6 DEF Deals!Contract
  <2>8. r \in Deals!GuaranteesOf(id)
    BY <1>6, <1>8, <2>1 DEF Deals!GuaranteesOf
  <2>9. ToWrite(k)
    <3>1. k.job \in Whole BY <2>3, <2>4, <2>7 DEF Whole
    <3>2. record[r].number = con.bgNumber /\ record[r].amount = con.bgAmount BY <1>6, <2>7
    <3> QED BY <1>7, <2>3, <2>4, <2>7, <2>8, <3>1, <3>2 DEF ToWrite
  <2>10. Pending(call[me]) = {id} BY <1>1, <1>2, <1>4, <1>8, <2>1 DEF Pending
  <2>11. Pending(k) = {id} BY <2>3 DEF Pending
  <2>12. Carrying(k) BY <2>9 DEF Carrying
  <2> QED BY <1>4, <1>8, <2>1, <2>2, <2>10, <2>11, <2>12, LooksOn
<1>9. CASE ~(rec.instrumentType = "bg" /\ rec.contractId \in Deals!Entered)
  <2>1. \A id \in Deals!Entered : id \notin Pending(call[me])
    BY <1>1, <1>2, <1>4, <1>9 DEF Pending
  <2>2. Carrying(b.back) BY <1>7, DealGoesOn, Unreads
  <2> QED BY <1>4, <1>9, <2>1, <2>2, LooksOn
<1> QED BY <1>8, <1>9

LEMMA WriteKeeps ==
  ASSUME DealFacts, DealInv, Deals!writeContract(me)
  PROVE  DealInv'
<1>1. PICK b : b = call[me] OBVIOUS
<1>2. PICK j : j = b.job OBVIOUS
<1>3. /\ b.pc = "writeContract" /\ Deals!Goto(me, b.back)
      /\ contract' = IF j.id \in Deals!Entered /\ Deals!WithNo(j.doc.no) \ {j.id} = {}
                     THEN [contract EXCEPT ![j.id] = j.doc] ELSE contract
      /\ apart' = apart \ {j.id} /\ record' = record
  BY <1>1, <1>2, Zenon DEF Deals!writeContract, Deals!At, Deals!Return
<1>4. ToWrite(b) BY <1>1, <1>3, StagesOf DEF DealInv
<1>5. /\ j.id \in Contracts /\ j.doc \in Deals!Contract /\ b.back \in Resume
      /\ j.id \in Deals!Entered /\ j.doc.no = contract[j.id].no
  BY <1>2, <1>4 DEF ToWrite, Whole
<1>6. PICK r \in Deals!GuaranteesOf(j.id) :
        record[r].number = j.doc.bgNumber /\ record[r].amount = j.doc.bgAmount
  BY <1>2, <1>4 DEF ToWrite
<1>7. Deals!WithNo(j.doc.no) \ {j.id} = {}
  BY <1>5 DEF DealInv, NosAreUnique, Deals!WithNo
<1>8. contract' = [contract EXCEPT ![j.id] = j.doc] BY <1>3, <1>5, <1>7
<1>9. /\ contract' \in [Contracts -> Deals!Contract \cup {Deals!NoContract}]
      /\ contract'[j.id] = j.doc /\ j.id \in Deals!Entered' /\ NosAreUnique'
  BY <1>5, <1>7, <1>8, TakesNo
<1>10. DealTypes' BY <1>3, <1>9 DEF DealInv, DealTypes
<1>11. contract' = [contract EXCEPT ![j.id] = contract'[j.id]]
  BY <1>8, <1>9
<1>12. Pending(call[me]) = {j.id} BY <1>1, <1>2, <1>3 DEF Pending
<1>13. Agrees(j.id)'
  <2>1. r \in Deals!GuaranteesOf(j.id)' BY <1>3 DEF Deals!GuaranteesOf, Deals!Issued
  <2>2. record'[r].number = contract'[j.id].bgNumber /\ record'[r].amount = contract'[j.id].bgAmount
    BY <1>3, <1>6, <1>9
  <2> QED BY <2>1, <2>2 DEF Agrees
<1>14. \A d \in (Deals!Entered' \ apart') \ {j.id} : Agrees(d)'
  BY <1>3, <1>5, <1>11, <1>12, OthersAgree
<1>15. AllAgree(b.back)' BY <1>13, <1>14 DEF AllAgree
<1>16. Carrying(b.back)' BY <1>5, DealGoesOn, Unreads
<1> QED BY <1>3, <1>9, <1>10, <1>15, <1>16, StandsOn

LEMMA DeletesRecord ==
  ASSUME DealFacts, DealInv, Deals!deleteOne(me)
  PROVE  DealInv'
<1>1. PICK b : b = call[me] OBVIOUS
<1>2. PICK r : r = b.job.r OBVIOUS
<1>3. /\ b.pc = "deleteOne" /\ contract' = contract /\ Deals!Goto(me, b.back)
      /\ record' = [record EXCEPT ![r] = Deals!NoRecord]
      /\ r \in Deals!Issued => apart' = apart \cup Deals!Left(record[r], [instrumentType |-> "none"])
  BY <1>1, <1>2, Zenon DEF Deals!deleteOne, Deals!At, Deals!Return
<1>4. ToDelete(b) BY <1>1, <1>3, StagesOf DEF DealInv
<1>5. r \in Deals!Issued /\ r \in Records /\ b.back \in Resume
  BY <1>2, <1>4, RowsOf DEF ToDelete
<1>6. apart' = apart \cup (IF record[r].instrumentType = "bg" THEN {record[r].contractId} \cap Contracts ELSE {})
  BY <1>3, <1>5 DEF Deals!Left
<1>7. /\ record' \in [Records -> Deals!Record \cup {Deals!NoRecord}]
      /\ \A q \in Records : q # r => record'[q] = record[q]
  BY <1>3 DEF DealInv, DealTypes
<1>8. DealTypes' /\ NosAreUnique'
  BY <1>3, <1>6, <1>7 DEF DealInv, DealTypes, NosAreUnique, Deals!Entered
<1>9. Pending(call[me]) = {} BY <1>1, <1>3 DEF Pending
<1>10. AllAgree(b.back)'
  <2>1. SUFFICES ASSUME NEW d \in Deals!Entered' \ apart' PROVE Agrees(d)'
    BY DEF AllAgree
  <2>2. d \in Deals!Entered /\ d \in Contracts /\ d \notin apart
    BY <1>3, <1>6 DEF Deals!Entered
  <2>3. Agrees(d) BY <1>9, <2>2 DEF DealInv, AllAgree
  <2>4. r \notin Deals!GuaranteesOf(d)
    BY <1>6, <2>2 DEF Deals!GuaranteesOf
  <2> QED BY <1>3, <1>5, <1>7, <2>2, <2>3, <2>4, OneGuarantee
<1>11. Carrying(b.back)' BY <1>5, DealGoesOn, Unreads
<1> QED BY <1>3, <1>8, <1>10, <1>11, StandsOn

LEMMA CrashKeeps ==
  ASSUME DealFacts, DealInv, Deals!Crash
  PROVE  DealInv'
<1>1. PICK b : b = call[me] OBVIOUS
<1>2. Carrying(b) BY <1>1 DEF DealInv
<1>3. /\ contract' = contract /\ record' = record
      /\ apart' = apart \cup UNION {Deals!Cut(call[h]) : h \in Handlers}
      /\ call' = [h \in Handlers |-> Deals!IdleCall]
  BY DEF Deals!Crash
<1>4. apart' = apart \cup Deals!Cut(b)
  BY <1>1, <1>3 DEF DealFacts
<1>5. Deals!Cut(b) \subseteq Contracts /\ \A id \in Contracts : id \in Pending(b) => id \in Deals!Cut(b)
  <2>1. b.pc \in {"carry", "saveFound", "issue", "writeContract"} => b.job.id \in Contracts
    <3>1. b.pc = "saveFound" => b.job.id \in Contracts
      <4>1. SUFFICES ASSUME b.pc = "saveFound" PROVE b.job.id \in Contracts
        OBVIOUS
      <4>2. ToSaveFound(b) BY <1>2, <4>1, StagesOf
      <4>3. PICK id \in Deals!Entered : \E r \in Deals!GuaranteesOf(id) :
              b.job = [id |-> id, r |-> r,
                       set |-> Deals!Changes(record[r], Deals!Carried(record[r], contract[id]))]
        BY <4>2 DEF ToSaveFound
      <4>4. b.job.id = id BY <4>3
      <4> QED BY <4>4, RowsOf
    <3> QED BY <1>2, <3>1, StagesOf DEF ToCarry, ToIssue, ToWrite, OfStored, Whole
  <2> QED BY <2>1 DEF Deals!Cut, Pending
<1>6. DealTypes' /\ NosAreUnique'
  BY <1>3, <1>4, <1>5 DEF DealInv, DealTypes, NosAreUnique, Deals!Entered
<1>7. \A id \in Deals!Entered' \ apart' : Agrees(id)'
  <2>1. SUFFICES ASSUME NEW id \in Deals!Entered' \ apart' PROVE Agrees(id)'
    OBVIOUS
  <2>2. id \in (Deals!Entered \ apart) \ Pending(b)
    BY <1>3, <1>4, <1>5 DEF Deals!Entered
  <2>3. Agrees(id) BY <1>1, <2>2 DEF DealInv, AllAgree
  <2> QED BY <1>3, <2>3 DEF Agrees, Deals!GuaranteesOf, Deals!Issued
<1>8. PICK c : c = Deals!IdleCall OBVIOUS
<1>9. call'[me] = c /\ DOMAIN call' = Handlers /\ call' = [h \in Handlers |-> call'[h]]
  BY <1>3, <1>8 DEF DealFacts
<1>10. Carrying(c)' BY <1>8, Unreads DEF Unread, Resume
<1>11. AllAgree(c)' BY <1>7 DEF AllAgree
<1>12. Carrying(call[me])' /\ AllAgree(call[me])' BY <1>9, <1>10, <1>11
<1> QED BY <1>6, <1>9, <1>12 DEF DealInv

LEMMA DealSteps ==
  ASSUME DealFacts, DealInv, [Deals!Next]_Deals!vars
  PROVE  DealInv'
<1>1. CASE \E h \in Handlers : Deals!Ask(h)
  <2>1. Deals!Ask(me) BY <1>1 DEF DealFacts
  <2>2. CASE \/ \E nos \in SUBSET ContractNos, patch \in Deals!Patches :
                  \/ \E no \in ContractNos : nos = {no} /\ Deals!Request(me, "create", nos, patch)
                  \/ Deals!Request(me, "import", nos, patch)
             \/ \E ids \in SUBSET Contracts, patch \in Deals!Patches : Deals!Request(me, "update", ids, patch)
             \/ \E ids \in SUBSET Deals!Entered : Deals!Request(me, "delete", ids, {})
    BY <2>2, RequestKeeps
  <2>3. CASE \E rec \in Deals!Record : Deals!createRecord(me, rec)
    BY <2>3, CreatesRecord
  <2>4. CASE \E r \in Records, patch \in Deals!RecordPatches : Deals!updateRecord(me, r, patch)
    BY <2>4, AsksToUpdate
  <2>5. CASE \E r \in Records : Deals!deleteRecord(me, r)
    <3>1. CASE Deals!RecordPatches # {} BY <2>5, <3>1, AsksToUpdate
    <3>2. CASE Deals!RecordPatches = {}
      <4>1. [number |-> "keep", amount |-> "keep", contractId |-> "keep", instrumentType |-> "keep"]
              \in Deals!RecordPatches
        BY DEF Deals!RecordPatches
      <4> QED BY <3>2, <4>1
    <3> QED BY <3>1, <3>2
  <2> QED BY <2>1, <2>2, <2>3, <2>4, <2>5 DEF Deals!Ask
<1>2. CASE \E h \in Handlers : Deals!Work(h)
  <2>1. Deals!Work(me) BY <1>2 DEF DealFacts
  <2>2. CASE \/ \E no \in ContractNos : Deals!create(me, no) \/ Deals!bulkImport(me, no)
             \/ \E id \in Contracts, no \in ContractNos \cup {"keep"} : Deals!update(me, id, no)
    BY <2>2, RowsKeep
  <2>3. CASE \E id \in Contracts : Deals!delete(me, id)
    BY <2>3, RemovalKeeps
  <2>4. CASE Deals!insert(me) \/ Deals!clash(me) \/ Deals!persistContractDocument(me)
    BY <2>4, InsertKeeps, ClashKeeps, PersistKeeps
  <2>5. CASE Deals!syncFromContract(me) \/ Deals!saveFound(me) \/ Deals!issue(me)
    BY <2>5, CarryKeeps, SaveFoundKeeps, IssueKeeps
  <2>6. CASE Deals!deleteOne(me) \/ Deals!saveRecord(me) \/ Deals!syncFromBgRecord(me) \/ Deals!writeContract(me)
    BY <2>6, DeletesRecord, SaveRecordKeeps, CarryBackKeeps, WriteKeeps
  <2> QED BY <2>1, <2>2, <2>3, <2>4, <2>5, <2>6 DEF Deals!Work
<1>3. CASE Deals!Crash
  BY <1>3, CrashKeeps
<1>4. CASE UNCHANGED Deals!vars
  <2>1. Unmoved /\ call' = call BY <1>4 DEF Deals!vars, Unmoved
  <2>2. Deals!Goto(me, call[me]) BY <2>1 DEF DealInv, DealFacts, Deals!Goto
  <2>3. Carrying(call[me]) BY DEF DealInv
  <2> QED BY <2>1, <2>2, <2>3, LooksOn
<1> QED BY <1>1, <1>2, <1>3, <1>4 DEF Deals!Next

LEMMA DealStarts ==
  ASSUME DealFacts, Deals!Init
  PROVE  DealInv
<1>1. DealTypes /\ Deals!Entered = {}
  BY DEF Deals!Init, DealTypes, Deals!Entered
<1>2. call[me] = Deals!IdleCall /\ DOMAIN call = Handlers /\ call = [h \in Handlers |-> call[h]]
  BY DEF Deals!Init, DealFacts
<1>3. Carrying(call[me]) BY <1>2 DEF Carrying, Unread, Resume
<1> QED BY <1>1, <1>2, <1>3 DEF DealInv, NosAreUnique, AllAgree

\* With one request at a time, a contract at rest that shows a guarantee has one
\* of that number and amount in the register, unless it was removed or moved
\* there or a crash cut the two off: for any number of contracts, guarantees
\* and crashes (contracts.service.ts, contract-bg-sync.service.ts).
THEOREM GuaranteesAgreeAlways ==
  ASSUME DealFacts
  PROVE  Deals!Spec => [](Deals!TypeOK /\ Deals!GuaranteesAgree)
<1>1. Deals!Init => DealInv
  BY DealStarts
<1>2. DealInv /\ [Deals!Next]_Deals!vars => DealInv'
  BY DealSteps
<1>3. DealInv => Deals!TypeOK /\ Deals!GuaranteesAgree
  <2> SUFFICES ASSUME DealInv PROVE Deals!TypeOK /\ Deals!GuaranteesAgree
    OBVIOUS
  <2>1. Deals!TypeOK
    BY RowsOf DEF DealInv, DealTypes, Deals!TypeOK
  <2>2. ASSUME Deals!Quiet, NEW c \in Deals!Entered \ apart PROVE Agrees(c)
    <3>1. Deals!Idle(me) BY <2>2 DEF Deals!Quiet, DealFacts
    <3> QED BY <2>2, <3>1, Opens DEF DealInv, AllAgree
  <2> QED BY <2>1, <2>2 DEF Deals!GuaranteesAgree, Agrees
<1> QED BY <1>1, <1>2, <1>3, PTL DEF Deals!Spec

-----------------------------------------------------------------------------
(* Renewals: what an import found is still so when it writes.                *)

SheetFacts == Handlers = {me} /\ Items \subseteq Sheets!Asked

Undated(new) == ~new.hasExpiry => new.expiresOn = ""
\* A row that makes a record has found none of its own, and one that changes a
\* record leaves it about the same thing.
ToMake(c) ==
  /\ c.pc = "create" /\ c.item \in Items /\ Sheets!Importable(c.item)
  /\ \A r \in Sheets!Kept \ byHand : r \notin Sheets!renewalMatchQuery(c.item)
ToChange(c) ==
  /\ c.pc = "save" /\ c.r \in Sheets!Kept /\ c.hand \in BOOLEAN
  /\ \E new \in Sheets!Renewal :
       /\ c.set = Sheets!Changes(renewal[c.r], new) /\ Undated(new)
       /\ ~c.hand => Sheets!SameThing(renewal[c.r], new)
ByNow(c) == c = Sheets!IdleCall \/ ToMake(c) \/ ToChange(c)

SheetTypes ==
  /\ renewal \in [Ids -> Sheets!Renewal \cup {Sheets!NoRenewal}]
  /\ byHand \subseteq Sheets!Kept
SheetInv ==
  /\ SheetTypes /\ Sheets!ImportsFindTheirs
  /\ DOMAIN call = Handlers /\ call = [h \in Handlers |-> call[h]]
  /\ ByNow(call[me])

LEMMA KeptRows ==
  /\ \A r \in Sheets!Kept : r \in Ids
  /\ SheetTypes => \A r \in Sheets!Kept : renewal[r] \in Sheets!Renewal
BY DEF Sheets!Kept, SheetTypes

LEMMA RecordIsNotNone ==
  ASSUME NEW new \in Sheets!Renewal
  PROVE  new # Sheets!NoRenewal
<1>1. new.category \in {"car_papers", "it_renewals", "licenses"}
  BY DEF Sheets!Renewal, Sheets!Categories, Sheets!SubTypesOf
<1>2. Sheets!NoRenewal.category = "none" BY DEF Sheets!NoRenewal
<1> QED BY <1>1, <1>2

LEMMA SheetCallTo ==
  ASSUME SheetFacts, SheetInv, NEW c, Sheets!Goto(me, c)
  PROVE  call'[me] = c /\ DOMAIN call' = Handlers /\ call' = [h \in Handlers |-> call'[h]]
BY DEF SheetFacts, SheetInv, Sheets!Goto

LEMMA SheetGoesOn ==
  ASSUME SheetFacts, SheetInv, NEW c, Sheets!Goto(me, c),
         SheetTypes', Sheets!ImportsFindTheirs', ByNow(c)'
  PROVE  SheetInv'
<1>1. call'[me] = c /\ DOMAIN call' = Handlers /\ call' = [h \in Handlers |-> call'[h]]
  BY SheetCallTo
<1>2. ByNow(call[me])' BY <1>1
<1> QED BY <1>1, <1>2 DEF SheetInv

\* What save() sends makes of a record that nobody changed the one meant.
LEMMA MakesWhatIsMeant ==
  ASSUME NEW a \in Sheets!Renewal, NEW b \in Sheets!Renewal
  PROVE  Sheets!Written(a, Sheets!Changes(a, b)) = b
<1> DEFINE FormFields == {"category", "subType", "title", "clientName", "ownerType", "hasExpiry", "expiresOn"}
           set == Sheets!Changes(a, b)
<1>1. DOMAIN a = FormFields /\ b = [f \in FormFields |-> b[f]]
  BY DEF Sheets!Renewal
<1>2. DOMAIN set = {g \in FormFields : b[g] # a[g]} /\ \A f \in DOMAIN set : set[f] = b[f]
  BY <1>1 DEF Sheets!Changes
<1> HIDE DEF set
<1>3. Sheets!Written(a, set) = [f \in FormFields |-> IF f \in DOMAIN set THEN set[f] ELSE a[f]]
  BY <1>1 DEF Sheets!Written
<1>4. \A f \in FormFields : (IF f \in DOMAIN set THEN set[f] ELSE a[f]) = b[f]
  BY <1>2
<1>5. [f \in FormFields |-> IF f \in DOMAIN set THEN set[f] ELSE a[f]] = [f \in FormFields |-> b[f]]
  BY <1>4
<1> QED BY <1>1, <1>3, <1>5 DEF set

LEMMA DatesResolve ==
  ASSUME NEW a \in Sheets!Renewal, NEW has \in {"", "yes", "no"}, NEW on \in Sheets!Dates
  PROVE  LET b == Sheets!resolveDates(a, has, on)
         IN /\ b \in Sheets!Renewal /\ Undated(b)
            /\ b.category = a.category /\ b.subType = a.subType /\ b.title = a.title
            /\ b.ownerType = a.ownerType /\ b.clientName = a.clientName
<1>1. PICK on1 \in Sheets!Dates, has1 \in BOOLEAN :
        /\ Sheets!resolveDates(a, has, on) = [a EXCEPT !.hasExpiry = has1, !.expiresOn = on1]
        /\ ~has1 => on1 = ""
  <2>1. (has # "no" /\ (has = "yes" \/ on # "")) \in BOOLEAN OBVIOUS
  <2>2. "" \in Sheets!Dates BY DEF Sheets!Dates
  <2> QED BY <2>1, <2>2 DEF Sheets!resolveDates
<1>2. PICK b : b = [a EXCEPT !.hasExpiry = has1, !.expiresOn = on1] OBVIOUS
<1>3. /\ b \in Sheets!Renewal /\ b.hasExpiry = has1 /\ b.expiresOn = on1
      /\ b.category = a.category /\ b.subType = a.subType /\ b.title = a.title
      /\ b.ownerType = a.ownerType /\ b.clientName = a.clientName
  BY <1>2 DEF Sheets!Renewal
<1> QED BY <1>1, <1>2, <1>3 DEF Undated

LEMMA TitlesFit ==
  ASSUME NEW category, NEW title \in Sheets!Titles
  PROVE  Sheets!TitleOf(category, title) \in Sheets!Titles
<1>1. CASE category # "car_papers" BY <1>1 DEF Sheets!TitleOf
<1>2. CASE category = "car_papers"
  <2>1. PICK new : new = [title EXCEPT !.letters = "capital"] OBVIOUS
  <2>2. CASE title \in [name: {"a", "b"}, letters: {"small", "capital"}]
    <3>1. new \in [name: {"a", "b"}, letters: {"small", "capital"}] BY <2>1, <2>2
    <3> QED BY <1>2, <2>1, <3>1 DEF Sheets!TitleOf, Sheets!Titles
  <2>3. CASE title = [name |-> "", letters |-> "capital"]
    <3>0. title \in [name: {""}, letters: {"capital"}] BY <2>3
    <3>1. new \in [name: {""}, letters: {"capital"}] BY <2>1, <3>0
    <3> QED BY <1>2, <2>1, <3>1 DEF Sheets!TitleOf, Sheets!Titles
  <2> QED BY <2>2, <2>3 DEF Sheets!Titles
<1> QED BY <1>1, <1>2

\* What a row makes is about what the row is about.
LEMMA MadeOf ==
  ASSUME NEW item \in Sheets!Asked
  PROVE  LET new == Sheets!NewRenewal(item)
         IN /\ new \in Sheets!Renewal /\ Undated(new)
            /\ \A r \in Sheets!Kept : Sheets!SameThing(renewal[r], new) => r \in Sheets!renewalMatchQuery(item)
<1> DEFINE blank == [category |-> item.category, subType |-> item.subType,
                     title |-> Sheets!TitleOf(item.category, item.title), clientName |-> item.clientName,
                     ownerType |-> item.ownerType, hasExpiry |-> FALSE, expiresOn |-> ""]
<1>1. /\ item.category \in Sheets!Categories /\ item.subType \in Sheets!SubTypes
      /\ item.title \in Sheets!Titles /\ item.clientName \in {"", "x"}
      /\ item.ownerType \in Sheets!OwnerTypes /\ item.hasExpiry \in {"", "yes", "no"}
      /\ item.expiresOn \in Sheets!Dates
  BY DEF Sheets!Asked
<1>2. blank \in Sheets!Renewal
  BY <1>1, TitlesFit DEF Sheets!Renewal, Sheets!Dates
<1>3. PICK new : new = Sheets!NewRenewal(item) OBVIOUS
<1>4. new = Sheets!resolveDates(blank, item.hasExpiry, item.expiresOn)
  BY <1>3 DEF Sheets!NewRenewal
<1>5. /\ blank.category = item.category /\ blank.subType = item.subType
      /\ blank.title = Sheets!TitleOf(item.category, item.title)
      /\ blank.ownerType = item.ownerType /\ blank.clientName = item.clientName
  OBVIOUS
<1> HIDE DEF blank
<1>6. /\ new \in Sheets!Renewal /\ Undated(new)
      /\ new.category = item.category /\ new.subType = item.subType
      /\ new.title = Sheets!TitleOf(item.category, item.title)
      /\ new.ownerType = item.ownerType /\ new.clientName = item.clientName
  BY <1>1, <1>2, <1>4, <1>5, DatesResolve
<1>7. ASSUME NEW r \in Sheets!Kept, Sheets!SameThing(renewal[r], new) PROVE r \in Sheets!renewalMatchQuery(item)
  BY <1>6, <1>7 DEF Sheets!SameThing, Sheets!renewalMatchQuery
<1> QED BY <1>3, <1>6, <1>7

\* A record takes the place of another about the same thing, or of one that is
\* set aside, or of none.
LEMMA TakesRow ==
  ASSUME SheetFacts, SheetInv, NEW r \in Ids, NEW new \in Sheets!Renewal, Undated(new),
         renewal' = [renewal EXCEPT ![r] = new],
         \/ byHand' = byHand \cup {r}
         \/ byHand' = byHand /\ r \in Sheets!Kept /\ Sheets!SameThing(renewal[r], new)
         \/ /\ byHand' = byHand /\ r \notin Sheets!Kept
            /\ \A s \in Sheets!Kept \ byHand : ~Sheets!SameThing(renewal[s], new)
  PROVE  SheetTypes' /\ Sheets!ImportsFindTheirs' /\ r \in Sheets!Kept'
<1>1. /\ renewal' \in [Ids -> Sheets!Renewal \cup {Sheets!NoRenewal}] /\ renewal'[r] = new
      /\ \A s \in Ids : s # r => renewal'[s] = renewal[s]
  BY DEF SheetInv, SheetTypes
<1>2. Sheets!Kept' = Sheets!Kept \cup {r}
  BY <1>1, RecordIsNotNone DEF Sheets!Kept
<1>3. SheetTypes'
  BY <1>1, <1>2 DEF SheetInv, SheetTypes
<1>4. ASSUME NEW a, NEW b PROVE Sheets!SameThing(a, b) => Sheets!SameThing(b, a)
  BY DEF Sheets!SameThing
<1>5. ASSUME NEW a, NEW b, NEW c PROVE Sheets!SameThing(a, b) /\ Sheets!SameThing(b, c) => Sheets!SameThing(a, c)
  BY DEF Sheets!SameThing
<1>6. ASSUME NEW s \in (Sheets!Kept \ byHand)', s # r, r \notin byHand'
      PROVE  ~Sheets!SameThing(renewal[s], new)
  <2>1. s \in Sheets!Kept \ byHand BY <1>2, <1>6
  <2>2. CASE byHand' = byHand /\ r \in Sheets!Kept /\ Sheets!SameThing(renewal[r], new)
    <3>1. r \in Sheets!Kept \ byHand BY <1>6, <2>2
    <3>2. ~Sheets!SameThing(renewal[s], renewal[r])
      BY <1>6, <2>1, <3>1 DEF SheetInv, Sheets!ImportsFindTheirs
    <3>3. Sheets!SameThing(new, renewal[r]) BY <1>4, <2>2
    <3> QED BY <1>5, <3>2, <3>3
  <2> QED BY <1>6, <2>1, <2>2
<1>7. ASSUME NEW s \in (Sheets!Kept \ byHand)', NEW t \in (Sheets!Kept \ byHand)',
             Sheets!SameThing(renewal'[s], renewal'[t]), s # t
      PROVE  FALSE
  <2>1. s \in Ids /\ t \in Ids BY DEF Sheets!Kept
  <2>2. CASE s = r
    BY <1>1, <1>4, <1>6, <1>7, <2>1, <2>2
  <2>3. CASE t = r
    BY <1>1, <1>4, <1>6, <1>7, <2>1, <2>3
  <2>4. CASE s # r /\ t # r
    <3>1. s \in Sheets!Kept \ byHand /\ t \in Sheets!Kept \ byHand
      BY <1>2, <2>4
    <3>2. Sheets!SameThing(renewal[s], renewal[t])
      BY <1>1, <1>7, <2>1, <2>4
    <3> QED BY <1>7, <3>1, <3>2 DEF SheetInv, Sheets!ImportsFindTheirs
  <2> QED BY <2>2, <2>3, <2>4
<1>8. \A s \in Sheets!Kept' : ~renewal'[s].hasExpiry => renewal'[s].expiresOn = ""
  BY <1>1, <1>2 DEF SheetInv, Sheets!ImportsFindTheirs, Undated, Sheets!Kept
<1> QED BY <1>2, <1>3, <1>7, <1>8 DEF Sheets!ImportsFindTheirs

\* A call that waits knows what it knew: only a record set aside, or one it is
\* not about, has come or gone.
LEMMA StillSo ==
  ASSUME SheetFacts, SheetInv, NEW c, ByNow(c),
         ToChange(c) => c.r \in Sheets!Kept' /\ renewal'[c.r] = renewal[c.r],
         \A r \in (Sheets!Kept \ byHand)' : r \in Sheets!Kept \ byHand /\ renewal'[r] = renewal[r]
  PROVE  ByNow(c)'
<1>1. CASE ToMake(c)
  <2>1. \A r \in (Sheets!Kept \ byHand)' :
          r \in Sheets!renewalMatchQuery(c.item)' => r \in Sheets!renewalMatchQuery(c.item)
    BY DEF Sheets!renewalMatchQuery
  <2> QED BY <1>1, <2>1 DEF ByNow, ToMake, Sheets!Importable, Sheets!validateSubType
<1>2. CASE ToChange(c)
  <2>1. ToChange(c)'
    BY <1>2 DEF ToChange
  <2> QED BY <2>1 DEF ByNow
<1> QED BY <1>1, <1>2 DEF ByNow

LEMMA SheetStages ==
  ASSUME NEW c, ByNow(c)
  PROVE  /\ c.pc = "idle" => c = Sheets!IdleCall
         /\ c.pc = "create" => ToMake(c)
         /\ c.pc = "save" => ToChange(c)
BY DEF ByNow, ToMake, ToChange, Sheets!IdleCall

LEMMA ByHandCreates ==
  ASSUME SheetFacts, SheetInv, NEW item \in Items, Sheets!create(item)
  PROVE  SheetInv'
<1>1. PICK new : new = Sheets!NewRenewal(item) OBVIOUS
<1>2. item \in Sheets!Asked BY DEF SheetFacts
<1>3. new \in Sheets!Renewal /\ Undated(new) BY <1>1, <1>2, MadeOf
<1>4. PICK r \in Ids \ Sheets!Kept :
        renewal' = [renewal EXCEPT ![r] = new] /\ byHand' = byHand \cup {r} /\ call' = call
  BY <1>1 DEF Sheets!create
<1>5. SheetTypes' /\ Sheets!ImportsFindTheirs'
  BY <1>3, <1>4, TakesRow
<1>6. PICK c : c = call[me] OBVIOUS
<1>7. ByNow(c) BY <1>6 DEF SheetInv
<1>8. \A s \in Sheets!Kept : s \in Sheets!Kept' /\ renewal'[s] = renewal[s]
  BY <1>4 DEF SheetInv, SheetTypes, Sheets!Kept
<1>9. \A s \in (Sheets!Kept \ byHand)' : s \in Sheets!Kept \ byHand /\ renewal'[s] = renewal[s]
  BY <1>4 DEF SheetInv, SheetTypes, Sheets!Kept
<1>10. ByNow(c)' BY <1>7, <1>8, <1>9, StillSo DEF ToChange
<1>11. Sheets!Goto(me, c) BY <1>4, <1>6 DEF SheetInv, SheetFacts, Sheets!Goto
<1> QED BY <1>5, <1>10, <1>11, SheetGoesOn

LEMMA RowGoes ==
  ASSUME SheetFacts, SheetInv, NEW r \in Ids, Sheets!delete(r)
  PROVE  SheetInv'
<1>1. PICK b : b = call[me] OBVIOUS
<1>2. PICK c : c = IF b.pc = "save" /\ b.r = r THEN Sheets!IdleCall ELSE b OBVIOUS
<1>3. /\ renewal' = [renewal EXCEPT ![r] = Sheets!NoRenewal] /\ byHand' = byHand \ {r}
      /\ call' = [h \in Handlers |-> IF call[h].pc = "save" /\ call[h].r = r THEN Sheets!IdleCall ELSE call[h]]
  BY DEF Sheets!delete, Sheets!At
<1>4. Sheets!Goto(me, c)
  BY <1>1, <1>2, <1>3 DEF SheetInv, SheetFacts, Sheets!Goto
<1>5. /\ renewal' \in [Ids -> Sheets!Renewal \cup {Sheets!NoRenewal}]
      /\ Sheets!Kept' = Sheets!Kept \ {r} /\ \A s \in Sheets!Kept' : renewal'[s] = renewal[s]
  BY <1>3 DEF SheetInv, SheetTypes, Sheets!Kept
<1>6. SheetTypes' /\ Sheets!ImportsFindTheirs'
  BY <1>3, <1>5 DEF SheetInv, SheetTypes, Sheets!ImportsFindTheirs
<1>7. ByNow(b) BY <1>1 DEF SheetInv
<1>8. ByNow(c) /\ (ToChange(c) => c.r # r)
  BY <1>2, <1>7 DEF ByNow, ToChange, Sheets!IdleCall
<1>9. ByNow(c)'
  BY <1>3, <1>5, <1>8, StillSo DEF ToChange
<1> QED BY <1>4, <1>6, <1>9, SheetGoesOn

LEMMA FormIsRead ==
  ASSUME SheetFacts, SheetInv, NEW r \in Ids, NEW item \in Items, Sheets!update(me, r, item)
  PROVE  SheetInv'
<1>1. PICK has, said, new :
        /\ has = IF item.hasExpiry # "" THEN item.hasExpiry ELSE IF renewal[r].hasExpiry THEN "yes" ELSE "no"
        /\ said = [renewal[r] EXCEPT !.subType = item.subType,
                                     !.title = Sheets!TitleOf(renewal[r].category, item.title),
                                     !.clientName = item.clientName, !.ownerType = item.ownerType]
        /\ new = Sheets!resolveDates(said, has, item.expiresOn)
  OBVIOUS
<1>2. PICK c : c = [pc |-> "save", r |-> r, set |-> Sheets!Changes(renewal[r], new), hand |-> TRUE] OBVIOUS
<1>3. /\ r \in Sheets!Kept /\ Sheets!Goto(me, c) /\ renewal' = renewal /\ byHand' = byHand
  BY <1>1, <1>2, Zenon DEF Sheets!update
<1>4. /\ item.subType \in Sheets!SubTypes /\ item.title \in Sheets!Titles /\ item.clientName \in {"", "x"}
      /\ item.ownerType \in Sheets!OwnerTypes /\ item.hasExpiry \in {"", "yes", "no"}
      /\ item.expiresOn \in Sheets!Dates
  BY DEF SheetFacts, Sheets!Asked
<1>5. renewal[r] \in Sheets!Renewal BY <1>3, KeptRows DEF SheetInv
<1>6. said \in Sheets!Renewal
  BY <1>1, <1>4, <1>5, TitlesFit DEF Sheets!Renewal
<1>7. new \in Sheets!Renewal /\ Undated(new)
  <2>1. has \in {"", "yes", "no"} BY <1>1, <1>4
  <2> QED BY <1>1, <1>4, <1>6, <2>1, DatesResolve
<1>8. ByNow(c)'
  <2>1. c.pc = "save" /\ c.r = r /\ c.hand = TRUE /\ c.set = Sheets!Changes(renewal[r], new)
    BY <1>2
  <2> QED BY <1>3, <1>7, <2>1 DEF ByNow, ToChange, Sheets!Kept
<1>9. SheetTypes' /\ Sheets!ImportsFindTheirs'
  BY <1>3 DEF SheetInv, SheetTypes, Sheets!ImportsFindTheirs, Sheets!Kept
<1> QED BY <1>3, <1>8, <1>9, SheetGoesOn

LEMMA RowIsImported ==
  ASSUME SheetFacts, SheetInv, NEW item \in Items, Sheets!bulkImport(me, item)
  PROVE  SheetInv'
<1>1. /\ Sheets!Importable(item) /\ renewal' = renewal /\ byHand' = byHand
      /\ \/ /\ Sheets!renewalMatchQuery(item) = {}
            /\ Sheets!Goto(me, [pc |-> "create", item |-> item])
         \/ \E r \in Sheets!renewalMatchQuery(item) :
              Sheets!Goto(me, [pc |-> "save", r |-> r, hand |-> FALSE,
                               set |-> Sheets!Changes(renewal[r], Sheets!applyImportedRenewal(renewal[r], item))])
  BY DEF Sheets!bulkImport
<1>2. /\ item.clientName \in {"", "x"} /\ item.ownerType \in Sheets!OwnerTypes
      /\ item.hasExpiry \in {"", "yes", "no"} /\ item.expiresOn \in Sheets!Dates
  BY DEF SheetFacts, Sheets!Asked
<1>3. SheetTypes' /\ Sheets!ImportsFindTheirs'
  BY <1>1 DEF SheetInv, SheetTypes, Sheets!ImportsFindTheirs, Sheets!Kept
<1>4. CASE Sheets!renewalMatchQuery(item) = {} /\ Sheets!Goto(me, [pc |-> "create", item |-> item])
  <2>1. PICK c : c = [pc |-> "create", item |-> item] OBVIOUS
  <2>2. ToMake(c) BY <1>1, <1>4, <2>1 DEF ToMake
  <2>3. ByNow(c)'
    BY <1>1, <2>2, StillSo DEF ByNow, ToMake, ToChange, Sheets!Kept
  <2> QED BY <1>3, <1>4, <2>1, <2>3, SheetGoesOn
<1>5. CASE \E r \in Sheets!renewalMatchQuery(item) :
              Sheets!Goto(me, [pc |-> "save", r |-> r, hand |-> FALSE,
                               set |-> Sheets!Changes(renewal[r], Sheets!applyImportedRenewal(renewal[r], item))])
  <2>1. PICK r \in Sheets!renewalMatchQuery(item) :
              Sheets!Goto(me, [pc |-> "save", r |-> r, hand |-> FALSE,
                               set |-> Sheets!Changes(renewal[r], Sheets!applyImportedRenewal(renewal[r], item))])
    BY <1>5
  <2>2. PICK said, new : /\ said = [renewal[r] EXCEPT !.clientName = item.clientName, !.ownerType = item.ownerType]
                         /\ new = Sheets!resolveDates(said, item.hasExpiry, item.expiresOn)
    OBVIOUS
  <2>3. PICK c : c = [pc |-> "save", r |-> r, hand |-> FALSE, set |-> Sheets!Changes(renewal[r], new)] OBVIOUS
  <2>4. Sheets!Goto(me, c) BY <2>1, <2>2, <2>3 DEF Sheets!applyImportedRenewal
  <2>5. r \in Sheets!Kept /\ renewal[r] \in Sheets!Renewal
    BY KeptRows DEF SheetInv, Sheets!renewalMatchQuery
  <2>6. /\ said \in Sheets!Renewal /\ said.category = renewal[r].category /\ said.subType = renewal[r].subType
        /\ said.title = renewal[r].title /\ said.clientName = item.clientName /\ said.ownerType = item.ownerType
    BY <1>2, <2>2, <2>5 DEF Sheets!Renewal
  <2>7. /\ new \in Sheets!Renewal /\ Undated(new) /\ new.category = renewal[r].category
        /\ new.subType = renewal[r].subType /\ new.title = renewal[r].title
        /\ new.clientName = item.clientName /\ new.ownerType = item.ownerType
    BY <1>2, <2>2, <2>6, DatesResolve, ZenonT(60)
  <2>8. Sheets!SameThing(renewal[r], new)
    BY <2>7 DEF Sheets!SameThing, Sheets!renewalMatchQuery
  <2>9. ByNow(c)'
    <3>1. c.pc = "save" /\ c.r = r /\ c.hand = FALSE /\ c.set = Sheets!Changes(renewal[r], new)
      BY <2>3
    <3> QED BY <1>1, <2>5, <2>7, <2>8, <3>1 DEF ByNow, ToChange, Sheets!Kept
  <2> QED BY <1>3, <2>4, <2>9, SheetGoesOn
<1> QED BY <1>1, <1>4, <1>5

LEMMA RowIsMade ==
  ASSUME SheetFacts, SheetInv, Sheets!importCreate(me)
  PROVE  SheetInv'
<1>1. PICK b : b = call[me] OBVIOUS
<1>2. PICK new : new = Sheets!NewRenewal(b.item) OBVIOUS
<1>3. /\ b.pc = "create" /\ Sheets!Goto(me, Sheets!IdleCall) /\ byHand' = byHand
      /\ \E r \in Ids \ Sheets!Kept : renewal' = [renewal EXCEPT ![r] = new]
  BY <1>1, <1>2, Zenon DEF Sheets!importCreate, Sheets!At
<1>4. ToMake(b) BY <1>1, <1>3, SheetStages DEF SheetInv
<1>5. b.item \in Sheets!Asked BY <1>4 DEF ToMake, SheetFacts
<1>6. /\ new \in Sheets!Renewal /\ Undated(new)
      /\ \A s \in Sheets!Kept : Sheets!SameThing(renewal[s], new) => s \in Sheets!renewalMatchQuery(b.item)
  BY <1>2, <1>5, MadeOf
<1>7. \A s \in Sheets!Kept \ byHand : ~Sheets!SameThing(renewal[s], new)
  BY <1>4, <1>6 DEF ToMake
<1>8. PICK r \in Ids \ Sheets!Kept : renewal' = [renewal EXCEPT ![r] = new]
  BY <1>3
<1>9. SheetTypes' /\ Sheets!ImportsFindTheirs'
  BY <1>3, <1>6, <1>7, <1>8, TakesRow
<1>10. ByNow(Sheets!IdleCall)' BY DEF ByNow
<1> QED BY <1>3, <1>9, <1>10, SheetGoesOn

LEMMA RowIsSaved ==
  ASSUME SheetFacts, SheetInv, Sheets!save(me)
  PROVE  SheetInv'
<1>1. PICK b : b = call[me] OBVIOUS
<1>2. /\ b.pc = "save" /\ Sheets!Goto(me, Sheets!IdleCall)
      /\ renewal' = [renewal EXCEPT ![b.r] = Sheets!Written(@, b.set)]
      /\ byHand' = IF b.hand THEN byHand \cup {b.r} ELSE byHand
  BY <1>1, Zenon DEF Sheets!save, Sheets!At
<1>3. ToChange(b) BY <1>1, <1>2, SheetStages DEF SheetInv
<1>4. PICK new \in Sheets!Renewal :
        /\ b.set = Sheets!Changes(renewal[b.r], new) /\ Undated(new)
        /\ ~b.hand => Sheets!SameThing(renewal[b.r], new)
  BY <1>3 DEF ToChange
<1>5. b.r \in Sheets!Kept /\ b.r \in Ids /\ renewal[b.r] \in Sheets!Renewal /\ b.hand \in BOOLEAN
  BY <1>3, KeptRows DEF ToChange, SheetInv
<1>6. Sheets!Written(renewal[b.r], b.set) = new
  BY <1>4, <1>5, MakesWhatIsMeant
<1>7. renewal' = [renewal EXCEPT ![b.r] = new]
  BY <1>2, <1>5, <1>6 DEF SheetInv, SheetTypes
<1>8. SheetTypes' /\ Sheets!ImportsFindTheirs'
  BY <1>2, <1>4, <1>5, <1>7, TakesRow
<1>9. ByNow(Sheets!IdleCall)' BY DEF ByNow
<1> QED BY <1>2, <1>8, <1>9, SheetGoesOn

LEMMA SheetSteps ==
  ASSUME SheetFacts, SheetInv, [Sheets!Next]_Sheets!vars
  PROVE  SheetInv'
<1>1. CASE \E item \in Items : Sheets!create(item) \/ \E h \in Handlers : Sheets!bulkImport(h, item)
  BY <1>1, ByHandCreates, RowIsImported DEF SheetFacts
<1>2. CASE \E h \in Handlers : Sheets!save(h) \/ Sheets!importCreate(h)
  BY <1>2, RowIsSaved, RowIsMade DEF SheetFacts
<1>3. CASE \E h \in Handlers, r \in Ids, item \in Items : Sheets!update(h, r, item)
  BY <1>3, FormIsRead DEF SheetFacts
<1>4. CASE \E r \in Ids : Sheets!delete(r)
  BY <1>4, RowGoes
<1>5. CASE Sheets!Crash
  <2>1. renewal' = renewal /\ byHand' = byHand /\ call' = [h \in Handlers |-> Sheets!IdleCall]
    BY <1>5 DEF Sheets!Crash
  <2>2. SheetTypes' /\ Sheets!ImportsFindTheirs'
    BY <2>1 DEF SheetInv, SheetTypes, Sheets!ImportsFindTheirs, Sheets!Kept
  <2>3. Sheets!Goto(me, Sheets!IdleCall)
    BY <2>1 DEF SheetInv, SheetFacts, Sheets!Goto
  <2>4. ByNow(Sheets!IdleCall)' BY DEF ByNow
  <2> QED BY <2>2, <2>3, <2>4, SheetGoesOn
<1>6. CASE UNCHANGED Sheets!vars
  <2>1. renewal' = renewal /\ byHand' = byHand /\ call' = call
    BY <1>6 DEF Sheets!vars
  <2>2. SheetTypes' /\ Sheets!ImportsFindTheirs'
    BY <2>1 DEF SheetInv, SheetTypes, Sheets!ImportsFindTheirs, Sheets!Kept
  <2>3. PICK c : c = call[me] OBVIOUS
  <2>4. Sheets!Goto(me, c)
    BY <2>1, <2>3 DEF SheetInv, SheetFacts, Sheets!Goto
  <2>5. ByNow(c) BY <2>3 DEF SheetInv
  <2>6. ByNow(c)' BY <2>1, <2>5, StillSo DEF Sheets!Kept, ToChange
  <2> QED BY <2>2, <2>4, <2>6, SheetGoesOn
<1> QED BY <1>1, <1>2, <1>3, <1>4, <1>5, <1>6 DEF Sheets!Next

\* However often and in whatever letters a sheet is imported, one row at a time,
\* while others enter and delete records by hand and the process may die: the
\* records it made are one for each thing, and none without an expiry keeps a
\* date (renewals.service.ts).
THEOREM ImportsFindTheirsAlways ==
  ASSUME SheetFacts
  PROVE  Sheets!Spec => [](Sheets!TypeOK /\ Sheets!ImportsFindTheirs)
<1>1. Sheets!Init => SheetInv
  <2> SUFFICES ASSUME Sheets!Init PROVE SheetInv
    OBVIOUS
  <2>1. Sheets!Kept = {} /\ SheetTypes
    BY DEF Sheets!Init, Sheets!Kept, SheetTypes
  <2>2. call[me] = Sheets!IdleCall /\ DOMAIN call = Handlers /\ call = [h \in Handlers |-> call[h]]
    BY DEF Sheets!Init, SheetFacts
  <2> QED BY <2>1, <2>2 DEF SheetInv, Sheets!ImportsFindTheirs, ByNow
<1>2. SheetInv /\ [Sheets!Next]_Sheets!vars => SheetInv'
  BY SheetSteps
<1>3. SheetInv => Sheets!TypeOK /\ Sheets!ImportsFindTheirs
  BY KeptRows DEF SheetInv, SheetTypes, Sheets!TypeOK
<1> QED BY <1>1, <1>2, <1>3, PTL DEF Sheets!Spec

-----------------------------------------------------------------------------
(* StoredDocuments: calls in any interleaving, cut off anywhere.             *)

Answer == {u \in [file: 0..MaxFiles, inline: 0..MaxFiles] : u.file # 0 \/ u.inline # 0}
Erasure ==
  [pc: {"erase"}, rows: SUBSET Docs, files: SUBSET (1..MaxFiles), o: Owners \cup {"none"}, gone: BOOLEAN]
PaperCall ==
  {Papers!IdleCall}
    \cup [pc: {"create"}, o: Owners, left: {1, 2}]
    \cup [pc: {"insert"}, o: Owners, left: {1, 2}, new: Answer]
    \cup [pc: {"replace"}, d: Docs, seen: Papers!Row]
    \cup [pc: {"swap", "save"}, d: Docs, seen: Papers!Row, new: Answer]
    \cup Erasure

Brings(c) == c.pc \in {"insert", "swap", "save"}
Replaces(c) == c.pc \in {"replace", "swap", "save"}

\* The files a call has read of, which it may delete, and the documents it
\* will then save or remove.
Recalls(c, f) ==
  \/ Replaces(c) /\ c.seen.file = f
  \/ c.pc = "erase" /\ f \in c.files
Minds(c, d) ==
  \/ Replaces(c) /\ c.d = d
  \/ c.pc = "erase" /\ ~c.gone /\ d \in c.rows

\* Files are numbered as they are sent.
Dated(c) ==
  /\ Brings(c) => c.new.file <= sent /\ c.new.inline <= sent
  /\ Replaces(c) => c.seen.file <= sent /\ c.seen.inline <= sent
  /\ Brings(c) /\ Replaces(c) /\ c.new.inline # 0 => c.new.inline # c.seen.inline
  /\ c.pc = "erase" => \A f \in c.files : f <= sent
Numbered ==
  /\ \A d \in Papers!Stored : doc[d].file <= sent /\ doc[d].inline <= sent
  /\ \A h \in Handlers : Dated(call[h])

\* A file is one document's, and who may delete it minds that document.
OneRow == \A d, e \in Docs : doc[d].file # 0 /\ doc[d].file = doc[e].file => d = e
Minded ==
  \A h \in Handlers, d \in Docs :
    doc[d].file # 0 /\ Recalls(call[h], doc[d].file) => Minds(call[h], d)

\* A file that has just been uploaded is at the cloud, and nobody else knows it.
Unshared ==
  \A h \in Handlers : Brings(call[h]) /\ call[h].new.file # 0 =>
    /\ call[h].new.file \in cloud
    /\ \A d \in Docs : doc[d].file # call[h].new.file
    /\ \A g \in Handlers :
         /\ ~Recalls(call[g], call[h].new.file)
         /\ g # h /\ Brings(call[g]) => call[g].new.file # call[h].new.file

PaperTypes ==
  /\ MaxFiles \in Nat
  /\ Papers!TypeOK
  /\ doc \in [Docs -> Papers!Row \cup {Papers!NoDoc}]
  /\ DOMAIN call = Handlers
  /\ \A h \in Handlers : call[h] \in PaperCall
PaperInv ==
  /\ PaperTypes
  /\ Numbered
  /\ OneRow
  /\ Minded
  /\ Unshared
  /\ Papers!ContentSurvives

LEMMA PaperFields ==
  ASSUME NEW c \in PaperCall
  PROVE  /\ c.pc = "create" => c.o \in Owners /\ c.left \in {1, 2}
         /\ c.pc = "insert" => c.o \in Owners /\ c.left \in {1, 2}
         /\ Brings(c) => c.new \in Answer
         /\ Replaces(c) => c.d \in Docs /\ c.seen \in Papers!Row
         /\ c.pc \in {"swap", "save"} => c = [pc |-> c.pc, d |-> c.d, seen |-> c.seen, new |-> c.new]
         /\ c.pc = "erase" => /\ c.rows \in SUBSET Docs /\ c.files \in SUBSET (1..MaxFiles)
                              /\ c.o \in Owners \cup {"none"} /\ c.gone \in BOOLEAN
                              /\ c = [pc |-> "erase", rows |-> c.rows, files |-> c.files, o |-> c.o, gone |-> c.gone]
BY DEF PaperCall, Erasure, Papers!IdleCall, Brings, Replaces

LEMMA PaperRows ==
  ASSUME PaperTypes, NEW d \in Docs
  PROVE  /\ d \in Papers!Stored => doc[d] \in Papers!Row
         /\ d \notin Papers!Stored => doc[d].file = 0
         /\ doc[d].file \in 0..MaxFiles
<1>1. d \in Papers!Stored => doc[d] \in Papers!Row
  BY DEF PaperTypes, Papers!TypeOK
<1>2. d \notin Papers!Stored => doc[d].file = 0
  BY DEF Papers!Stored, Papers!NoDoc
<1>3. MaxFiles \in Nat
  BY DEF PaperTypes
<1>4. doc[d] \in Papers!Row => doc[d].file \in 0..MaxFiles
  BY DEF Papers!Row
<1>5. 0 \in 0..MaxFiles
  BY <1>3
<1> QED BY <1>1, <1>2, <1>4, <1>5

\* The rest of the calls goes on as it was.
LEMMA PaperGoto ==
  ASSUME PaperTypes, NEW h \in Handlers, NEW c \in PaperCall, Papers!Goto(h, c)
  PROVE  /\ DOMAIN call' = Handlers /\ call'[h] = c
         /\ \A g \in Handlers : g # h => call'[g] = call[g]
         /\ \A g \in Handlers : call'[g] \in PaperCall
BY DEF PaperTypes, Papers!Goto

\* A call begins or ends: what it has read of is in the rows it minds.
LEMMA PapersRest ==
  ASSUME PaperInv, NEW h \in Handlers, NEW c \in PaperCall, Papers!Goto(h, c),
         UNCHANGED <<doc, cloud, sent, cut>>, owner' \subseteq owner,
         ~Brings(c), Dated(c),
         \A f : Recalls(c, f) => f = 0 \/ \E d \in Docs : doc[d].file = f,
         \A d \in Docs : doc[d].file # 0 /\ Recalls(c, doc[d].file) => Minds(c, d),
         \A d \in Papers!Stored : ~Papers!Mends(call[h], d)
  PROVE  PaperInv'
<1>1. /\ DOMAIN call' = Handlers /\ call'[h] = c
      /\ \A g \in Handlers : g # h => call'[g] = call[g]
      /\ \A g \in Handlers : call'[g] \in PaperCall
  BY PaperGoto DEF PaperInv
<1>2. PaperTypes'
  BY <1>1 DEF PaperInv, PaperTypes, Papers!TypeOK, Papers!Stored
<1>3. Numbered'
  <2>1. \A g \in Handlers : Dated(call[g])
    BY DEF PaperInv, Numbered
  <2>2. \A g \in Handlers : Dated(call'[g])
    BY <1>1, <2>1
  <2>3. \A g \in Handlers : Dated(call[g])'
    BY <2>2 DEF Dated
  <2> QED BY <2>3 DEF PaperInv, Numbered, Papers!Stored
<1>4. OneRow'
  BY DEF PaperInv, OneRow
<1>5. Minded'
  <2>1. \A g \in Handlers, d \in Docs :
          doc[d].file # 0 /\ Recalls(call'[g], doc[d].file) => Minds(call'[g], d)
    BY <1>1 DEF PaperInv, Minded
  <2> QED BY <2>1 DEF Minded, Recalls, Minds
<1>6. Unshared'
  <2>1. ASSUME NEW g \in Handlers, Brings(call'[g]), call'[g].new.file # 0
        PROVE  /\ call'[g].new.file \in cloud
               /\ \A d \in Docs : doc[d].file # call'[g].new.file
               /\ \A k \in Handlers :
                    /\ ~Recalls(call'[k], call'[g].new.file)
                    /\ k # g /\ Brings(call'[k]) => call'[k].new.file # call'[g].new.file
    <3>1. g # h /\ call'[g] = call[g]
      BY <1>1, <2>1
    <3>2. /\ call'[g].new.file \in cloud
          /\ \A d \in Docs : doc[d].file # call'[g].new.file
          /\ \A k \in Handlers :
               /\ ~Recalls(call[k], call'[g].new.file)
               /\ k # g /\ Brings(call[k]) => call[k].new.file # call'[g].new.file
      BY <2>1, <3>1 DEF PaperInv, Unshared
    <3>3. ~Recalls(c, call'[g].new.file)
      BY <2>1, <3>2
    <3> QED BY <1>1, <3>2, <3>3
  <2>2. \A g \in Handlers : Brings(call'[g]) <=> Brings(call[g])'
    BY DEF Brings
  <2> QED BY <2>1 DEF Unshared, Brings, Recalls, Replaces
<1>7. Papers!ContentSurvives'
  <2>1. \A d \in Papers!Stored' \ cut' : d \in Papers!Stored \ cut
    BY DEF Papers!Stored
  <2>2. ASSUME NEW d \in Papers!Stored \ cut
        PROVE  Papers!readBuffer(d)' \/ \E g \in Handlers : Papers!Mends(call'[g], d)
    <3>1. CASE Papers!readBuffer(d)
      BY <3>1 DEF Papers!readBuffer
    <3>2. CASE \E g \in Handlers : Papers!Mends(call[g], d)
      <4>1. d \in Docs
        BY DEF Papers!Stored
      <4> QED BY <1>1, <3>2, <4>1
    <3> QED BY <3>1, <3>2 DEF PaperInv, Papers!ContentSurvives
  <2> QED BY <2>1, <2>2 DEF Papers!ContentSurvives, Papers!Mends
<1> QED BY <1>2, <1>3, <1>4, <1>5, <1>6, <1>7 DEF PaperInv

LEMMA PapersGone ==
  ASSUME PaperInv, NEW h \in Handlers, Papers!Goto(h, Papers!IdleCall),
         UNCHANGED <<doc, cloud, sent, cut>>, owner' \subseteq owner,
         \A d \in Papers!Stored : ~Papers!Mends(call[h], d)
  PROVE  PaperInv'
<1>1. /\ Papers!IdleCall \in PaperCall /\ ~Brings(Papers!IdleCall) /\ Dated(Papers!IdleCall)
      /\ \A f : ~Recalls(Papers!IdleCall, f)
  BY DEF PaperCall, Papers!IdleCall, Brings, Replaces, Dated, Recalls
<1> QED BY <1>1, PapersRest

\* What the cloud or the database answers an upload is new to everybody.
LEMMA PapersUpload ==
  ASSUME PaperInv, NEW h \in Handlers, NEW u \in Papers!Uploads(sent + 1), Papers!upload(u),
         NEW c \in PaperCall, Papers!Goto(h, c), Brings(c), c.new = u,
         Replaces(c) => Replaces(call[h]) /\ c.seen = call[h].seen /\ c.d = call[h].d,
         call[h].pc \in {"create", "replace"}, c.pc # "save", ~Brings(call[h])
  PROVE  PaperInv'
<1>0. /\ sent \in Nat /\ sent + 1 \in 1..MaxFiles /\ sent' = sent + 1 /\ doc' = doc /\ cut' = cut
      /\ owner' = owner /\ cloud' = cloud \cup ({u.file} \ {0}) /\ cloud \subseteq 1..sent
      /\ u.file \in {0, sent + 1} /\ u.inline \in {0, sent + 1}
  <2>1. /\ MaxFiles \in Nat /\ sent \in 0..MaxFiles /\ cloud \subseteq 1..sent
        /\ sent < MaxFiles /\ cloud' = cloud \cup ({u.file} \ {0}) /\ sent' = sent + 1
        /\ doc' = doc /\ cut' = cut /\ owner' = owner
    BY DEF PaperInv, PaperTypes, Papers!TypeOK, Papers!upload
  <2>2. u.file \in {0, sent + 1} /\ u.inline \in {0, sent + 1}
    BY DEF Papers!Uploads
  <2> QED BY <2>1, <2>2
<1>1. /\ DOMAIN call' = Handlers /\ call'[h] = c
      /\ \A g \in Handlers : g # h => call'[g] = call[g]
      /\ \A g \in Handlers : call'[g] \in PaperCall
  BY PaperGoto DEF PaperInv
<1>2. PaperTypes'
  <2>1. Papers!TypeOK /\ PaperTypes
    BY DEF PaperInv, PaperTypes
  <2>2. cloud' \subseteq 1..sent'
    <3>1. ASSUME NEW x \in cloud' PROVE x \in 1..(sent + 1)
      <4>1. x \in 1..sent \/ x = sent + 1
        BY <1>0
      <4> QED BY <1>0, <4>1
    <3> QED BY <1>0, <3>1
  <2>3. Papers!Stored' = Papers!Stored /\ sent' \in 0..MaxFiles
    BY <1>0 DEF Papers!Stored
  <2>4. Papers!TypeOK'
    BY <1>0, <2>1, <2>2, <2>3 DEF Papers!TypeOK
  <2> QED BY <1>0, <1>1, <2>1, <2>4 DEF PaperTypes
<1>3. /\ \A d \in Docs : doc[d].file # sent + 1
      /\ \A g \in Handlers : ~Recalls(call[g], sent + 1)
      /\ \A g \in Handlers : Brings(call[g]) => call[g].new.file # sent + 1
  <2>1. ASSUME NEW d \in Docs PROVE doc[d].file # sent + 1
    <3>1. d \in Papers!Stored => doc[d].file <= sent
      BY DEF PaperInv, Numbered
    <3> QED BY <1>0, <3>1, PaperRows DEF PaperInv
  <2>2. ASSUME NEW g \in Handlers
        PROVE  ~Recalls(call[g], sent + 1) /\ (Brings(call[g]) => call[g].new.file # sent + 1)
    <3>1. Dated(call[g])
      BY DEF PaperInv, Numbered
    <3> QED BY <1>0, <3>1 DEF Dated, Recalls
  <2> QED BY <2>1, <2>2
<1>4. Numbered'
  <2>1. ASSUME NEW g \in Handlers, g # h PROVE Dated(call[g])'
    <3>1. Dated(call[g]) /\ call[g] \in PaperCall
      BY DEF PaperInv, PaperTypes, Numbered
    <3>2. /\ Brings(call[g]) => call[g].new.file \in Nat /\ call[g].new.inline \in Nat
          /\ Replaces(call[g]) => call[g].seen.file \in Nat /\ call[g].seen.inline \in Nat
          /\ call[g].pc = "erase" => call[g].files \subseteq Nat
      BY <3>1, PaperFields DEF Answer, Papers!Row
    <3>3. call'[g] = call[g]
      BY <1>1, <2>1
    <3> QED BY <1>0, <3>1, <3>2, <3>3 DEF Dated, Brings, Replaces
  <2>2. Dated(call[h])'
    <3>1. Replaces(c) => c.seen.file \in Nat /\ c.seen.inline \in Nat /\ c.seen.file <= sent /\ c.seen.inline <= sent
      BY PaperFields DEF PaperInv, Numbered, Dated, Papers!Row
    <3>2. c.pc # "erase"
      BY DEF Brings
    <3>3. Brings(c) => c.new.file <= sent + 1 /\ c.new.inline <= sent + 1
      BY <1>0
    <3>4. Brings(c) /\ Replaces(c) /\ c.new.inline # 0 => c.new.inline # c.seen.inline
      BY <1>0, <3>1
    <3>5. Replaces(c) => c.seen.file <= sent + 1 /\ c.seen.inline <= sent + 1
      BY <1>0, <3>1
    <3> QED BY <1>0, <1>1, <3>2, <3>3, <3>4, <3>5 DEF Dated, Brings, Replaces
  <2>3. ASSUME NEW d \in Papers!Stored PROVE doc[d].file <= sent + 1 /\ doc[d].inline <= sent + 1
    <3>1. doc[d] \in Papers!Row /\ doc[d].file <= sent /\ doc[d].inline <= sent
      BY PaperRows DEF PaperInv, Numbered, Papers!Stored
    <3> QED BY <1>0, <3>1 DEF Papers!Row
  <2> QED BY <1>0, <2>1, <2>2, <2>3 DEF Numbered, Papers!Stored
<1>5. OneRow'
  BY <1>0 DEF PaperInv, OneRow
<1>6. Minded'
  <2>1. ASSUME NEW d \in Docs, doc[d].file # 0, Recalls(c, doc[d].file) PROVE Minds(c, d)
    <3>1. Replaces(c) /\ Recalls(call[h], doc[d].file)
      BY <2>1 DEF Recalls, Brings
    <3> QED BY <2>1, <3>1 DEF PaperInv, Minded, Minds, Replaces
  <2>2. \A g \in Handlers, d \in Docs :
          doc[d].file # 0 /\ Recalls(call'[g], doc[d].file) => Minds(call'[g], d)
    BY <1>1, <2>1 DEF PaperInv, Minded
  <2> QED BY <1>0, <2>2 DEF Minded, Recalls, Minds, Replaces
<1>7. Unshared'
  <2> DEFINE Own(g, f) == /\ f \in cloud'
                          /\ \A d \in Docs : doc[d].file # f
                          /\ \A k \in Handlers :
                               /\ ~Recalls(call'[k], f)
                               /\ k # g /\ Brings(call'[k]) => call'[k].new.file # f
  <2>1. \A f : Recalls(c, f) => Recalls(call[h], f)
    BY DEF Recalls, Brings
  <2>2. ASSUME NEW g \in Handlers, g # h, Brings(call[g]), call[g].new.file # 0
        PROVE  Own(g, call[g].new.file)
    <3>1. call[g].new.file # sent + 1
      BY <1>3, <2>2
    <3>2. c.new.file # call[g].new.file
      BY <1>0, <2>2, <3>1
    <3>3. /\ call[g].new.file \in cloud
          /\ \A d \in Docs : doc[d].file # call[g].new.file
          /\ \A k \in Handlers :
               /\ ~Recalls(call[k], call[g].new.file)
               /\ k # g /\ Brings(call[k]) => call[k].new.file # call[g].new.file
      BY <2>2 DEF PaperInv, Unshared
    <3> QED BY <1>0, <1>1, <2>1, <3>2, <3>3
  <2>3. c.new.file # 0 => Own(h, c.new.file)
    BY <1>0, <1>1, <1>3, <2>1
  <2>4. ASSUME NEW g \in Handlers, Brings(call'[g]), call'[g].new.file # 0
        PROVE  Own(g, call'[g].new.file)
    BY <1>1, <2>2, <2>3, <2>4
  <2> QED BY <1>0, <2>4 DEF Unshared, Brings, Recalls, Replaces
<1>8. Papers!ContentSurvives'
  <2>1. ASSUME NEW d \in Papers!Stored \ cut
        PROVE  Papers!readBuffer(d)' \/ \E g \in Handlers : Papers!Mends(call'[g], d)
    <3>1. CASE Papers!readBuffer(d)
      BY <1>0, <3>1 DEF Papers!readBuffer
    <3>2. CASE \E g \in Handlers : Papers!Mends(call[g], d)
      <4>1. ~Papers!Mends(call[h], d)
        BY DEF Papers!Mends
      <4> QED BY <1>1, <3>2, <4>1
    <3> QED BY <3>1, <3>2 DEF PaperInv, Papers!ContentSurvives
  <2> QED BY <1>0, <2>1 DEF Papers!ContentSurvives, Papers!Mends, Papers!Stored
<1> QED BY <1>2, <1>4, <1>5, <1>6, <1>7, <1>8 DEF PaperInv

\* A row is written: with the file just uploaded, and readable by it.
LEMMA PapersWrite ==
  ASSUME PaperInv, NEW h \in Handlers, NEW c \in PaperCall, Papers!Goto(h, c),
         Brings(call[h]), c.pc \in {"idle", "create"},
         NEW d \in Docs, NEW r \in Papers!Row, doc' = [doc EXCEPT ![d] = r],
         r.file \in {0, doc[d].file, call[h].new.file}, r.file <= sent, r.inline <= sent,
         r.file \in cloud \/ r.inline # 0,
         UNCHANGED <<owner, cloud, sent>>, cut' = cut \ {d},
         \A e \in Docs : Papers!Mends(call[h], e) => e = d
  PROVE  PaperInv'
<1>0. /\ doc'[d] = r /\ \A e \in Docs : e # d => doc'[e] = doc[e]
      /\ doc' \in [Docs -> Papers!Row \cup {Papers!NoDoc}]
  BY DEF PaperInv, PaperTypes
<1>1. /\ DOMAIN call' = Handlers /\ call'[h] = c
      /\ \A g \in Handlers : g # h => call'[g] = call[g]
      /\ \A g \in Handlers : call'[g] \in PaperCall
  BY PaperGoto DEF PaperInv
<1>2. /\ \A e \in Docs : e # d => (e \in Papers!Stored' <=> e \in Papers!Stored)
      /\ Papers!Stored' \subseteq Docs
  BY <1>0 DEF Papers!Stored, Papers!NoDoc
<1>3. PaperTypes'
  <2>1. Papers!TypeOK /\ PaperTypes
    BY DEF PaperInv, PaperTypes
  <2>2. \A e \in Papers!Stored' : doc'[e] \in Papers!Row
    BY <1>0, <1>2, <2>1, PaperRows
  <2>3. cut' \subseteq Papers!Stored'
    BY <1>2, <2>1 DEF Papers!TypeOK, Papers!Stored
  <2>4. Papers!TypeOK'
    BY <2>1, <2>2, <2>3 DEF Papers!TypeOK
  <2> QED BY <1>0, <1>1, <2>1, <2>4 DEF PaperTypes
<1>4. Numbered'
  <2>1. \A g \in Handlers : Dated(call'[g])
    BY <1>1 DEF PaperInv, Numbered, Dated, Brings, Replaces
  <2>2. \A e \in Papers!Stored' : doc'[e].file <= sent /\ doc'[e].inline <= sent
    BY <1>0, <1>2 DEF PaperInv, Numbered
  <2> QED BY <2>1, <2>2 DEF Numbered, Dated, Brings, Replaces
<1>5. /\ \A g \in Handlers : g # h /\ Brings(call[g]) => call[g].new.file = 0 \/ r.file # call[g].new.file
      /\ \A e \in Docs : r.file # 0 /\ doc[e].file = r.file => e = d
      /\ \A g \in Handlers : r.file # 0 /\ Recalls(call[g], r.file) => Minds(call[g], d)
  <2>1. CASE r.file = 0
    BY <2>1
  <2>2. CASE r.file = call[h].new.file /\ r.file # 0
    BY <2>2 DEF PaperInv, Unshared
  <2>3. CASE r.file = doc[d].file /\ r.file # 0
    BY <2>3 DEF PaperInv, Unshared, OneRow, Minded
  <2> QED BY <2>1, <2>2, <2>3
<1>6. OneRow'
  BY <1>0, <1>5 DEF PaperInv, OneRow
<1>7. Minded'
  <2>1. ASSUME NEW g \in Handlers, NEW e \in Docs, doc'[e].file # 0, Recalls(call'[g], doc'[e].file)
        PROVE  Minds(call'[g], e)
    <3>1. g # h /\ call'[g] = call[g]
      BY <1>1, <2>1 DEF Recalls, Replaces
    <3> QED BY <1>0, <1>5, <2>1, <3>1 DEF PaperInv, Minded
  <2> QED BY <2>1 DEF Minded, Recalls, Minds, Replaces
<1>8. Unshared'
  <2>1. ASSUME NEW g \in Handlers, Brings(call'[g]), call'[g].new.file # 0
        PROVE  /\ call'[g].new.file \in cloud
               /\ \A e \in Docs : doc'[e].file # call'[g].new.file
               /\ \A k \in Handlers :
                    /\ ~Recalls(call'[k], call'[g].new.file)
                    /\ k # g /\ Brings(call'[k]) => call'[k].new.file # call'[g].new.file
    <3>1. g # h /\ call'[g] = call[g]
      BY <1>1, <2>1 DEF Brings
    <3>2. /\ call[g].new.file \in cloud
          /\ \A e \in Docs : doc[e].file # call[g].new.file
          /\ \A k \in Handlers :
               /\ ~Recalls(call[k], call[g].new.file)
               /\ k # g /\ Brings(call[k]) => call[k].new.file # call[g].new.file
      BY <2>1, <3>1 DEF PaperInv, Unshared
    <3>3. ~Brings(c) /\ \A f : ~Recalls(c, f)
      BY DEF Brings, Recalls, Replaces
    <3>4. \A e \in Docs : doc'[e].file # call[g].new.file
      BY <1>0, <1>5, <2>1, <3>1, <3>2
    <3> QED BY <1>1, <3>1, <3>2, <3>3, <3>4
  <2> QED BY <2>1 DEF Unshared, Brings, Recalls, Replaces
<1>9. Papers!ContentSurvives'
  <2>1. ASSUME NEW e \in Papers!Stored' \ cut'
        PROVE  doc'[e].file \in cloud \/ doc'[e].inline # 0 \/ \E g \in Handlers : Papers!Mends(call'[g], e)
    <3>1. CASE e = d
      BY <1>0, <3>1
    <3>2. CASE e # d
      <4>1. e \in Papers!Stored \ cut /\ doc'[e] = doc[e] /\ ~Papers!Mends(call[h], e) /\ e \in Docs
        BY <1>0, <1>2, <2>1, <3>2
      <4>2. doc[e].file \in cloud \/ doc[e].inline # 0 \/ \E g \in Handlers : Papers!Mends(call[g], e)
        BY <4>1 DEF PaperInv, Papers!ContentSurvives, Papers!readBuffer
      <4> QED BY <1>1, <4>1, <4>2
    <3> QED BY <3>1, <3>2
  <2> QED BY <2>1 DEF Papers!ContentSurvives, Papers!Mends, Papers!readBuffer
<1> QED BY <1>3, <1>4, <1>6, <1>7, <1>8, <1>9 DEF PaperInv

\* A file leaves the cloud, or may: whose it was is about to be mended.
LEMMA PapersShrink ==
  ASSUME PaperInv, NEW h \in Handlers, NEW c \in PaperCall, Papers!Goto(h, c),
         UNCHANGED <<owner, doc, sent, cut>>,
         cloud' = cloud \/ \E f : Recalls(call[h], f) /\ cloud' = cloud \ {f},
         Brings(c) => Brings(call[h]) /\ c.new = call[h].new,
         Dated(c),
         \A f : Recalls(c, f) => Recalls(call[h], f),
         \A d \in Docs : Minds(call[h], d) => Minds(c, d) /\ Papers!Mends(c, d),
         \A d \in Docs : Papers!Mends(call[h], d) => Papers!Mends(c, d)
  PROVE  PaperInv'
<1>1. /\ DOMAIN call' = Handlers /\ call'[h] = c
      /\ \A g \in Handlers : g # h => call'[g] = call[g]
      /\ \A g \in Handlers : call'[g] \in PaperCall
  BY PaperGoto DEF PaperInv
<1>2. PaperTypes'
  BY <1>1 DEF PaperInv, PaperTypes, Papers!TypeOK, Papers!Stored
<1>3. Numbered'
  <2>1. \A g \in Handlers : Dated(call'[g])
    BY <1>1 DEF PaperInv, Numbered
  <2> QED BY <2>1 DEF PaperInv, Numbered, Papers!Stored, Dated, Brings, Replaces
<1>4. OneRow'
  BY DEF PaperInv, OneRow
<1>5. Minded'
  <2>1. \A g \in Handlers, d \in Docs :
          doc[d].file # 0 /\ Recalls(call'[g], doc[d].file) => Minds(call'[g], d)
    BY <1>1 DEF PaperInv, Minded
  <2> QED BY <2>1 DEF Minded, Recalls, Minds, Replaces
<1>6. Unshared'
  <2>1. ASSUME NEW g \in Handlers, Brings(call'[g]), call'[g].new.file # 0
        PROVE  /\ call'[g].new.file \in cloud'
               /\ \A d \in Docs : doc[d].file # call'[g].new.file
               /\ \A k \in Handlers :
                    /\ ~Recalls(call'[k], call'[g].new.file)
                    /\ k # g /\ Brings(call'[k]) => call'[k].new.file # call'[g].new.file
    <3>1. Brings(call[g]) /\ call'[g].new = call[g].new
      BY <1>1, <2>1
    <3>2. /\ call[g].new.file \in cloud
          /\ \A d \in Docs : doc[d].file # call[g].new.file
          /\ \A k \in Handlers :
               /\ ~Recalls(call[k], call[g].new.file)
               /\ k # g /\ Brings(call[k]) => call[k].new.file # call[g].new.file
      BY <2>1, <3>1 DEF PaperInv, Unshared
    <3>3. call[g].new.file \in cloud'
      BY <3>2
    <3>4. \A k \in Handlers : Recalls(call'[k], call[g].new.file) => Recalls(call[k], call[g].new.file)
      BY <1>1
    <3>5. \A k \in Handlers : Brings(call'[k]) => Brings(call[k]) /\ call'[k].new = call[k].new
      BY <1>1
    <3> QED BY <3>1, <3>2, <3>3, <3>4, <3>5
  <2> QED BY <2>1 DEF Unshared, Brings, Recalls, Replaces
<1>7. Papers!ContentSurvives'
  <2>1. ASSUME NEW d \in Papers!Stored \ cut
        PROVE  doc[d].file \in cloud' \/ doc[d].inline # 0 \/ \E g \in Handlers : Papers!Mends(call'[g], d)
    <3>1. CASE \E g \in Handlers : Papers!Mends(call[g], d)
      <4>1. d \in Docs
        BY DEF Papers!Stored
      <4> QED BY <1>1, <3>1, <4>1
    <3>2. CASE doc[d].file \in cloud \ cloud'
      <4>1. Recalls(call[h], doc[d].file) /\ d \in Docs /\ doc[d].file # 0
        <5>1. cloud \subseteq 1..sent
          BY DEF PaperInv, PaperTypes, Papers!TypeOK
        <5> QED BY <3>2, <5>1 DEF Papers!Stored
      <4>2. Papers!Mends(c, d)
        BY <4>1 DEF PaperInv, Minded
      <4> QED BY <1>1, <4>2
    <3>3. Papers!readBuffer(d) \/ \E g \in Handlers : Papers!Mends(call[g], d)
      BY DEF PaperInv, Papers!ContentSurvives
    <3> QED BY <3>1, <3>2, <3>3 DEF Papers!readBuffer
  <2> QED BY <2>1 DEF Papers!ContentSurvives, Papers!Mends, Papers!readBuffer, Papers!Stored
<1> QED BY <1>2, <1>3, <1>4, <1>5, <1>6, <1>7 DEF PaperInv

\* Rows go, those that the call was to mend among them.
LEMMA PapersRemoved ==
  ASSUME PaperInv, NEW h \in Handlers, Papers!deleteRows(h)
  PROVE  PaperInv'
<1> DEFINE c == [call[h] EXCEPT !.gone = TRUE]
           taken == call[h].rows \cup IF call[h].o = "none" THEN {} ELSE Papers!Of(call[h].o)
<1>1. /\ call[h] \in PaperCall /\ call[h].pc = "erase" /\ ~call[h].gone
      /\ c \in PaperCall /\ c.pc = "erase" /\ c.gone /\ c.files = call[h].files
      /\ call[h].files \subseteq 1..MaxFiles
  <2>1. call[h] \in PaperCall /\ call[h].pc = "erase" /\ ~call[h].gone
    BY DEF PaperInv, PaperTypes, Papers!deleteRows, Papers!At
  <2>2. call[h] \in Erasure
    BY <2>1 DEF PaperCall, Papers!IdleCall, Erasure
  <2>3. c \in Erasure /\ c.gone /\ c.files = call[h].files
    BY <2>2 DEF Erasure
  <2>4. c \in PaperCall /\ c.pc = "erase"
    BY <2>3 DEF PaperCall, Erasure
  <2>5. call[h].files \subseteq 1..MaxFiles
    BY <2>2 DEF Erasure
  <2> QED BY <2>1, <2>3, <2>4, <2>5
<1>2. /\ DOMAIN call' = Handlers /\ call'[h] = c
      /\ \A g \in Handlers : g # h => call'[g] = call[g]
      /\ \A g \in Handlers : call'[g] \in PaperCall
  <2>1. Papers!Goto(h, c)
    BY DEF Papers!deleteRows
  <2> QED BY <1>1, <2>1, PaperGoto DEF PaperInv
<1>3. /\ doc' = [d \in Docs |-> IF d \in taken THEN Papers!NoDoc ELSE doc[d]]
      /\ cut' = cut \ taken /\ UNCHANGED <<owner, cloud, sent>>
  BY DEF Papers!deleteRows
<1> HIDE DEF c, taken
<1>4. /\ \A d \in Docs : d \in taken => doc'[d].file = 0 /\ d \notin Papers!Stored'
      /\ \A d \in Docs \ taken : doc'[d] = doc[d] /\ (d \in Papers!Stored' <=> d \in Papers!Stored)
      /\ Papers!Stored' \subseteq Docs
  BY <1>3 DEF Papers!Stored, Papers!NoDoc
<1>5. PaperTypes'
  <2>1. Papers!TypeOK /\ PaperTypes
    BY DEF PaperInv, PaperTypes
  <2>2. \A e \in Papers!Stored' : doc'[e] \in Papers!Row
    BY <1>4, <2>1, PaperRows
  <2>3. cut' \subseteq Papers!Stored'
    BY <1>3, <1>4, <2>1 DEF Papers!TypeOK, Papers!Stored
  <2>4. Papers!TypeOK'
    BY <1>3, <2>1, <2>2, <2>3 DEF Papers!TypeOK
  <2>5. doc' \in [Docs -> Papers!Row \cup {Papers!NoDoc}]
    BY <1>3, <2>1 DEF PaperTypes
  <2> QED BY <1>2, <2>1, <2>4, <2>5 DEF PaperTypes
<1>6. Numbered'
  <2>1. \A g \in Handlers : Dated(call[g])
    BY DEF PaperInv, Numbered
  <2>2. Dated(c)
    BY <1>1, <2>1 DEF Dated, Brings, Replaces
  <2>3. \A g \in Handlers : Dated(call'[g])
    BY <1>2, <2>1, <2>2
  <2>4. \A e \in Papers!Stored' : doc'[e].file <= sent /\ doc'[e].inline <= sent
    BY <1>4 DEF PaperInv, Numbered
  <2> QED BY <1>3, <2>3, <2>4 DEF Numbered, Dated, Brings, Replaces
<1>7. OneRow'
  BY <1>4 DEF PaperInv, OneRow
<1>8. Minded'
  <2>1. ASSUME NEW g \in Handlers, NEW d \in Docs, doc'[d].file # 0, Recalls(call'[g], doc'[d].file)
        PROVE  Minds(call'[g], d)
    <3>1. d \notin taken /\ doc'[d] = doc[d]
      BY <1>4, <2>1
    <3>2. CASE g = h
      <4>1. Recalls(call[h], doc[d].file)
        BY <1>1, <1>2, <2>1, <3>1, <3>2 DEF Recalls, Replaces
      <4>2. Minds(call[h], d)
        BY <2>1, <3>1, <4>1 DEF PaperInv, Minded
      <4>3. d \in call[h].rows
        BY <1>1, <4>2 DEF Minds, Replaces
      <4> QED BY <3>1, <4>3 DEF taken
    <3>3. CASE g # h
      BY <1>2, <2>1, <3>1, <3>3 DEF PaperInv, Minded
    <3> QED BY <3>2, <3>3
  <2> QED BY <2>1 DEF Minded, Recalls, Minds, Replaces
<1>9. Unshared'
  <2>1. ASSUME NEW g \in Handlers, Brings(call'[g]), call'[g].new.file # 0
        PROVE  /\ call'[g].new.file \in cloud
               /\ \A d \in Docs : doc'[d].file # call'[g].new.file
               /\ \A k \in Handlers :
                    /\ ~Recalls(call'[k], call'[g].new.file)
                    /\ k # g /\ Brings(call'[k]) => call'[k].new.file # call'[g].new.file
    <3>1. g # h /\ call'[g] = call[g]
      BY <1>1, <1>2, <2>1 DEF Brings
    <3>2. /\ call[g].new.file \in cloud
          /\ \A d \in Docs : doc[d].file # call[g].new.file
          /\ \A k \in Handlers :
               /\ ~Recalls(call[k], call[g].new.file)
               /\ k # g /\ Brings(call[k]) => call[k].new.file # call[g].new.file
      BY <2>1, <3>1 DEF PaperInv, Unshared
    <3>3. ~Brings(c) /\ \A f : Recalls(c, f) => Recalls(call[h], f)
      BY <1>1 DEF Brings, Recalls, Replaces
    <3>4. \A d \in Docs : doc'[d].file # call[g].new.file
      BY <1>4, <2>1, <3>1, <3>2
    <3> QED BY <1>2, <3>1, <3>2, <3>3, <3>4
  <2> QED BY <1>3, <2>1 DEF Unshared, Brings, Recalls, Replaces
<1>10. Papers!ContentSurvives'
  <2>1. ASSUME NEW d \in Papers!Stored' \ cut'
        PROVE  doc'[d].file \in cloud \/ doc'[d].inline # 0 \/ \E g \in Handlers : Papers!Mends(call'[g], d)
    <3>1. d \in Papers!Stored \ cut /\ d \in Docs \ taken /\ doc'[d] = doc[d]
      BY <1>3, <1>4, <2>1
    <3>2. doc[d].file \in cloud \/ doc[d].inline # 0 \/ \E g \in Handlers : Papers!Mends(call[g], d)
      BY <3>1 DEF PaperInv, Papers!ContentSurvives, Papers!readBuffer
    <3>3. ~Papers!Mends(call[h], d)
      BY <1>1, <3>1 DEF Papers!Mends, taken
    <3> QED BY <1>2, <3>1, <3>2, <3>3
  <2> QED BY <1>3, <2>1 DEF Papers!ContentSurvives, Papers!Mends, Papers!readBuffer
<1> QED BY <1>5, <1>6, <1>7, <1>8, <1>9, <1>10 DEF PaperInv

\* The row as saveReplaced leaves it.
Merged(kept, read, new) ==
  Papers!Saved(kept, read, [read EXCEPT !.file = new.file, !.inline = new.inline])

LEMMA PaperStep ==
  ASSUME PaperInv, [Papers!Next]_Papers!vars
  PROVE  PaperInv'
<1>0. /\ MaxFiles \in Nat /\ sent \in 0..MaxFiles /\ cloud \subseteq 1..sent /\ cut \subseteq Papers!Stored
      /\ \A h \in Handlers : call[h] \in PaperCall /\ Dated(call[h])
      /\ Papers!Stored \subseteq Docs
      /\ \A d \in Papers!Stored : /\ doc[d] \in Papers!Row
                                  /\ doc[d].file <= sent /\ doc[d].inline <= sent
  BY DEF PaperInv, PaperTypes, Papers!TypeOK, Numbered, Papers!Stored
<1>1. ASSUME NEW h \in Handlers, Papers!Idle(h) PROVE \A d : ~Papers!Mends(call[h], d)
  BY <1>1 DEF Papers!Idle, Papers!At, Papers!Mends
<1>2. ASSUME NEW h \in Handlers, NEW o \in Owners, NEW n \in {1, 2}, Papers!createMany(h, o, n) PROVE PaperInv'
  <2>1. [pc |-> "create", o |-> o, left |-> n] \in PaperCall
    BY DEF PaperCall
  <2>2. /\ Papers!Goto(h, [pc |-> "create", o |-> o, left |-> n])
        /\ UNCHANGED <<doc, cloud, sent, cut, owner>> /\ Papers!Idle(h)
    BY <1>2 DEF Papers!createMany
  <2> QED BY <1>1, <2>1, <2>2, PapersRest DEF Brings, Replaces, Dated, Recalls
<1>3. ASSUME NEW h \in Handlers, Papers!create(h) PROVE PaperInv'
  <2>1. PICK u \in Papers!Uploads(sent + 1) : /\ Papers!upload(u)
           /\ Papers!Goto(h, [pc |-> "insert", o |-> call[h].o, left |-> call[h].left, new |-> u])
    BY <1>3 DEF Papers!create
  <2>2. call[h].pc = "create" /\ call[h].o \in Owners /\ call[h].left \in {1, 2}
    BY <1>0, <1>3, PaperFields DEF Papers!create, Papers!At
  <2>3. u \in Answer
    BY <1>0, <2>1 DEF Papers!Uploads, Papers!upload, Answer
  <2>4. [pc |-> "insert", o |-> call[h].o, left |-> call[h].left, new |-> u] \in PaperCall
    BY <2>2, <2>3 DEF PaperCall
  <2> QED BY <2>1, <2>2, <2>4, PapersUpload DEF Brings, Replaces
<1>4. ASSUME NEW h \in Handlers, Papers!insert(h) PROVE PaperInv'
  <2> DEFINE c == IF call[h].left = 1 THEN Papers!IdleCall
                  ELSE [pc |-> "create", o |-> call[h].o, left |-> call[h].left - 1]
             r == [owner |-> call[h].o, file |-> call[h].new.file, inline |-> call[h].new.inline]
  <2>1. PICK d \in Docs \ Papers!Stored : doc' = [doc EXCEPT ![d] = r]
    BY <1>4 DEF Papers!insert
  <2>2. Papers!Goto(h, c) /\ UNCHANGED <<owner, cloud, sent, cut>> /\ call[h].pc = "insert"
    BY <1>4 DEF Papers!insert, Papers!At
  <2>3. /\ Brings(call[h]) /\ call[h].o \in Owners /\ call[h].left \in {1, 2} /\ call[h].new \in Answer
        /\ call[h].new.file <= sent /\ call[h].new.inline <= sent
    BY <1>0, <2>2, PaperFields DEF Brings, Dated
  <2>4. c \in PaperCall /\ c.pc \in {"idle", "create"}
    BY <2>3 DEF PaperCall, Papers!IdleCall
  <2>5. r \in Papers!Row /\ r.file = call[h].new.file /\ r.inline = call[h].new.inline
    BY <2>3 DEF Papers!Row, Answer
  <2>6. r.file \in cloud \/ r.inline # 0
    BY <2>3, <2>5 DEF PaperInv, Unshared, Answer
  <2>7. cut' = cut \ {d}
    BY <1>0, <2>1, <2>2
  <2>8. \A e \in Docs : ~Papers!Mends(call[h], e)
    BY <2>2 DEF Papers!Mends
  <2> HIDE DEF c, r
  <2> QED BY <2>1, <2>2, <2>3, <2>4, <2>5, <2>6, <2>7, <2>8, PapersWrite
<1>5. ASSUME NEW h \in Handlers, NEW d \in Docs, Papers!replace(h, d) PROVE PaperInv'
  <2> DEFINE c == [pc |-> "replace", d |-> d, seen |-> doc[d]]
  <2>1. /\ d \in Papers!Stored /\ Papers!Idle(h) /\ Papers!Goto(h, c)
        /\ UNCHANGED <<doc, cloud, sent, cut, owner>>
    BY <1>5 DEF Papers!replace
  <2>2. c \in PaperCall
    BY <1>0, <2>1 DEF PaperCall
  <2>3. ~Brings(c) /\ Dated(c)
    BY <1>0, <2>1 DEF Brings, Replaces, Dated
  <2>4. \A f : Recalls(c, f) => f = doc[d].file
    BY DEF Recalls
  <2>5. \A e \in Docs : doc[e].file # 0 /\ Recalls(c, doc[e].file) => Minds(c, e)
    BY <2>4 DEF PaperInv, OneRow, Minds, Replaces
  <2> HIDE DEF c
  <2> QED BY <1>1, <2>1, <2>2, <2>3, <2>4, <2>5, PapersRest
<1>6. ASSUME NEW h \in Handlers, Papers!uploadReplacement(h) PROVE PaperInv'
  <2>1. PICK u \in Papers!Uploads(sent + 1) : /\ Papers!upload(u)
           /\ Papers!Goto(h, [pc |-> "swap", d |-> call[h].d, seen |-> call[h].seen, new |-> u])
    BY <1>6 DEF Papers!uploadReplacement
  <2>2. call[h].pc = "replace" /\ Replaces(call[h]) /\ call[h].d \in Docs /\ call[h].seen \in Papers!Row
    BY <1>0, <1>6, PaperFields DEF Papers!uploadReplacement, Papers!At, Replaces
  <2>3. u \in Answer
    BY <1>0, <2>1 DEF Papers!Uploads, Papers!upload, Answer
  <2>4. [pc |-> "swap", d |-> call[h].d, seen |-> call[h].seen, new |-> u] \in PaperCall
    BY <2>2, <2>3 DEF PaperCall
  <2> QED BY <2>1, <2>2, <2>4, PapersUpload DEF Brings, Replaces
<1>7. ASSUME NEW h \in Handlers, Papers!dropReplaced(h) PROVE PaperInv'
  <2> DEFINE c == [call[h] EXCEPT !.pc = "save"]
  <2>1. /\ call[h].pc = "swap" /\ Papers!Goto(h, c) /\ UNCHANGED <<owner, doc, sent, cut>>
        /\ cloud' = cloud \/ cloud' = cloud \ {call[h].seen.file}
    BY <1>7 DEF Papers!dropReplaced, Papers!At, Papers!deleteCloudFile
  <2>2. /\ call[h] = [pc |-> "swap", d |-> call[h].d, seen |-> call[h].seen, new |-> call[h].new]
        /\ call[h].d \in Docs /\ call[h].seen \in Papers!Row /\ call[h].new \in Answer
    BY <1>0, <2>1, PaperFields DEF Brings, Replaces
  <2>3. c = [pc |-> "save", d |-> call[h].d, seen |-> call[h].seen, new |-> call[h].new]
    BY <2>2
  <2>4. c \in PaperCall
    BY <2>2, <2>3 DEF PaperCall
  <2>5. Dated(c) /\ Brings(call[h]) /\ c.new = call[h].new
    BY <1>0, <2>1, <2>3 DEF Dated, Brings, Replaces
  <2>6. Recalls(call[h], call[h].seen.file) /\ \A f : Recalls(c, f) => Recalls(call[h], f)
    BY <2>1, <2>3 DEF Recalls, Replaces
  <2>7. \A d \in Docs : Minds(call[h], d) => Minds(c, d) /\ Papers!Mends(c, d)
    BY <2>1, <2>3 DEF Minds, Replaces, Papers!Mends
  <2>8. \A d \in Docs : ~Papers!Mends(call[h], d)
    BY <2>1 DEF Papers!Mends
  <2> HIDE DEF c
  <2> QED BY <2>1, <2>4, <2>5, <2>6, <2>7, <2>8, PapersShrink
<1>8. ASSUME NEW h \in Handlers, Papers!saveReplaced(h) PROVE PaperInv'
  <2> DEFINE q == call[h]
  <2>1. /\ q.pc = "save" /\ Papers!Goto(h, Papers!IdleCall) /\ UNCHANGED <<owner, cloud, sent>>
    BY <1>8 DEF Papers!saveReplaced, Papers!At
  <2>2. /\ q.d \in Docs /\ q.seen \in Papers!Row /\ q.new \in Answer
        /\ q.new.file <= sent /\ q.new.inline <= sent
        /\ q.new.inline # 0 => q.new.inline # q.seen.inline
        /\ Brings(q) /\ Replaces(q)
    BY <1>0, <2>1, PaperFields DEF Brings, Replaces, Dated
  <2>3. Papers!IdleCall \in PaperCall /\ Papers!IdleCall.pc = "idle"
    BY DEF PaperCall, Papers!IdleCall
  <2>4. CASE q.d \notin Papers!Stored
    <3>1. UNCHANGED <<doc, cut>>
      BY <1>8, <2>4 DEF Papers!saveReplaced
    <3>2. \A d \in Papers!Stored : ~Papers!Mends(q, d)
      BY <2>1, <2>4 DEF Papers!Mends
    <3> QED BY <2>1, <3>1, <3>2, PapersGone
  <2>5. CASE q.d \in Papers!Stored
    <3> DEFINE r == Merged(doc[q.d], q.seen, q.new)
    <3>1. doc' = [doc EXCEPT ![q.d] = r] /\ cut' = cut \ {q.d}
      BY <1>8, <2>5 DEF Papers!saveReplaced, Merged
    <3>2. doc[q.d] \in Papers!Row /\ doc[q.d].file <= sent /\ doc[q.d].inline <= sent
      BY <1>0, <2>5
    <3>3. /\ r \in Papers!Row
          /\ r.file = IF q.new.file = q.seen.file THEN doc[q.d].file ELSE q.new.file
          /\ r.inline = IF q.new.inline = q.seen.inline THEN doc[q.d].inline ELSE q.new.inline
      <4>1. doc[q.d] \in Papers!Row /\ q.seen \in Papers!Row /\ q.new \in Answer
        BY <2>2, <3>2
      <4> HIDE DEF q
      <4> QED BY <4>1 DEF Merged, Papers!Saved, Papers!Row, Answer
    <3>4. q.new.file # 0 => q.new.file \in cloud /\ q.new.file # q.seen.file
      BY <2>2 DEF PaperInv, Unshared, Recalls
    <3>5. r.file \in cloud \/ r.inline # 0
      BY <2>2, <3>3, <3>4 DEF Answer
    <3>6. r.file \in {0, doc[q.d].file, q.new.file} /\ r.file <= sent /\ r.inline <= sent
      BY <2>2, <3>2, <3>3
    <3>7. \A e \in Docs : Papers!Mends(q, e) => e = q.d
      BY <2>1 DEF Papers!Mends
    <3> HIDE DEF r
    <3> QED BY <2>1, <2>2, <2>3, <3>1, <3>3, <3>5, <3>6, <3>7, PapersWrite
  <2> QED BY <2>4, <2>5
<1>9. ASSUME NEW h \in Handlers, NEW d \in Docs, Papers!delete(h, d) PROVE PaperInv'
  <2> DEFINE c == [pc |-> "erase", rows |-> {d}, files |-> {doc[d].file} \ {0}, o |-> "none", gone |-> FALSE]
  <2>1. /\ d \in Papers!Stored /\ Papers!Idle(h) /\ Papers!Goto(h, c)
        /\ UNCHANGED <<doc, cloud, sent, cut, owner>>
    BY <1>9 DEF Papers!delete
  <2>2. doc[d].file \in 0..MaxFiles /\ doc[d].file <= sent
    BY <1>0, <2>1 DEF Papers!Row
  <2>3. c \in PaperCall
    BY <1>0, <2>2 DEF PaperCall, Erasure
  <2>4. ~Brings(c) /\ Dated(c)
    BY <2>2 DEF Brings, Replaces, Dated
  <2>5. \A f : Recalls(c, f) => f = doc[d].file
    BY DEF Recalls, Replaces
  <2>6. \A e \in Docs : doc[e].file # 0 /\ Recalls(c, doc[e].file) => Minds(c, e)
    BY <2>5 DEF PaperInv, OneRow, Minds, Replaces
  <2> HIDE DEF c
  <2> QED BY <1>1, <2>1, <2>3, <2>4, <2>5, <2>6, PapersRest
<1>10. ASSUME NEW h \in Handlers, NEW o \in Owners, Papers!deleteAllFor(h, o) PROVE PaperInv'
  <2> DEFINE c == [pc |-> "erase", rows |-> Papers!Of(o), files |-> {doc[d].file : d \in Papers!Of(o)} \ {0},
                   o |-> o, gone |-> FALSE]
  <2>1. /\ Papers!Idle(h) /\ Papers!Goto(h, c) /\ UNCHANGED <<doc, cloud, sent, cut, owner>>
    BY <1>10 DEF Papers!deleteAllFor
  <2>2. \A d \in Papers!Of(o) : d \in Docs /\ doc[d].file \in 0..MaxFiles /\ doc[d].file <= sent
    BY <1>0 DEF Papers!Row, Papers!Of
  <2>3. c.rows \in SUBSET Docs /\ c.files \in SUBSET (1..MaxFiles)
    BY <1>0, <2>2
  <2>4. c \in PaperCall
    BY <2>3 DEF PaperCall, Erasure
  <2>5. ~Brings(c) /\ Dated(c)
    BY <2>2 DEF Brings, Replaces, Dated
  <2>6. \A f : Recalls(c, f) => \E d \in Papers!Of(o) : doc[d].file = f
    BY DEF Recalls, Replaces
  <2>7. \A e \in Docs : doc[e].file # 0 /\ Recalls(c, doc[e].file) => Minds(c, e)
    <3>1. ASSUME NEW e \in Docs, doc[e].file # 0, Recalls(c, doc[e].file) PROVE e \in Papers!Of(o)
      BY <2>2, <2>6, <3>1 DEF PaperInv, OneRow
    <3> QED BY <3>1 DEF Minds
  <2>8. \A f : Recalls(c, f) => \E d \in Docs : doc[d].file = f
    BY <2>2, <2>6
  <2> HIDE DEF c
  <2> QED BY <1>1, <2>1, <2>4, <2>5, <2>7, <2>8, PapersRest
<1>11. ASSUME NEW h \in Handlers, NEW f \in 1..MaxFiles, Papers!deleteFile(h, f) PROVE PaperInv'
  <2> DEFINE c == [call[h] EXCEPT !.files = @ \ {f}]
  <2>1. /\ call[h].pc = "erase" /\ f \in call[h].files /\ Papers!Goto(h, c)
        /\ UNCHANGED <<owner, doc, sent, cut>> /\ cloud' \in {cloud, cloud \ {f}}
    BY <1>11 DEF Papers!deleteFile, Papers!At, Papers!deleteCloudFile
  <2>2. call[h] \in Erasure
    BY <1>0, <2>1 DEF PaperCall, Papers!IdleCall, Erasure
  <2>3. /\ c \in Erasure /\ c.gone = call[h].gone /\ c.rows = call[h].rows
        /\ c.files = call[h].files \ {f} /\ c.pc = "erase"
    BY <2>2 DEF Erasure
  <2>4. c \in PaperCall
    BY <2>3 DEF PaperCall
  <2>5. ~Brings(c) /\ Dated(c)
    BY <1>0, <2>1, <2>3 DEF Brings, Replaces, Dated
  <2>6. Recalls(call[h], f) /\ \A g : Recalls(c, g) => Recalls(call[h], g)
    BY <2>1, <2>3 DEF Recalls, Replaces
  <2>7. \A d \in Docs : Minds(call[h], d) => Minds(c, d) /\ Papers!Mends(c, d)
    BY <2>1, <2>3 DEF Minds, Replaces, Papers!Mends
  <2>8. \A d \in Docs : Papers!Mends(call[h], d) => Papers!Mends(c, d)
    BY <2>1, <2>3 DEF Papers!Mends
  <2> HIDE DEF c
  <2> QED BY <2>1, <2>4, <2>5, <2>6, <2>7, <2>8, PapersShrink
<1>12. ASSUME NEW h \in Handlers, Papers!deleteOwner(h) PROVE PaperInv'
  <2>1. /\ call[h].pc = "erase" /\ call[h].gone /\ Papers!Goto(h, Papers!IdleCall)
        /\ UNCHANGED <<doc, cloud, sent, cut>> /\ owner' \subseteq owner
    BY <1>12 DEF Papers!deleteOwner, Papers!At
  <2> QED BY <2>1, PapersGone DEF Papers!Mends
<1>13. CASE Papers!Crash
  <2>1. /\ cut' = cut \cup {d \in Papers!Stored : ~Papers!readBuffer(d)}
        /\ call' = [h \in Handlers |-> Papers!IdleCall] /\ UNCHANGED <<owner, doc, cloud, sent>>
    BY <1>13 DEF Papers!Crash
  <2>2. /\ \A h \in Handlers : call'[h] = Papers!IdleCall /\ call'[h] \in PaperCall /\ call'[h].pc = "idle"
        /\ DOMAIN call' = Handlers
    BY <2>1 DEF PaperCall, Papers!IdleCall
  <2>3. PaperTypes'
    <3>1. Papers!TypeOK /\ PaperTypes
      BY DEF PaperInv, PaperTypes
    <3>2. Papers!TypeOK'
      BY <2>1, <3>1 DEF Papers!TypeOK, Papers!Stored
    <3> QED BY <2>1, <2>2, <3>1, <3>2 DEF PaperTypes
  <2>4. Numbered' /\ OneRow' /\ Minded' /\ Unshared'
    BY <2>1, <2>2 DEF PaperInv, Numbered, OneRow, Minded, Unshared, Dated, Brings, Replaces, Recalls, Papers!Stored
  <2>5. Papers!ContentSurvives'
    BY <2>1 DEF Papers!ContentSurvives, Papers!readBuffer, Papers!Stored
  <2> QED BY <2>3, <2>4, <2>5 DEF PaperInv
<1>14. CASE UNCHANGED Papers!vars
  <2>1. UNCHANGED <<owner, doc, cloud, sent, cut, call>>
    BY <1>14 DEF Papers!vars
  <2> QED BY <2>1 DEF PaperInv, PaperTypes, Papers!TypeOK, Numbered, OneRow, Minded, Unshared, Dated, Brings,
                      Replaces, Recalls, Minds, Papers!Stored, Papers!ContentSurvives, Papers!readBuffer, Papers!Mends
<1> QED
  BY <1>2, <1>3, <1>4, <1>5, <1>6, <1>7, <1>8, <1>9, <1>10, <1>11, <1>12, <1>13, <1>14, PapersRemoved
     DEF Papers!Next

\* A document can be read as long as it is kept, however calls overlap and
\* wherever the row or the file goes first, unless a crash came between the
\* deletion of its file and the save or removal of its row: for any number of
\* owners, documents, files and calls (replace, delete, deleteAllFor...).
THEOREM ContentSurvivesAlways ==
  ASSUME MaxFiles \in Nat
  PROVE  Papers!Spec => [](Papers!TypeOK /\ Papers!ContentSurvives)
<1>1. Papers!Init => PaperInv
  <2> SUFFICES ASSUME Papers!Init PROVE PaperInv
    OBVIOUS
  <2>1. /\ Papers!Stored = {} /\ \A d \in Docs : doc[d].file = 0
        /\ \A h \in Handlers : call[h].pc = "idle" /\ call[h] \in PaperCall
    BY DEF Papers!Init, Papers!Stored, Papers!NoDoc, Papers!IdleCall, PaperCall
  <2>2. PaperTypes
    BY <2>1 DEF Papers!Init, PaperTypes, Papers!TypeOK
  <2>3. Numbered /\ OneRow /\ Minded /\ Unshared /\ Papers!ContentSurvives
    BY <2>1 DEF Numbered, OneRow, Minded, Unshared, Papers!ContentSurvives, Dated, Brings, Replaces, Recalls
  <2> QED BY <2>2, <2>3 DEF PaperInv
<1>2. PaperInv /\ [Papers!Next]_Papers!vars => PaperInv'
  BY PaperStep
<1>3. PaperInv => Papers!TypeOK /\ Papers!ContentSurvives
  BY DEF PaperInv, PaperTypes
<1> QED BY <1>1, <1>2, <1>3, PTL DEF Papers!Spec

-----------------------------------------------------------------------------
(* Tenders: what people ask of them, and what the background pass fills in.  *)

TenderConstants ==
  /\ Asked \subseteq Bidding!Status \cup {"not_evaluated"}
  /\ \A s, t \in Old : s = t

\* What a bulk request goes on with, and what it does with one tender.
Batch ==
  [pc: {"import"}, todo: SUBSET Bids, item: Bidding!Items, end: {"none", "ahead"}]
    \cup [pc: {"sync"}, todo: SUBSET Bids, item: Bidding!Items]
    \cup [pc: {"update"}, todo: SUBSET Ids, patch: Bidding!Patches, super: BOOLEAN]
    \cup [pc: {"delete"}, todo: SUBSET Ids, super: BOOLEAN]
    \cup [pc: {"remove"}, todo: SUBSET Ids]
Backs == {Bidding!IdleCall} \cup Batch
Edits == {Bidding!Changes(a, b) : a \in Bidding!Tender, b \in Bidding!Tender}
Steps ==
  [pc: {"insert"}, bid: Bids, status: Asked \cup {"not_filed"}, end: {"none", "ahead"}, back: Backs]
    \cup [pc: {"save", "clash"}, t: Ids, set: Edits, by: {"user", "super"}, back: Backs]
    \cup [pc: {"deleteOne"}, t: Ids, back: Backs]

Pass ==
  {Bidding!NoPass}
    \cup [pc: {"maps"}, rows: UNION {[T -> Bidding!Tender] : T \in SUBSET Ids}]
    \cup [pc: {"fill"}, rows: UNION {[T -> Bidding!Tender] : T \in SUBSET Ids}, known: SUBSET Bids]

\* Nobody but a super admin is about to take a participation back, and nobody
\* to restore what was deleted.
Honest(c) ==
  c.pc \in {"save", "clash"} =>
    /\ "status" \in DOMAIN c.set /\ c.set.status = "not_filed" => c.by = "super"
    /\ "deleted" \in DOMAIN c.set => c.set.deleted

TenderTypes ==
  /\ tender \in [Ids -> Bidding!Tender \cup {Bidding!NoTender}]
  /\ logged \subseteq Bids /\ backfillDone \in BOOLEAN
  /\ backfill \in Pass
  /\ call \in [Handlers -> Backs \cup Steps]
HonestInv == TenderTypes /\ \A h \in Handlers : Honest(call[h])

LEMMA BatchFields ==
  ASSUME NEW c \in Backs \cup Steps
  PROVE  /\ c.pc \in {"import", "sync"} => c.item \in Bidding!Items /\ c.todo \in SUBSET Bids
         /\ c.pc = "import" => c.end \in {"none", "ahead"}
         /\ c.pc = "update" => c.patch \in Bidding!Patches
         /\ c.pc \in {"update", "delete"} => c.super \in BOOLEAN
         /\ c.pc \in {"update", "delete", "remove"} => c.todo \in SUBSET Ids
         /\ c.pc \in {"import", "sync", "update", "delete", "remove"} => c \in Batch
BY DEF Backs, Batch, Steps, Bidding!IdleCall

LEMMA StepFields ==
  ASSUME NEW c \in Backs \cup Steps
  PROVE  /\ c.pc = "insert" => /\ c.bid \in Bids /\ c.status \in Asked \cup {"not_filed"}
                               /\ c.end \in {"none", "ahead"}
         /\ c.pc \in {"save", "clash"} => /\ c.t \in Ids /\ c.set \in Edits /\ c.by \in {"user", "super"}
         /\ c.pc = "deleteOne" => c.t \in Ids
         /\ c.pc \in {"insert", "save", "clash", "deleteOne"} => c.back \in Backs /\ c \in Steps
BY DEF Backs, Batch, Steps, Bidding!IdleCall

\* A bulk request leaves one behind.
LEMMA BatchGoesOn ==
  ASSUME NEW c \in Batch, NEW x
  PROVE  /\ [c EXCEPT !.todo = @ \ {x}] \in Batch
         /\ [c EXCEPT !.todo = @ \ {x}].pc = c.pc
         /\ c.pc \in {"import", "sync"} => [c EXCEPT !.todo = @ \ {x}].item = c.item
         /\ c.pc = "import" => [c EXCEPT !.todo = @ \ {x}].end = c.end
         /\ c.pc = "update" => [c EXCEPT !.todo = @ \ {x}].patch = c.patch
         /\ c.pc \in {"update", "delete"} => [c EXCEPT !.todo = @ \ {x}].super = c.super
BY DEF Batch

LEMMA StepGoesBack ==
  ASSUME NEW c \in Steps, NEW b \in Backs
  PROVE  /\ [c EXCEPT !.back = b] \in Steps
         /\ [c EXCEPT !.back = b].pc = c.pc
         /\ c.pc = "insert" => [c EXCEPT !.back = b].bid = c.bid
         /\ c.pc \in {"save", "clash"} => /\ [c EXCEPT !.back = b].set = c.set
                                          /\ [c EXCEPT !.back = b].by = c.by
BY DEF Steps

\* What save() sends, and what it makes of a row that may have changed.
LEMMA ChangesAre ==
  ASSUME NEW a \in Bidding!Tender, NEW b \in Bidding!Tender
  PROVE  /\ Bidding!Changes(a, b) \in Edits
         /\ "bid" \in DOMAIN Bidding!Changes(a, b) <=> b.bid # a.bid
         /\ "status" \in DOMAIN Bidding!Changes(a, b) <=> b.status # a.status
         /\ "deleted" \in DOMAIN Bidding!Changes(a, b) <=> b.deleted # a.deleted
         /\ b.bid # a.bid => Bidding!Changes(a, b).bid = b.bid
         /\ b.status # a.status => Bidding!Changes(a, b).status = b.status
         /\ b.deleted # a.deleted => Bidding!Changes(a, b).deleted = b.deleted
<1>1. Bidding!Changes(a, b) \in Edits
  BY DEF Edits
<1>2. /\ DOMAIN a = {"bid", "status", "end", "deleted", "by"}
      /\ "bid" \in DOMAIN a /\ "status" \in DOMAIN a /\ "deleted" \in DOMAIN a
  BY DEF Bidding!Tender
<1>3. /\ "bid" \in DOMAIN Bidding!Changes(a, b) <=> b.bid # a.bid
      /\ b.bid # a.bid => Bidding!Changes(a, b).bid = b.bid
  BY <1>2 DEF Bidding!Changes
<1>4. /\ "status" \in DOMAIN Bidding!Changes(a, b) <=> b.status # a.status
      /\ b.status # a.status => Bidding!Changes(a, b).status = b.status
  BY <1>2 DEF Bidding!Changes
<1>5. "deleted" \in DOMAIN Bidding!Changes(a, b) <=> b.deleted # a.deleted
  BY <1>2, Zenon DEF Bidding!Changes
<1>6. b.deleted # a.deleted => Bidding!Changes(a, b).deleted = b.deleted
  BY <1>2, Zenon DEF Bidding!Changes
<1> QED BY <1>1, <1>3, <1>4, <1>5, <1>6

LEMMA WrittenIs ==
  ASSUME NEW was \in Bidding!Tender, NEW s \in Edits
  PROVE  /\ Bidding!Written(was, s) \in Bidding!Tender
         /\ Bidding!Written(was, s).bid = IF "bid" \in DOMAIN s THEN s.bid ELSE was.bid
         /\ Bidding!Written(was, s).status = IF "status" \in DOMAIN s THEN s.status ELSE was.status
         /\ Bidding!Written(was, s).deleted = IF "deleted" \in DOMAIN s THEN s.deleted ELSE was.deleted
<1>1. PICK a \in Bidding!Tender, b \in Bidding!Tender : s = Bidding!Changes(a, b)
  BY DEF Edits
<1>2. /\ DOMAIN was = {"bid", "status", "end", "deleted", "by"}
      /\ was.bid \in Bids /\ was.status \in Bidding!Status /\ was.end \in {"none", "ahead", "past"}
      /\ was.deleted \in BOOLEAN /\ was.by \in {"", "default", "user"}
      /\ b.bid \in Bids /\ b.status \in Bidding!Status /\ b.end \in {"none", "ahead", "past"}
      /\ b.deleted \in BOOLEAN /\ b.by \in {"", "default", "user"}
  BY DEF Bidding!Tender
<1>3. \A f \in DOMAIN s : s[f] = b[f]
  BY <1>1 DEF Bidding!Changes
<1> DEFINE w == Bidding!Written(was, s)
<1>4. /\ w.bid = IF "bid" \in DOMAIN s THEN s.bid ELSE was.bid
      /\ w.status = IF "status" \in DOMAIN s THEN s.status ELSE was.status
      /\ w.end = IF "end" \in DOMAIN s THEN s.end ELSE was.end
      /\ w.by = IF "by" \in DOMAIN s THEN s.by ELSE was.by
      /\ w = [f \in {"bid", "status", "end", "deleted", "by"} |-> w[f]]
  BY <1>2 DEF Bidding!Written
<1>5. w.deleted = IF "deleted" \in DOMAIN s THEN s.deleted ELSE was.deleted
  BY <1>2 DEF Bidding!Written
<1>6. /\ w.bid \in Bids /\ w.status \in Bidding!Status /\ w.end \in {"none", "ahead", "past"}
      /\ w.by \in {"", "default", "user"}
  BY <1>2, <1>3, <1>4
<1>7. w.deleted \in BOOLEAN
  BY <1>2, <1>3, <1>5
<1> HIDE DEF w
<1>8. w \in Bidding!Tender
  BY <1>4, <1>6, <1>7 DEF Bidding!Tender
<1> QED BY <1>4, <1>5, <1>8 DEF w

\* No active tender has this number: who is about to give it has looked.
Free(bid) == \A t \in Ids : tender[t] # Bidding!NoTender /\ ~tender[t].deleted => tender[t].bid # bid
Looked(c) ==
  /\ c.pc = "insert" => Free(c.bid)
  /\ c.pc = "save" /\ "bid" \in DOMAIN c.set => Free(c.set.bid)
Proceeds(h) == \E c \in Backs \cup Steps : Honest(c) /\ Looked(c) /\ Bidding!Goto(h, c)

LEMMA KnownRows ==
  ASSUME TenderTypes
  PROVE  /\ \A t \in Ids : tender[t] # Bidding!NoTender <=> tender[t] \in Bidding!Tender
         /\ \A t \in Ids : t \in Bidding!Known <=> tender[t] # Bidding!NoTender
         /\ \A bid : Free(bid) <=> Bidding!activeBidFilter(bid) = {}
<1>1. Bidding!NoTender \notin Bidding!Tender
  BY DEF Bidding!NoTender, Bidding!Tender, Bidding!Status
<1> QED BY <1>1 DEF TenderTypes, Bidding!Known, Bidding!activeBidFilter, Free

LEMMA OneOfProceeds ==
  ASSUME NEW h \in Handlers, NEW s \in Steps, NEW b \in Batch,
         Honest(s), Looked(s), Bidding!OneOf(h, s, b)
  PROVE  Proceeds(h)
<1> DEFINE k == IF b.todo = {} THEN Bidding!IdleCall ELSE b
<1>1. k \in Backs
  BY DEF Backs
<1>2. /\ [s EXCEPT !.back = k] \in Steps
      /\ Honest([s EXCEPT !.back = k]) /\ Looked([s EXCEPT !.back = k])
  BY <1>1, StepGoesBack DEF Honest, Looked
<1> QED BY <1>2 DEF Proceeds, Bidding!OneOf

LEMMA RestProceeds ==
  ASSUME NEW h \in Handlers, NEW b \in Backs, Bidding!Goto(h, b)
  PROVE  Proceeds(h)
<1>1. Honest(b) /\ Looked(b)
  BY DEF Backs, Batch, Honest, Looked, Bidding!IdleCall
<1> QED BY <1>1 DEF Proceeds

LEMMA SkipProceeds ==
  ASSUME NEW h \in Handlers, NEW b \in Batch, Bidding!Skip(h, b)
  PROVE  Proceeds(h)
<1>1. (IF b.todo = {} THEN Bidding!IdleCall ELSE b) \in Backs
  BY DEF Backs
<1> QED BY <1>1, RestProceeds DEF Bidding!Skip

\* What GeM's page makes of a tender: another status, never "not filed".
LEMMA GemSays ==
  ASSUME TenderConstants, NEW was \in Bidding!Tender, NEW item \in Bidding!Items
  PROVE  LET new == Bidding!applyGemStatusUpdate(was, item)
         IN /\ new \in Bidding!Tender
            /\ new.bid = was.bid /\ new.deleted = was.deleted
            /\ new.status = "not_filed" => was.status = "not_filed"
<1> DEFINE s == Bidding!StatusOf(item)
<1>1. Bidding!deriveStatusFromGemProgress(item, TRUE) \in Bidding!Status
      /\ Bidding!deriveStatusFromGemProgress(item, FALSE) \in Bidding!Status
  BY DEF Bidding!deriveStatusFromGemProgress, Bidding!bidAwardStatus, Bidding!Status
<1>2. Bidding!inferTenderStatusFromGemSyncFields(item) \in Bidding!Status \cup {""}
  BY DEF Bidding!inferTenderStatusFromGemSyncFields,
     Bidding!deriveStatusFromGemProgress, Bidding!bidAwardStatus, Bidding!Status
<1>3. s \in Bidding!Status \cup {""}
  BY <1>2 DEF Bidding!StatusOf, TenderConstants, Bidding!Items, Bidding!Status
<1> HIDE DEF s
<1>4. s # "" => [was EXCEPT !.status = s] \in Bidding!Tender
  BY <1>3 DEF Bidding!Tender
<1>5. /\ [was EXCEPT !.status = s].bid = was.bid /\ [was EXCEPT !.status = s].deleted = was.deleted
      /\ [was EXCEPT !.status = s].status = s
  BY DEF Bidding!Tender
<1> QED BY <1>4, <1>5 DEF Bidding!applyGemStatusUpdate, s
LEMMA MergeSays ==
  ASSUME TenderConstants, NEW was \in Bidding!Tender, NEW item \in Bidding!Items,
         NEW end \in {"none", "ahead"}
  PROVE  LET new == Bidding!mergeImportedTender(was, item, end)
         IN /\ new \in Bidding!Tender
            /\ new.bid = was.bid /\ new.deleted = was.deleted
            /\ new.status = "not_filed" => was.status = "not_filed"
<1> DEFINE stamped == Bidding!stampAddedBy(was, "user")
           dated == IF end = "none" THEN stamped ELSE [stamped EXCEPT !.end = end]
<1>1. /\ stamped \in Bidding!Tender /\ stamped.bid = was.bid
      /\ stamped.deleted = was.deleted /\ stamped.status = was.status
  BY DEF Bidding!stampAddedBy, Bidding!Tender
<1> HIDE DEF stamped
<1>2. /\ dated \in Bidding!Tender /\ dated.bid = was.bid
      /\ dated.deleted = was.deleted /\ dated.status = was.status
  BY <1>1 DEF Bidding!Tender
<1>3. Bidding!mergeImportedTender(was, item, end)
        = IF item.status = "" THEN dated ELSE Bidding!applyGemStatusUpdate(dated, item)
  BY DEF Bidding!mergeImportedTender, stamped
<1> HIDE DEF dated
<1>4. /\ Bidding!applyGemStatusUpdate(dated, item) \in Bidding!Tender
      /\ Bidding!applyGemStatusUpdate(dated, item).bid = dated.bid
      /\ Bidding!applyGemStatusUpdate(dated, item).deleted = dated.deleted
      /\ Bidding!applyGemStatusUpdate(dated, item).status = "not_filed" => dated.status = "not_filed"
  BY <1>2, GemSays
<1>5. CASE item.status = ""
  BY <1>2, <1>3, <1>5
<1>6. CASE item.status # ""
  BY <1>2, <1>3, <1>4, <1>6
<1> QED BY <1>5, <1>6

\* An edit neither deletes nor restores, and makes a tender "not filed" only if
\* it says so.
LEMMA PatchSays ==
  ASSUME TenderConstants, NEW was \in Bidding!Tender, NEW patch \in Bidding!Patches
  PROVE  LET new == Bidding!Patched(was, patch)
         IN /\ new \in Bidding!Tender /\ new.deleted = was.deleted
            /\ new.bid = IF patch.bid = "" THEN was.bid ELSE patch.bid
            /\ new.status = "not_filed" => patch.status = "not_filed" \/ was.status = "not_filed"
<1> DEFINE bid == IF patch.bid = "" THEN was.bid ELSE patch.bid
           end == IF patch.end = "" THEN was.end ELSE patch.end
           status == IF patch.status = "" THEN was.status
                     ELSE IF patch.status = "not_evaluated" THEN "filed" ELSE patch.status
           edited == [was EXCEPT !.bid = bid, !.end = end, !.status = status]
<1>1. /\ bid \in Bids /\ end \in {"none", "ahead", "past"} /\ status \in Bidding!Status
      /\ status = "not_filed" => patch.status = "not_filed" \/ was.status = "not_filed"
  BY DEF Bidding!Tender, Bidding!Patches, TenderConstants, Bidding!Status
<1>2. Bidding!Patched(was, patch) = Bidding!stampAddedBy(edited, "user")
  BY DEF Bidding!Patched
<1> HIDE DEF bid, end, status
<1>3. /\ edited \in Bidding!Tender /\ edited.bid = bid
      /\ edited.deleted = was.deleted /\ edited.status = status
  BY <1>1 DEF Bidding!Tender
<1> HIDE DEF edited
<1>4. LET new == Bidding!stampAddedBy(edited, "user")
      IN /\ new \in Bidding!Tender /\ new.deleted = edited.deleted
         /\ new.bid = edited.bid /\ new.status = edited.status
  BY <1>3 DEF Bidding!stampAddedBy, Bidding!Tender
<1> QED BY <1>1, <1>2, <1>3, <1>4 DEF bid

\* An edit restores nothing; it takes no participation back.
KeepsDeleted(was, made) == was.deleted => made.deleted
KeepsPart(was, made) == made.status = "not_filed" => was.status = "not_filed"

\* What one edit sends: the new number aside, it is safe to save.
LEMMA SaveIs ==
  ASSUME NEW t \in Ids, NEW was \in Bidding!Tender, NEW made \in Bidding!Tender,
         NEW s, s = Bidding!Save(t, was, made)
  PROVE  /\ s \in Steps /\ s.pc = "save" /\ s.by = "user"
         /\ s.set = Bidding!Changes(was, made) /\ s = [s EXCEPT !.by = "user"]
<1> DEFINE d == Bidding!Changes(was, made)
<1>1. s = [pc |-> "save", t |-> t, set |-> d, by |-> "user", back |-> Bidding!IdleCall]
  BY DEF Bidding!Save
<1>2. d \in Edits
  BY ChangesAre
<1> HIDE DEF d
<1>3. s \in Steps
  BY <1>1, <1>2 DEF Steps, Backs
<1>4. s.set = d /\ s.pc = "save" /\ s.by = "user" /\ s = [s EXCEPT !.by = "user"]
  BY <1>1
<1> QED BY <1>3, <1>4 DEF d

LEMMA SentIsHonest ==
  ASSUME NEW was \in Bidding!Tender, NEW made \in Bidding!Tender, KeepsDeleted(was, made),
         NEW s, s.set = Bidding!Changes(was, made), s.by = "super" \/ KeepsPart(was, made)
  PROVE  Honest(s)
<1> DEFINE d == Bidding!Changes(was, made)
<1>1. "deleted" \in DOMAIN d => d.deleted
  <2>1. SUFFICES ASSUME "deleted" \in DOMAIN d PROVE d.deleted
    OBVIOUS
  <2>2. made.deleted # was.deleted /\ d.deleted = made.deleted
    BY <2>1, ChangesAre, Zenon
  <2>3. made.deleted \in BOOLEAN /\ was.deleted \in BOOLEAN
    BY DEF Bidding!Tender
  <2>4. made.deleted
    BY <2>2, <2>3 DEF KeepsDeleted
  <2> QED BY <2>2, <2>4
<1>2. "status" \in DOMAIN d /\ d.status = "not_filed" => s.by = "super"
  <2>1. SUFFICES ASSUME "status" \in DOMAIN d, d.status = "not_filed" PROVE s.by = "super"
    OBVIOUS
  <2>2. made.status # was.status /\ d.status = made.status
    BY <2>1, ChangesAre
  <2> QED BY <2>1, <2>2 DEF KeepsPart
<1> HIDE DEF d
<1>3. s.set = d
  BY DEF d
<1> QED BY <1>1, <1>2, <1>3, Zenon DEF Honest

\* No new number in it.
LEMMA SentIsLooked ==
  ASSUME NEW was \in Bidding!Tender, NEW made \in Bidding!Tender, made.bid = was.bid,
         NEW s, s.pc = "save", s.set = Bidding!Changes(was, made)
  PROVE  Looked(s)
<1>1. "bid" \notin DOMAIN s.set
  BY ChangesAre
<1> QED BY <1>1 DEF Looked

LEMMA SaveProceeds ==
  ASSUME NEW h \in Handlers, NEW b \in Batch, NEW t \in Ids,
         NEW was \in Bidding!Tender, NEW made \in Bidding!Tender,
         KeepsDeleted(was, made), KeepsPart(was, made), made.bid = was.bid,
         Bidding!OneOf(h, Bidding!Save(t, was, made), b)
  PROVE  Proceeds(h)
<1>0. PICK s : s = Bidding!Save(t, was, made)
  OBVIOUS
<1>1. s \in Steps /\ s.pc = "save" /\ s.set = Bidding!Changes(was, made)
  BY <1>0, SaveIs
<1>2. Honest(s)
  BY <1>1, SentIsHonest
<1>3. Looked(s)
  BY <1>1, SentIsLooked
<1> QED BY <1>0, <1>1, <1>2, <1>3, OneOfProceeds

\* One of a bulk update: by a super admin, or nothing is taken back; a new
\* number is looked up before it is saved.
LEMMA UpdateSends ==
  ASSUME NEW t \in Ids, NEW was \in Bidding!Tender, NEW made \in Bidding!Tender,
         NEW super, NEW renamed, KeepsDeleted(was, made),
         super \/ KeepsPart(was, made), ~renamed => made.bid = was.bid
  PROVE  LET s == [Bidding!Save(t, was, made) EXCEPT !.by = IF super THEN "super" ELSE @]
             step == IF renamed THEN [s EXCEPT !.pc = "clash"] ELSE s
         IN step \in Steps /\ Honest(step) /\ Looked(step)
<1>1. PICK z : z = Bidding!Save(t, was, made)
  OBVIOUS
<1>2. /\ z \in Steps /\ z.pc = "save" /\ z.by = "user"
      /\ z.set = Bidding!Changes(was, made) /\ z = [z EXCEPT !.by = "user"]
  BY <1>1, SaveIs
<1> DEFINE by == IF super THEN "super" ELSE "user"
<1>3. by \in {"super", "user"} /\ (by = "super" \/ KeepsPart(was, made))
  OBVIOUS
<1>4. [z EXCEPT !.by = IF super THEN "super" ELSE @] = [z EXCEPT !.by = by]
  BY <1>2
<1> HIDE DEF by
<1>5. PICK y : y = [z EXCEPT !.by = by]
  OBVIOUS
<1>6. y \in Steps /\ y.pc = "save" /\ y.set = Bidding!Changes(was, made) /\ y.by = by
  BY <1>2, <1>3, <1>5 DEF Steps
<1>7. Honest(y)
  BY <1>3, <1>6, SentIsHonest
<1>8. CASE ~renamed
  <2>1. Looked(y)
    BY <1>6, <1>8, SentIsLooked
  <2> QED BY <1>1, <1>4, <1>5, <1>6, <1>7, <1>8, <2>1
<1>9. CASE renamed
  <2>1. /\ [y EXCEPT !.pc = "clash"] \in Steps
        /\ Honest([y EXCEPT !.pc = "clash"]) /\ Looked([y EXCEPT !.pc = "clash"])
    BY <1>6, <1>7 DEF Steps, Honest, Looked
  <2> QED BY <1>1, <1>4, <1>5, <1>9, <2>1
<1> QED BY <1>8, <1>9

Rest == <<tender, logged, backfill, backfillDone>>

LEMMA AskProceeds ==
  ASSUME HonestInv, NEW h \in Handlers, Bidding!Ask(h)
  PROVE  Proceeds(h) /\ UNCHANGED Rest
<1>1. ASSUME NEW bid \in Bids, NEW status \in Asked, NEW end \in {"none", "ahead"},
             Bidding!create(h, bid, status, end)
      PROVE  Proceeds(h) /\ UNCHANGED Rest
  <2> DEFINE s == [pc |-> "insert", bid |-> bid, status |-> status, end |-> end,
                   back |-> Bidding!IdleCall]
  <2>1. UNCHANGED Rest /\ call[h] \in Backs \cup Steps /\ call[h].pc = "idle"
    BY <1>1 DEF Bidding!create, Rest, HonestInv, TenderTypes, Bidding!Idle, Bidding!At
  <2>2. CASE Bidding!activeBidFilter(bid) # {}
    <3>1. call' = [call EXCEPT ![h] = call[h]]
      BY <1>1, <2>2 DEF Bidding!create, HonestInv, TenderTypes
    <3>2. call[h] \in Backs
      BY <2>1 DEF Steps
    <3> QED BY <2>1, <3>1, <3>2, RestProceeds DEF Bidding!Goto
  <2>3. CASE Bidding!activeBidFilter(bid) = {}
    <3>1. Free(bid)
      BY <2>3, KnownRows DEF HonestInv
    <3>2. s \in Steps
      BY DEF Steps, Backs
    <3>3. Honest(s) /\ Looked(s)
      BY <3>1 DEF Honest, Looked
    <3>4. Bidding!Goto(h, s)
      BY <1>1, <2>3 DEF Bidding!create
    <3> QED BY <2>1, <3>2, <3>3, <3>4 DEF Proceeds
  <2> QED BY <2>2, <2>3
<1>2. ASSUME NEW bids \in SUBSET Bids, NEW item \in Bidding!Items, Bidding!syncFromGem(h, bids, item)
      PROVE  Proceeds(h) /\ UNCHANGED Rest
  <2>1. [pc |-> "sync", todo |-> bids, item |-> item] \in Backs
    BY DEF Backs, Batch
  <2> QED BY <1>2, <2>1, RestProceeds DEF Bidding!syncFromGem, Rest
<1>3. ASSUME NEW bids \in SUBSET Bids, NEW item \in Bidding!Items, NEW end \in {"none", "ahead"},
             Bidding!bulkImport(h, bids, item, end)
      PROVE  Proceeds(h) /\ UNCHANGED Rest
  <2>1. [pc |-> "import", todo |-> bids, item |-> item, end |-> end] \in Backs
    BY DEF Backs, Batch
  <2> QED BY <1>3, <2>1, RestProceeds DEF Bidding!bulkImport, Rest
<1>4. ASSUME NEW ids \in SUBSET Ids, NEW patch \in Bidding!Patches, NEW superAdmin \in BOOLEAN,
             Bidding!bulkUpdate(h, ids, patch, superAdmin)
      PROVE  Proceeds(h) /\ UNCHANGED Rest
  <2>1. [pc |-> "update", todo |-> ids, patch |-> patch, super |-> superAdmin] \in Backs
    BY Zenon DEF Backs, Batch
  <2> QED BY <1>4, <2>1, RestProceeds DEF Bidding!bulkUpdate, Rest
<1>5. ASSUME NEW ids \in SUBSET Ids, NEW superAdmin \in BOOLEAN, Bidding!bulkDelete(h, ids, superAdmin)
      PROVE  Proceeds(h) /\ UNCHANGED Rest
  <2>1. [pc |-> "delete", todo |-> ids, super |-> superAdmin] \in Backs
    BY Zenon DEF Backs, Batch
  <2> QED BY <1>5, <2>1, RestProceeds DEF Bidding!bulkDelete, Rest
<1>6. ASSUME NEW ids \in SUBSET Ids, Bidding!bulkPermanentDelete(h, ids)
      PROVE  Proceeds(h) /\ UNCHANGED Rest
  <2>1. [pc |-> "remove", todo |-> ids] \in Backs
    BY DEF Backs, Batch
  <2> QED BY <1>6, <2>1, RestProceeds DEF Bidding!bulkPermanentDelete, Rest
<1> QED BY <1>1, <1>2, <1>3, <1>4, <1>5, <1>6 DEF Bidding!Ask

\* One tender of a bulk request: what it will do to it is decided.
LEMMA ItemProceeds ==
  ASSUME TenderConstants, HonestInv, NEW h \in Handlers,
         \/ \E bid \in Bids : Bidding!importItem(h, bid) \/ Bidding!syncItem(h, bid)
         \/ \E t \in Ids : Bidding!update(h, t) \/ Bidding!delete(h, t) \/ Bidding!permanentDelete(h, t)
  PROVE  Proceeds(h) /\ UNCHANGED Rest
<1> DEFINE b(x) == [call[h] EXCEPT !.todo = @ \ {x}]
<1>0. call[h] \in Backs \cup Steps
  BY DEF HonestInv, TenderTypes
<1>1. ASSUME NEW bid \in Bids, Bidding!importItem(h, bid)
      PROVE  Proceeds(h) /\ UNCHANGED Rest
  <2>0. PICK c : /\ c = b(bid)
                 /\ Bidding!activeBidFilter(bid) = {} =>
                      Bidding!OneOf(h, [pc |-> "insert", bid |-> bid, end |-> c.end, back |-> Bidding!IdleCall,
                        status |-> IF c.item.status = "" THEN "not_filed" ELSE c.item.status], c)
    BY <1>1, Zenon DEF Bidding!importItem
  <2>1. call[h].pc = "import" /\ UNCHANGED Rest
    BY <1>1 DEF Bidding!importItem, Bidding!At, Rest
  <2>2. /\ c \in Batch /\ c.item \in Bidding!Items /\ c.end \in {"none", "ahead"}
        /\ c.item = call[h].item /\ c.end = call[h].end
    BY <1>0, <2>0, <2>1, BatchFields, BatchGoesOn
  <2>3. CASE Bidding!activeBidFilter(bid) = {}
    <3> DEFINE s == [pc |-> "insert", bid |-> bid, end |-> c.end, back |-> Bidding!IdleCall,
                     status |-> IF c.item.status = "" THEN "not_filed" ELSE c.item.status]
    <3>1. Free(bid)
      BY <2>3, KnownRows DEF HonestInv
    <3>2. s \in Steps
      BY <2>2 DEF Steps, Backs, Bidding!Items
    <3>3. Honest(s) /\ Looked(s)
      BY <3>1 DEF Honest, Looked
    <3>4. Bidding!OneOf(h, s, c)
      BY <2>0, <2>3
    <3> QED BY <2>1, <2>2, <3>2, <3>3, <3>4, OneOfProceeds
  <2>4. CASE Bidding!activeBidFilter(bid) # {}
    <3>1. PICK t \in Bidding!activeBidFilter(bid) :
            Bidding!OneOf(h, Bidding!Save(t, tender[t],
                                          Bidding!mergeImportedTender(tender[t], c.item, c.end)), c)
      BY <1>1, <2>0, <2>4 DEF Bidding!importItem
    <3>2. t \in Ids /\ tender[t] \in Bidding!Tender
      BY <3>1, KnownRows DEF HonestInv, Bidding!activeBidFilter, Bidding!Known
    <3>3. PICK was \in Bidding!Tender : was = tender[t]
      BY <3>2
    <3>4. PICK made : made = Bidding!mergeImportedTender(was, c.item, c.end)
      OBVIOUS
    <3>5. /\ made \in Bidding!Tender /\ made.bid = was.bid /\ made.deleted = was.deleted
          /\ made.status = "not_filed" => was.status = "not_filed"
      BY <2>2, <3>4, MergeSays
    <3>6. Bidding!OneOf(h, Bidding!Save(t, was, made), c)
      BY <3>1, <3>3, <3>4
    <3>7. KeepsDeleted(was, made) /\ KeepsPart(was, made)
      BY <3>5, Zenon DEF KeepsDeleted, KeepsPart
    <3> QED BY <2>1, <2>2, <3>2, <3>5, <3>6, <3>7, SaveProceeds
  <2> QED BY <2>3, <2>4
<1>2. ASSUME NEW bid \in Bids, Bidding!syncItem(h, bid)
      PROVE  Proceeds(h) /\ UNCHANGED Rest
  <2> PICK c : c = b(bid)
    OBVIOUS
  <2>1. call[h].pc = "sync" /\ UNCHANGED Rest
    BY <1>2 DEF Bidding!syncItem, Bidding!At, Rest
  <2>2. c \in Batch /\ c.item \in Bidding!Items
    BY <1>0, <2>1, BatchFields, BatchGoesOn
  <2>3. CASE Bidding!activeBidFilter(bid) = {}
    BY <1>2, <2>1, <2>2, <2>3, SkipProceeds DEF Bidding!syncItem
  <2>4. CASE Bidding!activeBidFilter(bid) # {}
    <3>1. PICK t \in Bidding!activeBidFilter(bid) :
            Bidding!OneOf(h, Bidding!Save(t, tender[t],
              IF c.item.status = "" THEN tender[t]
              ELSE Bidding!applyGemStatusUpdate(tender[t], c.item)), c)
      BY <1>2, <2>4 DEF Bidding!syncItem
    <3>2. t \in Ids /\ tender[t] \in Bidding!Tender
      BY <3>1, KnownRows DEF HonestInv, Bidding!activeBidFilter, Bidding!Known
    <3>3. PICK was \in Bidding!Tender : was = tender[t]
      BY <3>2
    <3> DEFINE made == IF c.item.status = "" THEN was ELSE Bidding!applyGemStatusUpdate(was, c.item)
    <3>5. /\ made \in Bidding!Tender /\ made.bid = was.bid /\ made.deleted = was.deleted
          /\ made.status = "not_filed" => was.status = "not_filed"
      BY <2>2, GemSays
    <3>6. Bidding!OneOf(h, Bidding!Save(t, was, made), c)
      BY <3>1, <3>3
    <3>7. KeepsDeleted(was, made) /\ KeepsPart(was, made)
      BY <3>5, Zenon DEF KeepsDeleted, KeepsPart
    <3> HIDE DEF made
    <3> QED BY <2>1, <2>2, <3>2, <3>5, <3>6, <3>7, SaveProceeds
  <2> QED BY <2>3, <2>4
<1>3. ASSUME NEW t \in Ids, Bidding!update(h, t)
      PROVE  Proceeds(h) /\ UNCHANGED Rest
  <2>0. PICK c, was :
          /\ c = b(t) /\ was = tender[t]
          /\ ~ (t \in Bidding!Known /\ Bidding!MayUpdate(was, c.patch, c.super)) => Bidding!Skip(h, c)
          /\ t \in Bidding!Known /\ Bidding!MayUpdate(was, c.patch, c.super)
             => LET s == [Bidding!Save(t, was, Bidding!Patched(was, c.patch))
                           EXCEPT !.by = IF c.super THEN "super" ELSE @]
                IN Bidding!OneOf(h, IF c.patch.bid \in {"", was.bid} THEN s ELSE [s EXCEPT !.pc = "clash"], c)
    BY <1>3, Zenon DEF Bidding!update
  <2>1. call[h].pc = "update" /\ UNCHANGED Rest
    BY <1>3 DEF Bidding!update, Bidding!At, Rest
  <2>2. c \in Batch /\ c.patch \in Bidding!Patches /\ c.super \in BOOLEAN
    <3>1. call[h] \in Batch /\ call[h].patch \in Bidding!Patches /\ call[h].super \in BOOLEAN
      BY <1>0, <2>1, BatchFields
    <3>2. c \in Batch /\ c.patch = call[h].patch
      BY <2>0, <2>1, <3>1, BatchGoesOn
    <3>3. c.super = call[h].super
      BY <2>0, <2>1, <3>1, BatchGoesOn
    <3> QED BY <3>1, <3>2, <3>3, Zenon
  <2>3. CASE ~ (t \in Bidding!Known /\ Bidding!MayUpdate(was, c.patch, c.super))
    BY <2>0, <2>1, <2>2, <2>3, SkipProceeds
  <2>4. CASE t \in Bidding!Known /\ Bidding!MayUpdate(was, c.patch, c.super)
    <3> DEFINE made == Bidding!Patched(was, c.patch)
               s == [Bidding!Save(t, was, made) EXCEPT !.by = IF c.super THEN "super" ELSE @]
               step == IF c.patch.bid \in {"", was.bid} THEN s ELSE [s EXCEPT !.pc = "clash"]
    <3>1. was \in Bidding!Tender
      BY <2>0, <2>4, KnownRows DEF HonestInv, Bidding!Known
    <3>2. Bidding!OneOf(h, step, c)
      BY <2>0, <2>4
    <3>3. /\ made \in Bidding!Tender /\ made.deleted = was.deleted
          /\ made.bid = IF c.patch.bid = "" THEN was.bid ELSE c.patch.bid
          /\ made.status = "not_filed" => c.patch.status = "not_filed" \/ was.status = "not_filed"
      BY <2>2, <3>1, PatchSays
    <3>4. c.super \/ KeepsPart(was, made)
      BY <2>4, <3>3 DEF Bidding!MayUpdate, KeepsPart
    <3>5. KeepsDeleted(was, made)
      BY <3>3, Zenon DEF KeepsDeleted
    <3>6. step \in Steps /\ Honest(step) /\ Looked(step)
      <4>1. PICK renamed : renamed = (c.patch.bid \notin {"", was.bid})
        OBVIOUS
      <4>2. ~renamed => made.bid = was.bid
        BY <3>3, <4>1
      <4> HIDE DEF made
      <4>3. step = IF renamed THEN [s EXCEPT !.pc = "clash"] ELSE s
        BY <4>1
      <4> QED BY <3>1, <3>3, <3>4, <3>5, <4>2, <4>3, UpdateSends
    <3> HIDE DEF step
    <3> QED BY <2>1, <2>2, <3>2, <3>6, OneOfProceeds
  <2> QED BY <2>3, <2>4
<1>4. ASSUME NEW t \in Ids, Bidding!delete(h, t)
      PROVE  Proceeds(h) /\ UNCHANGED Rest
  <2> PICK c : c = b(t)
    OBVIOUS
  <2>1. call[h].pc = "delete" /\ UNCHANGED Rest
    BY <1>4 DEF Bidding!delete, Bidding!At, Rest
  <2>2. c \in Batch
    BY <1>0, <2>1, BatchFields, BatchGoesOn
  <2>3. CASE ~ (t \in Bidding!Known /\ (Bidding!isMissedParticipation(tender[t]) => c.super))
    BY <1>4, <2>1, <2>2, <2>3, SkipProceeds DEF Bidding!delete
  <2>4. CASE t \in Bidding!Known /\ (Bidding!isMissedParticipation(tender[t]) => c.super)
    <3>1. tender[t] \in Bidding!Tender
      BY <2>4, KnownRows DEF HonestInv, Bidding!Known
    <3>2. PICK was \in Bidding!Tender : was = tender[t]
      BY <3>1
    <3> DEFINE made == [was EXCEPT !.deleted = TRUE]
    <3>3. made \in Bidding!Tender /\ made.deleted = TRUE /\ made.bid = was.bid /\ made.status = was.status
      BY Zenon DEF Bidding!Tender
    <3>4. Bidding!OneOf(h, Bidding!Save(t, was, made), c)
      BY <1>4, <2>4, <3>2 DEF Bidding!delete
    <3>5. KeepsDeleted(was, made) /\ KeepsPart(was, made)
      BY <3>3, Zenon DEF KeepsDeleted, KeepsPart
    <3> HIDE DEF made
    <3> QED BY <2>1, <2>2, <3>3, <3>4, <3>5, SaveProceeds
  <2> QED BY <2>3, <2>4
<1>5. ASSUME NEW t \in Ids, Bidding!permanentDelete(h, t)
      PROVE  Proceeds(h) /\ UNCHANGED Rest
  <2> PICK c : c = b(t)
    OBVIOUS
  <2>1. call[h].pc = "remove" /\ UNCHANGED Rest
    BY <1>5 DEF Bidding!permanentDelete, Bidding!At, Rest
  <2>2. c \in Batch
    BY <1>0, <2>1, BatchFields, BatchGoesOn
  <2> DEFINE s == [pc |-> "deleteOne", t |-> t, back |-> Bidding!IdleCall]
             gone == t \in Bidding!Known /\ (tender[t].deleted \/ Bidding!isMissedParticipation(tender[t]))
  <2>3. CASE ~gone
    BY <1>5, <2>1, <2>2, <2>3, SkipProceeds DEF Bidding!permanentDelete
  <2>4. CASE gone
    <3>1. s \in Steps /\ Honest(s) /\ Looked(s)
      BY DEF Steps, Backs, Honest, Looked
    <3>2. Bidding!OneOf(h, s, c)
      BY <1>5, <2>4 DEF Bidding!permanentDelete
    <3> QED BY <2>1, <2>2, <3>1, <3>2, OneOfProceeds
  <2> QED BY <2>3, <2>4
<1> QED BY <1>1, <1>2, <1>3, <1>4, <1>5

\* A new number is looked up once more before it is given.
LEMMA ClashProceeds ==
  ASSUME HonestInv, NEW h \in Handlers, Bidding!clash(h)
  PROVE  Proceeds(h) /\ UNCHANGED Rest
<1>1. PICK c \in Backs \cup Steps : c = call[h] /\ Honest(c)
  BY DEF HonestInv, TenderTypes
<1>2. c.pc = "clash" /\ c.back \in Backs /\ c \in Steps /\ UNCHANGED Rest
  BY <1>1, StepFields DEF Bidding!clash, Bidding!At, Rest
<1>3. CASE Bidding!activeBidFilter(call[h].set.bid) = {}
  <2> DEFINE s == [c EXCEPT !.pc = "save"]
  <2>1. Free(c.set.bid)
    BY <1>1, <1>3, KnownRows DEF HonestInv
  <2>2. s \in Steps /\ Honest(s) /\ Looked(s)
    BY <1>1, <1>2, <2>1 DEF Steps, Honest, Looked
  <2>3. Bidding!Goto(h, s)
    BY <1>1, <1>3 DEF Bidding!clash, Bidding!Goto
  <2> QED BY <1>2, <2>2, <2>3 DEF Proceeds
<1>4. CASE Bidding!activeBidFilter(call[h].set.bid) # {}
  <2>1. Bidding!Goto(h, c.back)
    BY <1>1, <1>4 DEF Bidding!clash, Bidding!Return, Bidding!Goto
  <2> QED BY <1>2, <2>1, RestProceeds
<1> QED BY <1>3, <1>4

SoleInv ==
  /\ \A s, t \in Ids :
       /\ tender[s] # Bidding!NoTender /\ ~tender[s].deleted
       /\ tender[t] # Bidding!NoTender /\ ~tender[t].deleted
       /\ tender[s].bid = tender[t].bid
       => s = t
  /\ \A h \in Handlers : Looked(call[h])

LEMMA SoleIsOne == SoleInv => Bidding!OneTenderPerBid
BY DEF SoleInv, Bidding!OneTenderPerBid, Bidding!Known

\* A handler goes on; no tender changes.
LEMMA GoesOn ==
  ASSUME HonestInv, NEW h \in Handlers, Proceeds(h), UNCHANGED Rest
  PROVE  HonestInv' /\ (SoleInv => SoleInv') /\ Bidding!ParticipationKept
<1>1. PICK c \in Backs \cup Steps : Honest(c) /\ Looked(c) /\ call' = [call EXCEPT ![h] = c]
  BY DEF Proceeds, Bidding!Goto
<1>2. TenderTypes' /\ tender' = tender
  BY <1>1 DEF HonestInv, TenderTypes, Rest
<1>3. \A g \in Handlers : Honest(call'[g])
  BY <1>1 DEF HonestInv, TenderTypes
<1>4. SoleInv => SoleInv'
  <2> SUFFICES ASSUME SoleInv PROVE SoleInv'
    OBVIOUS
  <2>1. \A g \in Handlers : Looked(call'[g])
    BY <1>1 DEF HonestInv, TenderTypes, SoleInv
  <2> QED BY <1>2, <2>1 DEF SoleInv, Looked, Free
<1>5. Bidding!ParticipationKept
  BY <1>2 DEF Bidding!ParticipationKept
<1> QED BY <1>2, <1>3, <1>4, <1>5 DEF HonestInv

\* A handler has done its step and goes back to what it was at.
LEMMA GoesBack ==
  ASSUME HonestInv, NEW h \in Handlers, call[h] \in Steps, Bidding!Return(h)
  PROVE  /\ call' \in [Handlers -> Backs \cup Steps]
         /\ \A g \in Handlers : Honest(call'[g])
         /\ call'[h].pc \notin {"insert", "save"}
<1>1. call[h].back \in Backs
  BY DEF Steps
<1>2. /\ call[h].back.pc \notin {"insert", "save", "clash"}
      /\ Honest(call[h].back)
  BY <1>1 DEF Backs, Batch, Honest, Bidding!IdleCall
<1>3. call' = [call EXCEPT ![h] = call[h].back]
  BY DEF Bidding!Return, Bidding!Goto
<1> QED BY <1>1, <1>2, <1>3 DEF HonestInv, TenderTypes

\* One row becomes another, or goes.
LEMMA RowBecomes ==
  ASSUME HonestInv, NEW t \in Ids, NEW new \in Bidding!Tender \cup {Bidding!NoTender},
         tender' = [tender EXCEPT ![t] = new]
  PROVE  /\ tender' \in [Ids -> Bidding!Tender \cup {Bidding!NoTender}]
         /\ tender'[t] = new /\ \A s \in Ids : s # t => tender'[s] = tender[s]
BY DEF HonestInv, TenderTypes

\* Rows may go, and be deleted; no number is given.
LEMMA QuietKeeps ==
  ASSUME \A t \in Ids : tender'[t] # Bidding!NoTender =>
           /\ tender[t] # Bidding!NoTender /\ tender'[t].bid = tender[t].bid
           /\ tender[t].deleted => tender'[t].deleted
  PROVE  /\ \A bid : Free(bid) => Free(bid)'
         /\ SoleInv => \A s, t \in Ids :
              /\ tender'[s] # Bidding!NoTender /\ ~tender'[s].deleted
              /\ tender'[t] # Bidding!NoTender /\ ~tender'[t].deleted
              /\ tender'[s].bid = tender'[t].bid
              => s = t
<1>1. \A bid : Free(bid) => Free(bid)'
  BY DEF Free
<1>2. ASSUME SoleInv, NEW s \in Ids, NEW t \in Ids,
             tender'[s] # Bidding!NoTender, ~tender'[s].deleted,
             tender'[t] # Bidding!NoTender, ~tender'[t].deleted,
             tender'[s].bid = tender'[t].bid
      PROVE  s = t
  BY <1>2 DEF SoleInv
<1> QED BY <1>1, <1>2

OneHandler == \A g, k \in Handlers : g = k

LEMMA InsertStep ==
  ASSUME TenderConstants, HonestInv, NEW h \in Handlers, Bidding!insert(h)
  PROVE  /\ HonestInv' /\ Bidding!ParticipationKept
         /\ OneHandler /\ SoleInv => SoleInv'
<1>1. PICK c \in Backs \cup Steps : c = call[h] /\ c.pc = "insert"
  BY DEF HonestInv, TenderTypes, Bidding!insert, Bidding!At
<1>2. c \in Steps /\ c.bid \in Bids /\ c.status \in Asked \cup {"not_filed"} /\ c.end \in {"none", "ahead"}
  BY <1>1, StepFields
<1> DEFINE new == [bid |-> c.bid, status |-> IF c.status = "not_evaluated" THEN "filed" ELSE c.status,
                   end |-> c.end, deleted |-> FALSE, by |-> "user"]
<1>3. new \in Bidding!Tender /\ new.bid = c.bid
  BY <1>2 DEF Bidding!Tender, Bidding!Status, TenderConstants
<1>4. PICK t \in Ids : tender[t] = Bidding!NoTender /\ tender' = [tender EXCEPT ![t] = new]
  BY <1>1 DEF Bidding!insert, Bidding!Known
<1> HIDE DEF new
<1>5. /\ tender' \in [Ids -> Bidding!Tender \cup {Bidding!NoTender}]
      /\ tender'[t] = new /\ \A s \in Ids : s # t => tender'[s] = tender[s]
  BY <1>3, <1>4, RowBecomes
<1>6. /\ call' \in [Handlers -> Backs \cup Steps]
      /\ \A g \in Handlers : Honest(call'[g])
      /\ call'[h].pc \notin {"insert", "save"}
  BY <1>1, <1>2, GoesBack DEF Bidding!insert
<1>7. HonestInv'
  BY <1>1, <1>2, <1>5, <1>6 DEF HonestInv, TenderTypes, Bidding!insert, Bidding!recordTenderAudit
<1>8. Bidding!ParticipationKept
  BY <1>4, <1>5 DEF Bidding!ParticipationKept
<1>9. ASSUME OneHandler, SoleInv PROVE SoleInv'
  <2>1. \A s \in Ids : tender[s] # Bidding!NoTender /\ ~tender[s].deleted => tender[s].bid # new.bid
    BY <1>1, <1>3, <1>9 DEF SoleInv, Looked, Free
  <2>2. ASSUME NEW s \in Ids, NEW r \in Ids,
               tender'[s] # Bidding!NoTender, ~tender'[s].deleted,
               tender'[r] # Bidding!NoTender, ~tender'[r].deleted,
               tender'[s].bid = tender'[r].bid
        PROVE  s = r
    BY <1>5, <1>9, <2>1, <2>2 DEF SoleInv
  <2>3. \A g \in Handlers : call'[g].pc \notin {"insert", "save"}
    BY <1>6, <1>9 DEF OneHandler
  <2>4. \A g \in Handlers : Looked(call[g])'
    BY <2>3 DEF Looked
  <2> QED BY <2>2, <2>4 DEF SoleInv
<1> QED BY <1>7, <1>8, <1>9

LEMMA SaveStep ==
  ASSUME TenderConstants, HonestInv, NEW h \in Handlers, Bidding!save(h)
  PROVE  /\ HonestInv' /\ Bidding!ParticipationKept
         /\ OneHandler /\ SoleInv => SoleInv'
<1>1. PICK c \in Backs \cup Steps : c = call[h] /\ c.pc = "save" /\ Honest(c)
  BY DEF HonestInv, TenderTypes, Bidding!save, Bidding!At
<1>2. c \in Steps /\ c.t \in Ids /\ c.set \in Edits
  BY <1>1, StepFields
<1>3. /\ call' \in [Handlers -> Backs \cup Steps]
      /\ \A g \in Handlers : Honest(call'[g])
      /\ call'[h].pc \notin {"insert", "save"}
  BY <1>1, <1>2, GoesBack DEF Bidding!save
<1>4. ASSUME OneHandler PROVE \A g \in Handlers : Looked(call[g])'
  BY <1>3, <1>4 DEF OneHandler, Looked
<1>5. CASE tender[c.t] = Bidding!NoTender
  <2>1. tender' = tender
    BY <1>1, <1>5 DEF Bidding!save, Bidding!Known
  <2>2. HonestInv'
    BY <1>3, <2>1 DEF HonestInv, TenderTypes, Bidding!save
  <2>3. Bidding!ParticipationKept
    BY <2>1 DEF Bidding!ParticipationKept
  <2>4. ASSUME OneHandler, SoleInv PROVE SoleInv'
    BY <1>4, <2>1, <2>4 DEF SoleInv
  <2> QED BY <2>2, <2>3, <2>4
<1>6. CASE tender[c.t] # Bidding!NoTender
  <2>1. PICK was \in Bidding!Tender : was = tender[c.t]
    BY <1>2, <1>6, KnownRows DEF HonestInv
  <2>2. PICK new : new = Bidding!Written(was, c.set)
    OBVIOUS
  <2>3. /\ new \in Bidding!Tender
        /\ new.bid = IF "bid" \in DOMAIN c.set THEN c.set.bid ELSE was.bid
        /\ new.status = IF "status" \in DOMAIN c.set THEN c.set.status ELSE was.status
        /\ new.deleted = IF "deleted" \in DOMAIN c.set THEN c.set.deleted ELSE was.deleted
    BY <1>2, <2>2, WrittenIs
  <2>4. tender' = [tender EXCEPT ![c.t] = new]
    BY <1>1, <1>2, <1>6, <2>1, <2>2 DEF Bidding!save, Bidding!Known, Bidding!Written
  <2>5. /\ tender' \in [Ids -> Bidding!Tender \cup {Bidding!NoTender}]
        /\ tender'[c.t] = new /\ \A s \in Ids : s # c.t => tender'[s] = tender[s]
    BY <1>2, <2>3, <2>4, RowBecomes
  <2>6. HonestInv'
    BY <1>3, <2>5 DEF HonestInv, TenderTypes, Bidding!save
  <2>7. Bidding!ParticipationKept
    <3>1. ASSUME NEW t \in Ids, tender[t].status # "not_filed", tender'[t].status = "not_filed"
          PROVE  Bidding!save(h) /\ call[h].by = "super"
      <4>1. t = c.t /\ "status" \in DOMAIN c.set /\ c.set.status = "not_filed"
        BY <2>1, <2>3, <2>5, <3>1
      <4> QED BY <1>1, <4>1 DEF Honest
    <3> QED BY <3>1 DEF Bidding!ParticipationKept
  <2>8. ASSUME OneHandler, SoleInv PROVE SoleInv'
    <3>1. was.deleted => new.deleted
      BY <1>1, <2>3, Zenon DEF Honest
    <3>2. CASE "bid" \notin DOMAIN c.set
      <4>1. \A t \in Ids : tender'[t] # Bidding!NoTender =>
              /\ tender[t] # Bidding!NoTender /\ tender'[t].bid = tender[t].bid
              /\ tender[t].deleted => tender'[t].deleted
        BY <1>6, <2>1, <2>3, <2>5, <3>1, <3>2
      <4> QED BY <1>4, <2>8, <4>1, QuietKeeps DEF SoleInv
    <3>3. CASE "bid" \in DOMAIN c.set
      <4>1. \A s \in Ids : tender[s] # Bidding!NoTender /\ ~tender[s].deleted => tender[s].bid # new.bid
        BY <1>1, <2>3, <2>8, <3>3 DEF SoleInv, Looked, Free
      <4>2. ASSUME NEW s \in Ids, NEW r \in Ids,
                   tender'[s] # Bidding!NoTender, ~tender'[s].deleted,
                   tender'[r] # Bidding!NoTender, ~tender'[r].deleted,
                   tender'[s].bid = tender'[r].bid
            PROVE  s = r
        BY <2>5, <2>8, <4>1, <4>2 DEF SoleInv
      <4> QED BY <1>4, <2>8, <4>2 DEF SoleInv
    <3> QED BY <3>2, <3>3
  <2> QED BY <2>6, <2>7, <2>8
<1> QED BY <1>5, <1>6

LEMMA DeleteOneStep ==
  ASSUME HonestInv, NEW h \in Handlers, Bidding!deleteOne(h)
  PROVE  /\ HonestInv' /\ Bidding!ParticipationKept
         /\ OneHandler /\ SoleInv => SoleInv'
<1>1. PICK c \in Backs \cup Steps : c = call[h] /\ c.pc = "deleteOne"
  BY DEF HonestInv, TenderTypes, Bidding!deleteOne, Bidding!At
<1>2. c \in Steps /\ c.t \in Ids
  BY <1>1, StepFields
<1>3. /\ call' \in [Handlers -> Backs \cup Steps]
      /\ \A g \in Handlers : Honest(call'[g])
      /\ call'[h].pc \notin {"insert", "save"}
  BY <1>1, <1>2, GoesBack DEF Bidding!deleteOne
<1>4. /\ tender' \in [Ids -> Bidding!Tender \cup {Bidding!NoTender}]
      /\ tender'[c.t] = Bidding!NoTender /\ \A s \in Ids : s # c.t => tender'[s] = tender[s]
  BY <1>1, <1>2, RowBecomes DEF Bidding!deleteOne
<1>5. HonestInv'
  BY <1>3, <1>4 DEF HonestInv, TenderTypes, Bidding!deleteOne
<1>6. Bidding!ParticipationKept
  BY <1>4 DEF Bidding!ParticipationKept
<1>7. ASSUME OneHandler, SoleInv PROVE SoleInv'
  <2>1. \A t \in Ids : tender'[t] # Bidding!NoTender => tender'[t] = tender[t]
    BY <1>4
  <2>2. \A t \in Ids : tender'[t] # Bidding!NoTender =>
          /\ tender[t] # Bidding!NoTender /\ tender'[t].bid = tender[t].bid
          /\ tender[t].deleted => tender'[t].deleted
    BY <2>1
  <2>3. \A g \in Handlers : Looked(call[g])'
    BY <1>3, <1>7 DEF OneHandler, Looked
  <2> QED BY <1>7, <2>2, <2>3, QuietKeeps DEF SoleInv
<1> QED BY <1>5, <1>6, <1>7

\* Time and the background pass change no number, no status, no deletion.
LEMMA ThemselvesStay ==
  ASSUME HonestInv, UNCHANGED <<logged, call>>, backfillDone' \in BOOLEAN, backfill' \in Pass,
         tender' \in [Ids -> Bidding!Tender \cup {Bidding!NoTender}],
         \A t \in Ids :
           \/ tender'[t] = tender[t]
           \/ /\ tender[t] # Bidding!NoTender /\ tender'[t].bid = tender[t].bid
              /\ tender'[t].status = tender[t].status /\ tender'[t].deleted = tender[t].deleted
  PROVE  /\ HonestInv' /\ Bidding!ParticipationKept
         /\ SoleInv => SoleInv'
<1>1. HonestInv'
  BY DEF HonestInv, TenderTypes
<1>2. Bidding!ParticipationKept
  BY DEF Bidding!ParticipationKept
<1>3. ASSUME SoleInv PROVE SoleInv'
  <2>1. \A t \in Ids : tender'[t] # Bidding!NoTender =>
          /\ tender[t] # Bidding!NoTender /\ tender'[t].bid = tender[t].bid
          /\ tender[t].deleted => tender'[t].deleted
    OBVIOUS
  <2>2. \A bid : Free(bid) => Free(bid)'
    BY <2>1, QuietKeeps
  <2>3. \A g \in Handlers : Looked(call[g])'
    BY <1>3, <2>2 DEF SoleInv, Looked, Free
  <2> QED BY <1>3, <2>1, <2>3, QuietKeeps DEF SoleInv
<1> QED BY <1>1, <1>2, <1>3

LEMMA BackfillStep ==
  ASSUME HonestInv, Bidding!Backfill
  PROVE  /\ HonestInv' /\ Bidding!ParticipationKept
         /\ SoleInv => SoleInv'
<1>1. CASE Bidding!startLegacyActorBackfill
  <2>1. [t \in Bidding!Known |-> tender[t]] \in [Bidding!Known -> Bidding!Tender]
        /\ Bidding!Known \in SUBSET Ids
    BY KnownRows DEF HonestInv, Bidding!Known
  <2>2. backfill' \in Pass
    BY <1>1, <2>1 DEF Bidding!startLegacyActorBackfill, Pass
  <2> QED BY <1>1, <2>2, ThemselvesStay DEF Bidding!startLegacyActorBackfill, HonestInv, TenderTypes
<1>2. CASE Bidding!buildLegacyActorMaps
  <2>1. backfill \in Pass /\ backfill.pc = "maps" /\ logged \in SUBSET Bids
    BY <1>2 DEF HonestInv, TenderTypes, Bidding!buildLegacyActorMaps
  <2>2. backfill' \in Pass
    BY <1>2, <2>1 DEF Bidding!buildLegacyActorMaps, Pass, Bidding!NoPass
  <2> QED BY <1>2, <2>2, ThemselvesStay DEF Bidding!buildLegacyActorMaps, HonestInv, TenderTypes
<1>3. CASE Bidding!BackfillEnds
  <2>1. backfill' \in Pass /\ backfillDone' \in BOOLEAN
    BY <1>3 DEF Bidding!BackfillEnds, Pass
  <2> QED BY <1>3, <2>1, ThemselvesStay DEF Bidding!BackfillEnds, HonestInv, TenderTypes
<1>4. ASSUME NEW t \in Ids, Bidding!backfillLegacyTenderActors(t)
      PROVE  /\ HonestInv' /\ Bidding!ParticipationKept
             /\ SoleInv => SoleInv'
  <2>1. PICK p \in Pass : p = backfill
    BY DEF HonestInv, TenderTypes
  <2>2. p.pc = "fill" /\ t \in DOMAIN p.rows
    BY <1>4, <2>1 DEF Bidding!backfillLegacyTenderActors
  <2>3. /\ p \in [pc: {"fill"}, rows: UNION {[T -> Bidding!Tender] : T \in SUBSET Ids}, known: SUBSET Bids]
        /\ p.rows[t] \in Bidding!Tender
        /\ DOMAIN p.rows \in SUBSET Ids /\ p.rows \in [DOMAIN p.rows -> Bidding!Tender]
    BY <2>2 DEF Pass, Bidding!NoPass
  <2> DEFINE left == DOMAIN p.rows \ {t}
             rest == [r \in left |-> p.rows[r]]
  <2>4. rest \in [left -> Bidding!Tender] /\ left \in SUBSET Ids
    BY <2>3
  <2>5. backfill' = [p EXCEPT !.rows = rest]
    BY <1>4, <2>1 DEF Bidding!backfillLegacyTenderActors
  <2> HIDE DEF left, rest
  <2>6. backfill' \in Pass
    BY <2>3, <2>4, <2>5 DEF Pass
  <2>7. backfillDone' \in BOOLEAN /\ UNCHANGED <<logged, call>>
    BY <1>4 DEF Bidding!backfillLegacyTenderActors, HonestInv, TenderTypes
  <2>8. CASE tender[t] = Bidding!NoTender
    <3>1. tender' = tender
      BY <1>4, <2>8 DEF Bidding!backfillLegacyTenderActors, Bidding!Known
    <3> QED BY <2>6, <2>7, <3>1, ThemselvesStay DEF HonestInv, TenderTypes
  <2>9. CASE tender[t] # Bidding!NoTender
    <3>1. PICK was \in Bidding!Tender : was = tender[t]
      BY <2>9, KnownRows DEF HonestInv
    <3>2. PICK old \in Bidding!Tender : old = p.rows[t]
      BY <2>3
    <3> DEFINE by == Bidding!ActorOf(old, p.known)
               made == [old EXCEPT !.by = by]
               set == Bidding!Changes(old, made)
    <3>3. by \in {"", "default", "user"}
      BY DEF Bidding!ActorOf, Bidding!Tender
    <3> HIDE DEF by
    <3>4. made \in Bidding!Tender /\ made.bid = old.bid /\ made.status = old.status /\ made.deleted = old.deleted
      BY <3>3 DEF Bidding!Tender
    <3> HIDE DEF made
    <3>5. /\ set \in Edits
          /\ "bid" \notin DOMAIN set /\ "status" \notin DOMAIN set /\ "deleted" \notin DOMAIN set
      BY <3>4, ChangesAre
    <3> DEFINE new == Bidding!Written(was, set)
    <3>6. new \in Bidding!Tender /\ new.bid = was.bid /\ new.status = was.status /\ new.deleted = was.deleted
      BY <3>5, WrittenIs
    <3>7. tender' = [tender EXCEPT ![t] = new]
      BY <1>4, <2>1, <2>9, <3>1, <3>2
         DEF Bidding!backfillLegacyTenderActors, Bidding!Known, Bidding!Written, Bidding!Changes, made, by
    <3> HIDE DEF new
    <3>8. /\ tender' \in [Ids -> Bidding!Tender \cup {Bidding!NoTender}]
          /\ tender'[t] = new /\ \A s \in Ids : s # t => tender'[s] = tender[s]
      BY <3>6, <3>7, RowBecomes
    <3> QED BY <2>6, <2>7, <2>9, <3>1, <3>6, <3>8, ThemselvesStay
  <2> QED BY <2>8, <2>9
<1> QED BY <1>1, <1>2, <1>3, <1>4 DEF Bidding!Backfill

LEMMA DeadlineStep ==
  ASSUME HonestInv, Bidding!DeadlinePasses
  PROVE  /\ HonestInv' /\ Bidding!ParticipationKept
         /\ SoleInv => SoleInv'
<1>1. PICK t \in Ids : /\ tender[t] # Bidding!NoTender
                       /\ tender' = [tender EXCEPT ![t].end = "past"]
  BY DEF Bidding!DeadlinePasses, Bidding!Known
<1>2. PICK was \in Bidding!Tender : was = tender[t]
  BY <1>1, KnownRows DEF HonestInv
<1> DEFINE new == [was EXCEPT !.end = "past"]
<1>3. new \in Bidding!Tender /\ new.bid = was.bid /\ new.status = was.status /\ new.deleted = was.deleted
  BY DEF Bidding!Tender
<1>4. tender' = [tender EXCEPT ![t] = new]
  BY <1>1, <1>2
<1> HIDE DEF new
<1>5. /\ tender' \in [Ids -> Bidding!Tender \cup {Bidding!NoTender}]
      /\ tender'[t] = new /\ \A s \in Ids : s # t => tender'[s] = tender[s]
  BY <1>3, <1>4, RowBecomes
<1>6. UNCHANGED <<logged, call>> /\ backfillDone' \in BOOLEAN /\ backfill' \in Pass
  BY DEF Bidding!DeadlinePasses, HonestInv, TenderTypes
<1> QED BY <1>1, <1>2, <1>3, <1>5, <1>6, ThemselvesStay

LEMMA TenderStep ==
  ASSUME TenderConstants, HonestInv, [Bidding!Next]_Bidding!vars
  PROVE  /\ HonestInv' /\ [Bidding!ParticipationKept]_Bidding!vars
         /\ OneHandler /\ SoleInv => SoleInv'
<1>1. ASSUME NEW h \in Handlers, Bidding!Ask(h)
      PROVE  HonestInv' /\ Bidding!ParticipationKept /\ (OneHandler /\ SoleInv => SoleInv')
  BY <1>1, AskProceeds, GoesOn
<1>2. ASSUME NEW h \in Handlers, Bidding!Work(h)
      PROVE  HonestInv' /\ Bidding!ParticipationKept /\ (OneHandler /\ SoleInv => SoleInv')
  <2>1. CASE Bidding!insert(h)
    BY <2>1, InsertStep
  <2>2. CASE Bidding!save(h)
    BY <2>2, SaveStep
  <2>3. CASE Bidding!clash(h)
    BY <2>3, ClashProceeds, GoesOn
  <2>4. CASE Bidding!deleteOne(h)
    BY <2>4, DeleteOneStep
  <2>5. CASE \/ \E bid \in Bids : Bidding!importItem(h, bid) \/ Bidding!syncItem(h, bid)
             \/ \E t \in Ids : Bidding!update(h, t) \/ Bidding!delete(h, t) \/ Bidding!permanentDelete(h, t)
    BY <2>5, ItemProceeds, GoesOn
  <2> QED BY <1>2, <2>1, <2>2, <2>3, <2>4, <2>5 DEF Bidding!Work
<1>3. CASE Bidding!DeadlinePasses
  BY <1>3, DeadlineStep
<1>4. CASE Bidding!Backfill
  BY <1>4, BackfillStep
<1>5. CASE UNCHANGED Bidding!vars
  BY <1>5, ThemselvesStay DEF Bidding!vars, HonestInv, TenderTypes
<1> QED BY <1>1, <1>2, <1>3, <1>4, <1>5 DEF Bidding!Next

LEMMA TenderInit ==
  ASSUME TenderConstants, Bidding!Init
  PROVE  HonestInv /\ SoleInv
<1>1. PICK bid \in Bids : tender = [t \in Ids |->
        IF t \in Old
        THEN [bid |-> bid, status |-> "not_filed", end |-> "ahead", deleted |-> FALSE, by |-> ""]
        ELSE Bidding!NoTender]
  BY DEF Bidding!Init
<1>2. tender \in [Ids -> Bidding!Tender \cup {Bidding!NoTender}]
  BY <1>1 DEF Bidding!Tender, Bidding!Status
<1>3. /\ call \in [Handlers -> Backs \cup Steps]
      /\ \A h \in Handlers : call[h].pc = "idle"
  BY DEF Bidding!Init, Backs, Bidding!IdleCall
<1>4. TenderTypes
  BY <1>2, <1>3 DEF TenderTypes, Bidding!Init, Pass
<1>5. \A h \in Handlers : Honest(call[h]) /\ Looked(call[h])
  BY <1>3 DEF Honest, Looked
<1> QED BY <1>1, <1>4, <1>5 DEF HonestInv, SoleInv, TenderConstants

\* However requests, the extension's imports and syncs, deadlines and the pass
\* over the old tenders interleave, nobody but a super admin's update takes
\* back that the firm took part in a tender.
THEOREM ParticipationStandsAlways ==
  ASSUME TenderConstants
  PROVE  Bidding!Spec => []Bidding!TypeOK /\ Bidding!ParticipationStands
<1>1. Bidding!Init => HonestInv
  BY TenderInit
<1>2. HonestInv /\ [Bidding!Next]_Bidding!vars => HonestInv' /\ [Bidding!ParticipationKept]_Bidding!vars
  BY TenderStep
<1>3. HonestInv => Bidding!TypeOK
  BY KnownRows DEF HonestInv, TenderTypes, Bidding!TypeOK, Bidding!Known
<1> QED BY <1>1, <1>2, <1>3, PTL DEF Bidding!Spec, Bidding!ParticipationStands

\* When requests are handled one at a time, no two active tenders ever have one
\* number, though no index forbids it: who is about to give a number has looked
\* that no active tender has it, and nothing else gives numbers or restores.
THEOREM OneTenderPerBidAlways ==
  ASSUME TenderConstants, OneHandler
  PROVE  Bidding!Spec => []Bidding!OneTenderPerBid
<1>1. Bidding!Init => HonestInv /\ SoleInv
  BY TenderInit
<1>2. HonestInv /\ SoleInv /\ [Bidding!Next]_Bidding!vars => HonestInv' /\ SoleInv'
  BY TenderStep
<1>3. SoleInv => Bidding!OneTenderPerBid
  BY SoleIsOne
<1> QED BY <1>1, <1>2, <1>3, PTL DEF Bidding!Spec

===============================================================================
