---------------------------- MODULE RequestTicket ----------------------------
(***************************************************************************)
(* What the request desk promises a field supervisor about a request, as   *)
(* one indivisible step per call: the life of a request without handlers,  *)
(* snapshots or crashes. SupervisorRequests implements it.                 *)
(***************************************************************************)
EXTENDS Naturals

CONSTANTS
  Requests,       \* request ids
  AckDays         \* days a supervisor has to acknowledge a response

VARIABLE ticket   \* status, age of the response in days, acknowledged or not

Open == {"pending", "responded"}
Outcome == {"responded", "closed"}

Init == ticket = [r \in Requests |-> [status |-> "none", age |-> 0, read |-> FALSE]]

Move(r, from, status, age, read) ==
  /\ ticket[r].status \in from
  /\ ticket' = [ticket EXCEPT ![r] = [status |-> status, age |-> age, read |-> read]]

Create(r) == Move(r, {"none"}, "pending", 0, FALSE)

\* An answer is news to the supervisor: its clock starts and it is unread.
Respond(r) == \E s \in Outcome : Move(r, Open, s, 0, FALSE)

Reply(r) == Move(r, Open, "pending", ticket[r].age, ticket[r].read)

\* A closing note may count as the answer the request never had.
Close(r) == \E a \in {ticket[r].age, 0} : Move(r, Open, "closed", a, ticket[r].read)

Escalate(r) == Move(r, {"closed"}, "escalated", ticket[r].age, ticket[r].read)

\* The only way out of an escalation.
Resolve(r) == \E s \in Outcome : Move(r, {"escalated"}, s, 0, FALSE)

\* Only a response left unread for AckDays days expires.
Expire(r) ==
  /\ ticket[r].age = AckDays /\ ~ticket[r].read
  /\ Move(r, {"responded"}, "closed", ticket[r].age, FALSE)

Acknowledge(S) ==
  ticket' = [r \in Requests |->
               IF r \in S THEN [ticket[r] EXCEPT !.read = TRUE] ELSE ticket[r]]

Day ==
  ticket' = [r \in Requests |->
               [ticket[r] EXCEPT !.age =
                  IF ticket[r].status = "none" \/ @ = AckDays THEN @ ELSE @ + 1]]

Next ==
  \/ \E r \in Requests :
       Create(r) \/ Respond(r) \/ Reply(r) \/ Close(r)
       \/ Escalate(r) \/ Resolve(r) \/ Expire(r)
  \/ \E S \in SUBSET Requests : Acknowledge(S)
  \/ Day

Spec == Init /\ [][Next]_ticket
=============================================================================
