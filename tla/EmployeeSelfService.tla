------------------------- MODULE EmployeeSelfService -------------------------
(***************************************************************************)
(* How an employee's own corrections reach the profile: HR creates a       *)
(* one-use data collection link, the employee unlocks it with a one-time   *)
(* password and submits the blank fields and missing documents, and an     *)
(* administrator approves or rejects the resulting change request.         *)
(*                                                                         *)
(* One employee.  "field" stands for the profile fields (and the photo,    *)
(* which is checked and written the same way), "document" for the required *)
(* documents.  The handlers of employee-data-gather.service.ts and         *)
(* employee-change-requests.service.ts interleave at their awaits.         *)
(***************************************************************************)
EXTENDS Naturals, FiniteSets

CONSTANTS
    Links,       \* data collection links that can be created
    Requests,    \* change requests that can be created
    Handlers,    \* requests in progress
    MaxCrashes   \* bound: process restarts

VARIABLES
    profile,     \* the field: "blank", "filled", or the employee is "deleted"
    documents,   \* whether employee_documents has the required document
    links,       \* employee_data_gather_links
    requests,    \* employee_change_requests
    call,        \* what each handler in progress remembers
    landed,      \* history: <<request, part>> written to the employee
    cut,         \* history: links and requests a crash cut between two writes
    crashes

vars == <<profile, documents, links, requests, call, landed, cut, crashes>>

Parts == {"field", "document"}
Link == [status : {"active", "submitted", "expired", "revoked"},
         session : {"none", "live"}, asks : (SUBSET Parts) \ {{}}]
Request == [status : {"pending", "approved", "rejected"},
            link : Links \cup {"admin"}, parts : (SUBSET Parts) \ {{}}]
NoLink == [status |-> "none"]
NoRequest == [status |-> "none"]

IdleCall == [pc |-> "idle"]
Goto(h, c) == call' = [call EXCEPT ![h] = c]
At(h, pc) == call[h].pc = pc
Idle(h) == call[h] = IdleCall
IsSerial == \A g, h \in Handlers : g = h
-----------------------------------------------------------------------------
\* detectBlankFields, detectMissingDocuments, hasEmployeePhoto
Missing == (IF profile = "blank" THEN {"field"} ELSE {}) \cup
           (IF ~documents THEN {"document"} ELSE {})

Active(l) == links[l].status = "active"

\* One updateMany over all links.  Two days (DATA_GATHER_LINK_TTL_MS) may have
\* passed for any of the active ones; nothing looks at a link before sweeping.
expireStaleLinks ==
    \E due \in SUBSET {l \in Links : Active(l)} :
        links' = [l \in Links |-> IF l \in due THEN [links[l] EXCEPT !.status = "expired"]
                                  ELSE links[l]]

\* The reads that only sweep: getActiveLinkForEmployee, and getLinkStatus for
\* a link that is not usable, which is where every refused call ends.
getActiveLinkForEmployee(h) ==
    /\ Idle(h)
    /\ expireStaleLinks
    /\ UNCHANGED <<profile, documents, requests, call, landed, cut, crashes>>
-----------------------------------------------------------------------------
(* createLink *)

\* Sweep, read the employee and the documents, refuse if nothing is missing.
createLink(h) ==
    /\ Idle(h)
    /\ profile # "deleted"
    /\ Missing # {}
    /\ expireStaleLinks
    /\ Goto(h, [pc |-> "revokeActive", asks |-> Missing])
    /\ UNCHANGED <<profile, documents, requests, landed, cut, crashes>>

revokeActive(h) ==
    /\ At(h, "revokeActive")
    /\ links' = [l \in Links |-> IF Active(l) THEN [links[l] EXCEPT !.status = "revoked"]
                                 ELSE links[l]]
    /\ Goto(h, [call[h] EXCEPT !.pc = "insertLink"])
    /\ UNCHANGED <<profile, documents, requests, landed, cut, crashes>>

insertLink(h) ==
    /\ At(h, "insertLink")
    /\ \E l \in Links : links[l] = NoLink
    /\ LET l == CHOOSE x \in Links : links[x] = NoLink
       IN links' = [links EXCEPT ![l] =
                      [status |-> "active", session |-> "none",
                       asks |-> call[h].asks]]
    /\ Goto(h, IdleCall)
    /\ UNCHANGED <<profile, documents, requests, landed, cut, crashes>>
-----------------------------------------------------------------------------
(* revokeLink reads the link, then save() writes the status it assigned. *)

revokeLink(h, l) ==
    /\ Idle(h)
    /\ Active(l)
    /\ Goto(h, [pc |-> "saveRevoked", link |-> l])
    /\ UNCHANGED <<profile, documents, links, requests, landed, cut, crashes>>

saveRevoked(h) ==
    /\ At(h, "saveRevoked")
    /\ links' = [links EXCEPT ![call[h].link].status = "revoked"]
    /\ Goto(h, IdleCall)
    /\ UNCHANGED <<profile, documents, requests, landed, cut, crashes>>
-----------------------------------------------------------------------------
(* verifyOtp and submit both begin with findActiveLinkByToken: sweep and    *)
(* read the status, then read the link again without looking at the status. *)

getLinkStatus(h, l, purpose) ==
    /\ Idle(h)
    /\ expireStaleLinks
    /\ links'[l].status = "active"
    /\ Goto(h, [pc |-> purpose, link |-> l])
    /\ UNCHANGED <<profile, documents, requests, landed, cut, crashes>>

\* The one-time password matched: the second read, then save() of the session.
verifyOtp(h) ==
    /\ At(h, "verifyOtp")
    /\ Goto(h, [call[h] EXCEPT !.pc = "saveSession"])
    /\ UNCHANGED <<profile, documents, links, requests, landed, cut, crashes>>

saveSession(h) ==
    /\ At(h, "saveSession")
    /\ links' = [links EXCEPT ![call[h].link].session = "live"]
    /\ Goto(h, IdleCall)
    /\ UNCHANGED <<profile, documents, requests, landed, cut, crashes>>

\* The second read, assertSession, and the reading of the employee: only what
\* the link asked for, a field only while it is blank, and at least one thing.
submit(h, parts) ==
    /\ At(h, "submit")
    /\ LET link == links[call[h].link]
       IN /\ link.session = "live"
          /\ parts # {} /\ parts \subseteq link.asks
    /\ profile # "deleted"
    /\ "field" \in parts => profile = "blank"
    /\ Goto(h, [pc |-> "createRequest", link |-> call[h].link, parts |-> parts])
    /\ UNCHANGED <<profile, documents, links, requests, landed, cut, crashes>>

NewRequest(link, parts) ==
    /\ \E r \in Requests : requests[r] = NoRequest
    /\ LET r == CHOOSE x \in Requests : requests[x] = NoRequest
       IN requests' = [requests EXCEPT ![r] =
                         [status |-> "pending", link |-> link, parts |-> parts]]

submitFromSelfService(h) ==
    /\ At(h, "createRequest")
    /\ profile # "deleted"
    /\ NewRequest(call[h].link, call[h].parts)
    /\ Goto(h, [pc |-> "saveSubmitted", link |-> call[h].link])
    /\ UNCHANGED <<profile, documents, links, landed, cut, crashes>>

saveSubmitted(h) ==
    /\ At(h, "saveSubmitted")
    /\ links' = [links EXCEPT ![call[h].link].status = "submitted",
                              ![call[h].link].session = "none"]
    /\ Goto(h, IdleCall)
    /\ UNCHANGED <<profile, documents, requests, landed, cut, crashes>>

\* A refusal ends the call: a wrong password, a session that has lapsed
\* (DATA_GATHER_SESSION_TTL_MS), a field that is no longer blank.
refuse(h) ==
    /\ call[h].pc \in {"verifyOtp", "submit", "createRequest"}
    /\ Goto(h, IdleCall)
    /\ UNCHANGED <<profile, documents, links, requests, landed, cut, crashes>>

\* EmployeeChangeRequestsService.submit: a bulk edit queued for approval.
submitBulkEdit(h) ==
    /\ Idle(h)
    /\ profile # "deleted"
    /\ NewRequest("admin", {"field"})
    /\ UNCHANGED <<profile, documents, links, call, landed, cut, crashes>>
-----------------------------------------------------------------------------
(* approve: the entries, then the documents, then the request's status.     *)

Pending(r) == requests[r].status = "pending"

\* Mutant: the request is marked approved before anything is applied.
approveMutant(h, r) ==
    /\ Idle(h)
    /\ Pending(r)
    /\ requests' = [requests EXCEPT ![r].status = "approved"]
    /\ Goto(h, [pc |-> "applyChanges", request |-> r])
    /\ UNCHANGED <<profile, documents, links, landed, cut, crashes>>

approve(h, r) ==
    /\ Idle(h)
    /\ Pending(r)
    /\ Goto(h, [pc |-> "applyChanges", request |-> r])
    /\ UNCHANGED <<profile, documents, links, requests, landed, cut, crashes>>

Asks(h, part) == part \in requests[call[h].request].parts

\* EmployeesService.update per entry: $set whatever the field holds by now.
\* An employee that was deleted meanwhile is skipped.
applyChanges(h) ==
    /\ At(h, "applyChanges")
    /\ LET r == call[h].request
       IN IF Asks(h, "field") /\ profile # "deleted"
          THEN profile' = "filled" /\ landed' = landed \cup {<<r, "field">>}
          ELSE UNCHANGED <<profile, landed>>
    /\ Goto(h, [call[h] EXCEPT !.pc = "createDocuments"])
    /\ UNCHANGED <<documents, links, requests, cut, crashes>>

\* EmployeeDocumentsService.createMany: new rows, whatever rows there are.
createDocuments(h) ==
    /\ At(h, "createDocuments")
    /\ LET r == call[h].request
       IN IF Asks(h, "document")
          THEN /\ documents' = TRUE
               /\ landed' = landed \cup {<<r, "document">>}
          ELSE UNCHANGED <<documents, landed>>
    /\ Goto(h, [call[h] EXCEPT !.pc = "saveApproved"])
    /\ UNCHANGED <<profile, links, requests, cut, crashes>>

saveApproved(h) ==
    /\ At(h, "saveApproved")
    /\ requests' = [requests EXCEPT ![call[h].request].status = "approved"]
    /\ Goto(h, IdleCall)
    /\ UNCHANGED <<profile, documents, links, landed, cut, crashes>>

reject(h, r) ==
    /\ Idle(h)
    /\ Pending(r)
    /\ Goto(h, [pc |-> "saveRejected", request |-> r])
    /\ UNCHANGED <<profile, documents, links, requests, landed, cut, crashes>>

saveRejected(h) ==
    /\ At(h, "saveRejected")
    /\ requests' = [requests EXCEPT ![call[h].request].status = "rejected"]
    /\ Goto(h, IdleCall)
    /\ UNCHANGED <<profile, documents, links, landed, cut, crashes>>
-----------------------------------------------------------------------------
(* HR working on the same employee, each a single write *)

editProfile(v) ==
    /\ profile # "deleted"
    /\ profile' = v
    /\ UNCHANGED <<documents, links, requests, call, landed, cut, crashes>>

uploadDocument ==
    /\ profile # "deleted"
    /\ documents' = TRUE
    /\ UNCHANGED <<profile, links, requests, call, landed, cut, crashes>>

removeDocument ==
    /\ documents' = FALSE
    /\ UNCHANGED <<profile, links, requests, call, landed, cut, crashes>>

\* deleteByIds: the employee's documents go first, then the employee.
deleteEmployee ==
    /\ profile # "deleted"
    /\ profile' = "deleted"
    /\ documents' = FALSE
    /\ UNCHANGED <<links, requests, call, landed, cut, crashes>>
-----------------------------------------------------------------------------
\* The process restarts: every call is forgotten, the database stays.
Crash ==
    /\ crashes < MaxCrashes
    /\ crashes' = crashes + 1
    /\ cut' = cut \cup
          {call[h].link : h \in {g \in Handlers : At(g, "saveSubmitted")}} \cup
          {call[h].request :
             h \in {g \in Handlers : call[g].pc \in {"createDocuments", "saveApproved"}}}
    /\ call' = [h \in Handlers |-> IdleCall]
    /\ UNCHANGED <<profile, documents, links, requests, landed>>
-----------------------------------------------------------------------------
Init ==
    /\ profile \in {"blank", "filled"}
    /\ documents \in BOOLEAN
    /\ links = [l \in Links |-> NoLink]
    /\ requests = [r \in Requests |-> NoRequest]
    /\ call = [h \in Handlers |-> IdleCall]
    /\ landed = {} /\ cut = {} /\ crashes = 0

LinkStep(h) ==
    \/ getActiveLinkForEmployee(h)
    \/ createLink(h) \/ revokeActive(h) \/ insertLink(h)
    \/ \E l \in Links :
         \/ revokeLink(h, l)
         \/ \E purpose \in {"verifyOtp", "submit"} : getLinkStatus(h, l, purpose)
    \/ saveRevoked(h)
    \/ verifyOtp(h) \/ saveSession(h)
    \/ \E parts \in SUBSET Parts : submit(h, parts)
    \/ submitFromSelfService(h) \/ saveSubmitted(h)
    \/ refuse(h)

RequestStep(h) ==
    \/ submitBulkEdit(h)
    \/ \E r \in Requests : approve(h, r) \/ reject(h, r)
    \/ applyChanges(h) \/ createDocuments(h) \/ saveApproved(h)
    \/ saveRejected(h)

HrStep ==
    \/ \E v \in {"blank", "filled"} : editProfile(v)
    \/ uploadDocument
    \/ removeDocument
    \/ deleteEmployee

Next ==
    \/ \E h \in Handlers : LinkStep(h) \/ RequestStep(h)
    \/ HrStep
    \/ Crash

Spec == Init /\ [][Next]_vars
-----------------------------------------------------------------------------
\* The state is made of the documents the schemas describe.
TypeOK ==
    /\ profile \in {"blank", "filled", "deleted"}
    /\ documents \in BOOLEAN
    /\ links \in [Links -> Link \cup {NoLink}]
    /\ requests \in [Requests -> Request \cup {NoRequest}]
    /\ landed \subseteq Requests \X Parts
    /\ cut \subseteq Links \cup Requests
    /\ crashes \in 0..MaxCrashes

\* "This link has already been used and is no longer active": handled one at a
\* time, a link gives at most one change request, whatever its sessions do,
\* unless a crash cut its submission between the request and the link.
OneRequestPerLink ==
    IsSerial => \A q, r \in Requests :
                  /\ requests[q] # NoRequest /\ requests[r] # NoRequest
                  /\ requests[q].link = requests[r].link
                  /\ requests[q].link \notin cut \cup {"admin"}
                  => q = r

\* "was declined and will not be published": handled one at a time, nothing of
\* a rejected request has reached the employee, unless a crash cut an approval
\* of it before.
RejectedIsUntouched ==
    IsSerial => \A r \in Requests \ cut :
                  requests[r].status = "rejected" =>
                    \A part \in Parts : <<r, part>> \notin landed

\* An approved request has been applied in full, whatever handlers race and
\* wherever a crash and a second approval fell: the status is written last.
\* Only the profile of an employee deleted meanwhile may be missing.
ApprovedMeansApplied ==
    \A r \in Requests :
      requests[r].status = "approved" =>
        \A part \in requests[r].parts :
          <<r, part>> \in landed \/ (part = "field" /\ profile = "deleted")
=============================================================================
