------------------------------ MODULE Tenders ------------------------------
(***************************************************************************)
(* The tenders a firm bids for on GeM, the government's market             *)
(* (tenders.service.ts, gem-status-inference.util.ts).  People enter and   *)
(* edit them, a browser extension imports them and reports what GeM shows. *)
(* Every handler reads a document, changes its copy and saves it; save()   *)
(* sends the paths that differ from what was read.  A background pass      *)
(* fills in who entered the old ones.                                      *)
(***************************************************************************)
CONSTANTS
    Ids,            \* ids of the tenders that may be entered (bound)
    Old,            \* at most one of them, entered before names were kept
    Bids,           \* bid numbers
    Handlers,       \* requests in progress
    Asked,          \* bound: the statuses a request may name
    Stages,         \* bound: what GeM may show of the evaluation
    Outcomes        \* bound: what GeM may say of the outcome

VARIABLES
    tender,         \* per id: the row, or NoTender
    logged,         \* bids with a CREATE_TENDER entry in the audit log
    backfill,       \* the pass over the old tenders: what it read, what is left
    backfillDone,   \* legacyBackfillDone
    call

vars == <<tender, logged, backfill, backfillDone, call>>

Status == {"not_filed", "filed", "technical_qualified", "qualified", "disqualified",
           "financial", "bid_awarded", "bid_not_awarded", "won_bid"}
Tender == [bid: Bids, status: Status, end: {"none", "ahead", "past"},
           deleted: BOOLEAN, by: {"", "default", "user"}]
NoTender == [status |-> "absent"]
NoPass == [pc |-> "idle"]
IdleCall == [pc |-> "idle"]
Goto(h, c) == call' = [call EXCEPT ![h] = c]
At(h, pc) == call[h].pc = pc
Idle(h) == At(h, "idle")

Known == {t \in Ids : tender[t] # NoTender}
activeBidFilter(bid) == {t \in Known : tender[t].bid = bid /\ ~tender[t].deleted}

\* Its deadline has passed and nobody took part.
isMissedParticipation(row) == ~row.deleted /\ row.status = "not_filed" /\ row.end = "past"

-----------------------------------------------------------------------------
(* What GeM's page says.  An item has a status ("" for none) that the      *)
(* extension chose, the stage lines of the evaluation and an outcome.      *)

Items == [status: Asked \cup {""}, stage: Stages, outcome: Outcomes]

stageStateFromLines(item) == item.stage
detectSelfBidAward(item) == item.outcome = "won"
bidAwardStatus(item) ==
    IF detectSelfBidAward(item) THEN "won_bid"
    ELSE CASE stageStateFromLines(item) = "not awarded" -> "bid_not_awarded"
           [] stageStateFromLines(item) = "award"       -> "bid_awarded"
           [] OTHER                                     -> "qualified"
AtBidAward == {"award", "not awarded", "award in progress"}

deriveStatusFromGemProgress(item, participated) ==
    CASE stageStateFromLines(item) \in AtBidAward          -> bidAwardStatus(item)
      [] stageStateFromLines(item) = "financial"           -> "financial"
      [] stageStateFromLines(item) = "technical completed" -> "technical_qualified"
      [] stageStateFromLines(item) = "technical"           -> "filed"
      [] OTHER -> IF participated THEN "filed" ELSE "not_filed"

\* "" when GeM shows neither stages nor an outcome.
inferTenderStatusFromGemSyncFields(item) ==
    IF item.stage = "" /\ item.outcome = "" THEN ""
    ELSE deriveStatusFromGemProgress(item,
           item.outcome = "participated" \/ item.status \notin {"", "not_filed"})

gemIndicatesParticipation(item) ==
    \/ item.status \notin {"", "not_filed"}
    \/ item.stage \in {"technical", "technical completed", "financial"} \cup AtBidAward
    \/ item.outcome \in {"participated", "disqualified", "won"}

\* The status an item asks for: what its stages say, or its own.
StatusOf(item) ==
    LET inferred == inferTenderStatusFromGemSyncFields(item)
        own == IF item.status = "not_evaluated" THEN "filed" ELSE item.status
    IN CASE item.outcome = "disqualified"                          -> "disqualified"
         [] inferred # "" /\ (item.stage # "" \/ own \in {"", "filed", "not_filed"}) -> inferred
         [] OTHER                                                  -> own

\* Mutant: GeM's word counts even when it knows of no participation.
applyGemStatusUpdateMutant(row, item) ==
    IF StatusOf(item) = "" \/ (isMissedParticipation(row) /\ ~gemIndicatesParticipation(item))
    THEN row ELSE [row EXCEPT !.status = StatusOf(item)]

applyGemStatusUpdate(row, item) ==
    IF \/ StatusOf(item) = ""
       \/ StatusOf(item) = "not_filed" /\ row.status # "not_filed"
       \/ isMissedParticipation(row) /\ ~gemIndicatesParticipation(item)
    THEN row
    ELSE [row EXCEPT !.status = StatusOf(item)]

-----------------------------------------------------------------------------
(* Entering a tender; an import enters those it does not find.             *)

stampAddedBy(row, actor) == IF row.by = "" THEN [row EXCEPT !.by = actor] ELSE row

\* `todo` are the bids or ids a bulk request still has to do; `step` is what it
\* does with one of them, and `back` what it goes on with.
OneOf(h, step, back) == Goto(h, [step EXCEPT !.back = IF back.todo = {} THEN IdleCall ELSE back])
Skip(h, back) == Goto(h, IF back.todo = {} THEN IdleCall ELSE back)
Return(h) == Goto(h, call[h].back)

\* The paths that save() will send, and what they make of the row.
Changes(seen, doc) == [f \in {g \in DOMAIN seen : doc[g] # seen[g]} |-> doc[f]]
Written(row, set) == [f \in DOMAIN row |-> IF f \in DOMAIN set THEN set[f] ELSE row[f]]
Save(t, seen, doc) ==
    [pc |-> "save", t |-> t, set |-> Changes(seen, doc), by |-> "user", back |-> IdleCall]

create(h, bid, status, end) ==
    /\ Idle(h)
    /\ IF activeBidFilter(bid) # {}
       THEN UNCHANGED call
       ELSE Goto(h, [pc |-> "insert", bid |-> bid, status |-> status, end |-> end, back |-> IdleCall])
    /\ UNCHANGED <<tender, logged, backfill, backfillDone>>

recordTenderAudit(bid) == logged' = logged \cup {bid}

\* The id is random; no index is unique on the bid number.
insert(h) ==
    /\ At(h, "insert")
    /\ LET c == call[h] IN
       \E t \in Ids \ Known :
         tender' = [tender EXCEPT ![t] =
           [bid |-> c.bid, status |-> IF c.status = "not_evaluated" THEN "filed" ELSE c.status,
            end |-> c.end, deleted |-> FALSE, by |-> "user"]]
    /\ recordTenderAudit(call[h].bid)
    /\ Return(h)
    /\ UNCHANGED <<backfill, backfillDone>>

\* A document that was removed meanwhile is an error, which a bulk request
\* counts and leaves behind.
save(h) ==
    /\ At(h, "save")
    /\ LET c == call[h] IN
       tender' = IF c.t \in Known THEN [tender EXCEPT ![c.t] = Written(@, c.set)] ELSE tender
    /\ Return(h)
    /\ UNCHANGED <<logged, backfill, backfillDone>>

bulkImport(h, bids, item, end) ==
    /\ Idle(h)
    /\ bids # {}
    /\ Goto(h, [pc |-> "import", todo |-> bids, item |-> item, end |-> end])
    /\ UNCHANGED <<tender, logged, backfill, backfillDone>>

\* The date comes before the status, so an import may reopen a missed tender.
mergeImportedTender(row, item, end) ==
    LET dated == IF end = "none" THEN stampAddedBy(row, "user")
                 ELSE [stampAddedBy(row, "user") EXCEPT !.end = end]
    IN IF item.status = "" THEN dated ELSE applyGemStatusUpdate(dated, item)

importItem(h, bid) ==
    /\ At(h, "import") /\ bid \in call[h].todo
    /\ LET c == [call[h] EXCEPT !.todo = @ \ {bid}] IN
       IF activeBidFilter(bid) = {}
       THEN OneOf(h, [pc |-> "insert", bid |-> bid, end |-> c.end, back |-> IdleCall,
                      status |-> IF c.item.status = "" THEN "not_filed" ELSE c.item.status], c)
       ELSE \E t \in activeBidFilter(bid) :
              OneOf(h, Save(t, tender[t], mergeImportedTender(tender[t], c.item, c.end)), c)
    /\ UNCHANGED <<tender, logged, backfill, backfillDone>>

syncFromGem(h, bids, item) ==
    /\ Idle(h)
    /\ bids # {}
    /\ Goto(h, [pc |-> "sync", todo |-> bids, item |-> item])
    /\ UNCHANGED <<tender, logged, backfill, backfillDone>>

syncItem(h, bid) ==
    /\ At(h, "sync") /\ bid \in call[h].todo
    /\ LET c == [call[h] EXCEPT !.todo = @ \ {bid}] IN
       IF activeBidFilter(bid) = {}
       THEN Skip(h, c)
       ELSE \E t \in activeBidFilter(bid) :
              OneOf(h, Save(t, tender[t], IF c.item.status = "" THEN tender[t]
                                          ELSE applyGemStatusUpdate(tender[t], c.item)), c)
    /\ UNCHANGED <<tender, logged, backfill, backfillDone>>

-----------------------------------------------------------------------------
(* Editing, deleting and removing; a bulk request does it one by one.      *)

\* A field the patch lacks is "".
bulkUpdate(h, ids, patch, superAdmin) ==
    /\ Idle(h)
    /\ ids # {}
    /\ Goto(h, [pc |-> "update", todo |-> ids, patch |-> patch, super |-> superAdmin])
    /\ UNCHANGED <<tender, logged, backfill, backfillDone>>

\* The statuses are tested on the document as it was read.
MayUpdate(row, patch, superAdmin) ==
    /\ ~row.deleted
    /\ patch.status # "" => ~isMissedParticipation(row)
    /\ patch.status = "not_filed" /\ row.status # "not_filed" => superAdmin

Patched(row, patch) ==
    stampAddedBy(
      [row EXCEPT !.bid = IF patch.bid = "" THEN @ ELSE patch.bid,
                  !.end = IF patch.end = "" THEN @ ELSE patch.end,
                  !.status = IF patch.status = "" THEN @
                             ELSE IF patch.status = "not_evaluated" THEN "filed" ELSE patch.status],
      "user")

update(h, t) ==
    /\ At(h, "update") /\ t \in call[h].todo
    /\ LET c == [call[h] EXCEPT !.todo = @ \ {t}] IN
       IF t \in Known /\ MayUpdate(tender[t], c.patch, c.super)
       THEN LET row == tender[t]
                step == [Save(t, row, Patched(row, c.patch)) EXCEPT !.by = IF c.super THEN "super" ELSE @]
            IN OneOf(h, IF c.patch.bid \in {"", row.bid} THEN step ELSE [step EXCEPT !.pc = "clash"], c)
       ELSE Skip(h, c)
    /\ UNCHANGED <<tender, logged, backfill, backfillDone>>

\* Mutant: a number in use is taken all the same.
clashMutant(h) ==
    /\ At(h, "clash")
    /\ Goto(h, [call[h] EXCEPT !.pc = "save"])
    /\ UNCHANGED <<tender, logged, backfill, backfillDone>>

\* A new bid number must not be in use.
clash(h) ==
    /\ At(h, "clash")
    /\ IF activeBidFilter(call[h].set.bid) = {}
       THEN Goto(h, [call[h] EXCEPT !.pc = "save"])
       ELSE Return(h)
    /\ UNCHANGED <<tender, logged, backfill, backfillDone>>

bulkDelete(h, ids, superAdmin) ==
    /\ Idle(h)
    /\ ids # {}
    /\ Goto(h, [pc |-> "delete", todo |-> ids, super |-> superAdmin])
    /\ UNCHANGED <<tender, logged, backfill, backfillDone>>

delete(h, t) ==
    /\ At(h, "delete") /\ t \in call[h].todo
    /\ LET c == [call[h] EXCEPT !.todo = @ \ {t}] IN
       IF t \in Known /\ (isMissedParticipation(tender[t]) => c.super)
       THEN OneOf(h, Save(t, tender[t], [tender[t] EXCEPT !.deleted = TRUE]), c)
       ELSE Skip(h, c)
    /\ UNCHANGED <<tender, logged, backfill, backfillDone>>

\* Only super admins get here.
bulkPermanentDelete(h, ids) ==
    /\ Idle(h)
    /\ ids # {}
    /\ Goto(h, [pc |-> "remove", todo |-> ids])
    /\ UNCHANGED <<tender, logged, backfill, backfillDone>>

permanentDelete(h, t) ==
    /\ At(h, "remove") /\ t \in call[h].todo
    /\ LET c == [call[h] EXCEPT !.todo = @ \ {t}] IN
       IF t \in Known /\ (tender[t].deleted \/ isMissedParticipation(tender[t]))
       THEN OneOf(h, [pc |-> "deleteOne", t |-> t, back |-> IdleCall], c)
       ELSE Skip(h, c)
    /\ UNCHANGED <<tender, logged, backfill, backfillDone>>

deleteOne(h) ==
    /\ At(h, "deleteOne")
    /\ tender' = [tender EXCEPT ![call[h].t] = NoTender]
    /\ Return(h)
    /\ UNCHANGED <<logged, backfill, backfillDone>>

DeadlinePasses ==
    /\ \E t \in Known :
         /\ tender[t].end = "ahead"
         /\ tender' = [tender EXCEPT ![t].end = "past"]
    /\ UNCHANGED <<logged, backfill, backfillDone, call>>

-----------------------------------------------------------------------------
(* Who entered the old tenders: read off the audit log, else the default   *)
(* administrator.  The pass starts with the process and with a listing,    *)
(* and never twice at a time.                                              *)

startLegacyActorBackfill ==
    /\ ~backfillDone /\ backfill = NoPass
    /\ backfill' = [pc |-> "maps", rows |-> [t \in Known |-> tender[t]]]
    /\ UNCHANGED <<tender, logged, backfillDone, call>>

buildLegacyActorMaps ==
    /\ backfill.pc = "maps"
    /\ backfill' = [pc |-> "fill", rows |-> backfill.rows, known |-> logged]
    /\ UNCHANGED <<tender, logged, backfillDone, call>>

\* The name a row gets: the log's over the default's, none over a user's.
ActorOf(row, known) ==
    IF row.bid \in known /\ row.by \in {"", "default"} THEN "user"
    ELSE IF row.by = "" THEN "default" ELSE row.by

backfillLegacyTenderActors(t) ==
    /\ backfill.pc = "fill" /\ t \in DOMAIN backfill.rows
    /\ LET row == backfill.rows[t]
           doc == [row EXCEPT !.by = ActorOf(row, backfill.known)]
       IN tender' = IF t \in Known THEN [tender EXCEPT ![t] = Written(@, Changes(row, doc))] ELSE tender
    /\ backfill' = [backfill EXCEPT !.rows = [r \in DOMAIN @ \ {t} |-> @[r]]]
    /\ UNCHANGED <<logged, backfillDone, call>>

BackfillEnds ==
    /\ backfill.pc = "fill" /\ DOMAIN backfill.rows = {}
    /\ backfill' = NoPass
    /\ backfillDone' = TRUE
    /\ UNCHANGED <<tender, logged, call>>

-----------------------------------------------------------------------------
\* The old tenders are there, without the name of who entered them; the log may
\* know it.  Without any, the pass is over at once.
Init ==
    /\ \E bid \in Bids :
         tender = [t \in Ids |->
              IF t \in Old
              THEN [bid |-> bid, status |-> "not_filed", end |-> "ahead", deleted |-> FALSE, by |-> ""]
              ELSE NoTender]
    /\ logged \in {{}, Bids}
    /\ backfill = NoPass /\ backfillDone = (Old = {})
    /\ call = [h \in Handlers |-> IdleCall]

Patches == [status: Asked \cup {""}, bid: Bids \cup {""}, end: {"", "ahead"}]

Ask(h) ==
    \/ \E bid \in Bids, status \in Asked, end \in {"none", "ahead"} : create(h, bid, status, end)
    \/ \E bids \in SUBSET Bids, item \in Items :
        \/ syncFromGem(h, bids, item)
        \/ \E end \in {"none", "ahead"} : bulkImport(h, bids, item, end)
    \/ \E ids \in SUBSET Ids :
        \/ \E patch \in Patches, superAdmin \in BOOLEAN : bulkUpdate(h, ids, patch, superAdmin)
        \/ \E superAdmin \in BOOLEAN : bulkDelete(h, ids, superAdmin)
        \/ bulkPermanentDelete(h, ids)

Work(h) ==
    \/ insert(h) \/ save(h) \/ clash(h) \/ deleteOne(h)
    \/ \E bid \in Bids : importItem(h, bid) \/ syncItem(h, bid)
    \/ \E t \in Ids : update(h, t) \/ delete(h, t) \/ permanentDelete(h, t)

Backfill ==
    \/ startLegacyActorBackfill \/ buildLegacyActorMaps \/ BackfillEnds
    \/ \E t \in Ids : backfillLegacyTenderActors(t)

Next == (\E h \in Handlers : Ask(h) \/ Work(h)) \/ DeadlinePasses \/ Backfill

Spec == Init /\ [][Next]_vars
-----------------------------------------------------------------------------
TypeOK ==
    /\ \A t \in Known : tender[t] \in Tender
    /\ logged \subseteq Bids
    /\ backfillDone \in BOOLEAN

\* A tender the firm took part in goes back to "not participated" only by a
\* super admin's update.  Imports and syncs read it, ask GeM's page and save
\* later, over whatever other handlers wrote meanwhile, and may be wrong about
\* the page; none of them takes a participation back.
ParticipationKept ==
    \A t \in Ids :
        /\ tender[t] # NoTender /\ tender[t].status # "not_filed"
        /\ tender'[t] # NoTender /\ tender'[t].status = "not_filed"
        => \E h \in Handlers : save(h) /\ call[h].by = "super"
ParticipationStands == [][ParticipationKept]_vars

\* Handled one at a time, requests never leave two active tenders with one bid
\* number, though no index forbids it: create, import and renaming look first.
OneTenderPerBid ==
    \A s, t \in Known :
        ~tender[s].deleted /\ ~tender[t].deleted /\ tender[s].bid = tender[t].bid => s = t
=============================================================================
