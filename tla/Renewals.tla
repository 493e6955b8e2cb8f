------------------------------ MODULE Renewals ------------------------------
(***************************************************************************)
(* The register of what has to be renewed: papers of vehicles, domains and *)
(* servers, licences (renewals.service.ts).  A sheet is imported row by    *)
(* row: a row updates the record it is about, or makes it.  No index tells *)
(* two records of one thing apart.                                         *)
(***************************************************************************)
EXTENDS Naturals

CONSTANTS
    Ids,            \* ids of the records that may be entered (bound)
    Handlers,       \* requests in progress
    Items,          \* what forms and rows of sheets say: records of Asked
    MaxCrashes      \* bound: process restarts

VARIABLES
    renewal,        \* per id: the record, or NoRenewal
    byHand,         \* history: records entered or changed by hand
    call,
    crashes

vars == <<renewal, byHand, call, crashes>>

SubTypesOf == [car_papers |-> {"rc_book", "insurance"}, it_renewals |-> {"domain", "server"},
               licenses |-> {"travel_plus"}]
Categories == DOMAIN SubTypesOf
SubTypes == UNION {SubTypesOf[c] : c \in Categories}
OwnerTypes == {"mine", "client"}
Dates == {"", "due"}
Titles == [name: {"a", "b"}, letters: {"small", "capital"}] \cup {[name |-> "", letters |-> "capital"]}
Renewal == [category: Categories, subType: SubTypes, title: Titles, clientName: {"", "x"},
            ownerType: OwnerTypes, hasExpiry: BOOLEAN, expiresOn: Dates]
NoRenewal == [category |-> "none"]
IdleCall == [pc |-> "idle"]
Goto(h, c) == call' = [call EXCEPT ![h] = c]
At(h, pc) == call[h].pc = pc
Idle(h) == At(h, "idle")

Kept == {r \in Ids : renewal[r] # NoRenewal}

validateSubType(category, subType) == subType \in SubTypesOf[category]

\* A date counts unless the request says there is none.
resolveDates(row, hasExpiry, expiresOn) ==
    LET has == hasExpiry # "no" /\ (hasExpiry = "yes" \/ expiresOn # "")
    IN [row EXCEPT !.hasExpiry = has, !.expiresOn = IF has THEN expiresOn ELSE ""]

\* Registrations are kept in capitals.
TitleOf(category, title) == IF category = "car_papers" THEN [title EXCEPT !.letters = "capital"] ELSE title

\* What a row of a sheet or a form may say.
Asked == [category: Categories, subType: SubTypes, title: Titles, clientName: {"", "x"},
          ownerType: OwnerTypes, hasExpiry: {"", "yes", "no"}, expiresOn: Dates]

NewRenewal(item) ==
    resolveDates([category |-> item.category, subType |-> item.subType,
                  title |-> TitleOf(item.category, item.title), clientName |-> item.clientName,
                  ownerType |-> item.ownerType, hasExpiry |-> FALSE, expiresOn |-> ""],
                 item.hasExpiry, item.expiresOn)

\* By hand nothing looks for a record of the same thing.
create(item) ==
    /\ validateSubType(item.category, item.subType)
    /\ \E r \in Ids \ Kept :
         /\ renewal' = [renewal EXCEPT ![r] = NewRenewal(item)]
         /\ byHand' = byHand \cup {r}
    /\ UNCHANGED <<call, crashes>>

-----------------------------------------------------------------------------
\* save() sends the fields that differ from what was read.
Changes(seen, new) == [f \in {g \in DOMAIN seen : new[g] # seen[g]} |-> new[f]]
Written(row, set) == [f \in DOMAIN row |-> IF f \in DOMAIN set THEN set[f] ELSE row[f]]

\* The date that is given, unless the record, as it was read, has no expiry.
update(h, r, item) ==
    /\ Idle(h)
    /\ r \in Kept
    /\ validateSubType(renewal[r].category, item.subType)
    /\ LET seen == renewal[r]
           has == IF item.hasExpiry # "" THEN item.hasExpiry ELSE IF seen.hasExpiry THEN "yes" ELSE "no"
           said == [seen EXCEPT !.subType = item.subType, !.title = TitleOf(seen.category, item.title),
                                !.clientName = item.clientName, !.ownerType = item.ownerType]
           new == resolveDates(said, has, item.expiresOn)
       IN Goto(h, [pc |-> "save", r |-> r, set |-> Changes(seen, new), hand |-> TRUE])
    /\ UNCHANGED <<renewal, byHand, crashes>>

save(h) ==
    /\ At(h, "save")
    /\ LET c == call[h] IN
       /\ renewal' = [renewal EXCEPT ![c.r] = Written(@, c.set)]
       /\ byHand' = IF c.hand THEN byHand \cup {c.r} ELSE byHand
    /\ Goto(h, IdleCall)
    /\ UNCHANGED crashes

\* Its documents go first (StoredDocuments).  A save of a record that is gone
\* fails; an id is not given again.
delete(r) ==
    /\ r \in Kept
    /\ renewal' = [renewal EXCEPT ![r] = NoRenewal]
    /\ byHand' = byHand \ {r}
    /\ call' = [h \in Handlers |-> IF At(h, "save") /\ call[h].r = r THEN IdleCall ELSE call[h]]
    /\ UNCHANGED crashes

-----------------------------------------------------------------------------
(* The import.                                                             *)

\* Mutant: the search takes the registration as it is typed.
renewalMatchQueryMutant(item) ==
    {r \in Kept : renewal[r].category = item.category /\ renewal[r].subType = item.subType
                  /\ renewal[r].title = item.title}

\* The records that are about the same thing as the row.
renewalMatchQuery(item) ==
    {r \in Kept :
        /\ renewal[r].category = item.category
        /\ renewal[r].subType = item.subType
        /\ renewal[r].title = TitleOf(item.category, item.title)
        /\ item.category = "it_renewals" =>
             /\ renewal[r].ownerType = item.ownerType
             /\ item.ownerType = "client" => renewal[r].clientName = item.clientName}

applyImportedRenewal(row, item) ==
    resolveDates([row EXCEPT !.clientName = item.clientName, !.ownerType = item.ownerType],
                 item.hasExpiry, item.expiresOn)

\* Rows that are skipped change nothing.
Importable(item) ==
    /\ validateSubType(item.category, item.subType)
    /\ item.category \in {"car_papers", "it_renewals"} => item.title.name # ""
    /\ item.category = "it_renewals" /\ item.ownerType = "client" => item.clientName # ""

\* One row; the next is not looked at before this one is done.
bulkImport(h, item) ==
    /\ Idle(h)
    /\ Importable(item)
    /\ IF renewalMatchQuery(item) = {}
       THEN Goto(h, [pc |-> "create", item |-> item])
       ELSE \E r \in renewalMatchQuery(item) :
              Goto(h, [pc |-> "save", r |-> r, hand |-> FALSE,
                       set |-> Changes(renewal[r], applyImportedRenewal(renewal[r], item))])
    /\ UNCHANGED <<renewal, byHand, crashes>>

importCreate(h) ==
    /\ At(h, "create")
    /\ \E r \in Ids \ Kept : renewal' = [renewal EXCEPT ![r] = NewRenewal(call[h].item)]
    /\ Goto(h, IdleCall)
    /\ UNCHANGED <<byHand, crashes>>

-----------------------------------------------------------------------------
Crash ==
    /\ crashes < MaxCrashes
    /\ crashes' = crashes + 1
    /\ call' = [h \in Handlers |-> IdleCall]
    /\ UNCHANGED <<renewal, byHand>>

Init ==
    /\ renewal = [r \in Ids |-> NoRenewal]
    /\ byHand = {} /\ crashes = 0
    /\ call = [h \in Handlers |-> IdleCall]

Next ==
    \/ \E item \in Items : create(item) \/ \E h \in Handlers : bulkImport(h, item)
    \/ \E h \in Handlers : save(h) \/ importCreate(h)
    \/ \E h \in Handlers, r \in Ids, item \in Items : update(h, r, item)
    \/ \E r \in Ids : delete(r)
    \/ Crash

Spec == Init /\ [][Next]_vars
-----------------------------------------------------------------------------
TypeOK ==
    /\ \A r \in Kept : renewal[r] \in Renewal
    /\ byHand \subseteq Kept

SameThing(a, b) ==
    /\ a.category = b.category /\ a.subType = b.subType /\ a.title = b.title
    /\ a.category = "it_renewals" =>
         a.ownerType = b.ownerType /\ (a.ownerType = "client" => a.clientName = b.clientName)

\* A sheet imported again, in whatever letters its registrations are typed,
\* and after any crash, finds the records it made: imports handled one at a
\* time leave one record for each thing, and a record without an expiry never
\* keeps the date of one.
ImportsFindTheirs ==
    /\ \A r, s \in Kept \ byHand : SameThing(renewal[r], renewal[s]) => r = s
    /\ \A r \in Kept : ~renewal[r].hasExpiry => renewal[r].expiresOn = ""
=============================================================================
