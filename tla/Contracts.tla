------------------------------ MODULE Contracts ------------------------------
(***************************************************************************)
(* Two registers that write each other's rows: the contracts, each with    *)
(* the bank guarantee given for it, and the register of guarantees and     *)
(* drafts (contracts.service.ts, bg-dd.service.ts,                         *)
(* contract-bg-sync.service.ts).  A change of either is stored first and   *)
(* then carried over to the other.  Contracts are always written whole.    *)
(***************************************************************************)
EXTENDS Naturals

CONSTANTS
    Contracts,      \* ids of the contracts that may be entered (bound)
    Records,        \* ids of the guarantees that may be entered (bound)
    ContractNos,    \* contract numbers, which an index keeps unique
    Numbers,        \* numbers of guarantees
    Amounts,        \* amounts of guarantees
    Handlers,       \* requests in progress
    MaxCrashes      \* bound: process restarts

VARIABLES
    contract,       \* per id: the row, or NoContract
    record,         \* per id: the row, or NoRecord
    apart,          \* history: contracts whose guarantee was removed, moved or
                    \* cut off by a crash since the two were last written
    call,
    crashes

vars == <<contract, record, apart, call, crashes>>

Contract == [no: ContractNos, bgApplicable: BOOLEAN,
             bgNumber: Numbers \cup {""}, bgAmount: Amounts \cup {""}]
Record == [instrumentType: {"bg", "dd"}, number: Numbers,
           contractId: Contracts \cup {""}, amount: Amounts \cup {""}]
NoContract == [no |-> ""]
NoRecord == [number |-> ""]
IdleCall == [pc |-> "idle"]
Goto(h, c) == call' = [call EXCEPT ![h] = c]
At(h, pc) == call[h].pc = pc
Idle(h) == At(h, "idle")

Entered == {c \in Contracts : contract[c] # NoContract}
Issued == {r \in Records : record[r] # NoRecord}
WithNo(no) == {c \in Entered : contract[c].no = no}

\* A field that the request lacks is "keep".
Or(given, kept) == IF given = "keep" THEN kept ELSE given

\* `todo` is what a request still has to do, one thing after the other; an
\* error is counted and the request goes on with the next.
Request(h, kind, todo, patch) ==
    /\ Idle(h)
    /\ todo # {}
    /\ Goto(h, [pc |-> kind, todo |-> todo, patch |-> patch])
    /\ UNCHANGED <<contract, record, apart, crashes>>

Skip(h, back) == Goto(h, IF back.todo = {} THEN IdleCall ELSE back)
OneOf(h, pc, job, back) ==
    Goto(h, [pc |-> pc, job |-> job, back |-> IF back.todo = {} THEN IdleCall ELSE back])
Return(h) == Goto(h, call[h].back)
Onward(h, pc, job) == Goto(h, [pc |-> pc, job |-> job, back |-> call[h].back])

-----------------------------------------------------------------------------
(* Contracts.                                                              *)

Patches == [bgApplicable: {"keep", "yes", "no"},
            bgNumber: Numbers \cup {"", "keep"}, bgAmount: Amounts \cup {"", "keep"}]

applyPatch(row, patch) ==
    IF patch.bgApplicable = "no"
    THEN [row EXCEPT !.bgApplicable = FALSE, !.bgNumber = "", !.bgAmount = ""]
    ELSE [row EXCEPT !.bgApplicable = @ \/ patch.bgApplicable = "yes",
                     !.bgNumber = Or(patch.bgNumber, @), !.bgAmount = Or(patch.bgAmount, @)]

\* A guarantee that does not apply is not stored.
buildPayload(no, patch) ==
    LET blank == [no |-> no, bgApplicable |-> FALSE, bgNumber |-> "", bgAmount |-> ""]
        given == [patch EXCEPT !.bgNumber = Or(@, ""), !.bgAmount = Or(@, "")]
    IN IF patch.bgApplicable = "yes" THEN applyPatch(blank, given) ELSE blank

\* A contract with the number must not be there yet.
create(h, no) ==
    /\ At(h, "create") /\ no \in call[h].todo
    /\ LET c == [call[h] EXCEPT !.todo = @ \ {no}] IN
       IF WithNo(no) # {}
       THEN Skip(h, c)
       ELSE OneOf(h, "insert", [doc |-> buildPayload(no, c.patch)], c)
    /\ UNCHANGED <<contract, record, apart, crashes>>

insert(h) ==
    /\ At(h, "insert")
    /\ LET doc == call[h].job.doc IN
       IF WithNo(doc.no) # {}
       THEN Return(h) /\ UNCHANGED contract
       ELSE \E c \in Contracts \ Entered :
              /\ contract' = [contract EXCEPT ![c] = doc]
              /\ Onward(h, "carry", [id |-> c, doc |-> doc])
    /\ UNCHANGED <<record, apart, crashes>>

\* A row of the import is found by its number, or by its link to the portal,
\* which may lead to any contract; what the row leaves out is kept.
bulkImport(h, no) ==
    /\ At(h, "import") /\ no \in call[h].todo
    /\ LET c == [call[h] EXCEPT !.todo = @ \ {no}]
           Found(id) == [id |-> id, doc |-> applyPatch(contract[id], c.patch)]
       IN IF WithNo(no) # {}
          THEN \E id \in WithNo(no) : OneOf(h, "persist", Found(id), c)
          ELSE \/ \E id \in Entered : OneOf(h, "persist", Found(id), c)
               \/ OneOf(h, "insert", [doc |-> buildPayload(no, c.patch)], c)
    /\ UNCHANGED <<contract, record, apart, crashes>>

\* `no` is the new number, or "keep".
update(h, id, no) ==
    /\ At(h, "update") /\ id \in call[h].todo
    /\ LET c == [call[h] EXCEPT !.todo = @ \ {id}] IN
       IF id \notin Entered
       THEN Skip(h, c)
       ELSE LET row == [contract[id] EXCEPT !.no = Or(no, @)] IN
            OneOf(h, IF row.no = contract[id].no THEN "persist" ELSE "clash",
                  [id |-> id, doc |-> applyPatch(row, c.patch)], c)
    /\ UNCHANGED <<contract, record, apart, crashes>>

clash(h) ==
    /\ At(h, "clash")
    /\ IF WithNo(call[h].job.doc.no) # {} THEN Return(h)
       ELSE Onward(h, "persist", call[h].job)
    /\ UNCHANGED <<contract, record, apart, crashes>>

\* The whole document is written, the fields nobody changed included.
persistContractDocument(h) ==
    /\ At(h, "persist")
    /\ LET c == call[h].job IN
       IF c.id \notin Entered \/ WithNo(c.doc.no) \ {c.id} # {}
       THEN Return(h) /\ UNCHANGED contract
       ELSE /\ contract' = [contract EXCEPT ![c.id] = c.doc]
            /\ Onward(h, "carry", c)
    /\ UNCHANGED <<record, apart, crashes>>

\* The guarantees of a deleted contract stay, with its id.
delete(h, id) ==
    /\ At(h, "delete") /\ id \in call[h].todo
    /\ contract' = [contract EXCEPT ![id] = NoContract]
    /\ Skip(h, [call[h] EXCEPT !.todo = @ \ {id}])
    /\ UNCHANGED <<record, apart, crashes>>

-----------------------------------------------------------------------------
(* From a contract to its guarantee.                                       *)

hasBgPayload(doc) == doc.bgNumber # "" \/ doc.bgAmount # ""

GuaranteesOf(id) == {r \in Issued : record[r].instrumentType = "bg" /\ record[r].contractId = id}

\* The latest with the number, or else the latest; here, any of them.
For(id, doc) ==
    LET same == {r \in GuaranteesOf(id) : record[r].number = doc.bgNumber}
    IN IF doc.bgNumber # "" /\ same # {} THEN same ELSE GuaranteesOf(id)

\* Mutant: a guarantee that is found keeps its own number.
CarriedMutant(row, doc) == [row EXCEPT !.amount = doc.bgAmount]

Carried(row, doc) ==
    [row EXCEPT !.number = IF doc.bgNumber = "" THEN @ ELSE doc.bgNumber, !.amount = doc.bgAmount]

\* save() sends the fields that differ from what was read.
Changes(seen, doc) == [f \in {g \in DOMAIN seen : doc[g] # seen[g]} |-> doc[f]]

syncFromContract(h) ==
    /\ At(h, "carry")
    /\ LET id == call[h].job.id
           doc == call[h].job.doc
       IN CASE ~doc.bgApplicable \/ ~hasBgPayload(doc) -> Return(h)
            [] For(id, doc) # {} ->
                 \E r \in For(id, doc) :
                    Onward(h, "saveFound", [id |-> id, r |-> r,
                                            set |-> Changes(record[r], Carried(record[r], doc))])
            [] OTHER -> IF doc.bgNumber = "" THEN Return(h)
                        ELSE Onward(h, "issue", [id |-> id, doc |-> doc])
    /\ UNCHANGED <<contract, record, apart, crashes>>

Written(row, set) == [f \in DOMAIN row |-> IF f \in DOMAIN set THEN set[f] ELSE row[f]]

\* A record deleted meanwhile makes save() fail.
saveFound(h) ==
    /\ At(h, "saveFound")
    /\ LET c == call[h].job IN
       /\ record' = IF c.r \in Issued THEN [record EXCEPT ![c.r] = Written(@, c.set)] ELSE record
       /\ apart' = IF c.r \in Issued THEN apart \ {c.id} ELSE apart
    /\ Return(h)
    /\ UNCHANGED <<contract, crashes>>

issue(h) ==
    /\ At(h, "issue")
    /\ LET c == call[h].job IN
       \E r \in Records \ Issued :
         record' = [record EXCEPT ![r] = [instrumentType |-> "bg", number |-> c.doc.bgNumber,
                                          contractId |-> c.id, amount |-> c.doc.bgAmount]]
    /\ apart' = apart \ {call[h].job.id}
    /\ Return(h)
    /\ UNCHANGED <<contract, crashes>>

-----------------------------------------------------------------------------
(* Guarantees and drafts, and from a guarantee to its contract.            *)

createRecord(h, row) ==
    /\ Idle(h)
    /\ \E r \in Records \ Issued : record' = [record EXCEPT ![r] = row]
    /\ Goto(h, [pc |-> "carryBack", job |-> [row |-> row], back |-> IdleCall])
    /\ UNCHANGED <<contract, apart, crashes>>

RecordPatches == [number: Numbers \cup {"keep"}, amount: Amounts \cup {"", "keep"},
                  contractId: Contracts \cup {"", "keep"}, instrumentType: {"bg", "dd", "keep"}]

updateRecord(h, r, patch) ==
    /\ Idle(h)
    /\ r \in Issued
    /\ LET row == [f \in DOMAIN record[r] |-> Or(patch[f], record[r][f])]
       IN Goto(h, [pc |-> "saveRecord", back |-> IdleCall,
                   job |-> [r |-> r, row |-> row, set |-> Changes(record[r], row)]])
    /\ UNCHANGED <<contract, record, apart, crashes>>

\* The contract the guarantee was for, when it is for it no longer.
Left(old, new) ==
    IF old.instrumentType = "bg" /\ (new.instrumentType # "bg" \/ new.contractId # old.contractId)
    THEN {old.contractId} \cap Contracts ELSE {}

saveRecord(h) ==
    /\ At(h, "saveRecord")
    /\ LET c == call[h].job IN
       IF c.r \notin Issued
       THEN Return(h) /\ UNCHANGED <<record, apart>>
       ELSE /\ record' = [record EXCEPT ![c.r] = Written(@, c.set)]
            /\ apart' = apart \cup Left(record[c.r], c.row)
            /\ Onward(h, "carryBack", [row |-> c.row])
    /\ UNCHANGED <<contract, crashes>>

syncFromBgRecord(h) ==
    /\ At(h, "carryBack")
    /\ LET row == call[h].job.row IN
       IF row.instrumentType = "bg" /\ row.contractId \in Entered
       THEN Onward(h, "writeContract",
                   [id |-> row.contractId,
                    doc |-> [contract[row.contractId] EXCEPT !.bgApplicable = TRUE,
                               !.bgNumber = row.number, !.bgAmount = row.amount]])
       ELSE Return(h)
    /\ UNCHANGED <<contract, record, apart, crashes>>

\* Whole again, with whatever else the contract held when it was read.
writeContract(h) ==
    /\ At(h, "writeContract")
    /\ LET c == call[h].job IN
       /\ contract' = IF c.id \in Entered /\ WithNo(c.doc.no) \ {c.id} = {}
                      THEN [contract EXCEPT ![c.id] = c.doc] ELSE contract
       /\ apart' = apart \ {c.id}
    /\ Return(h)
    /\ UNCHANGED <<record, crashes>>

\* Its documents are removed first (StoredDocuments); the contract keeps what
\* it shows.
deleteRecord(h, r) ==
    /\ Idle(h)
    /\ r \in Issued
    /\ Goto(h, [pc |-> "deleteOne", job |-> [r |-> r], back |-> IdleCall])
    /\ UNCHANGED <<contract, record, apart, crashes>>

deleteOne(h) ==
    /\ At(h, "deleteOne")
    /\ LET r == call[h].job.r IN
       /\ record' = [record EXCEPT ![r] = NoRecord]
       /\ apart' = IF r \in Issued
                   THEN apart \cup Left(record[r], [instrumentType |-> "none"]) ELSE apart
    /\ Return(h)
    /\ UNCHANGED <<contract, crashes>>

-----------------------------------------------------------------------------
\* What a call has stored on one side only.
Cut(c) ==
    CASE c.pc \in {"carry", "saveFound", "issue", "writeContract"} -> {c.job.id}
      [] c.pc = "carryBack" -> {c.job.row.contractId} \cap Contracts
      [] OTHER -> {}

Crash ==
    /\ crashes < MaxCrashes
    /\ crashes' = crashes + 1
    /\ apart' = apart \cup UNION {Cut(call[h]) : h \in Handlers}
    /\ call' = [h \in Handlers |-> IdleCall]
    /\ UNCHANGED <<contract, record>>

Init ==
    /\ contract = [c \in Contracts |-> NoContract]
    /\ record = [r \in Records |-> NoRecord]
    /\ apart = {} /\ crashes = 0
    /\ call = [h \in Handlers |-> IdleCall]

Ask(h) ==
    \/ \E nos \in SUBSET ContractNos, patch \in Patches :
        (\E no \in ContractNos : nos = {no} /\ Request(h, "create", nos, patch)) \/ Request(h, "import", nos, patch)
    \/ \E ids \in SUBSET Contracts, patch \in Patches : Request(h, "update", ids, patch)
    \/ \E ids \in SUBSET Entered : Request(h, "delete", ids, {})
    \/ \E row \in Record : createRecord(h, row)
    \/ \E r \in Records, patch \in RecordPatches : updateRecord(h, r, patch)
    \/ \E r \in Records : deleteRecord(h, r)

Work(h) ==
    \/ \E no \in ContractNos : create(h, no) \/ bulkImport(h, no)
    \/ \E id \in Contracts : \/ \E no \in ContractNos \cup {"keep"} : update(h, id, no)
                             \/ delete(h, id)
    \/ insert(h) \/ clash(h) \/ persistContractDocument(h)
    \/ syncFromContract(h) \/ saveFound(h) \/ issue(h)
    \/ deleteOne(h) \/ saveRecord(h) \/ syncFromBgRecord(h) \/ writeContract(h)

Next ==
    \/ \E h \in Handlers : Ask(h) \/ Work(h)
    \/ Crash

Spec == Init /\ [][Next]_vars
-----------------------------------------------------------------------------
TypeOK ==
    /\ \A c \in Entered : contract[c] \in Contract
    /\ \A r \in Issued : record[r] \in Record
    /\ apart \subseteq Contracts

Quiet == \A h \in Handlers : Idle(h)

\* When no request is under way, a contract that shows a guarantee has one of
\* that number and amount in the register: each service carries over what it
\* stored.  Guarantees that were removed or moved, which the code leaves the
\* contract showing, and crashes halfway are excepted.
GuaranteesAgree ==
    Quiet => \A c \in Entered \ apart :
        contract[c].bgApplicable /\ contract[c].bgNumber # "" =>
            \E r \in GuaranteesOf(c) :
                record[r].number = contract[c].bgNumber /\ record[r].amount = contract[c].bgAmount
=============================================================================
