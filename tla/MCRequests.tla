----------------------------- MODULE MCRequests -----------------------------
(***************************************************************************)
(* The supervisors' requests and the office's registers - tenders,         *)
(* contracts with their guarantees, renewals, the documents of these - on  *)
(* small instances, in one run: `part` is chosen at the start and only     *)
(* that part moves.                                                        *)
(***************************************************************************)
EXTENDS SupervisorRequests, TLC

CONSTANTS g1, g2, t1, t2, o1, d1, d2

VARIABLES part, does, died,
          tender, logged, backfill, backfillDone,
          contract, record, apart,
          owner, doc, cloud, sent, cut,
          renewal, byHand

TwoUsers == INSTANCE Tenders
    WITH Ids <- {t1}, Old <- {}, Bids <- {"b1"}, Handlers <- {g1, g2},
         Asked <- {"not_filed", "filed"}, Stages <- {"", "open"},
         Outcomes <- {"", "participated"}, call <- does
TwoTenders == INSTANCE Tenders
    WITH Ids <- {t1, t2}, Old <- {}, Bids <- {"b1", "b2"}, Handlers <- {g1},
         Asked <- {"not_filed"}, Stages <- {"not awarded"}, Outcomes <- {""}, call <- does
OldTender == INSTANCE Tenders
    WITH Ids <- {t1}, Old <- {t1}, Bids <- {"b1"}, Handlers <- {g1},
         Asked <- {"not_filed", "filed"}, Stages <- {""}, Outcomes <- {"disqualified"}, call <- does

TwoGuarantees == INSTANCE Contracts
    WITH Contracts <- {"c1"}, Records <- {"r1", "r2"}, ContractNos <- {"k1"}, Numbers <- {"n1", "n2"},
         Amounts <- {}, Handlers <- {g1}, MaxCrashes <- 1, call <- does, crashes <- died
TwoContracts == INSTANCE Contracts
    WITH Contracts <- {"c1", "c2"}, Records <- {"r1"}, ContractNos <- {"k1", "k2"}, Numbers <- {"n1"},
         Amounts <- {}, Handlers <- {g1}, MaxCrashes <- 0, call <- does, crashes <- died
OneAmount == INSTANCE Contracts
    WITH Contracts <- {"c1"}, Records <- {"r1"}, ContractNos <- {"k1"}, Numbers <- {"n1"},
         Amounts <- {"a1"}, Handlers <- {g1}, MaxCrashes <- 1, call <- does, crashes <- died

\* Renewals and guarantees delete the file first, employees the row.
FileFirst == INSTANCE StoredDocuments
    WITH Owners <- {o1}, Docs <- {d1, d2}, Handlers <- {g1, g2}, RowFirst <- FALSE,
         MaxFiles <- 3, MaxCrashes <- 1, call <- does, crashes <- died
RowFirst == INSTANCE StoredDocuments
    WITH Owners <- {o1}, Docs <- {d1, d2}, Handlers <- {g1, g2}, RowFirst <- TRUE,
         MaxFiles <- 3, MaxCrashes <- 1, call <- does, crashes <- died

\* A vehicle typed in both ways and with two papers, a domain run for oneself,
\* for a client, and for one who is not named, and a licence.
Paper(category, subType, title, client, ownerType, hasExpiry, expiresOn) ==
    [category |-> category, subType |-> subType, title |-> title, clientName |-> client,
     ownerType |-> ownerType, hasExpiry |-> hasExpiry, expiresOn |-> expiresOn]
Small == [name |-> "a", letters |-> "small"]
Capital == [name |-> "a", letters |-> "capital"]
Papers ==
    {Paper("car_papers", "rc_book", Small, "", "mine", "", "due"),
     Paper("car_papers", "rc_book", Capital, "", "mine", "no", "due"),
     Paper("car_papers", "insurance", Small, "", "mine", "yes", ""),
     Paper("it_renewals", "domain", Small, "x", "mine", "", "due"),
     Paper("it_renewals", "domain", Small, "x", "client", "", ""),
     Paper("it_renewals", "domain", Small, "", "client", "", "due"),
     Paper("licenses", "travel_plus", [name |-> "", letters |-> "capital"], "", "mine", "", "due")}
Register == INSTANCE Renewals
    WITH Ids <- {1, 2}, Handlers <- {g1}, Items <- Papers, MaxCrashes <- 1,
         call <- does, crashes <- died

tenders == <<tender, logged, backfill, backfillDone>>
contracts == <<contract, record, apart>>
documents == <<owner, doc, cloud, sent, cut>>
renewals == <<renewal, byHand>>

\* What the chosen part does not use stays 0.
NoTenders == tender = 0 /\ logged = 0 /\ backfill = 0 /\ backfillDone = 0
NoContracts == contract = 0 /\ record = 0 /\ apart = 0
NoDocuments == owner = 0 /\ doc = 0 /\ cloud = 0 /\ sent = 0 /\ cut = 0
NoRenewals == renewal = 0 /\ byHand = 0

MCInit ==
    /\ Init
    /\ \/ /\ part = "requests" /\ does = 0 /\ died = 0
          /\ NoTenders /\ NoContracts /\ NoDocuments /\ NoRenewals
       \/ /\ \/ part = "tenders" /\ TwoUsers!Init
             \/ part = "bids" /\ TwoTenders!Init
             \/ part = "oldTender" /\ OldTender!Init
          /\ died = 0 /\ NoContracts /\ NoDocuments /\ NoRenewals
       \/ /\ \/ part = "guarantees" /\ TwoGuarantees!Init
             \/ part = "contracts" /\ TwoContracts!Init
             \/ part = "amounts" /\ OneAmount!Init
          /\ NoTenders /\ NoDocuments /\ NoRenewals
       \/ /\ \/ part = "fileFirst" /\ FileFirst!Init
             \/ part = "rowFirst" /\ RowFirst!Init
          /\ NoTenders /\ NoContracts /\ NoRenewals
       \/ part = "renewals" /\ Register!Init /\ NoTenders /\ NoContracts /\ NoDocuments

MCNext ==
    /\ UNCHANGED part
    /\ \/ part = "requests" /\ Next /\ UNCHANGED <<does, died, tenders, contracts, documents, renewals>>
       \/ part = "tenders" /\ TwoUsers!Next /\ UNCHANGED <<vars, died, contracts, documents, renewals>>
       \/ part = "bids" /\ TwoTenders!Next /\ UNCHANGED <<vars, died, contracts, documents, renewals>>
       \/ part = "oldTender" /\ OldTender!Next /\ UNCHANGED <<vars, died, contracts, documents, renewals>>
       \/ part = "guarantees" /\ TwoGuarantees!Next /\ UNCHANGED <<vars, tenders, documents, renewals>>
       \/ part = "contracts" /\ TwoContracts!Next /\ UNCHANGED <<vars, tenders, documents, renewals>>
       \/ part = "amounts" /\ OneAmount!Next /\ UNCHANGED <<vars, tenders, documents, renewals>>
       \/ part = "fileFirst" /\ FileFirst!Next /\ UNCHANGED <<vars, tenders, contracts, renewals>>
       \/ part = "rowFirst" /\ RowFirst!Next /\ UNCHANGED <<vars, tenders, contracts, renewals>>
       \/ part = "renewals" /\ Register!Next /\ UNCHANGED <<vars, tenders, contracts, documents>>

mcvars == <<part, vars, does, died, tenders, contracts, documents, renewals>>
MCSpec == MCInit /\ [][MCNext]_mcvars
-----------------------------------------------------------------------------
\* What syncFromGem learns of a bid stays: see Tenders.
ParticipationStands ==
    [][/\ part = "tenders" => TwoUsers!ParticipationKept
       /\ part = "bids" => TwoTenders!ParticipationKept
       /\ part = "oldTender" => OldTender!ParticipationKept]_mcvars
\* create, update and mergeImportedTender look for the bid: see Tenders.
OneTenderPerBid ==
    /\ part = "bids" => TwoTenders!TypeOK /\ TwoTenders!OneTenderPerBid
    /\ part = "oldTender" => OldTender!TypeOK /\ OldTender!OneTenderPerBid
    /\ part = "tenders" => TwoUsers!TypeOK
\* Contracts and guarantees are carried over to each other: see Contracts.
GuaranteesAgree ==
    /\ part = "guarantees" => TwoGuarantees!TypeOK /\ TwoGuarantees!GuaranteesAgree
    /\ part = "contracts" => TwoContracts!TypeOK /\ TwoContracts!GuaranteesAgree
    /\ part = "amounts" => OneAmount!TypeOK /\ OneAmount!GuaranteesAgree
\* Overlapping replacements and deletions keep a document readable: see StoredDocuments.
ContentSurvives ==
    /\ part = "fileFirst" => FileFirst!TypeOK /\ FileFirst!ContentSurvives
    /\ part = "rowFirst" => RowFirst!TypeOK /\ RowFirst!ContentSurvives
\* bulkImport finds what it has made: see Renewals.
ImportsFindTheirs == part = "renewals" => Register!TypeOK /\ Register!ImportsFindTheirs
=============================================================================
