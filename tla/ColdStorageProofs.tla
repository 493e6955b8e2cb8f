--------------------------- MODULE ColdStorageProofs ---------------------------
(***************************************************************************)
(* Proofs about ColdStorage, for any number of records, of requests and    *)
(* timers under way, of backups and deaths and any batch size.  However    *)
(* jobs, trims, restorations and dumps overlap: the types, and that no     *)
(* record is lost.  With one call at a time: that no photo is.             *)
(***************************************************************************)
EXTENDS ColdStorage, FiniteSetTheorems, TLAPS, WellFoundedInduction

\* What the constants are: finitely many calls, audit logs that are documents
\* of a source collection, and bounds that are numbers.
GoodConstants ==
  /\ IsFiniteSet(Handlers) /\ AuditLogs \subseteq Records
  /\ MaxBackups \in Nat /\ MaxCrashes \in Nat

Lives == [Records -> Live \cup {Gone}]
Archives == [Records -> Row \cup {Gone}]
Docs == UNION {[rs -> Live] : rs \in SUBSET Records}
Dump == [modules : SUBSET Modules, archive : Archives, live : Lives]

\* The stages of a call.
DocPc == {"offload", "create", "delete"}
RestorePc == {"hydrate", "unlink", "recreate", "forget"}
ReplacePc == {"emptyArchive", "fillArchive", "emptySources", "fillSources"}

\* What a call remembers at each stage.
BareCall == [pc : {"idle", "off", "start", "find", "save"}]
BatchCall == [pc : {"lookup"}, job : BOOLEAN, docs : Docs, full : BOOLEAN]
RecordCall == [pc : DocPc, job : BOOLEAN, docs : Docs, full : BOOLEAN, r : Records]
FindingCall == [pc : {"findLive", "hydrate"}, r : Records, row : Row]
ReturningCall == [pc : {"unlink", "recreate", "forget"}, r : Records, row : Row,
                  photo : {"inline", "ref", "none"}]
DumpingCall == [pc : {"readSources"}, modules : SUBSET Modules, archive : Archives]
FillingCall == [pc : ReplacePc, fill : {TRUE}, from : Dump]
ClearingCall == [pc : {"emptyArchive", "emptySources"}, fill : {FALSE},
                 from : [modules : SUBSET Modules]]
Call == BareCall \cup BatchCall \cup RecordCall \cup FindingCall \cup ReturningCall
          \cup DumpingCall \cup FillingCall \cup ClearingCall

OnItsBatch(c) == c.pc \in DocPc => c.r \in DOMAIN c.docs
StoreOK == TypeOK /\ dump \in Dump \cup {NoDump}
CallsOK == call \in [Handlers -> Call] /\ \A h \in Handlers : OnItsBatch(call[h])
TypeInv == StoreOK /\ CallsOK

\* What a call may count on, whatever the others do, until the data is replaced:
\* a document about to be deleted has a row that no restoration remembers, and
\* is about to be deleted once; a row about to be forgotten has its document.
Deleting(h) ==
  At(h, "delete") =>
    LET r == call[h].r IN
    /\ live[r] # Gone /\ archive[r] # Gone
    /\ \A g \in Handlers :
         /\ call[g].pc \in RestorePc /\ call[g].r = r => call[g].row.id # archive[r].id
         /\ At(g, "delete") /\ call[g].r = r => g = h
Forgetting(h) ==
  At(h, "forget") =>
    LET r == call[h].r IN
    archive[r] # Gone /\ archive[r].id = call[h].row.id => live[r] # Gone
RecordsKept ==
  /\ RecordsSurvive
  /\ \A h \in Handlers : call[h].pc \notin ReplacePc /\ Deleting(h) /\ Forgetting(h)
RecordsInv == TypeInv /\ (~replaced => RecordsKept)

\* What a call that is served alone counts on besides: the store is as it read
\* it, and the photo it handles is where it left it.
Photographed(r) == r \in Records \ (AuditLogs \cup cut)
InFile(r) == archive[r].photo = "ref" /\ r \in files
Handling(c) ==
  /\ c.pc = "lookup" => \A r \in DOMAIN c.docs : c.docs[r] = live[r]
  /\ c.pc \in DocPc => \A r \in DOMAIN c.docs : c.docs[r] = live[r]
  /\ c.pc \in {"offload", "create"} => archive[c.r] = Gone
  /\ c.pc = "create" /\ c.docs[c.r].photo = "inline" => c.r \in files
  /\ c.pc = "delete" /\ Photographed(c.r) => InFile(c.r)
  /\ c.pc \in {"findLive", "hydrate"} => archive[c.r] = c.row
  /\ c.pc \in {"hydrate", "unlink", "recreate"} => live[c.r] = Gone
  /\ c.pc = "unlink" /\ Photographed(c.r) => InFile(c.r)
  /\ c.pc \in {"unlink", "recreate"} /\ Photographed(c.r) => c.photo = "inline"
  /\ c.pc = "forget" /\ Photographed(c.r) => live[c.r].photo = "inline"
InHand(c, r) == c.pc \in {"unlink", "recreate"} /\ c.r = r /\ c.photo = "inline"
Somewhere(r) ==
  live[r].photo = "inline" \/ InFile(r) \/ \E h \in Handlers : InHand(call[h], r)
PhotosKept ==
  /\ \A r \in Records : Photographed(r) => Somewhere(r)
  /\ \A h \in Handlers : Handling(call[h])
PhotosInv == RecordsInv /\ (IsSerial /\ ~replaced => PhotosKept)

-----------------------------------------------------------------------------
(* An archive id that is new differs from every one somebody remembers: each *)
(* other call and the dump remember one row of a record at most.             *)

LEMMA SmallestOf ==
  ASSUME NEW T, T \subseteq Nat, T # {}
  PROVE  Min(T) \in T
<1> DEFINE R == OpToRel(<, Nat)
<1>1. IsWellFoundedOn(R, Nat)
  BY NatLessThanWellFounded
<1>2. ASSUME NEW x \in Nat, NEW y \in Nat, <<y, x>> \notin R PROVE x <= y
  BY <1>2 DEF OpToRel
<1> HIDE DEF R
<1>3. PICK x \in T : \A y \in T : <<y, x>> \notin R
  BY <1>1, WFMin
<1>4. \A y \in T : x <= y
  BY <1>2, <1>3
<1> QED BY <1>4 DEF Min

\* The rows of r that a call remembers, as in Remembered, and that the dump does.
Held(c, r) ==
  CASE c.pc \in {"findLive", "hydrate", "unlink", "recreate", "forget"} /\ c.r = r -> {c.row}
    [] c.pc = "readSources" -> {c.archive[r]}
    [] c.pc \in {"emptyArchive", "fillArchive"} /\ c.fill -> {c.from.archive[r]}
    [] OTHER -> {}
HeldByCalls(r) == UNION {Held(call[h], r) : h \in Handlers}
HeldByDump(r) == IF dump = NoDump THEN {} ELSE {dump.archive[r]}
Holds(c, r, row) ==
  \/ c.pc \in {"findLive", "hydrate", "unlink", "recreate", "forget"} /\ c.r = r /\ row = c.row
  \/ c.pc = "readSources" /\ row = c.archive[r]
  \/ c.pc \in {"emptyArchive", "fillArchive"} /\ c.fill /\ row = c.from.archive[r]

LEMMA RememberedSplits ==
  ASSUME NEW r
  PROVE  Remembered(r) = HeldByCalls(r) \cup HeldByDump(r)
BY DEF Remembered, HeldByCalls, HeldByDump, Held

LEMMA RememberedRows ==
  ASSUME NEW r, NEW row
  PROVE  \/ row \notin Remembered(r)
         \/ \E g \in Handlers : Holds(call[g], r, row)
         \/ dump # NoDump /\ row = dump.archive[r]
<1>1. Remembered(r) = HeldByCalls(r) \cup HeldByDump(r)
  BY RememberedSplits
<1>2. ASSUME NEW c, row \in Held(c, r) PROVE Holds(c, r, row)
  BY <1>2 DEF Held, Holds
<1>3. row \in HeldByDump(r) => dump # NoDump /\ row = dump.archive[r]
  BY DEF HeldByDump
<1>4. row \in HeldByCalls(r) => \E g \in Handlers : Holds(call[g], r, row)
  BY <1>2 DEF HeldByCalls
<1> QED BY <1>1, <1>3, <1>4

LEMMA RememberedByCalls ==
  ASSUME NEW r, NEW g \in Handlers, NEW row, Holds(call[g], r, row)
  PROVE  row \in Remembered(r)
<1>1. Remembered(r) = HeldByCalls(r) \cup HeldByDump(r)
  BY RememberedSplits
<1>2. row \in Held(call[g], r)
  BY DEF Held, Holds
<1>3. row \in HeldByCalls(r)
  BY <1>2 DEF HeldByCalls
<1> QED BY <1>1, <1>3

LEMMA RememberedTypes ==
  ASSUME TypeInv, NEW r \in Records, NEW row \in Remembered(r), row # Gone
  PROVE  row \in Row
<1>1. CASE \E g \in Handlers : Holds(call[g], r, row)
  <2>1. PICK g \in Handlers : Holds(call[g], r, row)
    BY <1>1
  <2>2. call[g] \in Call
    BY DEF TypeInv, StoreOK, CallsOK
  <2>3. CASE call[g].pc \in {"findLive", "hydrate", "unlink", "recreate", "forget"}
    BY <2>1, <2>2, <2>3 DEF Holds, Call, BareCall, BatchCall, RecordCall, FindingCall, ReturningCall,
       DumpingCall, FillingCall, ClearingCall, DocPc, ReplacePc
  <2>4. CASE call[g].pc = "readSources"
    <3>1. call[g].archive \in Archives
      BY <2>2, <2>4 DEF Call, BareCall, BatchCall, RecordCall, FindingCall, ReturningCall,
         DumpingCall, FillingCall, ClearingCall, DocPc, ReplacePc
    <3> QED BY <2>1, <2>4, <3>1 DEF Holds, Archives
  <2>5. CASE call[g].pc \in {"emptyArchive", "fillArchive"} /\ call[g].fill
    <3>1. call[g].from \in Dump
      BY <2>2, <2>5 DEF Call, BareCall, BatchCall, RecordCall, FindingCall, ReturningCall,
         DumpingCall, FillingCall, ClearingCall, DocPc, ReplacePc
    <3> QED BY <2>1, <2>5, <3>1 DEF Holds, Archives, Dump
  <2> QED BY <2>1, <2>3, <2>4, <2>5 DEF Holds
<1>2. CASE dump # NoDump /\ row = dump.archive[r]
  <2>1. dump \in Dump
    BY <1>2 DEF TypeInv, StoreOK, CallsOK
  <2> QED BY <1>2, <2>1 DEF Dump, Archives
<1> QED BY <1>1, <1>2, RememberedRows

LEMMA NewArchiveId ==
  ASSUME GoodConstants, TypeInv, NEW r \in Records, NEW h \in Handlers, At(h, "create")
  PROVE  /\ newArchiveId(r) \in Ids
         /\ \A row \in Remembered(r) : row # Gone => row.id # newArchiveId(r)
<1> DEFINE n == Cardinality(Handlers)
           taken == {row.id : row \in Remembered(r) \ {Gone}}
           Names(g, i) == \E row \in Row : Holds(call[g], r, row) /\ row.id = i
           Dumped(i) == dump # NoDump /\ dump.archive[r] # Gone /\ dump.archive[r].id = i
           f == [i \in Ids |-> IF \E g \in Handlers : Names(g, i)
                               THEN CHOOSE g \in Handlers : Names(g, i) ELSE h]
<1>1. n \in Nat /\ Ids = 1..(n + 1)
  BY FS_CardinalityType DEF GoodConstants, Ids
<1>2. IsFiniteSet(Ids) /\ Cardinality(Ids) = n + 1
  <2>1. n + 1 \in Int /\ ~(1 > n + 1) /\ n + 1 - 1 + 1 = n + 1
    BY <1>1
  <2> QED BY <1>1, <2>1, FS_Interval
<1>3. \A i : ~Names(h, i)
  BY DEF At, Holds
<1>4. \A g \in Handlers : \A i, j : Names(g, i) /\ Names(g, j) => i = j
  <2> SUFFICES ASSUME NEW g \in Handlers, NEW i, NEW j,
                      NEW x \in Row, Holds(call[g], r, x), x.id = i,
                      NEW y \in Row, Holds(call[g], r, y), y.id = j
               PROVE  i = j
    OBVIOUS
  <2>1. x = y
    BY DEF Holds
  <2> QED BY <2>1
<1>5. \A i \in taken : Dumped(i) \/ \E g \in Handlers : Names(g, i)
  <2> SUFFICES ASSUME NEW row \in Remembered(r), row # Gone
               PROVE  Dumped(row.id) \/ \E g \in Handlers : Names(g, row.id)
    OBVIOUS
  <2>1. row \in Row
    BY RememberedTypes
  <2> QED BY <2>1, RememberedRows
<1>6. ASSUME Ids \subseteq taken PROVE FALSE
  <2>1. ASSUME NEW i \in Ids
        PROVE  /\ f[i] \in Handlers
               /\ f[i] = h => Dumped(i)
               /\ f[i] # h => Names(f[i], i)
    <3>1. CASE \E g \in Handlers : Names(g, i)
      <4>1. f[i] = CHOOSE g \in Handlers : Names(g, i)
        BY <3>1
      <4> HIDE DEF Names, f
      <4>2. f[i] \in Handlers /\ Names(f[i], i)
        BY <3>1, <4>1
      <4> QED BY <4>2, <1>3
    <3>2. CASE ~\E g \in Handlers : Names(g, i)
      <4>1. f[i] = h
        BY <3>2
      <4> HIDE DEF Names, f, taken, Dumped
      <4>2. Dumped(i)
        BY <3>2, <1>5, <1>6
      <4> QED BY <4>1, <4>2
    <3> QED BY <3>1, <3>2
  <2>2. f \in [Ids -> Handlers]
    <3>1. \A i \in Ids : f[i] \in Handlers
      BY <2>1
    <3>2. f = [i \in Ids |-> f[i]]
      OBVIOUS
    <3> HIDE DEF f
    <3> QED BY <3>1, <3>2
  <2>3. n < n + 1
    BY <1>1
  <2> HIDE DEF f
  <2>4. PICK x, y \in Ids : x # y /\ f[x] = f[y]
    BY <1>2, <2>2, <2>3, FS_PigeonHole DEF GoodConstants
  <2> HIDE DEF Names
  <2>5. f[x] \in Handlers
    BY <2>1
  <2>6. CASE f[x] = h
    <3>1. Dumped(x) /\ Dumped(y)
      BY <2>1, <2>4, <2>6
    <3> QED BY <3>1, <2>4
  <2>7. CASE f[x] # h
    <3>1. Names(f[x], x) /\ Names(f[x], y)
      BY <2>1, <2>4, <2>7
    <3> QED BY <3>1, <2>4, <2>5, <1>4
  <2> QED BY <2>6, <2>7
<1>7. Ids \ taken \subseteq Nat /\ Ids \ taken # {}
  BY <1>1, <1>6
<1>8. newArchiveId(r) \in Ids \ taken
  <2>1. newArchiveId(r) = Min(Ids \ taken)
    BY DEF newArchiveId
  <2> HIDE DEF taken
  <2> QED BY <2>1, <1>7, SmallestOf
<1>9. \A row \in Remembered(r) : row # Gone => row.id \in taken
  OBVIOUS
<1> QED BY <1>8, <1>9

-----------------------------------------------------------------------------
(* What each step makes of the call that takes it.                           *)

LEMMA Shapes ==
  ASSUME NEW c \in Call
  PROVE  /\ c.pc = "lookup" => c \in BatchCall
         /\ c.pc \in DocPc => c \in RecordCall
         /\ c.pc \in {"findLive", "hydrate"} => c \in FindingCall
         /\ c.pc \in {"unlink", "recreate", "forget"} => c \in ReturningCall
         /\ c.pc = "readSources" => c \in DumpingCall
         /\ c.pc \in ReplacePc => c \in FillingCall \cup ClearingCall
BY DEF Call, BareCall, BatchCall, RecordCall, FindingCall, ReturningCall, DumpingCall, FillingCall,
   ClearingCall, DocPc, ReplacePc

LEMMA BareTypes ==
  ASSUME NEW pc \in {"idle", "off", "start", "find", "save"}
  PROVE  [pc |-> pc] \in Call /\ OnItsBatch([pc |-> pc])
BY DEF Call, BareCall, OnItsBatch, DocPc

LEMMA GoesTo ==
  ASSUME TypeInv, NEW h \in Handlers, NEW c \in Call, OnItsBatch(c), Goto(h, c)
  PROVE  /\ CallsOK' /\ DOMAIN call' = Handlers
         /\ call'[h] = c
         /\ \A g \in Handlers : g # h => call'[g] = call[g]
BY DEF TypeInv, CallsOK, Goto

\* The stage moves on, and what is remembered stays.
Moves(h, pc, c) ==
  /\ c \in Call /\ OnItsBatch(c) /\ Goto(h, c) /\ c.pc = pc
  /\ call[h].pc \in DocPc => c.r = call[h].r /\ c.docs = call[h].docs
  /\ call[h].pc \in {"findLive"} => c.r = call[h].r /\ c.row = call[h].row
  /\ call[h].pc \in {"unlink", "recreate"} =>
       c.r = call[h].r /\ c.row = call[h].row /\ c.photo = call[h].photo

LEMMA BecomesOfRecord ==
  ASSUME TypeInv, NEW h \in Handlers, NEW pc \in DocPc, call[h].pc \in DocPc, Become(h, pc)
  PROVE  \E c : Moves(h, pc, c)
<1>1. PICK c : c = [call[h] EXCEPT !.pc = pc]
  OBVIOUS
<1>2. call[h] \in RecordCall /\ call[h].r \in DOMAIN call[h].docs
  BY Shapes DEF TypeInv, CallsOK, OnItsBatch
<1>3. c \in RecordCall /\ c.pc = pc /\ c.r = call[h].r /\ c.docs = call[h].docs
  BY <1>1, <1>2 DEF RecordCall
<1>4. c \in Call /\ OnItsBatch(c)
  BY <1>2, <1>3 DEF Call, OnItsBatch
<1>5. Goto(h, c)
  BY <1>1 DEF Become
<1> QED BY <1>3, <1>4, <1>5 DEF Moves, DocPc

LEMMA BecomesHydrating ==
  ASSUME TypeInv, NEW h \in Handlers, At(h, "findLive"), Become(h, "hydrate")
  PROVE  \E c : Moves(h, "hydrate", c)
<1>1. PICK c : c = [call[h] EXCEPT !.pc = "hydrate"]
  OBVIOUS
<1>2. call[h] \in FindingCall
  BY Shapes DEF TypeInv, CallsOK, At
<1>3. c \in FindingCall /\ c.pc = "hydrate" /\ c.r = call[h].r /\ c.row = call[h].row
  BY <1>1, <1>2 DEF FindingCall
<1>4. c \in Call /\ OnItsBatch(c)
  BY <1>3 DEF Call, OnItsBatch, DocPc
<1>5. Goto(h, c)
  BY <1>1 DEF Become
<1> QED BY <1>3, <1>4, <1>5 DEF Moves, At, DocPc

LEMMA BecomesReturning ==
  ASSUME TypeInv, NEW h \in Handlers, NEW pc \in {"recreate", "forget"},
         call[h].pc \in {"unlink", "recreate"}, Become(h, pc)
  PROVE  \E c : Moves(h, pc, c)
<1>1. PICK c : c = [call[h] EXCEPT !.pc = pc]
  OBVIOUS
<1>2. call[h] \in ReturningCall
  BY Shapes DEF TypeInv, CallsOK
<1>3. /\ c \in ReturningCall /\ c.pc = pc
      /\ c.r = call[h].r /\ c.row = call[h].row /\ c.photo = call[h].photo
  BY <1>1, <1>2 DEF ReturningCall
<1>4. c \in Call /\ OnItsBatch(c)
  BY <1>3 DEF Call, OnItsBatch, DocPc
<1>5. Goto(h, c)
  BY <1>1 DEF Become
<1> QED BY <1>3, <1>4, <1>5 DEF Moves, DocPc

LEMMA BecomesFilling ==
  ASSUME TypeInv, NEW h \in Handlers, NEW pc \in ReplacePc, call[h].pc \in ReplacePc, call[h].fill,
         Become(h, pc)
  PROVE  \E c : Moves(h, pc, c)
<1>1. PICK c : c = [call[h] EXCEPT !.pc = pc]
  OBVIOUS
<1>2. call[h] \in FillingCall
  <2>1. call[h] \in FillingCall \cup ClearingCall
    BY Shapes DEF TypeInv, CallsOK
  <2>2. call[h] \in ClearingCall => ~call[h].fill
    BY DEF ClearingCall
  <2> QED BY <2>1, <2>2
<1>3. c \in FillingCall /\ c.pc = pc
  BY <1>1, <1>2 DEF FillingCall
<1>4. c \in Call /\ OnItsBatch(c)
  BY <1>3 DEF Call, OnItsBatch, DocPc, ReplacePc
<1>5. Goto(h, c)
  BY <1>1 DEF Become
<1> QED BY <1>3, <1>4, <1>5 DEF Moves, DocPc, ReplacePc

LEMMA BecomesClearing ==
  ASSUME TypeInv, NEW h \in Handlers, call[h].pc \in ReplacePc, Become(h, "emptySources")
  PROVE  \E c : Moves(h, "emptySources", c)
<1>1. PICK c : c = [call[h] EXCEPT !.pc = "emptySources"]
  OBVIOUS
<1>2. call[h] \in FillingCall \cup ClearingCall
  BY Shapes DEF TypeInv, CallsOK
<1>3. c \in FillingCall \cup ClearingCall /\ c.pc = "emptySources"
  BY <1>1, <1>2 DEF FillingCall, ClearingCall, ReplacePc
<1>4. c \in Call /\ OnItsBatch(c)
  BY <1>3 DEF Call, OnItsBatch, DocPc
<1>5. Goto(h, c)
  BY <1>1 DEF Become
<1> QED BY <1>3, <1>4, <1>5 DEF Moves, DocPc, ReplacePc

LEMMA Returns ==
  ASSUME NEW h, Return(h)
  PROVE  \E c \in Call : OnItsBatch(c) /\ c.pc = "idle" /\ Goto(h, c)
<1>1. PICK c : c = [pc |-> "idle"]
  OBVIOUS
<1>2. c \in Call /\ OnItsBatch(c)
  BY <1>1, BareTypes
<1> QED BY <1>1, <1>2 DEF Return, IdleCall

\* After a document the call goes on with the rest of what it read.
GoesOn(h, r, c) ==
  /\ c \in Call /\ OnItsBatch(c) /\ Goto(h, c)
  /\ c.pc \in {"lookup", "find", "save", "idle"}
  /\ c.pc = "lookup" => /\ DOMAIN c.docs = DOMAIN call[h].docs \ {r}
                        /\ \A q \in DOMAIN c.docs : c.docs[q] = call[h].docs[q]

LEMMA Continues ==
  ASSUME TypeInv, NEW h \in Handlers, NEW r, call[h].pc \in {"lookup"} \cup DocPc, Continue(h, r)
  PROVE  \E c : GoesOn(h, r, c)
<1> DEFINE rest == DOMAIN call[h].docs \ {r}
           docs == [q \in rest |-> call[h].docs[q]]
           batch == [pc |-> "lookup", job |-> call[h].job, full |-> call[h].full, docs |-> docs]
<1>1. call[h] \in BatchCall \cup RecordCall
  BY Shapes DEF TypeInv, CallsOK
<1>2. call[h].job \in BOOLEAN /\ call[h].full \in BOOLEAN /\ call[h].docs \in Docs
  BY <1>1 DEF BatchCall, RecordCall
<1>3. docs \in Docs
  <2>1. PICK rs \in SUBSET Records : call[h].docs \in [rs -> Live]
    BY <1>2 DEF Docs
  <2>2. rest \in SUBSET Records /\ docs \in [rest -> Live]
    BY <2>1
  <2> QED BY <2>2 DEF Docs
<1>4. DOMAIN docs = rest /\ \A q \in rest : docs[q] = call[h].docs[q]
  OBVIOUS
<1>5. \/ Goto(h, batch)
      \/ Goto(h, [pc |-> "find"])
      \/ Goto(h, [pc |-> "save"])
      \/ Goto(h, [pc |-> "idle"])
  <2> DEFINE A == rest # {}
             B == rest = {} /\ call[h].full
             C == rest = {} /\ ~call[h].full /\ call[h].job
  <2>1. Goto(h, CASE A -> batch [] B -> [pc |-> "find"] [] C -> [pc |-> "save"] [] OTHER -> IdleCall)
    BY DEF Continue
  <2>2. ~(A /\ B) /\ ~(A /\ C) /\ ~(B /\ C)
    OBVIOUS
  <2> HIDE DEF A, B, C, batch
  <2> QED BY <2>1, <2>2 DEF IdleCall
<1>6. CASE Goto(h, batch)
  <2> HIDE DEF docs
  <2>1. PICK c : c = batch
    OBVIOUS
  <2>2. c.pc = "lookup" /\ c.docs = docs /\ c \in BatchCall
    BY <2>1, <1>2, <1>3 DEF BatchCall
  <2>3. c \in Call /\ OnItsBatch(c)
    BY <2>2 DEF Call, OnItsBatch, DocPc
  <2> QED BY <2>1, <2>2, <2>3, <1>4, <1>6 DEF GoesOn
<1>7. ASSUME NEW pc \in {"find", "save", "idle"}, Goto(h, [pc |-> pc])
      PROVE  \E c : GoesOn(h, r, c)
  <2>1. PICK c : c = [pc |-> pc]
    OBVIOUS
  <2>2. c.pc = pc /\ c \in Call /\ OnItsBatch(c)
    BY <2>1, BareTypes
  <2>3. Goto(h, c)
    BY <2>1, <1>7
  <2> QED BY <2>2, <2>3 DEF GoesOn
<1> HIDE DEF batch
<1> QED BY <1>5, <1>6, <1>7

LEMMA ToSourcesGoes ==
  ASSUME TypeInv, NEW h \in Handlers, call[h].pc \in ReplacePc, ToSources(h)
  PROVE  \E c \in Call : OnItsBatch(c) /\ c.pc \in {"emptySources", "idle"} /\ Goto(h, c)
BY BecomesClearing, Returns DEF ToSources, Moves

-----------------------------------------------------------------------------
(* The types, step by step.                                                  *)

LEMMA DocumentsTypes ==
  ASSUME TypeInv, NEW rs \in SUBSET Records, \A r \in rs : live[r] # Gone
  PROVE  /\ Documents(rs) \in Docs /\ DOMAIN Documents(rs) = rs
         /\ \A r \in rs : Documents(rs)[r] = live[r]
<1>1. \A r \in rs : live[r] \in Live
  BY DEF TypeInv, StoreOK, TypeOK
<1>2. Documents(rs) \in [rs -> Live]
  BY <1>1 DEF Documents
<1> QED BY <1>2 DEF Docs, Documents

\* A batch is read.
Reads(h, c) ==
  /\ c \in BatchCall /\ c \in Call /\ OnItsBatch(c) /\ Goto(h, c) /\ c.pc = "lookup"
  /\ \A r \in DOMAIN c.docs : c.docs[r] = live[r]

LEMMA BatchReads ==
  ASSUME TypeInv, NEW h \in Handlers, NEW rs \in SUBSET Records, \A r \in rs : live[r] # Gone,
         NEW job \in BOOLEAN, NEW full \in BOOLEAN,
         Goto(h, [pc |-> "lookup", job |-> job, docs |-> Documents(rs), full |-> full])
  PROVE  \E c : Reads(h, c)
<1>1. PICK c : c = [pc |-> "lookup", job |-> job, docs |-> Documents(rs), full |-> full]
  OBVIOUS
<1>2. Documents(rs) \in Docs
  BY DocumentsTypes
<1>3. c \in BatchCall /\ c.pc = "lookup" /\ c.docs = Documents(rs)
  BY <1>1, <1>2 DEF BatchCall
<1>4. c \in Call /\ OnItsBatch(c)
  BY <1>3 DEF Call, OnItsBatch, DocPc
<1>5. \A r \in DOMAIN c.docs : c.docs[r] = live[r]
  BY <1>3, DocumentsTypes
<1> QED BY <1>1, <1>3, <1>4, <1>5 DEF Reads

LEMMA FindBatchGoes ==
  ASSUME TypeInv, NEW h \in Handlers, findBatch(h)
  PROVE  \/ Goto(h, [pc |-> "save"])
         \/ \E c : Reads(h, c)
<1> DEFINE n == Min({BatchSize, Cardinality(Eligible)})
<1>1. PICK rs \in kSubset(n, Eligible) :
        Goto(h, IF n = 0 THEN [pc |-> "save"]
                ELSE [pc |-> "lookup", job |-> TRUE, docs |-> Documents(rs), full |-> n = BatchSize])
  BY DEF findBatch
<1>2. rs \in SUBSET Records /\ \A r \in rs : live[r] # Gone
  BY DEF kSubset, Eligible
<1>3. CASE n = 0
  BY <1>1, <1>3
<1>4. CASE n # 0
  <2>1. Goto(h, [pc |-> "lookup", job |-> TRUE, docs |-> Documents(rs), full |-> n = BatchSize])
    BY <1>1, <1>4
  <2> HIDE DEF n
  <2> QED BY <2>1, <1>2, BatchReads
<1> QED BY <1>3, <1>4

LEMMA TrimGoes ==
  ASSUME GoodConstants, TypeInv, NEW h \in Handlers, archiveOldestAuditLogs(h)
  PROVE  \E c : Reads(h, c)
<1>1. PICK rs \in SUBSET {r \in AuditLogs : live[r] # Gone} \ {{}} :
        Goto(h, [pc |-> "lookup", job |-> FALSE, docs |-> Documents(rs), full |-> FALSE])
  BY DEF archiveOldestAuditLogs
<1>2. rs \in SUBSET Records /\ \A r \in rs : live[r] # Gone
  BY DEF GoodConstants
<1> QED BY <1>1, <1>2, BatchReads

LEMMA CreatedRow ==
  ASSUME GoodConstants, TypeInv, NEW h \in Handlers, createRow(h), archive[call[h].r] = Gone
  PROVE  LET r == call[h].r  photo == call[h].docs[r].photo IN
         /\ r \in Records
         /\ archive'[r] \in Row /\ archive'[r] # Gone
         /\ archive'[r].photo = (IF photo = "none" THEN "none" ELSE "ref")
         /\ \A row \in Remembered(r) : row # Gone => row.id # archive'[r].id
         /\ \A q \in Records : q # r => archive'[q] = archive[q]
         /\ archive' \in Archives
         /\ Become(h, "delete")
<1> DEFINE r == call[h].r
           photo == call[h].docs[r].photo
<1>1. call[h].pc = "create" /\ call[h] \in RecordCall /\ r \in DOMAIN call[h].docs
  BY Shapes DEF createRow, At, TypeInv, CallsOK, OnItsBatch, DocPc
<1>2. r \in Records
  BY <1>1 DEF RecordCall
<1>3. newArchiveId(r) \in Ids /\ \A row \in Remembered(r) : row # Gone => row.id # newArchiveId(r)
  BY <1>2, NewArchiveId DEF createRow
<1>4. PICK new : new = [photo |-> IF photo = "none" THEN "none" ELSE "ref",
                        owned |-> photo = "inline", id |-> newArchiveId(r)]
  OBVIOUS
<1>5. /\ new \in Row /\ new.id = newArchiveId(r)
      /\ new.photo = (IF photo = "none" THEN "none" ELSE "ref")
  BY <1>3, <1>4 DEF Row
<1>6. new # Gone
  BY <1>5 DEF Gone
<1>7. archive \in Archives
  BY DEF TypeInv, StoreOK, TypeOK, Archives
<1>8. archive' = [archive EXCEPT ![r] = new] /\ Become(h, "delete")
  BY <1>4 DEF createRow
<1>9. archive'[r] = new /\ archive' \in Archives /\ \A q \in Records : q # r => archive'[q] = archive[q]
  BY <1>2, <1>5, <1>7, <1>8 DEF Archives
<1> QED BY <1>2, <1>3, <1>5, <1>6, <1>8, <1>9

LEMMA InsertedTypes ==
  ASSUME NEW S, NEW stored \in [Records -> S], NEW given \in [Records -> S]
  PROVE  Inserted(stored, given) \in [Records -> S]
BY DEF Inserted

LEMMA FromJsonTypes ==
  ASSUME NEW docs \in Lives
  PROVE  FromJson(docs) \in Lives
<1>1. ASSUME NEW r \in Records, docs[r] # Gone
      PROVE  [docs[r] EXCEPT !.text = TRUE] \in Live
  BY <1>1 DEF Lives, Live
<1> QED BY <1>1 DEF FromJson, Lives

\* A call that is idle, waits or has been cut has no document in its hands.
LEMMA CrashTypes ==
  ASSUME TypeInv, Crash
  PROVE  /\ CallsOK' /\ DOMAIN call' = Handlers
         /\ \A h \in Handlers : call'[h].pc \in {"idle", "off"}
         /\ cut' \subseteq Records
<1>1. IdleCall \in Call /\ OffCall \in Call /\ OnItsBatch(IdleCall) /\ OnItsBatch(OffCall)
  BY BareTypes DEF IdleCall, OffCall
<1>2. /\ call' \in [Handlers -> Call] /\ DOMAIN call' = Handlers
      /\ \A h \in Handlers : call'[h] \in {IdleCall, OffCall}
  BY <1>1 DEF Crash
<1>3. ASSUME NEW h \in Handlers, At(h, "recreate") PROVE call[h].r \in Records
  <2>1. call[h] \in ReturningCall
    BY <1>3, Shapes DEF TypeInv, CallsOK, At
  <2> QED BY <2>1 DEF ReturningCall
<1>4. cut \subseteq Records
  BY DEF TypeInv, StoreOK, TypeOK
<1>5. cut' \subseteq Records
  BY <1>3, <1>4 DEF Crash
<1>6. IdleCall.pc = "idle" /\ OffCall.pc = "off"
  BY DEF IdleCall, OffCall
<1> QED BY <1>1, <1>2, <1>5, <1>6 DEF CallsOK

\* The calls of each step.
CallGoes(h) == \E c \in Call : OnItsBatch(c) /\ c.pc # "off" /\ Goto(h, c)

LEMMA BareGoes ==
  ASSUME NEW h, NEW pc \in {"idle", "start", "find", "save"}, Goto(h, [pc |-> pc])
  PROVE  CallGoes(h)
BY BareTypes DEF CallGoes

LEMMA JobCalls ==
  ASSUME GoodConstants, TypeInv, NEW h \in Handlers,
         \/ countEligibleRecords(h) \/ runArchiveJob(h) \/ findBatch(h) \/ archiveOldestAuditLogs(h)
         \/ findExisting(h) \/ offloadPhotos(h) \/ createRow(h) \/ deleteSource(h) \/ endArchiveJob(h)
  PROVE  CallGoes(h)
<1>1. CASE countEligibleRecords(h) \/ runArchiveJob(h) \/ endArchiveJob(h)
  BY <1>1, BareGoes DEF countEligibleRecords, runArchiveJob, endArchiveJob, Return, IdleCall
<1>2. CASE findBatch(h)
  BY <1>2, FindBatchGoes, BareGoes DEF Reads, CallGoes
<1>3. CASE archiveOldestAuditLogs(h)
  BY <1>3, TrimGoes DEF Reads, CallGoes
<1>4. CASE findExisting(h)
  <2>1. PICK r \in DOMAIN call[h].docs :
          IF archive[r] # Gone THEN Continue(h, r)
          ELSE With(h, IF call[h].docs[r].photo = "inline" THEN "offload" ELSE "create", r)
    BY <1>4 DEF findExisting
  <2>2. call[h].pc = "lookup" /\ call[h] \in BatchCall
    BY <1>4, Shapes DEF findExisting, At, TypeInv, CallsOK
  <2>3. CASE Continue(h, r)
    BY <2>2, <2>3, Continues DEF GoesOn, CallGoes
  <2>4. ASSUME NEW pc \in {"offload", "create"}, With(h, pc, r) PROVE CallGoes(h)
    <3>1. PICK c : c = [pc |-> pc, job |-> call[h].job, docs |-> call[h].docs,
                        full |-> call[h].full, r |-> r]
      OBVIOUS
    <3>2. r \in Records
      BY <2>1, <2>2 DEF BatchCall, Docs
    <3>3. c \in RecordCall /\ c.r \in DOMAIN c.docs
      BY <3>1, <3>2, <2>1, <2>2 DEF RecordCall, BatchCall, DocPc
    <3>4. c \in Call /\ OnItsBatch(c)
      BY <3>3 DEF Call, OnItsBatch
    <3> QED BY <3>1, <3>4, <2>4 DEF With, CallGoes
  <2> QED BY <2>1, <2>3, <2>4
<1>5. CASE offloadPhotos(h)
  BY <1>5, BecomesOfRecord DEF offloadPhotos, At, DocPc, Moves, CallGoes
<1>6. CASE createRow(h)
  <2>1. CASE archive[call[h].r] # Gone
    BY <1>6, <2>1, BareGoes DEF createRow, IdleCall
  <2>2. CASE archive[call[h].r] = Gone
    <3>1. Become(h, "delete") /\ call[h].pc = "create"
      BY <1>6, <2>2 DEF createRow, At
    <3> QED BY <3>1, BecomesOfRecord DEF DocPc, Moves, CallGoes
  <2> QED BY <2>1, <2>2
<1>7. CASE deleteSource(h)
  <2>1. Continue(h, call[h].r) /\ call[h].pc = "delete"
    BY <1>7 DEF deleteSource, At
  <2> QED BY <2>1, Continues DEF DocPc, GoesOn, CallGoes
<1> QED BY <1>1, <1>2, <1>3, <1>4, <1>5, <1>6, <1>7

LEMMA RestoringCalls ==
  ASSUME TypeInv, NEW h \in Handlers,
         \/ \E r \in Records : restoreRecords(h, r)
         \/ findActive(h) \/ hydratePhotos(h) \/ unlinkPhotos(h) \/ recreate(h) \/ deleteRow(h)
  PROVE  CallGoes(h)
<1>1. CASE \E r \in Records : restoreRecords(h, r)
  <2>1. PICK r \in Records : restoreRecords(h, r)
    BY <1>1
  <2>2. PICK c : c = [pc |-> "findLive", r |-> r, row |-> archive[r]]
    OBVIOUS
  <2>3. archive[r] \in Row /\ Goto(h, c)
    BY <2>1, <2>2 DEF restoreRecords, TypeInv, StoreOK, TypeOK
  <2>4. c \in FindingCall
    BY <2>2, <2>3 DEF FindingCall
  <2>5. c \in Call /\ OnItsBatch(c) /\ c.pc # "off"
    BY <2>4, <2>2 DEF Call, OnItsBatch, DocPc
  <2> QED BY <2>3, <2>5 DEF CallGoes
<1>2. CASE findActive(h)
  BY <1>2, Returns, BecomesHydrating DEF findActive, Moves, CallGoes
<1>3. CASE hydratePhotos(h)
  <2>1. PICK c : c = [pc |-> IF call[h].row.owned THEN "unlink" ELSE "recreate",
                      r |-> call[h].r, row |-> call[h].row,
                      photo |-> IF call[h].row.photo = "ref" /\ call[h].r \in files
                                THEN "inline" ELSE call[h].row.photo]
    OBVIOUS
  <2>2. call[h] \in FindingCall
    BY <1>3, Shapes DEF hydratePhotos, At, TypeInv, CallsOK
  <2>3. call[h].row.photo \in {"inline", "ref", "none"} /\ call[h].row \in Row /\ call[h].r \in Records
    BY <2>2 DEF FindingCall, Row
  <2>4. c \in ReturningCall
    BY <2>1, <2>3 DEF ReturningCall
  <2>5. c \in Call /\ OnItsBatch(c) /\ c.pc # "off"
    BY <2>4, <2>1 DEF Call, OnItsBatch, DocPc
  <2>6. Goto(h, c)
    BY <1>3, <2>1 DEF hydratePhotos
  <2> QED BY <2>5, <2>6 DEF CallGoes
<1>4. CASE unlinkPhotos(h)
  BY <1>4, BecomesReturning DEF unlinkPhotos, At, Moves, CallGoes
<1>5. CASE recreate(h)
  BY <1>5, Returns, BecomesReturning DEF recreate, At, Moves, CallGoes
<1>6. CASE deleteRow(h)
  BY <1>6, Returns DEF deleteRow, CallGoes
<1> QED BY <1>1, <1>2, <1>3, <1>4, <1>5, <1>6

LEMMA ReplacingCalls ==
  ASSUME TypeInv, NEW h \in Handlers,
         \/ \E modules \in (SUBSET Modules) \ {{}} : createBackup(h, modules) \/ clearAllData(h, modules)
         \/ readSources(h) \/ restoreBackup(h)
         \/ emptyArchive(h) \/ fillArchive(h) \/ emptySources(h) \/ fillSources(h)
  PROVE  CallGoes(h)
<1>1. ASSUME NEW modules \in SUBSET Modules, createBackup(h, modules) PROVE CallGoes(h)
  <2>1. PICK c : c = [pc |-> "readSources", modules |-> modules, archive |-> archive]
    OBVIOUS
  <2>2. archive \in Archives
    BY DEF TypeInv, StoreOK, TypeOK, Archives
  <2>3. c \in DumpingCall
    BY <2>1, <2>2 DEF DumpingCall
  <2>4. c \in Call /\ OnItsBatch(c)
    BY <2>3, <2>1 DEF Call, OnItsBatch, DocPc
  <2> QED BY <1>1, <2>1, <2>4 DEF createBackup, CallGoes
<1>2. ASSUME NEW modules \in SUBSET Modules, clearAllData(h, modules) PROVE CallGoes(h)
  <2>1. PICK c : c = [pc |-> IF "archive" \in modules THEN "emptyArchive" ELSE "emptySources",
                      fill |-> FALSE, from |-> [modules |-> modules]]
    OBVIOUS
  <2>2. c \in ClearingCall
    BY <2>1 DEF ClearingCall
  <2>3. c \in Call /\ OnItsBatch(c)
    BY <2>1, <2>2 DEF Call, OnItsBatch, DocPc
  <2> QED BY <1>2, <2>1, <2>3 DEF clearAllData, CallGoes
<1>3. CASE readSources(h)
  BY <1>3, Returns DEF readSources, CallGoes
<1>4. CASE restoreBackup(h)
  <2>1. PICK c : c = [pc |-> IF "archive" \in dump.modules THEN "emptyArchive" ELSE "emptySources",
                      fill |-> TRUE, from |-> dump]
    OBVIOUS
  <2>2. dump \in Dump
    BY <1>4 DEF restoreBackup, TypeInv, StoreOK
  <2>3. c \in FillingCall
    BY <2>1, <2>2 DEF FillingCall, ReplacePc
  <2>4. c \in Call /\ OnItsBatch(c)
    BY <2>1, <2>3 DEF Call, OnItsBatch, DocPc
  <2> QED BY <1>4, <2>1, <2>4 DEF restoreBackup, CallGoes
<1>5. CASE emptyArchive(h)
  <2>1. CASE call[h].fill
    <3>1. Become(h, "fillArchive") /\ call[h].pc \in ReplacePc /\ "fillArchive" \in ReplacePc
      BY <1>5, <2>1 DEF emptyArchive, At, ReplacePc
    <3> QED BY <2>1, <3>1, BecomesFilling DEF Moves, CallGoes
  <2>2. CASE ~call[h].fill
    <3>1. ToSources(h) /\ call[h].pc \in ReplacePc
      BY <1>5, <2>2 DEF emptyArchive, At, ReplacePc
    <3> QED BY <3>1, ToSourcesGoes DEF CallGoes
  <2> QED BY <2>1, <2>2
<1>6. CASE fillArchive(h)
  <2>1. call[h].pc \in ReplacePc /\ (Return(h) \/ ToSources(h))
    BY <1>6 DEF fillArchive, At, ReplacePc
  <2> QED BY <2>1, ToSourcesGoes, Returns DEF CallGoes
<1>7. CASE emptySources(h)
  <2>1. CASE call[h].fill
    <3>1. Become(h, "fillSources") /\ call[h].pc \in ReplacePc /\ "fillSources" \in ReplacePc
      BY <1>7, <2>1 DEF emptySources, At, ReplacePc
    <3> QED BY <2>1, <3>1, BecomesFilling DEF Moves, CallGoes
  <2>2. CASE ~call[h].fill
    BY <1>7, <2>2, Returns DEF emptySources, CallGoes
  <2> QED BY <2>1, <2>2
<1>8. CASE fillSources(h)
  BY <1>8, Returns DEF fillSources, CallGoes
<1> QED BY <1>1, <1>2, <1>3, <1>4, <1>5, <1>6, <1>7, <1>8

LEMMA StepCalls ==
  ASSUME GoodConstants, TypeInv, NEW h \in Handlers, Step(h)
  PROVE  \E c \in Call :
           /\ Goto(h, c) /\ CallsOK' /\ DOMAIN call' = Handlers /\ call'[h] = c /\ c.pc # "off"
           /\ \A g \in Handlers : g # h => call'[g] = call[g]
<1>1. CallGoes(h)
  BY JobCalls, RestoringCalls, ReplacingCalls DEF Step
<1> QED BY <1>1, GoesTo DEF CallGoes

LEMMA FillersFill ==
  ASSUME TypeInv, NEW h \in Handlers, At(h, "fillArchive") \/ At(h, "fillSources")
  PROVE  call[h] \in FillingCall
<1>1. call[h] \in FillingCall \cup ClearingCall
  BY Shapes DEF At, TypeInv, CallsOK, ReplacePc
<1>2. call[h] \notin ClearingCall
  BY DEF At, ClearingCall
<1> QED BY <1>1, <1>2

LEMMA StepStore ==
  ASSUME GoodConstants, TypeInv, NEW h \in Handlers, Step(h)
  PROVE  StoreOK'
<1> USE DEF TypeInv, StoreOK, TypeOK, dumps
<1>1. DOMAIN call' = Handlers /\ UNCHANGED <<cut, crashes>>
  <2>1. DOMAIN call' = Handlers
    BY StepCalls
  <2> HIDE DEF TypeInv, StoreOK, TypeOK
  <2>2. UNCHANGED <<cut, crashes>>
    BY DEF Step, countEligibleRecords, runArchiveJob, findBatch, archiveOldestAuditLogs, findExisting,
       offloadPhotos, createRow, deleteSource, endArchiveJob, restoreRecords, findActive, hydratePhotos,
       unlinkPhotos, recreate, deleteRow, createBackup, clearAllData, readSources, restoreBackup,
       emptyArchive, fillArchive, emptySources, fillSources
  <2> QED BY <2>1, <2>2
<1>2. CASE \/ countEligibleRecords(h) \/ findBatch(h) \/ archiveOldestAuditLogs(h) \/ findExisting(h)
           \/ \E r \in Records : restoreRecords(h, r)
           \/ findActive(h) \/ hydratePhotos(h)
  <2>1. UNCHANGED <<live, archive, files, dumps, archiveInProgress, cut, crashes>>
    BY <1>2 DEF countEligibleRecords, findBatch, archiveOldestAuditLogs, findExisting, restoreRecords,
       findActive, hydratePhotos
  <2> QED BY <1>1, <2>1
<1>3. CASE runArchiveJob(h) \/ endArchiveJob(h)
  <2>1. /\ UNCHANGED <<live, archive, files, dumps, cut, crashes>>
        /\ archiveInProgress' \in BOOLEAN
    BY <1>3 DEF runArchiveJob, endArchiveJob
  <2> QED BY <1>1, <2>1
<1>4. CASE offloadPhotos(h) \/ unlinkPhotos(h)
  <2>1. call[h].r \in Records
    BY <1>4, Shapes DEF offloadPhotos, unlinkPhotos, At, CallsOK, DocPc, RecordCall, ReturningCall
  <2>2. /\ UNCHANGED <<live, archive, dumps, archiveInProgress, cut, crashes>>
        /\ files' \subseteq files \cup {call[h].r}
    BY <1>4 DEF offloadPhotos, unlinkPhotos
  <2> QED BY <1>1, <2>1, <2>2
<1>5. CASE createRow(h)
  <2>1. archive' \in Archives
    <3>1. CASE archive[call[h].r] = Gone
      BY <1>5, <3>1, CreatedRow
    <3>2. CASE archive[call[h].r] # Gone
      BY <1>5, <3>2 DEF createRow, Archives
    <3> QED BY <3>1, <3>2
  <2>2. UNCHANGED <<live, files, dumps, archiveInProgress, cut, crashes>>
    BY <1>5 DEF createRow
  <2> QED BY <1>1, <2>1, <2>2 DEF Archives
<1>6. CASE deleteRow(h)
  <2>1. archive' \in Archives
    BY <1>6 DEF deleteRow, Archives
  <2>2. UNCHANGED <<live, files, dumps, archiveInProgress, cut, crashes>>
    BY <1>6 DEF deleteRow
  <2> QED BY <1>1, <2>1, <2>2 DEF Archives
<1>7. CASE deleteSource(h)
  <2>1. live' \in Lives
    BY <1>7 DEF deleteSource, Lives
  <2>2. UNCHANGED <<archive, files, dumps, archiveInProgress, cut, crashes>>
    BY <1>7 DEF deleteSource
  <2> QED BY <1>1, <2>1, <2>2 DEF Lives
<1>8. CASE recreate(h)
  <2>1. call[h].photo \in {"inline", "ref", "none"}
    BY <1>8, Shapes DEF recreate, At, CallsOK, ReturningCall
  <2>2. [photo |-> call[h].photo, text |-> FALSE] \in Live
    BY <2>1 DEF Live
  <2>3. live' \in Lives
    BY <1>8, <2>2 DEF recreate, Lives
  <2>4. UNCHANGED <<archive, files, dumps, archiveInProgress, cut, crashes>>
    BY <1>8 DEF recreate
  <2> QED BY <1>1, <2>3, <2>4 DEF Lives
<1>9. ASSUME NEW modules, createBackup(h, modules) \/ clearAllData(h, modules) PROVE StoreOK'
  <2>1. UNCHANGED <<live, archive, files, dump, archiveInProgress, cut, crashes>>
    BY <1>9 DEF createBackup, clearAllData
  <2>2. replaced' \in {replaced, TRUE} /\ backups < MaxBackups /\ backups' = backups + 1
    BY <1>9 DEF createBackup, clearAllData, Administer
  <2>3. backups' \in 0..MaxBackups
    BY <2>2 DEF GoodConstants
  <2>4. replaced' \in BOOLEAN
    BY <2>2
  <2> QED BY <1>1, <2>1, <2>3, <2>4
<1>10. CASE restoreBackup(h)
  <2>1. /\ UNCHANGED <<live, archive, files, dump, archiveInProgress, cut, crashes>>
        /\ replaced' \in BOOLEAN /\ backups' \in 0..MaxBackups
    BY <1>10 DEF restoreBackup, Administer, GoodConstants
  <2> QED BY <1>1, <2>1
<1>11. CASE readSources(h)
  <2>1. call[h] \in DumpingCall
    BY <1>11, Shapes DEF readSources, At, CallsOK
  <2>2. dump' \in Dump
    BY <1>11, <2>1 DEF readSources, Dump, DumpingCall, Lives
  <2>3. UNCHANGED <<live, archive, files, archiveInProgress, replaced, backups, cut, crashes>>
    BY <1>11 DEF readSources
  <2> QED BY <1>1, <2>2, <2>3 DEF Dump
<1>12. CASE emptyArchive(h) \/ emptySources(h)
  <2>1. archive' \in Archives /\ live' \in Lives
    BY <1>12 DEF emptyArchive, emptySources, Archives, Lives
  <2>2. UNCHANGED <<files, dumps, archiveInProgress, cut, crashes>>
    BY <1>12 DEF emptyArchive, emptySources
  <2> QED BY <1>1, <2>1, <2>2 DEF Archives, Lives
<1>13. CASE fillArchive(h)
  <2>1. call[h] \in FillingCall
    BY <1>13, FillersFill DEF fillArchive
  <2>2. call[h].from.archive \in Archives
    BY <2>1 DEF FillingCall, Dump
  <2>3. archive' \in Archives
    BY <1>13, <2>2, InsertedTypes DEF fillArchive, Archives
  <2>4. UNCHANGED <<live, files, dumps, archiveInProgress, cut, crashes>>
    BY <1>13 DEF fillArchive
  <2> QED BY <1>1, <2>3, <2>4 DEF Archives
<1>14. CASE fillSources(h)
  <2>1. call[h] \in FillingCall
    BY <1>14, FillersFill DEF fillSources
  <2>2. call[h].from.live \in Lives
    BY <2>1 DEF FillingCall, Dump
  <2>3. live' \in Lives
    BY <1>14, <2>2, FromJsonTypes, InsertedTypes DEF fillSources, Lives
  <2>4. UNCHANGED <<archive, files, dumps, archiveInProgress, cut, crashes>>
    BY <1>14 DEF fillSources
  <2> QED BY <1>1, <2>3, <2>4 DEF Lives
<1> HIDE DEF TypeInv, StoreOK, TypeOK, dumps
<1> QED BY <1>2, <1>3, <1>4, <1>5, <1>6, <1>7, <1>8, <1>9, <1>10, <1>11, <1>12, <1>13, <1>14 DEF Step

LEMMA TypeInit ==
  ASSUME GoodConstants, Init
  PROVE  TypeInv
<1>1. CallsOK
  <2>1. \A h \in Handlers : call[h] \in {IdleCall, OffCall} /\ call \in [Handlers -> {IdleCall, OffCall}]
    BY DEF Init
  <2>2. IdleCall \in Call /\ OffCall \in Call /\ OnItsBatch(IdleCall) /\ OnItsBatch(OffCall)
    BY BareTypes DEF IdleCall, OffCall
  <2>3. CASE Handlers = {}
    BY <2>3 DEF CallsOK, Init
  <2>4. CASE Handlers # {}
    BY <2>1, <2>2, <2>4 DEF CallsOK
  <2> QED BY <2>3, <2>4
<1>2. StoreOK
  <2>1. live \in Lives /\ archive \in Archives
    BY DEF Init, Lives, Archives, Live
  <2>2. DOMAIN call = Handlers
    BY DEF Init
  <2>3. /\ files = {} /\ cut = {} /\ dump = NoDump /\ archiveInProgress = FALSE /\ replaced = FALSE
        /\ backups = 0 /\ crashes = 0
    BY DEF Init
  <2>4. dump.modules \subseteq Modules
    BY <2>3 DEF NoDump
  <2>5. backups \in 0..MaxBackups /\ crashes \in 0..MaxCrashes
    BY <2>3 DEF GoodConstants
  <2> QED BY <2>1, <2>2, <2>3, <2>4, <2>5 DEF StoreOK, TypeOK, Lives, Archives
<1> QED BY <1>1, <1>2 DEF TypeInv

LEMMA TypeStep ==
  ASSUME GoodConstants, TypeInv, [Next]_vars
  PROVE  TypeInv'
<1>1. ASSUME NEW h \in Handlers, Step(h) PROVE TypeInv'
  BY <1>1, StepCalls, StepStore DEF TypeInv
<1>2. CASE Crash
  <2>1. CallsOK' /\ DOMAIN call' = Handlers /\ cut' \subseteq Records
    BY <1>2, CrashTypes
  <2>2. /\ UNCHANGED <<live, archive, files, dumps>>
        /\ crashes' \in 0..MaxCrashes /\ archiveInProgress' = FALSE
    BY <1>2 DEF Crash, TypeInv, StoreOK, TypeOK, GoodConstants
  <2>3. StoreOK'
    BY <2>1, <2>2 DEF TypeInv, StoreOK, TypeOK, dumps
  <2> QED BY <2>1, <2>3 DEF TypeInv
<1>3. CASE UNCHANGED vars
  BY <1>3 DEF vars, dumps, TypeInv, StoreOK, TypeOK, CallsOK
<1> QED BY <1>1, <1>2, <1>3 DEF Next

\* The documents, rows, files, dumps and calls are always of their types.
THEOREM TypeCorrect ==
  ASSUME GoodConstants
  PROVE  Spec => []TypeOK
<1>1. Init => TypeInv
  BY TypeInit
<1>2. TypeInv /\ [Next]_vars => TypeInv'
  BY TypeStep
<1>3. TypeInv => TypeOK
  BY DEF TypeInv, StoreOK
<1> QED BY <1>1, <1>2, <1>3, PTL DEF Spec

-----------------------------------------------------------------------------
(* No record is lost, whatever overlaps.                                     *)

OthersStay(h) == \A g \in Handlers : g # h => call'[g] = call[g]

LEMMA RecordsOfCalls ==
  ASSUME TypeInv, NEW h \in Handlers, call[h].pc \in DocPc \cup {"findLive"} \cup RestorePc
  PROVE  call[h].r \in Records
<1>1. call[h] \in RecordCall \cup FindingCall \cup ReturningCall
  BY Shapes DEF TypeInv, CallsOK, RestorePc
<1> QED BY <1>1 DEF RecordCall, FindingCall, ReturningCall

\* No row goes and no document: a restoration begins only where there is no
\* document to delete, remembers the same row, and forgets it with the document
\* back; a call that neither deletes nor restores counts on nothing.
LEMMA KeptGoingOn ==
  ASSUME TypeInv, RecordsKept, ~replaced, replaced' = replaced, NEW h \in Handlers, OthersStay(h),
         UNCHANGED archive, \A q \in Records : live[q] # Gone => live'[q] # Gone,
         call'[h].pc \notin {"delete"} \cup ReplacePc,
         call'[h].pc \in RestorePc =>
           /\ call'[h].r = call[h].r /\ call'[h].row = call[h].row
           /\ call[h].pc \in RestorePc \/ live[call[h].r] = Gone,
         call'[h].pc = "forget" => live'[call[h].r] # Gone
  PROVE  RecordsKept'
<1>1. RecordsSurvive'
  BY DEF RecordsKept, RecordsSurvive
<1>2. ASSUME NEW g \in Handlers
      PROVE  call'[g].pc \notin ReplacePc /\ Deleting(g)' /\ Forgetting(g)'
  <2>1. CASE g = h
    BY <2>1 DEF Deleting, Forgetting, At, RestorePc
  <2>2. CASE g # h
    <3>1. call'[g] = call[g] /\ call[g].pc \notin ReplacePc /\ Deleting(g) /\ Forgetting(g)
      BY <2>2 DEF RecordsKept, OthersStay
    <3>2. At(g, "delete") \/ At(g, "forget") => call[g].r \in Records
      BY RecordsOfCalls DEF At, DocPc, RestorePc
    <3>3. Forgetting(g)'
      BY <3>1, <3>2 DEF Forgetting, At
    <3>4. ASSUME At(g, "delete") PROVE Deleting(g)'
      <4>1. /\ live[call[g].r] # Gone /\ archive[call[g].r] # Gone
            /\ \A f \in Handlers :
                 /\ call[f].pc \in RestorePc /\ call[f].r = call[g].r
                      => call[f].row.id # archive[call[g].r].id
                 /\ At(f, "delete") /\ call[f].r = call[g].r => f = g
        BY <3>1, <3>4 DEF Deleting
      <4>2. ASSUME NEW f \in Handlers
            PROVE  /\ call'[f].pc \in RestorePc /\ call'[f].r = call[g].r
                        => call[f].row.id # archive[call[g].r].id
                   /\ call'[f].pc = "delete" /\ call'[f].r = call[g].r => f = g
        BY <4>1 DEF OthersStay, At
      <4>3. \A f \in Handlers : call'[f].pc \in RestorePc => call'[f].row = call[f].row
        BY DEF OthersStay
      <4>4. live'[call[g].r] # Gone
        BY <3>2, <3>4, <4>1
      <4> QED BY <3>1, <4>1, <4>2, <4>3, <4>4 DEF Deleting, At
    <3> QED BY <3>1, <3>3, <3>4 DEF Deleting, At
  <2> QED BY <2>1, <2>2
<1> QED BY <1>1, <1>2 DEF RecordsKept

\* A new row has an id that no restoration remembers, and its document is there.
LEMMA KeptCreating ==
  ASSUME GoodConstants, TypeInv, RecordsKept, ~replaced, NEW h \in Handlers, OthersStay(h),
         createRow(h), archive[call[h].r] = Gone, call'[h].pc = "delete", call'[h].r = call[h].r
  PROVE  RecordsKept'
<1> DEFINE r == call[h].r
<1>1. /\ r \in Records /\ archive'[r] # Gone
      /\ \A row \in Remembered(r) : row # Gone => row.id # archive'[r].id
      /\ \A q \in Records : q # r => archive'[q] = archive[q]
      /\ UNCHANGED <<live, replaced>> /\ At(h, "create")
  BY CreatedRow DEF createRow, dumps
<1>2. live[r] # Gone
  BY <1>1 DEF RecordsKept, RecordsSurvive
<1>3. RecordsSurvive'
  BY <1>1 DEF RecordsKept, RecordsSurvive
<1>4. ASSUME NEW g \in Handlers, call[g].pc \in RestorePc, call[g].r = r
      PROVE  call[g].row.id # archive'[r].id
  <2>1. call[g].row \in Remembered(r)
    BY <1>4, RememberedByCalls DEF Holds, RestorePc
  <2>2. call[g].row \in Row
    BY <1>4, Shapes DEF TypeInv, CallsOK, RestorePc, FindingCall, ReturningCall
  <2>3. call[g].row # Gone
    BY <2>2 DEF Row, Gone
  <2> QED BY <2>1, <2>3, <1>1
<1>5. \A g \in Handlers : At(g, "delete") => call[g].r \in Records /\ call[g].r # r
  BY RecordsOfCalls DEF RecordsKept, Deleting, At, DocPc
<1>6. ASSUME NEW g \in Handlers
      PROVE  call'[g].pc \notin ReplacePc /\ Deleting(g)' /\ Forgetting(g)'
  <2>1. CASE g = h
    <3>1. ASSUME NEW f \in Handlers
          PROVE  /\ call'[f].pc \in RestorePc /\ call'[f].r = r => call'[f].row.id # archive'[r].id
                 /\ call'[f].pc = "delete" /\ call'[f].r = r => f = h
      BY <1>4, <1>5 DEF OthersStay, At, RestorePc
    <3> QED BY <1>1, <1>2, <2>1, <3>1 DEF Deleting, Forgetting, At, ReplacePc
  <2>2. CASE g # h
    <3>1. call'[g] = call[g] /\ call[g].pc \notin ReplacePc /\ Deleting(g) /\ Forgetting(g)
      BY <2>2 DEF RecordsKept, OthersStay
    <3>2. At(g, "forget") => call[g].r \in Records
      BY RecordsOfCalls DEF At, RestorePc
    <3>3. Forgetting(g)'
      BY <3>1, <3>2, <1>1, <1>2 DEF Forgetting, At
    <3>4. ASSUME At(g, "delete") PROVE Deleting(g)'
      <4>1. /\ live[call[g].r] # Gone /\ archive[call[g].r] # Gone
            /\ \A f \in Handlers :
                 /\ call[f].pc \in RestorePc /\ call[f].r = call[g].r
                      => call[f].row.id # archive[call[g].r].id
                 /\ At(f, "delete") /\ call[f].r = call[g].r => f = g
        BY <3>1, <3>4 DEF Deleting
      <4>2. archive'[call[g].r] = archive[call[g].r] /\ call[g].r # r
        BY <1>1, <1>5, <3>4
      <4>3. ASSUME NEW f \in Handlers
            PROVE  /\ call'[f].pc \in RestorePc /\ call'[f].r = call[g].r
                        => call'[f].row.id # archive[call[g].r].id
                   /\ call'[f].pc = "delete" /\ call'[f].r = call[g].r => f = g
        BY <4>1, <4>2 DEF OthersStay, At, RestorePc
      <4> QED BY <1>1, <3>1, <4>1, <4>2, <4>3 DEF Deleting, At
    <3> QED BY <3>1, <3>3, <3>4 DEF Deleting, At
  <2> QED BY <2>1, <2>2
<1> QED BY <1>3, <1>6 DEF RecordsKept

\* A document is deleted by the one call that has just seen to its row.
LEMMA KeptDeleting ==
  ASSUME TypeInv, RecordsKept, ~replaced, NEW h \in Handlers, OthersStay(h), deleteSource(h),
         call'[h].pc \in {"lookup", "find", "save", "idle"}
  PROVE  RecordsKept'
<1> DEFINE r == call[h].r
<1>1. /\ At(h, "delete") /\ UNCHANGED <<archive, replaced>>
      /\ \A q \in Records : q # r => live'[q] = live[q]
  <2>1. DOMAIN live = Records
    BY DEF TypeInv, StoreOK, TypeOK
  <2> QED BY <2>1 DEF deleteSource, dumps
<1>2. /\ archive[r] # Gone
      /\ \A g \in Handlers :
           /\ call[g].pc \in RestorePc /\ call[g].r = r => call[g].row.id # archive[r].id
           /\ At(g, "delete") /\ call[g].r = r => g = h
  BY <1>1 DEF RecordsKept, Deleting
<1>3. RecordsSurvive'
  BY <1>1, <1>2 DEF RecordsKept, RecordsSurvive
<1>4. ASSUME NEW g \in Handlers
      PROVE  call'[g].pc \notin ReplacePc /\ Deleting(g)' /\ Forgetting(g)'
  <2>1. CASE g = h
    BY <2>1 DEF Deleting, Forgetting, At, ReplacePc
  <2>2. CASE g # h
    <3>1. call'[g] = call[g] /\ call[g].pc \notin ReplacePc /\ Deleting(g) /\ Forgetting(g)
      BY <2>2 DEF RecordsKept, OthersStay
    <3>2. At(g, "delete") \/ At(g, "forget") => call[g].r \in Records
      BY RecordsOfCalls DEF At, DocPc, RestorePc
    <3>3. Forgetting(g)'
      BY <3>1, <3>2, <1>1, <1>2 DEF Forgetting, At, RestorePc
    <3>4. ASSUME At(g, "delete") PROVE Deleting(g)'
      <4>1. live'[call[g].r] # Gone
        BY <1>1, <1>2, <2>2, <3>1, <3>2, <3>4 DEF Deleting
      <4>2. /\ archive[call[g].r] # Gone
            /\ \A f \in Handlers :
                 /\ call[f].pc \in RestorePc /\ call[f].r = call[g].r
                      => call[f].row.id # archive[call[g].r].id
                 /\ At(f, "delete") /\ call[f].r = call[g].r => f = g
        BY <3>1, <3>4 DEF Deleting
      <4>3. ASSUME NEW f \in Handlers
            PROVE  /\ call'[f].pc \in RestorePc /\ call'[f].r = call[g].r
                        => call'[f].row.id # archive[call[g].r].id
                   /\ call'[f].pc = "delete" /\ call'[f].r = call[g].r => f = g
        BY <4>2 DEF OthersStay, At, RestorePc
      <4> QED BY <1>1, <3>1, <4>1, <4>2, <4>3 DEF Deleting, At
    <3> QED BY <3>1, <3>3, <3>4 DEF Deleting, At
  <2> QED BY <2>1, <2>2
<1> QED BY <1>3, <1>4 DEF RecordsKept

\* A row goes where its document is back, and nobody is about to delete that.
LEMMA KeptForgetting ==
  ASSUME TypeInv, RecordsKept, ~replaced, NEW h \in Handlers, OthersStay(h), deleteRow(h),
         call'[h].pc = "idle"
  PROVE  RecordsKept'
<1> DEFINE r == call[h].r
<1>1. At(h, "forget") /\ UNCHANGED <<live, replaced>> /\ r \in Records
  BY RecordsOfCalls DEF deleteRow, dumps, At, RestorePc
<1>2. CASE archive[r] = Gone \/ archive[r].id # call[h].row.id
  <2>1. archive' = archive
    BY <1>2 DEF deleteRow
  <2> QED BY <1>1, <2>1, KeptGoingOn DEF RestorePc, ReplacePc
<1>3. CASE archive[r] # Gone /\ archive[r].id = call[h].row.id
  <2>1. \A q \in Records : q # r => archive'[q] = archive[q]
    BY <1>3 DEF deleteRow, TypeInv, StoreOK, TypeOK
  <2>2. live[r] # Gone
    BY <1>1, <1>3 DEF RecordsKept, Forgetting
  <2>3. RecordsSurvive'
    BY <1>1, <2>1, <2>2 DEF RecordsKept, RecordsSurvive
  <2>4. ASSUME NEW g \in Handlers
        PROVE  call'[g].pc \notin ReplacePc /\ Deleting(g)' /\ Forgetting(g)'
    <3>1. CASE g = h
      BY <3>1 DEF Deleting, Forgetting, At, ReplacePc
    <3>2. CASE g # h
      <4>1. call'[g] = call[g] /\ call[g].pc \notin ReplacePc /\ Deleting(g) /\ Forgetting(g)
        BY <3>2 DEF RecordsKept, OthersStay
      <4>2. At(g, "delete") \/ At(g, "forget") => call[g].r \in Records
        BY RecordsOfCalls DEF At, DocPc, RestorePc
      <4>3. Forgetting(g)'
        BY <4>1, <4>2, <1>1, <2>1, <2>2 DEF Forgetting, At
      <4>4. ASSUME At(g, "delete") PROVE Deleting(g)'
        <5>1. /\ live[call[g].r] # Gone /\ archive[call[g].r] # Gone
              /\ \A f \in Handlers :
                   /\ call[f].pc \in RestorePc /\ call[f].r = call[g].r
                        => call[f].row.id # archive[call[g].r].id
                   /\ At(f, "delete") /\ call[f].r = call[g].r => f = g
          BY <4>1, <4>4 DEF Deleting
        <5>2. call[g].r # r
          BY <5>1, <1>1, <1>3 DEF At, RestorePc
        <5>3. archive'[call[g].r] = archive[call[g].r]
          BY <5>2, <2>1, <4>2, <4>4
        <5>4. ASSUME NEW f \in Handlers
              PROVE  /\ call'[f].pc \in RestorePc /\ call'[f].r = call[g].r
                          => call'[f].row.id # archive[call[g].r].id
                     /\ call'[f].pc = "delete" /\ call'[f].r = call[g].r => f = g
          BY <5>1 DEF OthersStay, At, RestorePc
        <5> QED BY <1>1, <4>1, <5>1, <5>3, <5>4 DEF Deleting, At
      <4> QED BY <4>1, <4>3, <4>4 DEF Deleting, At
    <3> QED BY <3>1, <3>2
  <2> QED BY <2>3, <2>4 DEF RecordsKept
<1> QED BY <1>2, <1>3

\* What the steps of the job, of a trim and of a backup leave a call with.
LEMMA WaitingCalls ==
  ASSUME GoodConstants, TypeInv, NEW h \in Handlers,
         \/ countEligibleRecords(h) \/ runArchiveJob(h) \/ findBatch(h) \/ archiveOldestAuditLogs(h)
         \/ findExisting(h) \/ offloadPhotos(h) \/ endArchiveJob(h)
         \/ \E r \in Records : restoreRecords(h, r)
         \/ \E modules \in (SUBSET Modules) \ {{}} : createBackup(h, modules)
         \/ readSources(h)
         \/ createRow(h) /\ archive[call[h].r] # Gone
  PROVE  /\ OthersStay(h) /\ UNCHANGED <<live, archive, replaced>>
         /\ call'[h].pc \notin {"delete"} \cup RestorePc \cup ReplacePc
<1> DEFINE Waits(pc) == pc \notin {"delete"} \cup RestorePc \cup ReplacePc
<1>1. UNCHANGED <<live, archive, replaced>>
  BY DEF countEligibleRecords, runArchiveJob, findBatch, archiveOldestAuditLogs, findExisting, offloadPhotos,
     endArchiveJob, restoreRecords, createBackup, readSources, createRow, dumps
<1>2. OthersStay(h)
  <2>1. CallGoes(h)
    BY JobCalls, RestoringCalls, ReplacingCalls
  <2> QED BY <2>1, GoesTo DEF CallGoes, OthersStay
<1>3. ASSUME NEW c, Goto(h, c) PROVE call'[h] = c
  BY <1>3 DEF Goto, TypeInv, CallsOK
<1>4. \A pc \in {"start", "find", "save", "idle", "lookup", "offload", "create", "findLive", "readSources"} :
        Waits(pc)
  BY DEF RestorePc, ReplacePc
<1> HIDE DEF Waits
<1>5. ASSUME countEligibleRecords(h) \/ runArchiveJob(h) \/ endArchiveJob(h)
      PROVE  Waits(call'[h].pc)
  BY <1>3, <1>4, <1>5 DEF countEligibleRecords, runArchiveJob, endArchiveJob, Return, IdleCall
<1>6. ASSUME findBatch(h) \/ archiveOldestAuditLogs(h)
      PROVE  Waits(call'[h].pc)
  BY <1>3, <1>4, <1>6, FindBatchGoes, TrimGoes DEF Reads
<1>7. ASSUME findExisting(h)
      PROVE  Waits(call'[h].pc)
  <2>1. PICK r \in DOMAIN call[h].docs :
          \/ Continue(h, r) /\ call[h].pc = "lookup"
          \/ \E pc \in {"offload", "create"} : With(h, pc, r)
    BY <1>7 DEF findExisting, At
  <2>2. ASSUME Continue(h, r), call[h].pc = "lookup" PROVE Waits(call'[h].pc)
    BY <1>3, <1>4, <2>2, Continues DEF GoesOn
  <2>3. ASSUME NEW pc \in {"offload", "create"}, With(h, pc, r) PROVE Waits(call'[h].pc)
    BY <1>3, <1>4, <2>3 DEF With
  <2> QED BY <2>1, <2>2, <2>3
<1>8. ASSUME offloadPhotos(h)
      PROVE  Waits(call'[h].pc)
  BY <1>3, <1>4, <1>8, BecomesOfRecord DEF offloadPhotos, At, DocPc, Moves
<1>9. ASSUME \E r \in Records : restoreRecords(h, r)
      PROVE  Waits(call'[h].pc)
  BY <1>3, <1>4, <1>9 DEF restoreRecords
<1>10. ASSUME \E modules \in (SUBSET Modules) \ {{}} : createBackup(h, modules)
      PROVE  Waits(call'[h].pc)
  BY <1>3, <1>4, <1>10 DEF createBackup
<1>11. ASSUME readSources(h)
      PROVE  Waits(call'[h].pc)
  BY <1>3, <1>4, <1>11 DEF readSources, Return, IdleCall
<1>12. ASSUME createRow(h) /\ archive[call[h].r] # Gone
      PROVE  Waits(call'[h].pc)
  BY <1>3, <1>4, <1>12 DEF createRow, IdleCall
<1>13. Waits(call'[h].pc)
  BY <1>5, <1>6, <1>7, <1>8, <1>9, <1>10, <1>11, <1>12
<1> QED BY <1>1, <1>2, <1>13 DEF Waits

\* What the steps of a restoration leave it with.
LEMMA RestoringGoes ==
  ASSUME TypeInv, NEW h \in Handlers,
         findActive(h) \/ hydratePhotos(h) \/ unlinkPhotos(h) \/ recreate(h) \/ deleteRow(h)
  PROVE  /\ OthersStay(h) /\ UNCHANGED replaced
         /\ \/ call'[h].pc = "idle"
            \/ /\ call'[h].pc \in RestorePc /\ call'[h].r = call[h].r /\ call'[h].row = call[h].row
               /\ call[h].pc \in RestorePc \/ live[call[h].r] = Gone
               /\ call'[h].pc = "forget" => recreate(h) /\ live[call[h].r] = Gone
<1>1. OthersStay(h)
  <2>1. CallGoes(h)
    BY RestoringCalls
  <2> QED BY <2>1, GoesTo DEF CallGoes, OthersStay
<1>2. ASSUME NEW c, Goto(h, c) PROVE call'[h] = c
  BY <1>2 DEF Goto, TypeInv, CallsOK
<1>3. UNCHANGED replaced
  BY DEF findActive, hydratePhotos, unlinkPhotos, recreate, deleteRow, dumps
<1>4. CASE Return(h)
  BY <1>1, <1>2, <1>3, <1>4 DEF Return, IdleCall
<1>5. CASE findActive(h) /\ ~Return(h)
  <2>1. Become(h, "hydrate") /\ live[call[h].r] = Gone /\ At(h, "findLive")
    BY <1>5 DEF findActive
  <2>2. PICK c : Moves(h, "hydrate", c)
    BY <2>1, BecomesHydrating
  <2> QED BY <1>1, <1>2, <1>3, <2>1, <2>2 DEF Moves, At, RestorePc
<1>6. CASE hydratePhotos(h)
  <2>1. PICK c : c = [pc |-> IF call[h].row.owned THEN "unlink" ELSE "recreate",
                      r |-> call[h].r, row |-> call[h].row,
                      photo |-> IF call[h].row.photo = "ref" /\ call[h].r \in files
                                THEN "inline" ELSE call[h].row.photo]
    OBVIOUS
  <2>2. Goto(h, c) /\ call[h].pc = "hydrate"
    BY <1>6, <2>1 DEF hydratePhotos, At
  <2>3. c.pc \in {"unlink", "recreate"} /\ c.r = call[h].r /\ c.row = call[h].row
    BY <2>1
  <2> QED BY <1>1, <1>2, <1>3, <2>2, <2>3 DEF RestorePc
<1>7. CASE unlinkPhotos(h)
  <2>1. Become(h, "recreate") /\ call[h].pc = "unlink"
    BY <1>7 DEF unlinkPhotos, At
  <2>2. PICK c : Moves(h, "recreate", c)
    BY <2>1, BecomesReturning
  <2> QED BY <1>1, <1>2, <1>3, <2>1, <2>2 DEF Moves, RestorePc
<1>8. CASE recreate(h) /\ ~Return(h)
  <2>1. Become(h, "forget") /\ live[call[h].r] = Gone /\ call[h].pc = "recreate"
    BY <1>8 DEF recreate, At
  <2>2. PICK c : Moves(h, "forget", c)
    BY <2>1, BecomesReturning
  <2> QED BY <1>1, <1>2, <1>3, <1>8, <2>1, <2>2 DEF Moves, RestorePc
<1> QED BY <1>4, <1>5, <1>6, <1>7, <1>8 DEF deleteRow

LEMMA RecordsStep ==
  ASSUME GoodConstants, RecordsInv, [Next]_vars
  PROVE  RecordsInv'
<1>1. TypeInv /\ TypeInv'
  BY TypeStep DEF RecordsInv
<1> SUFFICES ASSUME ~replaced'
             PROVE  RecordsKept'
  BY <1>1 DEF RecordsInv
<1>2. CASE UNCHANGED vars
  <2>1. RecordsKept
    BY <1>2 DEF RecordsInv, vars, dumps
  <2> QED BY <1>2, <2>1 DEF vars, dumps, RecordsKept, RecordsSurvive, Deleting, Forgetting, At
<1>3. CASE Crash
  <2>1. RecordsKept /\ ~replaced
    BY <1>3 DEF RecordsInv, Crash, dumps
  <2>2. UNCHANGED <<live, archive>>
    BY <1>3 DEF Crash
  <2>3. RecordsSurvive'
    BY <2>1, <2>2 DEF RecordsKept, RecordsSurvive
  <2>4. \A h \in Handlers : call'[h].pc \in {"idle", "off"}
    BY <1>1, <1>3, CrashTypes
  <2> QED BY <2>3, <2>4 DEF RecordsKept, Deleting, Forgetting, At, ReplacePc
<1>4. ASSUME NEW h \in Handlers, Step(h)
      PROVE  RecordsKept'
  <2>1. ~replaced /\ replaced' = replaced
    <3>1. replaced' \in {replaced, TRUE}
      BY <1>4 DEF Step, countEligibleRecords, runArchiveJob, findBatch, archiveOldestAuditLogs,
         findExisting, offloadPhotos, createRow, deleteSource, endArchiveJob, restoreRecords, findActive,
         hydratePhotos, unlinkPhotos, recreate, deleteRow, createBackup, clearAllData, readSources,
         restoreBackup, emptyArchive, fillArchive, emptySources, fillSources, dumps
    <3>2. replaced \in BOOLEAN /\ replaced' \in BOOLEAN
      BY <1>1 DEF TypeInv, StoreOK, TypeOK
    <3> QED BY <3>1, <3>2
  <2>2. RecordsKept
    BY <2>1 DEF RecordsInv
  <2>3. CASE \/ countEligibleRecords(h) \/ runArchiveJob(h) \/ findBatch(h) \/ archiveOldestAuditLogs(h)
             \/ findExisting(h) \/ offloadPhotos(h) \/ endArchiveJob(h)
             \/ \E r \in Records : restoreRecords(h, r)
             \/ \E modules \in (SUBSET Modules) \ {{}} : createBackup(h, modules)
             \/ readSources(h)
             \/ createRow(h) /\ archive[call[h].r] # Gone
    <3>1. /\ OthersStay(h) /\ UNCHANGED <<live, archive, replaced>>
          /\ call'[h].pc \notin {"delete"} \cup RestorePc \cup ReplacePc
      BY <1>1, <2>3, WaitingCalls
    <3> QED BY <1>1, <2>1, <2>2, <3>1, KeptGoingOn DEF RestorePc
  <2>4. CASE createRow(h) /\ archive[call[h].r] = Gone
    <3>1. Become(h, "delete") /\ call[h].pc = "create"
      BY <2>4 DEF createRow, At
    <3>2. PICK c : Moves(h, "delete", c)
      BY <1>1, <3>1, BecomesOfRecord DEF DocPc
    <3>3. /\ call'[h] = c /\ c.pc = "delete" /\ c.r = call[h].r
          /\ OthersStay(h)
      BY <1>1, <3>1, <3>2, GoesTo DEF Moves, DocPc, OthersStay
    <3> QED BY <1>1, <2>1, <2>2, <2>4, <3>3, KeptCreating
  <2>5. CASE deleteSource(h)
    <3>1. Continue(h, call[h].r) /\ call[h].pc = "delete"
      BY <2>5 DEF deleteSource, At
    <3>2. PICK c : GoesOn(h, call[h].r, c)
      BY <1>1, <3>1, Continues DEF DocPc
    <3>3. call'[h] = c /\ c.pc \in {"lookup", "find", "save", "idle"} /\ OthersStay(h)
      BY <1>1, <3>2, GoesTo DEF GoesOn, OthersStay
    <3> QED BY <1>1, <2>1, <2>2, <2>5, <3>3, KeptDeleting
  <2>6. CASE findActive(h) \/ hydratePhotos(h) \/ unlinkPhotos(h) \/ recreate(h)
    <3>1. /\ OthersStay(h) /\ UNCHANGED replaced
          /\ \/ call'[h].pc = "idle"
             \/ /\ call'[h].pc \in RestorePc /\ call'[h].r = call[h].r /\ call'[h].row = call[h].row
                /\ call[h].pc \in RestorePc \/ live[call[h].r] = Gone
                /\ call'[h].pc = "forget" => recreate(h) /\ live[call[h].r] = Gone
      BY <1>1, <2>6, RestoringGoes
    <3>2. UNCHANGED archive
      BY <2>6 DEF findActive, hydratePhotos, unlinkPhotos, recreate
    <3>3. /\ \A q \in Records : live[q] # Gone => live'[q] # Gone
          /\ recreate(h) /\ live[call[h].r] = Gone => live'[call[h].r] # Gone
      <4>1. CASE ~recreate(h)
        BY <2>6, <4>1 DEF findActive, hydratePhotos, unlinkPhotos
      <4>2. CASE recreate(h)
        <5>1. call[h].r \in Records /\ DOMAIN live = Records
          BY <1>1, <4>2, RecordsOfCalls DEF recreate, At, RestorePc, TypeInv, StoreOK, TypeOK
        <5>2. call[h].photo # "gone"
          BY <1>1, <4>2, Shapes DEF recreate, At, TypeInv, CallsOK, ReturningCall
        <5> DEFINE doc == [photo |-> call[h].photo, text |-> FALSE]
        <5>3. doc # Gone
          BY <5>2 DEF Gone
        <5>4. live' = live \/ live' = [live EXCEPT ![call[h].r] = doc]
          BY <4>2 DEF recreate
        <5>5. live[call[h].r] = Gone => live' = [live EXCEPT ![call[h].r] = doc]
          BY <4>2 DEF recreate
        <5> HIDE DEF doc
        <5> QED BY <5>1, <5>3, <5>4, <5>5
      <4> QED BY <4>1, <4>2
    <3>4. call'[h].pc \notin {"delete"} \cup ReplacePc
      BY <3>1 DEF RestorePc, ReplacePc
    <3>5. call'[h].pc = "forget" => live'[call[h].r] # Gone
      BY <3>1, <3>3
    <3>6. call'[h].pc \in RestorePc =>
            /\ call'[h].r = call[h].r /\ call'[h].row = call[h].row
            /\ call[h].pc \in RestorePc \/ live[call[h].r] = Gone
      BY <3>1 DEF RestorePc
    <3> QED BY <1>1, <2>1, <2>2, <3>1, <3>2, <3>3, <3>4, <3>5, <3>6, KeptGoingOn
  <2>7. CASE deleteRow(h)
    <3>1. Return(h) /\ OthersStay(h)
      BY <1>1, <2>7, RestoringGoes DEF deleteRow
    <3>2. call'[h].pc = "idle"
      BY <1>1, <3>1 DEF Return, Goto, IdleCall, TypeInv, CallsOK
    <3> QED BY <1>1, <2>1, <2>2, <2>7, <3>1, <3>2, KeptForgetting
  <2>8. ASSUME NEW modules, clearAllData(h, modules) PROVE FALSE
    BY <2>1, <2>8 DEF clearAllData
  <2>9. CASE restoreBackup(h)
    BY <2>1, <2>9 DEF restoreBackup
  <2>10. CASE emptyArchive(h) \/ fillArchive(h) \/ emptySources(h) \/ fillSources(h)
    BY <2>2, <2>10 DEF RecordsKept, emptyArchive, fillArchive, emptySources, fillSources, At, ReplacePc
  <2> QED BY <1>4, <2>3, <2>4, <2>5, <2>6, <2>7, <2>8, <2>9, <2>10 DEF Step
<1> QED BY <1>2, <1>3, <1>4 DEF Next

LEMMA RecordsInit ==
  ASSUME GoodConstants, Init
  PROVE  RecordsInv
<1>1. \A h \in Handlers : call[h].pc \in {"idle", "off"}
  BY DEF Init, IdleCall, OffCall
<1>2. RecordsSurvive
  <2>1. \A r \in Records : live[r] # Gone
    BY DEF Init, Gone
  <2> QED BY <2>1 DEF RecordsSurvive
<1>3. RecordsKept
  BY <1>1, <1>2 DEF RecordsKept, Deleting, Forgetting, At, ReplacePc
<1> QED BY <1>3, TypeInit DEF RecordsInv

\* Until the data is replaced or cleared, a record is in its collection or in
\* the archive (archiveDocument, archiveOldestAuditLogs, restoreRecords),
\* whatever overlaps and wherever the process dies.
THEOREM RecordsSurviveAlways ==
  ASSUME GoodConstants
  PROVE  Spec => []RecordsSurvive
<1>1. Init => RecordsInv
  BY RecordsInit
<1>2. RecordsInv /\ [Next]_vars => RecordsInv'
  BY RecordsStep
<1>3. RecordsInv => RecordsSurvive
  BY DEF RecordsInv, RecordsKept, RecordsSurvive
<1> QED BY <1>1, <1>2, <1>3, PTL DEF Spec

-----------------------------------------------------------------------------
(* One call at a time, no photo is lost.                                     *)

\* The call that is under way, and what it and the records amount to.
PhotosKeptBy(h) ==
  /\ \A r \in Records : Photographed(r) => \/ live[r].photo = "inline" \/ InFile(r)
                                           \/ InHand(call[h], r)
  /\ Handling(call[h])

LEMMA OffHandles == Handling(OffCall) /\ \A r : ~InHand(OffCall, r)
BY DEF Handling, InHand, OffCall, DocPc

LEMMA Alone ==
  ASSUME IsSerial, NEW h \in Handlers, call[h] # OffCall
  PROVE  /\ \A g \in Handlers : g # h => call[g] = OffCall
         /\ PhotosKept <=> PhotosKeptBy(h)
<1>1. \A g \in Handlers : g # h => call[g] = OffCall
  BY DEF IsSerial
<1>2. PhotosKept => PhotosKeptBy(h)
  BY <1>1, OffHandles DEF PhotosKept, PhotosKeptBy, Somewhere
<1>3. PhotosKeptBy(h) => PhotosKept
  BY <1>1, OffHandles DEF PhotosKept, PhotosKeptBy, Somewhere
<1> QED BY <1>1, <1>2, <1>3

LEMMA NotOff ==
  ASSUME NEW h, Step(h)
  PROVE  call[h] # OffCall
<1>1. Idle(h) => call[h] # OffCall
  BY DEF Idle, IdleCall, OffCall
<1>2. ASSUME NEW pc, At(h, pc), pc # "off" PROVE call[h] # OffCall
  BY <1>2 DEF At, OffCall
<1>3. \/ Idle(h)
      \/ At(h, "start") \/ At(h, "find") \/ At(h, "lookup") \/ At(h, "offload") \/ At(h, "create")
      \/ At(h, "delete") \/ At(h, "save")
      \/ At(h, "findLive") \/ At(h, "hydrate") \/ At(h, "unlink") \/ At(h, "recreate") \/ At(h, "forget")
      \/ At(h, "readSources") \/ At(h, "emptyArchive") \/ At(h, "fillArchive")
      \/ At(h, "emptySources") \/ At(h, "fillSources")
  BY DEF Step, countEligibleRecords, runArchiveJob, findBatch, archiveOldestAuditLogs, findExisting,
     offloadPhotos, createRow, deleteSource, endArchiveJob, restoreRecords, findActive, hydratePhotos,
     unlinkPhotos, recreate, deleteRow, createBackup, clearAllData, readSources, restoreBackup,
     emptyArchive, fillArchive, emptySources, fillSources
<1> QED BY <1>1, <1>2, <1>3

\* The primed form of Alone.
LEMMA StaysAlone ==
  ASSUME GoodConstants, TypeInv, NEW h \in Handlers, Step(h), IsSerial'
  PROVE  IsSerial /\ (PhotosKeptBy(h)' => PhotosKept')
<1>1. call'[h].pc # "off" /\ \A g \in Handlers : g # h => call'[g] = call[g]
  BY StepCalls
<1>2. call'[h] # OffCall
  BY <1>1 DEF OffCall
<1>3. \A g \in Handlers : g # h => call'[g] = OffCall
  BY <1>2 DEF IsSerial
<1>4. IsSerial
  BY <1>1, <1>3, NotOff DEF IsSerial
<1>5. PhotosKeptBy(h)' => PhotosKept'
  BY <1>3, OffHandles DEF PhotosKept, PhotosKeptBy, Somewhere, Handling, InHand, OffCall, DocPc
<1> QED BY <1>4, <1>5

\* A call that has nothing in its hands and waits for nothing.
LEMMA PhotosRest ==
  ASSUME TypeInv, NEW h \in Handlers, PhotosKeptBy(h), UNCHANGED <<live, archive, files, cut>>,
         call[h].pc \notin {"unlink", "recreate"},
         call'[h].pc \in {"idle", "start", "find", "save", "readSources"}
  PROVE  PhotosKeptBy(h)'
<1>1. Handling(call[h])'
  BY DEF Handling, DocPc
<1>2. \A r \in Records : ~InHand(call[h], r)
  BY DEF InHand
<1> QED BY <1>1, <1>2 DEF PhotosKeptBy, Photographed, InFile

\* A call that has read its batch.
LEMMA PhotosRead ==
  ASSUME TypeInv, NEW h \in Handlers, PhotosKeptBy(h), UNCHANGED <<live, archive, files, cut>>,
         call[h].pc \notin {"unlink", "recreate"}, NEW c, Reads(h, c)
  PROVE  PhotosKeptBy(h)'
<1>1. call'[h] = c /\ c.pc = "lookup" /\ \A r \in DOMAIN c.docs : c.docs[r] = live[r]
  BY GoesTo DEF Reads
<1>2. Handling(call[h])'
  BY <1>1 DEF Handling, DocPc
<1>3. \A r \in Records : ~InHand(call[h], r)
  BY DEF InHand
<1> QED BY <1>2, <1>3 DEF PhotosKeptBy, Photographed, InFile

\* What is left of a batch is as it was read.
LEMMA PhotosLookup ==
  ASSUME TypeInv, NEW h \in Handlers, PhotosKeptBy(h), findExisting(h)
  PROVE  PhotosKeptBy(h)'
<1>1. UNCHANGED <<live, archive, files, cut>> /\ call[h].pc = "lookup"
  BY DEF findExisting, At
<1>2. \A r \in DOMAIN call[h].docs : call[h].docs[r] = live[r]
  BY <1>1 DEF PhotosKeptBy, Handling
<1>3. \A r \in Records : ~InHand(call[h], r)
  BY <1>1 DEF InHand
<1>4. PICK r \in DOMAIN call[h].docs :
        IF archive[r] # Gone THEN Continue(h, r)
        ELSE With(h, IF call[h].docs[r].photo = "inline" THEN "offload" ELSE "create", r)
  BY DEF findExisting
<1>5. Handling(call[h])'
  <2>1. CASE archive[r] # Gone
    <3>1. PICK c : GoesOn(h, r, c)
      BY <1>1, <1>4, <2>1, Continues
    <3>2. call'[h] = c
      BY <3>1, GoesTo DEF GoesOn
    <3>3. c.pc = "lookup" => \A q \in DOMAIN c.docs : c.docs[q] = live[q]
      BY <3>1, <1>2 DEF GoesOn
    <3>4. c.pc \in {"lookup", "find", "save", "idle"}
      BY <3>1 DEF GoesOn
    <3> QED BY <1>1, <3>2, <3>3, <3>4 DEF Handling, DocPc
  <2>2. CASE archive[r] = Gone
    <3>1. PICK c : c = [pc |-> IF call[h].docs[r].photo = "inline" THEN "offload" ELSE "create",
                        job |-> call[h].job, docs |-> call[h].docs, full |-> call[h].full, r |-> r]
      OBVIOUS
    <3>2. call'[h] = c
      BY <1>4, <2>2, <3>1 DEF With, Goto, TypeInv, CallsOK
    <3>3. /\ c.pc \in {"offload", "create"} /\ c.docs = call[h].docs /\ c.r = r
          /\ c.pc = "create" => c.docs[r].photo # "inline"
      BY <3>1
    <3> QED BY <1>1, <1>2, <2>2, <3>2, <3>3 DEF Handling, DocPc
  <2> QED BY <2>1, <2>2
<1> QED BY <1>1, <1>3, <1>5 DEF PhotosKeptBy, Photographed, InFile

LEMMA PhotosOffload ==
  ASSUME TypeInv, NEW h \in Handlers, PhotosKeptBy(h), offloadPhotos(h)
  PROVE  PhotosKeptBy(h)'
<1>1. /\ UNCHANGED <<live, archive, cut>> /\ call[h].pc = "offload"
      /\ files' = files \cup {call[h].r} /\ Become(h, "create")
  BY DEF offloadPhotos, At
<1>2. PICK c : Moves(h, "create", c)
  BY <1>1, BecomesOfRecord DEF DocPc
<1>3. call'[h] = c
  BY <1>2, GoesTo DEF Moves
<1>4. c.pc = "create" /\ c.r = call[h].r /\ c.docs = call[h].docs
  BY <1>1, <1>2 DEF Moves, DocPc
<1>5. Handling(call[h])'
  BY <1>1, <1>3, <1>4 DEF PhotosKeptBy, Handling, DocPc
<1>6. \A r \in Records : ~InHand(call[h], r)
  BY <1>1 DEF InHand
<1>7. \A r \in Records : InFile(r) => InFile(r)'
  BY <1>1 DEF InFile
<1> QED BY <1>1, <1>5, <1>6, <1>7 DEF PhotosKeptBy, Photographed

\* The row refers to the file the photo has just been written to.
LEMMA PhotosCreate ==
  ASSUME GoodConstants, TypeInv, NEW h \in Handlers, PhotosKeptBy(h), createRow(h)
  PROVE  PhotosKeptBy(h)'
<1> DEFINE r == call[h].r
<1>1. call[h].pc = "create" /\ UNCHANGED <<live, files, cut>>
  BY DEF createRow, At
<1>2. /\ archive[r] = Gone
      /\ call[h].docs[r].photo = "inline" => r \in files
      /\ \A q \in DOMAIN call[h].docs : call[h].docs[q] = live[q]
  BY <1>1 DEF PhotosKeptBy, Handling, DocPc
<1>3. /\ r \in Records /\ Become(h, "delete")
      /\ archive'[r].photo = (IF call[h].docs[r].photo = "none" THEN "none" ELSE "ref")
      /\ \A q \in Records : q # r => archive'[q] = archive[q]
  BY <1>2, CreatedRow
<1>4. PICK c : Moves(h, "delete", c)
  BY <1>1, <1>3, BecomesOfRecord DEF DocPc
<1>5. call'[h] = c
  BY <1>4, GoesTo DEF Moves
<1>6. c.pc = "delete" /\ c.r = r /\ c.docs = call[h].docs
  BY <1>1, <1>4 DEF Moves, DocPc
<1>7. \A q \in Records : ~InHand(call[h], q)
  BY <1>1 DEF InHand
<1>8. Photographed(r) => call[h].docs[r].photo = "inline"
  <2>1. ~InFile(r)
    BY <1>2 DEF InFile, Gone
  <2>2. r \in DOMAIN call[h].docs
    BY <1>1 DEF TypeInv, CallsOK, OnItsBatch, DocPc
  <2> QED BY <1>2, <1>3, <1>7, <2>1, <2>2 DEF PhotosKeptBy
<1>9. Photographed(r) => archive'[r].photo = "ref" /\ r \in files'
  BY <1>1, <1>2, <1>3, <1>8
<1>10. Handling(call[h])'
  BY <1>1, <1>2, <1>5, <1>6, <1>9 DEF Handling, DocPc, Photographed, InFile
<1>11. \A q \in Records : q # r => (InFile(q) => InFile(q)')
  BY <1>1, <1>3 DEF InFile
<1>12. \A q \in Records : Photographed(q)' => live'[q].photo = "inline" \/ InFile(q)'
  BY <1>1, <1>7, <1>9, <1>11 DEF PhotosKeptBy, Photographed, InFile
<1> QED BY <1>10, <1>12 DEF PhotosKeptBy

LEMMA PhotosDelete ==
  ASSUME TypeInv, NEW h \in Handlers, PhotosKeptBy(h), deleteSource(h)
  PROVE  PhotosKeptBy(h)'
<1> DEFINE r == call[h].r
<1>1. /\ call[h].pc = "delete" /\ UNCHANGED <<archive, files, cut>> /\ Continue(h, r)
      /\ \A q \in Records : q # r => live'[q] = live[q]
  BY DEF deleteSource, At, TypeInv, StoreOK, TypeOK
<1>2. /\ Photographed(r) => InFile(r)
      /\ \A q \in DOMAIN call[h].docs : call[h].docs[q] = live[q]
  BY <1>1 DEF PhotosKeptBy, Handling, DocPc
<1>3. PICK c : GoesOn(h, r, c)
  BY <1>1, Continues DEF DocPc
<1>4. call'[h] = c
  BY <1>3, GoesTo DEF GoesOn
<1>5. c.pc = "lookup" => \A q \in DOMAIN c.docs : c.docs[q] = live'[q]
  <2>1. c.pc = "lookup" => c \in BatchCall
    BY <1>3, Shapes DEF GoesOn
  <2>2. c \in BatchCall => DOMAIN c.docs \subseteq Records
    BY DEF BatchCall, Docs
  <2> QED BY <1>1, <1>2, <1>3, <2>1, <2>2 DEF GoesOn
<1>6. c.pc \in {"lookup", "find", "save", "idle"}
  BY <1>3 DEF GoesOn
<1>7. Handling(call[h])'
  BY <1>4, <1>5, <1>6 DEF Handling, DocPc
<1>8. \A q \in Records : ~InHand(call[h], q)
  BY <1>1 DEF InHand
<1>9. \A q \in Records : Photographed(q)' => live'[q].photo = "inline" \/ InFile(q)'
  BY <1>1, <1>2, <1>8 DEF PhotosKeptBy, Photographed, InFile
<1> QED BY <1>7, <1>9 DEF PhotosKeptBy

LEMMA PhotosFind ==
  ASSUME TypeInv, NEW h \in Handlers, PhotosKeptBy(h),
         (\E r \in Records : restoreRecords(h, r)) \/ findActive(h)
  PROVE  PhotosKeptBy(h)'
<1>1. UNCHANGED <<live, archive, files, cut>> /\ call[h].pc \in {"idle", "findLive"}
  <2>1. UNCHANGED <<live, archive, files, cut>> /\ (Idle(h) \/ At(h, "findLive"))
    BY DEF restoreRecords, findActive
  <2> QED BY <2>1 DEF At, Idle, IdleCall
<1>2. \A r \in Records : ~InHand(call[h], r)
  BY <1>1 DEF InHand
<1>3. Handling(call[h])'
  <2>1. ASSUME NEW r \in Records, restoreRecords(h, r) PROVE Handling(call[h])'
    <3>1. call'[h] = [pc |-> "findLive", r |-> r, row |-> archive[r]]
      BY <2>1 DEF restoreRecords, Goto, TypeInv, CallsOK
    <3>2. call'[h].pc = "findLive" /\ call'[h].r = r /\ call'[h].row = archive[r]
      BY <3>1
    <3> QED BY <1>1, <3>2 DEF Handling, DocPc
  <2>2. ASSUME findActive(h), live[call[h].r] # Gone PROVE Handling(call[h])'
    <3>1. call'[h].pc = "idle"
      BY <2>2 DEF findActive, Return, Goto, IdleCall, TypeInv, CallsOK
    <3> QED BY <3>1 DEF Handling, DocPc
  <2>3. ASSUME findActive(h), live[call[h].r] = Gone PROVE Handling(call[h])'
    <3>1. Become(h, "hydrate") /\ At(h, "findLive")
      BY <2>3 DEF findActive
    <3>2. PICK c : Moves(h, "hydrate", c)
      BY <3>1, BecomesHydrating
    <3>3. call'[h] = c
      BY <3>2, GoesTo DEF Moves
    <3>4. c.pc = "hydrate" /\ c.r = call[h].r /\ c.row = call[h].row
      BY <3>1, <3>2 DEF Moves, At
    <3>5. archive[call[h].r] = call[h].row
      BY <3>1 DEF PhotosKeptBy, Handling, At
    <3> QED BY <1>1, <2>3, <3>3, <3>4, <3>5 DEF Handling, DocPc
  <2> QED BY <2>1, <2>2, <2>3
<1> QED BY <1>1, <1>2, <1>3 DEF PhotosKeptBy, Photographed, InFile

\* A photo that is not in its document is in the file, and is read from it.
LEMMA PhotosHydrate ==
  ASSUME TypeInv, NEW h \in Handlers, PhotosKeptBy(h), hydratePhotos(h)
  PROVE  PhotosKeptBy(h)'
<1> DEFINE r == call[h].r
<1>1. UNCHANGED <<live, archive, files, cut>> /\ call[h].pc = "hydrate"
  BY DEF hydratePhotos, At
<1>2. live[r] = Gone /\ archive[r] = call[h].row
  BY <1>1 DEF PhotosKeptBy, Handling
<1>3. \A q \in Records : ~InHand(call[h], q)
  BY <1>1 DEF InHand
<1>4. r \in Records
  BY <1>1, RecordsOfCalls DEF RestorePc
<1>5. Photographed(r) => InFile(r)
  BY <1>2, <1>3, <1>4 DEF PhotosKeptBy, Gone
<1>6. PICK c : c = [pc |-> IF call[h].row.owned THEN "unlink" ELSE "recreate",
                    r |-> r, row |-> call[h].row,
                    photo |-> IF call[h].row.photo = "ref" /\ r \in files
                              THEN "inline" ELSE call[h].row.photo]
  OBVIOUS
<1>7. call'[h] = c
  BY <1>6 DEF hydratePhotos, Goto, TypeInv, CallsOK
<1>8. c.pc \in {"unlink", "recreate"} /\ c.r = r /\ (Photographed(r) => c.photo = "inline")
  BY <1>2, <1>5, <1>6 DEF InFile
<1>9. Handling(call[h])'
  BY <1>1, <1>2, <1>5, <1>7, <1>8 DEF Handling, DocPc, Photographed, InFile
<1> QED BY <1>1, <1>3, <1>9 DEF PhotosKeptBy, Photographed, InFile

\* The file goes when the photo is in the hands of the restoration.
LEMMA PhotosUnlink ==
  ASSUME TypeInv, NEW h \in Handlers, PhotosKeptBy(h), unlinkPhotos(h)
  PROVE  PhotosKeptBy(h)'
<1> DEFINE r == call[h].r
<1>1. /\ UNCHANGED <<live, archive, cut>> /\ call[h].pc = "unlink" /\ Become(h, "recreate")
      /\ files' = files \ {r}
  BY DEF unlinkPhotos, At
<1>2. live[r] = Gone /\ (Photographed(r) => call[h].photo = "inline")
  BY <1>1 DEF PhotosKeptBy, Handling
<1>3. PICK c : Moves(h, "recreate", c)
  BY <1>1, BecomesReturning
<1>4. call'[h] = c
  BY <1>3, GoesTo DEF Moves
<1>5. c.pc = "recreate" /\ c.r = r /\ c.photo = call[h].photo
  BY <1>1, <1>3 DEF Moves
<1>6. Handling(call[h])'
  BY <1>1, <1>2, <1>4, <1>5 DEF Handling, DocPc, Photographed
<1>7. Photographed(r) => InHand(call'[h], r)
  BY <1>2, <1>4, <1>5 DEF InHand
<1>8. \A q \in Records : q # r => /\ InFile(q) => InFile(q)'
                                  /\ ~InHand(call[h], q)
  BY <1>1 DEF InFile, InHand
<1>9. \A q \in Records : Photographed(q)' =>
        live'[q].photo = "inline" \/ InFile(q)' \/ InHand(call'[h], q)
  BY <1>1, <1>7, <1>8 DEF PhotosKeptBy, Photographed
<1> QED BY <1>6, <1>9 DEF PhotosKeptBy, InHand

\* The document comes back with the photo.
LEMMA PhotosRecreate ==
  ASSUME TypeInv, NEW h \in Handlers, PhotosKeptBy(h), recreate(h)
  PROVE  PhotosKeptBy(h)'
<1> DEFINE r == call[h].r
<1>1. UNCHANGED <<archive, files, cut>> /\ call[h].pc = "recreate"
  BY DEF recreate, At
<1>2. live[r] = Gone /\ (Photographed(r) => call[h].photo = "inline")
  BY <1>1 DEF PhotosKeptBy, Handling
<1>3. live' = [live EXCEPT ![r] = [photo |-> call[h].photo, text |-> FALSE]] /\ Become(h, "forget")
  BY <1>2 DEF recreate
<1>4. r \in Records
  BY <1>1, RecordsOfCalls DEF RestorePc
<1>5. live'[r].photo = call[h].photo /\ \A q \in Records : q # r => live'[q] = live[q]
  BY <1>3, <1>4 DEF TypeInv, StoreOK, TypeOK
<1>6. PICK c : Moves(h, "forget", c)
  BY <1>1, <1>3, BecomesReturning
<1>7. call'[h] = c
  BY <1>6, GoesTo DEF Moves
<1>8. c.pc = "forget" /\ c.r = r
  BY <1>1, <1>6 DEF Moves
<1>9. Handling(call[h])'
  BY <1>1, <1>2, <1>5, <1>7, <1>8 DEF Handling, DocPc, Photographed
<1>10. \A q \in Records : q # r => ~InHand(call[h], q)
  BY DEF InHand
<1>11. \A q \in Records : Photographed(q)' => live'[q].photo = "inline" \/ InFile(q)'
  BY <1>1, <1>2, <1>5, <1>10 DEF PhotosKeptBy, Photographed, InFile
<1> QED BY <1>9, <1>11 DEF PhotosKeptBy

LEMMA PhotosForget ==
  ASSUME TypeInv, NEW h \in Handlers, PhotosKeptBy(h), deleteRow(h)
  PROVE  PhotosKeptBy(h)'
<1> DEFINE r == call[h].r
<1>1. UNCHANGED <<live, files, cut>> /\ call[h].pc = "forget"
  BY DEF deleteRow, At
<1>2. Photographed(r) => live[r].photo = "inline"
  BY <1>1 DEF PhotosKeptBy, Handling
<1>3. \A q \in Records : q # r => archive'[q] = archive[q]
  BY DEF deleteRow, TypeInv, StoreOK, TypeOK
<1>4. call'[h].pc = "idle"
  BY DEF deleteRow, Return, Goto, IdleCall, TypeInv, CallsOK
<1>5. Handling(call[h])'
  BY <1>4 DEF Handling, DocPc
<1>6. \A q \in Records : ~InHand(call[h], q)
  BY <1>1 DEF InHand
<1>7. \A q \in Records : Photographed(q)' => live'[q].photo = "inline" \/ InFile(q)'
  BY <1>1, <1>2, <1>3, <1>6 DEF PhotosKeptBy, Photographed, InFile
<1> QED BY <1>5, <1>7 DEF PhotosKeptBy

LEMMA PhotosStepBy ==
  ASSUME GoodConstants, PhotosInv, NEW h \in Handlers, Step(h), IsSerial', ~replaced'
  PROVE  PhotosKept'
<1>1. TypeInv
  BY DEF PhotosInv, RecordsInv
<1>2. IsSerial /\ (PhotosKeptBy(h)' => PhotosKept')
  BY <1>1, StaysAlone
<1>3. ~replaced
  BY DEF Step, countEligibleRecords, runArchiveJob, findBatch, archiveOldestAuditLogs, findExisting,
     offloadPhotos, createRow, deleteSource, endArchiveJob, restoreRecords, findActive, hydratePhotos,
     unlinkPhotos, recreate, deleteRow, createBackup, clearAllData, readSources, restoreBackup,
     emptyArchive, fillArchive, emptySources, fillSources, dumps
<1>4. PhotosKeptBy(h)
  BY <1>2, <1>3, NotOff, Alone DEF PhotosInv
<1>5. call[h].pc \notin ReplacePc
  BY <1>3 DEF PhotosInv, RecordsInv, RecordsKept
<1>6. \A c : Goto(h, c) => call'[h] = c
  BY <1>1 DEF Goto, TypeInv, CallsOK
<1>7. CASE countEligibleRecords(h) \/ runArchiveJob(h) \/ endArchiveJob(h) \/ readSources(h)
  <2>1. UNCHANGED <<live, archive, files, cut>>
    BY <1>7 DEF countEligibleRecords, runArchiveJob, endArchiveJob, readSources
  <2>2. call[h].pc \notin {"unlink", "recreate"}
    BY <1>7 DEF countEligibleRecords, runArchiveJob, endArchiveJob, readSources, Idle, IdleCall, At
  <2>3. call'[h].pc \in {"idle", "start", "find"}
    BY <1>6, <1>7 DEF countEligibleRecords, runArchiveJob, endArchiveJob, readSources, Return, IdleCall
  <2> QED BY <1>1, <1>2, <1>4, <2>1, <2>2, <2>3, PhotosRest
<1>8. ASSUME NEW modules, createBackup(h, modules) PROVE PhotosKept'
  <2>1. UNCHANGED <<live, archive, files, cut>> /\ Idle(h) /\ call'[h].pc = "readSources"
    BY <1>6, <1>8 DEF createBackup
  <2>2. call[h].pc \notin {"unlink", "recreate"}
    BY <2>1 DEF Idle, IdleCall
  <2> QED BY <1>1, <1>2, <1>4, <2>1, <2>2, PhotosRest
<1>9. CASE findBatch(h) \/ archiveOldestAuditLogs(h)
  <2>1. UNCHANGED <<live, archive, files, cut>> /\ call[h].pc \in {"find", "idle"}
    BY <1>9 DEF findBatch, archiveOldestAuditLogs, Idle, IdleCall, At
  <2>2. CASE Goto(h, [pc |-> "save"])
    <3>1. call'[h].pc = "save"
      BY <1>6, <2>2
    <3> QED BY <1>1, <1>2, <1>4, <2>1, <3>1, PhotosRest
  <2>3. CASE \E c : Reads(h, c)
    BY <1>1, <1>2, <1>4, <2>1, <2>3, PhotosRead
  <2> QED BY <1>1, <1>9, <2>2, <2>3, FindBatchGoes, TrimGoes
<1>10. CASE findExisting(h)
  BY <1>1, <1>2, <1>4, <1>10, PhotosLookup
<1>11. CASE offloadPhotos(h)
  BY <1>1, <1>2, <1>4, <1>11, PhotosOffload
<1>12. CASE createRow(h)
  BY <1>1, <1>2, <1>4, <1>12, PhotosCreate
<1>13. CASE deleteSource(h)
  BY <1>1, <1>2, <1>4, <1>13, PhotosDelete
<1>14. CASE (\E r \in Records : restoreRecords(h, r)) \/ findActive(h)
  BY <1>1, <1>2, <1>4, <1>14, PhotosFind
<1>15. CASE hydratePhotos(h)
  BY <1>1, <1>2, <1>4, <1>15, PhotosHydrate
<1>16. CASE unlinkPhotos(h)
  BY <1>1, <1>2, <1>4, <1>16, PhotosUnlink
<1>17. CASE recreate(h)
  BY <1>1, <1>2, <1>4, <1>17, PhotosRecreate
<1>18. CASE deleteRow(h)
  BY <1>1, <1>2, <1>4, <1>18, PhotosForget
<1>19. ASSUME NEW modules, clearAllData(h, modules) PROVE FALSE
  BY <1>19 DEF clearAllData
<1>20. CASE restoreBackup(h)
  BY <1>20 DEF restoreBackup
<1>21. CASE emptyArchive(h) \/ fillArchive(h) \/ emptySources(h) \/ fillSources(h)
  BY <1>5, <1>21 DEF emptyArchive, fillArchive, emptySources, fillSources, At, ReplacePc
<1> QED BY <1>7, <1>8, <1>9, <1>10, <1>11, <1>12, <1>13, <1>14, <1>15, <1>16, <1>17, <1>18, <1>19,
           <1>20, <1>21 DEF Step

\* A death takes the photo only of a restoration between the file and the document.
LEMMA PhotosCrash ==
  ASSUME PhotosInv, Crash, IsSerial', ~replaced'
  PROVE  PhotosKept'
<1>1. /\ UNCHANGED <<live, archive, files, replaced>>
      /\ cut' = cut \cup {call[h].r : h \in {g \in Handlers : At(g, "recreate")}}
      /\ \A h \in Handlers : call'[h] = (IF call[h] = OffCall THEN OffCall ELSE IdleCall)
  BY DEF Crash, dumps
<1>2. IsSerial
  BY <1>1 DEF IsSerial, IdleCall, OffCall
<1>3. PhotosKept
  BY <1>1, <1>2 DEF PhotosInv
<1>4. \A h \in Handlers : call'[h].pc \in {"idle", "off"}
  BY <1>1 DEF IdleCall, OffCall
<1>5. \A h \in Handlers : Handling(call[h])'
  BY <1>4 DEF Handling, DocPc
<1>6. ASSUME NEW r \in Records, Photographed(r)'
      PROVE  Somewhere(r)'
  <2>1. Photographed(r) /\ ~\E h \in Handlers : At(h, "recreate") /\ call[h].r = r
    BY <1>1, <1>6 DEF Photographed
  <2>2. CASE live[r].photo = "inline" \/ InFile(r)
    BY <1>1, <2>2 DEF Somewhere, InFile
  <2>3. ASSUME NEW h \in Handlers, InHand(call[h], r) PROVE InFile(r)
    <3>1. call[h].pc = "unlink" /\ call[h].r = r
      BY <2>1, <2>3 DEF InHand, At
    <3> QED BY <1>3, <2>1, <3>1 DEF PhotosKept, Handling
  <2> QED BY <1>3, <2>1, <2>2, <2>3 DEF PhotosKept, Somewhere
<1> QED BY <1>5, <1>6 DEF PhotosKept

LEMMA PhotosStep ==
  ASSUME GoodConstants, PhotosInv, [Next]_vars
  PROVE  PhotosInv'
<1>1. RecordsInv'
  BY RecordsStep DEF PhotosInv
<1>2. ASSUME IsSerial', ~replaced', Next PROVE PhotosKept'
  BY <1>2, PhotosStepBy, PhotosCrash DEF Next
<1>3. ASSUME IsSerial', ~replaced', UNCHANGED vars PROVE PhotosKept'
  <2>1. UNCHANGED <<live, archive, files, replaced, call, cut>>
    BY <1>3 DEF vars, dumps
  <2>2. PhotosKept
    BY <1>3, <2>1 DEF PhotosInv, IsSerial
  <2> QED BY <2>1, <2>2 DEF PhotosKept, Photographed, Somewhere, InFile, InHand, Handling
<1> QED BY <1>1, <1>2, <1>3 DEF PhotosInv

LEMMA PhotosInit ==
  ASSUME GoodConstants, Init
  PROVE  PhotosInv
<1>1. \A h \in Handlers : call[h].pc \in {"idle", "off"}
  BY DEF Init, IdleCall, OffCall
<1>2. \A h \in Handlers : Handling(call[h])
  BY <1>1 DEF Handling, DocPc
<1>3. \A r \in Records : Photographed(r) => live[r].photo = "inline"
  BY DEF Init, Photographed
<1> QED BY <1>2, <1>3, RecordsInit DEF PhotosInv, PhotosKept, Somewhere

\* With one call at a time a photo is in its document, in the file its row
\* refers to or in the hands of the restoration (offloadPhotos,
\* hydratePhotosFromArchive), unless a death cut that between the two.
THEOREM PhotosSurviveAlways ==
  ASSUME GoodConstants
  PROVE  Spec => []PhotosSurvive
<1>1. Init => PhotosInv
  BY PhotosInit
<1>2. PhotosInv /\ [Next]_vars => PhotosInv'
  BY PhotosStep
<1>3. PhotosInv => PhotosSurvive
  BY DEF PhotosInv, PhotosKept, PhotosSurvive, Photographed, Somewhere, InFile, InHand
<1> QED BY <1>1, <1>2, <1>3, PTL DEF Spec

=============================================================================
