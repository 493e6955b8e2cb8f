---------------------------- MODULE ColdStorage ----------------------------
(***************************************************************************)
(* Old records and their photos on the way to cold storage and back: the   *)
(* archive job, the trimming of the audit log, restoring archived records  *)
(* (DataArchiveService), and the dumps that read and replace whole         *)
(* collections beside them (BackupRestoreService).                         *)
(*                                                                         *)
(* Every record is older than the cutoff.  The job goes through its eight  *)
(* source collections one after the other; here they are one collection,   *)
(* told apart by what matters: the audit logs, which have no photos and    *)
(* are also trimmed by count, and the sources that keep their date as a    *)
(* string (IsoRecords).  What changes a record's other fields is left out, *)
(* and so are the archive_runs rows and app_meta, which are shown and      *)
(* never read back.                                                        *)
(***************************************************************************)
EXTENDS Naturals, FiniteSets, FiniteSetsExt

CONSTANTS
  Records,     \* documents of the source collections
  IsoRecords,  \* those whose source has dateType 'isoString'
  AuditLogs,   \* those of audit_logs
  Handlers,    \* requests and timers under way at once
  BatchSize,   \* DATA_ARCHIVE_BATCH_SIZE
  MaxBackups,  \* bound: backups taken, restored and clearings
  MaxCrashes   \* bound: deaths of the process

VARIABLES
  live,        \* live[r]: the document in its source collection
  archive,     \* archive[r]: its row in archived_records, unique per record
  files,       \* records whose photo file is in the storage directory
  dump,        \* the last backup file an administrator holds
  archiveInProgress,
  call,        \* call[h]: what the handler h remembers between two awaits
  replaced,    \* a dump has been restored or the data cleared
  backups,     \* backups taken, restored and clearings so far
  cut,         \* records whose restoration a crash cut after the unlinking
  crashes

dumps == <<dump, replaced, backups>>
vars == <<live, archive, files, dumps, archiveInProgress, call, cut, crashes>>

\* An archive id need only differ from those somebody still refers to.
Ids == 1..Cardinality(Handlers) + 1
Gone == [photo |-> "gone"]
Live == [photo : {"inline", "ref", "none"}, text : BOOLEAN]
Row == [photo : {"ref", "none"}, owned : BOOLEAN, id : Ids]
Modules == {"archive", "live"}
NoDump == [modules |-> {}]

IdleCall == [pc |-> "idle"]
OffCall == [pc |-> "off"]
Idle(h) == call[h] = IdleCall
At(h, pc) == call[h].pc = pc
Goto(h, c) == call' = [call EXCEPT ![h] = c]
Become(h, pc) == Goto(h, [call[h] EXCEPT !.pc = pc])
Return(h) == Goto(h, IdleCall)

\* A photo is in the document until it is archived.
Init ==
  /\ live = [r \in Records |->
               [photo |-> IF r \in AuditLogs THEN "none" ELSE "inline", text |-> FALSE]]
  /\ archive = [r \in Records |-> Gone]
  /\ files = {} /\ dump = NoDump /\ archiveInProgress = FALSE
  /\ \E off \in {{}} \cup {{h} : h \in Handlers} :
       /\ off # Handlers
       /\ call = [h \in Handlers |-> IF h \in off THEN OffCall ELSE IdleCall]
  /\ replaced = FALSE /\ backups = 0 /\ cut = {} /\ crashes = 0
-----------------------------------------------------------------------------
\* A dump restored from JSON leaves dates as strings, which a query for a Date
\* before the cutoff does not match.
Eligible == {r \in Records : live[r] # Gone /\ (r \in IsoRecords \/ ~live[r].text)}

countEligibleRecords(h) ==
  /\ Idle(h) /\ ~archiveInProgress /\ Eligible # {}
  /\ Goto(h, [pc |-> "start"])
  /\ UNCHANGED <<live, archive, files, dumps, archiveInProgress, cut, crashes>>

runArchiveJob(h) ==
  /\ At(h, "start")
  /\ archiveInProgress' = TRUE
  /\ Goto(h, [pc |-> "find"])
  /\ UNCHANGED <<live, archive, files, dumps, cut, crashes>>

\* The documents of a batch are read at once and archived one by one.
Documents(rs) == [r \in rs |-> live[r]]

findBatch(h) ==
  /\ At(h, "find")
  /\ LET n == Min({BatchSize, Cardinality(Eligible)}) IN
     \E rs \in kSubset(n, Eligible) :
       Goto(h, IF n = 0 THEN [pc |-> "save"]
               ELSE [pc |-> "lookup", job |-> TRUE, docs |-> Documents(rs), full |-> n = BatchSize])
  /\ UNCHANGED <<live, archive, files, dumps, archiveInProgress, cut, crashes>>

archiveOldestAuditLogs(h) ==
  /\ Idle(h)
  /\ \E rs \in SUBSET {r \in AuditLogs : live[r] # Gone} \ {{}} :
       Goto(h, [pc |-> "lookup", job |-> FALSE, docs |-> Documents(rs), full |-> FALSE])
  /\ UNCHANGED <<live, archive, files, dumps, archiveInProgress, cut, crashes>>

\* A batch that was not full was the last; otherwise the loop asks again.
Continue(h, r) ==
  LET c == call[h]  rest == DOMAIN c.docs \ {r} IN
  Goto(h, CASE rest # {} -> [pc |-> "lookup", job |-> c.job, full |-> c.full,
                             docs |-> [q \in rest |-> c.docs[q]]]
            [] rest = {} /\ c.full -> [pc |-> "find"]
            [] rest = {} /\ ~c.full /\ c.job -> [pc |-> "save"]
            [] OTHER -> IdleCall)

With(h, pc, r) ==
  LET c == call[h] IN
  Goto(h, [pc |-> pc, job |-> c.job, docs |-> c.docs, full |-> c.full, r |-> r])

\* A record that is in the archive already stays where it is.
findExisting(h) ==
  /\ At(h, "lookup")
  /\ \E r \in DOMAIN call[h].docs :
       IF archive[r] # Gone THEN Continue(h, r)
       ELSE With(h, IF call[h].docs[r].photo = "inline" THEN "offload" ELSE "create", r)
  /\ UNCHANGED <<live, archive, files, dumps, archiveInProgress, cut, crashes>>

offloadPhotos(h) ==
  /\ At(h, "offload")
  /\ files' = files \cup {call[h].r}
  /\ Become(h, "create")
  /\ UNCHANGED <<live, archive, dumps, archiveInProgress, cut, crashes>>

\* Rows of r that a dump or a handler remembers.
Remembered(r) ==
  LET held(c) == CASE c.pc \in {"findLive", "hydrate", "unlink", "recreate", "forget"} /\ c.r = r -> {c.row}
                   [] c.pc = "readSources" -> {c.archive[r]}
                   [] c.pc \in {"emptyArchive", "fillArchive"} /\ c.fill -> {c.from.archive[r]}
                   [] OTHER -> {}
  IN (UNION {held(call[h]) : h \in Handlers}) \cup (IF dump = NoDump THEN {} ELSE {dump.archive[r]})

newArchiveId(r) == Min(Ids \ {row.id : row \in Remembered(r) \ {Gone}})

\* Mutant: a second row is refused, and the job goes on as if it were its own.
createRowMutant(h) ==
  /\ At(h, "create")
  /\ LET r == call[h].r  photo == call[h].docs[r].photo IN
     archive' = IF archive[r] # Gone THEN archive ELSE [archive EXCEPT ![r] =
       [photo |-> IF photo = "none" THEN "none" ELSE "ref",
        owned |-> photo = "inline", id |-> newArchiveId(r)]]
  /\ Become(h, "delete")
  /\ UNCHANGED <<live, files, dumps, archiveInProgress, cut, crashes>>

\* The unique index refuses a second row of one record and ends the job.
createRow(h) ==
  /\ At(h, "create")
  /\ LET r == call[h].r  photo == call[h].docs[r].photo IN
     IF archive[r] # Gone
     THEN /\ Goto(h, IF call[h].job THEN [pc |-> "save"] ELSE IdleCall)
          /\ UNCHANGED archive
     ELSE /\ archive' = [archive EXCEPT ![r] =
               [photo |-> IF photo = "none" THEN "none" ELSE "ref",
                owned |-> photo = "inline", id |-> newArchiveId(r)]]
          /\ Become(h, "delete")
  /\ UNCHANGED <<live, files, dumps, archiveInProgress, cut, crashes>>

deleteSource(h) ==
  /\ At(h, "delete")
  /\ live' = [live EXCEPT ![call[h].r] = Gone]
  /\ Continue(h, call[h].r)
  /\ UNCHANGED <<archive, files, dumps, archiveInProgress, cut, crashes>>

\* The run is saved as completed or failed, and the flag is taken down.
endArchiveJob(h) ==
  /\ At(h, "save")
  /\ archiveInProgress' = FALSE
  /\ Return(h)
  /\ UNCHANGED <<live, archive, files, dumps, cut, crashes>>
-----------------------------------------------------------------------------
\* restoreRecords for one archive id: the row is read, ...
restoreRecords(h, r) ==
  /\ Idle(h) /\ archive[r] # Gone
  /\ Goto(h, [pc |-> "findLive", r |-> r, row |-> archive[r]])
  /\ UNCHANGED <<live, archive, files, dumps, archiveInProgress, cut, crashes>>

\* ... refused if the record is active, ...
findActive(h) ==
  /\ At(h, "findLive")
  /\ IF live[call[h].r] # Gone THEN Return(h) ELSE Become(h, "hydrate")
  /\ UNCHANGED <<live, archive, files, dumps, archiveInProgress, cut, crashes>>

\* Mutant: the files are removed without having been read.
hydratePhotosMutant(h) ==
  /\ At(h, "hydrate")
  /\ LET c == call[h] IN
     Goto(h, [pc |-> IF c.row.owned THEN "unlink" ELSE "recreate", r |-> c.r, row |-> c.row,
              photo |-> c.row.photo])
  /\ UNCHANGED <<live, archive, files, dumps, archiveInProgress, cut, crashes>>

\* ... its photo read back if the file is there, ...
hydratePhotos(h) ==
  /\ At(h, "hydrate")
  /\ LET c == call[h] IN
     Goto(h, [pc |-> IF c.row.owned THEN "unlink" ELSE "recreate", r |-> c.r, row |-> c.row,
              photo |-> IF c.row.photo = "ref" /\ c.r \in files THEN "inline" ELSE c.row.photo])
  /\ UNCHANGED <<live, archive, files, dumps, archiveInProgress, cut, crashes>>

\* ... and the files removed, before the document is stored.
unlinkPhotos(h) ==
  /\ At(h, "unlink")
  /\ files' = files \ {call[h].r}
  /\ Become(h, "recreate")
  /\ UNCHANGED <<live, archive, dumps, archiveInProgress, cut, crashes>>

recreate(h) ==
  /\ At(h, "recreate")
  /\ LET r == call[h].r IN
     IF live[r] # Gone
     THEN Return(h) /\ UNCHANGED live
     ELSE /\ live' = [live EXCEPT ![r] = [photo |-> call[h].photo, text |-> FALSE]]
          /\ Become(h, "forget")
  /\ UNCHANGED <<archive, files, dumps, archiveInProgress, cut, crashes>>

deleteRow(h) ==
  /\ At(h, "forget")
  /\ LET r == call[h].r IN
     archive' = IF archive[r] # Gone /\ archive[r].id = call[h].row.id
                THEN [archive EXCEPT ![r] = Gone] ELSE archive
  /\ Return(h)
  /\ UNCHANGED <<live, files, dumps, archiveInProgress, cut, crashes>>
-----------------------------------------------------------------------------
Administer == backups < MaxBackups /\ backups' = backups + 1

\* Collections are read in alphabetical order: archived_records is the first.
createBackup(h, modules) ==
  /\ Idle(h) /\ Administer
  /\ Goto(h, [pc |-> "readSources", modules |-> modules, archive |-> archive])
  /\ UNCHANGED <<live, archive, files, dump, replaced, archiveInProgress, cut, crashes>>

readSources(h) ==
  /\ At(h, "readSources")
  /\ dump' = [modules |-> call[h].modules, archive |-> call[h].archive, live |-> live]
  /\ Return(h)
  /\ UNCHANGED <<live, archive, files, archiveInProgress, replaced, backups, cut, crashes>>

\* restoreBackup empties each collection of the file and then fills it;
\* clearAllData empties each and goes on to the next.
restoreBackup(h) ==
  /\ Idle(h) /\ dump # NoDump /\ Administer
  /\ Goto(h, [pc |-> IF "archive" \in dump.modules THEN "emptyArchive" ELSE "emptySources",
              fill |-> TRUE, from |-> dump])
  /\ replaced' = TRUE
  /\ UNCHANGED <<live, archive, files, dump, archiveInProgress, cut, crashes>>

clearAllData(h, modules) ==
  /\ Idle(h) /\ Administer
  /\ Goto(h, [pc |-> IF "archive" \in modules THEN "emptyArchive" ELSE "emptySources",
              fill |-> FALSE, from |-> [modules |-> modules]])
  /\ replaced' = TRUE
  /\ UNCHANGED <<live, archive, files, dump, archiveInProgress, cut, crashes>>

ToSources(h) == IF "live" \in call[h].from.modules THEN Become(h, "emptySources") ELSE Return(h)

emptyArchive(h) ==
  /\ At(h, "emptyArchive")
  /\ archive' = [r \in Records |-> Gone]
  /\ IF call[h].fill THEN Become(h, "fillArchive") ELSE ToSources(h)
  /\ UNCHANGED <<live, files, dumps, archiveInProgress, cut, crashes>>

\* insertMany(ordered: false) stores what collides with nothing; a collision
\* ends the restoration.
Collide(stored, given) == \E r \in Records : stored[r] # Gone /\ given[r] # Gone
Inserted(stored, given) == [r \in Records |-> IF stored[r] = Gone THEN given[r] ELSE stored[r]]

fillArchive(h) ==
  /\ At(h, "fillArchive")
  /\ LET given == call[h].from.archive IN
     /\ archive' = Inserted(archive, given)
     /\ IF Collide(archive, given) THEN Return(h) ELSE ToSources(h)
  /\ UNCHANGED <<live, files, dumps, archiveInProgress, cut, crashes>>

emptySources(h) ==
  /\ At(h, "emptySources")
  /\ live' = [r \in Records |-> Gone]
  /\ IF call[h].fill THEN Become(h, "fillSources") ELSE Return(h)
  /\ UNCHANGED <<archive, files, dumps, archiveInProgress, cut, crashes>>

FromJson(docs) == [r \in Records |-> IF docs[r] = Gone THEN Gone ELSE [docs[r] EXCEPT !.text = TRUE]]

fillSources(h) ==
  /\ At(h, "fillSources")
  /\ live' = Inserted(live, FromJson(call[h].from.live))
  /\ Return(h)
  /\ UNCHANGED <<archive, files, dumps, archiveInProgress, cut, crashes>>
-----------------------------------------------------------------------------
Crash ==
  /\ crashes < MaxCrashes
  /\ crashes' = crashes + 1
  /\ call' = [h \in Handlers |-> IF call[h] = OffCall THEN OffCall ELSE IdleCall]
  /\ archiveInProgress' = FALSE
  /\ cut' = cut \cup {call[h].r : h \in {g \in Handlers : At(g, "recreate")}}
  /\ UNCHANGED <<live, archive, files, dumps>>

Step(h) ==
  \/ countEligibleRecords(h) \/ runArchiveJob(h) \/ findBatch(h) \/ archiveOldestAuditLogs(h)
  \/ findExisting(h) \/ offloadPhotos(h) \/ createRow(h) \/ deleteSource(h) \/ endArchiveJob(h)
  \/ \E r \in Records : restoreRecords(h, r)
  \/ findActive(h) \/ hydratePhotos(h) \/ unlinkPhotos(h) \/ recreate(h) \/ deleteRow(h)
  \/ \E modules \in (SUBSET Modules) \ {{}} : createBackup(h, modules) \/ clearAllData(h, modules)
  \/ readSources(h) \/ restoreBackup(h)
  \/ emptyArchive(h) \/ fillArchive(h) \/ emptySources(h) \/ fillSources(h)

Next == Crash \/ \E h \in Handlers : Step(h)

Spec == Init /\ [][Next]_vars

\* A handler under way is taken up again by the event loop.
FairSpec == Spec /\ \A h \in Handlers : WF_vars(~Idle(h) /\ Step(h))
-----------------------------------------------------------------------------
IsSerial == \A g, h \in Handlers : g # h => OffCall \in {call[g], call[h]}

TypeOK ==
  /\ live \in [Records -> Live \cup {Gone}]
  /\ archive \in [Records -> Row \cup {Gone}]
  /\ files \subseteq Records /\ cut \subseteq Records
  /\ dump.modules \subseteq Modules
  /\ archiveInProgress \in BOOLEAN /\ replaced \in BOOLEAN /\ backups \in 0..MaxBackups
  /\ crashes \in 0..MaxCrashes
  /\ DOMAIN call = Handlers

\* Until a dump replaces the data or an administrator clears it, no record is
\* in neither place: whatever jobs, trims and restorations overlap, two jobs
\* included, and wherever the process dies.
RecordsSurvive ==
  ~replaced => \A r \in Records : live[r] # Gone \/ archive[r] # Gone

\* One call at a time, a photo is in its document, in the file its row refers
\* to or in the hands of a restoration, unless the process died between the
\* removal of the file and the return of the document.
PhotosSurvive ==
  IsSerial /\ ~replaced => \A r \in Records \ (AuditLogs \cup cut) :
    \/ live[r].photo = "inline"
    \/ archive[r].photo = "ref" /\ r \in files
    \/ \E h \in Handlers : /\ call[h].pc \in {"unlink", "recreate"} /\ call[h].r = r
                           /\ call[h].photo = "inline"

\* "finally { this.archiveInProgress = false; }": a job that has started ends.
JobEnds == \A h \in Handlers : At(h, "find") ~> Idle(h)
=============================================================================
