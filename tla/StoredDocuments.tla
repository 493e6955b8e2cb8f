--------------------------- MODULE StoredDocuments ---------------------------
(***************************************************************************)
(* The scanned papers of renewals, guarantees and employees: a row in the  *)
(* database for each, and its bytes at the cloud store, or in the row when *)
(* the cloud does not take them (renewal-documents.service.ts,             *)
(* bg-dd-documents.service.ts, employee-documents.service.ts,              *)
(* media-storage.service.ts).  A copy on the local disk comes and goes     *)
(* with the bytes in the row and is left out.                              *)
(***************************************************************************)
EXTENDS Naturals, MongoDocument

CONSTANTS
    Owners,         \* renewals, guarantees, or employees
    Docs,           \* ids of the documents (bound)
    Handlers,       \* requests in progress
    RowFirst,       \* employees: a deletion removes the row before the file
    MaxFiles,       \* bound: files ever uploaded
    MaxCrashes      \* bound: process restarts

VARIABLES
    owner,          \* the owners that exist
    doc,            \* per id: the row, or NoDoc
    cloud,          \* files the cloud keeps
    sent,           \* uploads so far, which number the files
    cut,            \* history: documents a crash has left without their bytes
    call,
    crashes

vars == <<owner, doc, cloud, sent, cut, call, crashes>>

\* A row has the id of a file at the cloud, or holds a file itself; else 0.
Row == [owner: Owners, file: 0..MaxFiles, inline: 0..MaxFiles]
NoDoc == [file |-> 0]
IdleCall == [pc |-> "idle"]
Goto(h, c) == call' = [call EXCEPT ![h] = c]
At(h, pc) == call[h].pc = pc
Idle(h) == At(h, "idle")

Stored == {d \in Docs : doc[d] # NoDoc}
Of(o) == {d \in Stored : doc[d].owner = o}

\* What becomes of an upload: a file at the cloud, or bytes for the row.
Uploads(file) == {[file |-> file, inline |-> 0], [file |-> 0, inline |-> file]}

readBuffer(d) == doc[d].file \in cloud \/ doc[d].inline # 0

\* The owner is looked up before anything is uploaded.
createMany(h, o, n) ==
    /\ Idle(h)
    /\ o \in owner
    /\ Goto(h, [pc |-> "create", o |-> o, left |-> n])
    /\ UNCHANGED <<owner, doc, cloud, sent, cut, crashes>>

\* The upload; its answer `u` goes into the row that the call then writes.
upload(u) ==
    /\ sent < MaxFiles
    /\ cloud' = cloud \cup ({u.file} \ {0})
    /\ sent' = sent + 1
    /\ UNCHANGED <<owner, doc, cut, crashes>>

create(h) ==
    /\ At(h, "create")
    /\ \E u \in Uploads(sent + 1) :
         /\ upload(u)
         /\ Goto(h, [pc |-> "insert", o |-> call[h].o, left |-> call[h].left, new |-> u])

\* By now the owner may be gone.
insert(h) ==
    /\ At(h, "insert")
    /\ LET c == call[h] IN
       /\ \E d \in Docs \ Stored : doc' = [doc EXCEPT ![d] = [owner |-> c.o, file |-> c.new.file, inline |-> c.new.inline]]
       /\ Goto(h, IF c.left = 1 THEN IdleCall ELSE [pc |-> "create", o |-> c.o, left |-> c.left - 1])
    /\ UNCHANGED <<owner, cloud, sent, cut, crashes>>

-----------------------------------------------------------------------------
replace(h, d) ==
    /\ Idle(h)
    /\ d \in Stored
    /\ Goto(h, [pc |-> "replace", d |-> d, seen |-> doc[d]])
    /\ UNCHANGED <<owner, doc, cloud, sent, cut, crashes>>

uploadReplacement(h) ==
    /\ At(h, "replace")
    /\ \E u \in Uploads(sent + 1) :
         /\ upload(u)
         /\ Goto(h, [pc |-> "swap", d |-> call[h].d, seen |-> call[h].seen, new |-> u])

\* A deletion the cloud refuses is only logged.
deleteCloudFile(file) == cloud' \in {cloud, cloud \ {file}}

\* The old file goes once the cloud has a new one.
dropReplaced(h) ==
    /\ At(h, "swap")
    /\ IF call[h].new.file # 0 THEN deleteCloudFile(call[h].seen.file) ELSE UNCHANGED cloud
    /\ Goto(h, [call[h] EXCEPT !.pc = "save"])
    /\ UNCHANGED <<owner, doc, sent, cut, crashes>>

\* Mutant: the row keeps the id of the file it had.
saveReplacedMutant(h) ==
    /\ At(h, "save")
    /\ UNCHANGED <<doc, cut>>
    /\ Goto(h, IdleCall)
    /\ UNCHANGED <<owner, cloud, sent, crashes>>

saveReplaced(h) ==
    /\ At(h, "save")
    /\ LET c == call[h] IN
       IF c.d \in Stored
       THEN /\ doc' = [doc EXCEPT ![c.d] =
                   Saved(@, c.seen, [c.seen EXCEPT !.file = c.new.file, !.inline = c.new.inline])]
            /\ cut' = cut \ {c.d}
       ELSE UNCHANGED <<doc, cut>>
    /\ Goto(h, IdleCall)
    /\ UNCHANGED <<owner, cloud, sent, crashes>>

-----------------------------------------------------------------------------
(* Deleting one document, or all of an owner's before the owner itself.    *)
(* Which comes first, the rows or the files, depends on the service.       *)

\* `rows` are the documents as they were read, `gone` whether their rows are.
delete(h, d) ==
    /\ Idle(h)
    /\ d \in Stored
    /\ Goto(h, [pc |-> "erase", rows |-> {d}, files |-> {doc[d].file} \ {0}, o |-> "none", gone |-> FALSE])
    /\ UNCHANGED <<owner, doc, cloud, sent, cut, crashes>>

deleteAllFor(h, o) ==
    /\ Idle(h)
    /\ o \in owner
    /\ Goto(h, [pc |-> "erase", rows |-> Of(o), files |-> {doc[d].file : d \in Of(o)} \ {0},
                o |-> o, gone |-> FALSE])
    /\ UNCHANGED <<owner, doc, cloud, sent, cut, crashes>>

\* deleteOne, or deleteMany, which takes the owner's later documents too.
deleteRows(h) ==
    /\ At(h, "erase") /\ ~call[h].gone
    /\ RowFirst \/ call[h].files = {}
    /\ LET gone == call[h].rows \cup IF call[h].o = "none" THEN {} ELSE Of(call[h].o) IN
       /\ doc' = [d \in Docs |-> IF d \in gone THEN NoDoc ELSE doc[d]]
       /\ cut' = cut \ gone
    /\ Goto(h, [call[h] EXCEPT !.gone = TRUE])
    /\ UNCHANGED <<owner, cloud, sent, crashes>>

deleteFile(h, file) ==
    /\ At(h, "erase") /\ file \in call[h].files
    /\ RowFirst => call[h].gone
    /\ deleteCloudFile(file)
    /\ Goto(h, [call[h] EXCEPT !.files = @ \ {file}])
    /\ UNCHANGED <<owner, doc, sent, cut, crashes>>

deleteOwner(h) ==
    /\ At(h, "erase") /\ call[h].gone /\ call[h].files = {}
    /\ owner' = owner \ {call[h].o}
    /\ Goto(h, IdleCall)
    /\ UNCHANGED <<doc, cloud, sent, cut, crashes>>

-----------------------------------------------------------------------------
Crash ==
    /\ crashes < MaxCrashes
    /\ crashes' = crashes + 1
    /\ cut' = cut \cup {d \in Stored : ~readBuffer(d)}
    /\ call' = [h \in Handlers |-> IdleCall]
    /\ UNCHANGED <<owner, doc, cloud, sent>>

Init ==
    /\ owner = Owners
    /\ doc = [d \in Docs |-> NoDoc]
    /\ cloud = {} /\ sent = 0 /\ cut = {} /\ crashes = 0
    /\ call = [h \in Handlers |-> IdleCall]

Next ==
    \/ \E h \in Handlers :
        \/ \E o \in Owners : deleteAllFor(h, o) \/ \E n \in {1, 2} : createMany(h, o, n)
        \/ \E d \in Docs : replace(h, d) \/ delete(h, d)
        \/ create(h) \/ insert(h)
        \/ uploadReplacement(h) \/ dropReplaced(h) \/ saveReplaced(h)
        \/ deleteRows(h) \/ deleteOwner(h)
        \/ \E file \in 1..MaxFiles : deleteFile(h, file)
    \/ Crash

Spec == Init /\ [][Next]_vars
-----------------------------------------------------------------------------
TypeOK ==
    /\ owner \subseteq Owners
    /\ \A d \in Stored : doc[d] \in Row
    /\ cloud \subseteq 1..sent /\ sent \in 0..MaxFiles
    /\ cut \subseteq Stored

\* A call that is about to give the row its new bytes, or to remove the row.
Mends(c, d) ==
    \/ c.pc = "save" /\ c.d = d
    \/ c.pc = "erase" /\ ~c.gone /\ d \in c.rows

\* However replacements and deletions of one document overlap, each deleting
\* the file it has read: a document that is kept can be read, except while the
\* call that took its file is about to save the row or remove it.  A crash at
\* that point is excepted too; nothing repairs it.
ContentSurvives ==
    \A d \in Stored \ cut : readBuffer(d) \/ \E h \in Handlers : Mends(call[h], d)
=============================================================================
