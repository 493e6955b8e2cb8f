---------------------------- MODULE SharedFiles ----------------------------
(***************************************************************************)
(* Files and folders that employees share through their desktop agents     *)
(* (agent-workspace.service.ts, media-storage.service.ts).  A file is an   *)
(* image at the media service, or in the row itself when that service      *)
(* fails; a folder of the local network is a row that names its device.    *)
(***************************************************************************)
EXTENDS Integers, FiniteSets

CONSTANTS
    Handlers,       \* requests in progress
    Owner,          \* file -> the employee who uploads it, once
    DeviceOf,       \* device -> its employee
    MaxFiles,       \* MAX_FILES_PER_EMPLOYEE
    NoDevice

VARIABLES
    file,           \* per file: its row
    stored,         \* files whose content the media service holds
    folder,         \* the row of one folder: its device, or NoDevice
    uploaded,       \* history: files whose upload was answered
    deleted,        \* history: files whose deletion has begun
    told,           \* history: devices answered that the folder is theirs, until they delete it
    raced,          \* history: those answered so beside a deletion of the folder
    call

vars == <<file, stored, folder, uploaded, deleted, told, raced, call>>

Files == DOMAIN Owner
Desktops == DOMAIN DeviceOf
AgentSharedFile == {"none", "cloud", "inline"}
AgentLanSharedFolder == Desktops \cup {NoDevice}

IdleCall == [pc |-> "idle"]
Goto(h, c) == call' = [call EXCEPT ![h] = c]
Onto(h, pc) == Goto(h, [call[h] EXCEPT !.pc = pc])
At(h, pc) == call[h].pc = pc
Idle(h) == At(h, "idle")

TypeOK ==
    /\ file \in [Files -> AgentSharedFile]
    /\ stored \subseteq Files
    /\ folder \in AgentLanSharedFolder
    /\ uploaded \subseteq Files
    /\ deleted \subseteq Files
    /\ told \subseteq Desktops
    /\ raced \subseteq Desktops

Init ==
    /\ file = [f \in Files |-> "none"]
    /\ stored = {}
    /\ folder = NoDevice
    /\ uploaded = {}
    /\ deleted = {}
    /\ told = {}
    /\ raced = {}
    /\ call = [h \in Handlers |-> IdleCall]

files == <<file, stored, uploaded, deleted>>
folders == <<folder, told, raced>>

-----------------------------------------------------------------------------
FilesOf(e) == {f \in Files : Owner[f] = e /\ file[f] # "none"}
canDeleteSharedFile(f, e) == Owner[f] = e
Handled(f) == \E h \in Handlers : ~Idle(h) /\ call[h].f = f

\* The folder's limit is tested before the upload, which takes its time.
uploadSharedFile(h, f) ==
    /\ Idle(h)
    /\ f \notin uploaded \cup stored \cup deleted
    /\ file[f] = "none"
    /\ ~Handled(f)
    /\ Cardinality(FilesOf(Owner[f])) < MaxFiles
    /\ Goto(h, [pc |-> "upload", f |-> f])
    /\ UNCHANGED <<files, folders>>

\* A media service that refuses leaves the bytes to the row.
upload(h) ==
    /\ At(h, "upload")
    /\ \/ /\ stored' = stored \cup {call[h].f}
          /\ Goto(h, [pc |-> "createFile", f |-> call[h].f, as |-> "cloud"])
       \/ /\ Goto(h, [pc |-> "createFile", f |-> call[h].f, as |-> "inline"])
          /\ UNCHANGED stored
    /\ UNCHANGED <<file, uploaded, deleted, folders>>

createFile(h) ==
    /\ At(h, "createFile")
    /\ file' = [file EXCEPT ![call[h].f] = call[h].as]
    /\ Onto(h, "nameOwner")
    /\ UNCHANGED <<stored, uploaded, deleted, folders>>

\* The owner's name is saved into the row, which may be gone: that is an error.
nameOwner(h) ==
    /\ At(h, "nameOwner")
    /\ uploaded' = IF file[call[h].f] = "none" THEN uploaded ELSE uploaded \cup {call[h].f}
    /\ Goto(h, IdleCall)
    /\ UNCHANGED <<file, stored, deleted, folders>>

\* The owner deletes: content first, then the row.
deleteSharedFile(h, f, e) ==
    /\ Idle(h)
    /\ file[f] # "none"
    /\ canDeleteSharedFile(f, e)
    /\ deleted' = deleted \cup {f}
    /\ Goto(h, [pc |-> "deleteCloudFile", f |-> f])
    /\ UNCHANGED <<file, stored, uploaded, folders>>

deleteCloudFile(h) ==
    /\ At(h, "deleteCloudFile")
    /\ stored' = stored \ {call[h].f}
    /\ Onto(h, "deleteFile")
    /\ UNCHANGED <<file, uploaded, deleted, folders>>

deleteFile(h) ==
    /\ At(h, "deleteFile")
    /\ file' = [file EXCEPT ![call[h].f] = "none"]
    /\ Goto(h, IdleCall)
    /\ UNCHANGED <<stored, uploaded, deleted, folders>>

-----------------------------------------------------------------------------
\* A deletion of the folder is under way.
Deleting == \E h \in Handlers : At(h, "deleteFolder")

\* Device d is answered that the folder is its own, beside a deletion or not.
Answered(d, beside) ==
    /\ told' = told \cup {d}
    /\ raced' = IF beside THEN raced \cup {d} ELSE raced \ {d}

\* A folder of the local network belongs to the device that registers it first.
registerLanSharedFolder(h, d) ==
    /\ Idle(h)
    /\ folder \in {NoDevice, d}
    /\ Goto(h, [pc |-> IF folder = d THEN "saveFolder" ELSE "createFolder", f |-> NoDevice, d |-> d])
    /\ UNCHANGED <<files, folders>>

\* Mutant: written by its id, whoever has registered it meanwhile.
createFolderMutant(h) ==
    /\ At(h, "createFolder")
    /\ folder' = call[h].d
    /\ Answered(call[h].d, Deleting)
    /\ Goto(h, IdleCall)
    /\ UNCHANGED <<files>>
\* The unique index refuses a second row.
createFolder(h) ==
    /\ At(h, "createFolder")
    /\ IF folder = NoDevice
       THEN folder' = call[h].d /\ Answered(call[h].d, Deleting)
       ELSE UNCHANGED folders
    /\ Goto(h, IdleCall)
    /\ UNCHANGED <<files>>

\* A label or key that is new is saved, which fails when the row has gone; when
\* both are as they were nothing is written, and the answer is the same.
saveFolder(h) ==
    /\ At(h, "saveFolder")
    /\ \E changed \in BOOLEAN :
         IF changed /\ folder # call[h].d
         THEN UNCHANGED <<told, raced>>
         ELSE Answered(call[h].d, Deleting \/ folder # call[h].d)
    /\ Goto(h, IdleCall)
    /\ UNCHANGED <<files, folder>>

deleteLanSharedFolder(h, d) ==
    /\ Idle(h)
    /\ folder = d
    /\ told' = told \ {d}
    /\ Goto(h, [pc |-> "deleteFolder", f |-> NoDevice])
    /\ UNCHANGED <<files, folder, raced>>

\* deleteOne({ id }): the row of that id, whichever device has it by now.
deleteFolder(h) ==
    /\ At(h, "deleteFolder")
    /\ folder' = NoDevice
    /\ Goto(h, IdleCall)
    /\ UNCHANGED <<files, told, raced>>

Crash ==
    /\ call' = [h \in Handlers |-> IdleCall]
    /\ UNCHANGED <<files, folders>>

Handle(h) ==
    \/ \E f \in Files : uploadSharedFile(h, f)
    \/ upload(h) \/ createFile(h) \/ nameOwner(h)
    \/ \E f \in Files, d \in Desktops : deleteSharedFile(h, f, DeviceOf[d])
    \/ deleteCloudFile(h) \/ deleteFile(h)
    \/ \E d \in Desktops : registerLanSharedFolder(h, d) \/ deleteLanSharedFolder(h, d)
    \/ createFolder(h) \/ saveFolder(h) \/ deleteFolder(h)

Next == (\E h \in Handlers : Handle(h)) \/ Crash

Spec == Init /\ [][Next]_vars

-----------------------------------------------------------------------------
\* A file whose upload was answered can be downloaded until its owner begins to
\* delete it (uploadSharedFile, deleteSharedFile), and a folder stays with the
\* device that was told it is registered until that device deletes it
\* (registerLanSharedFolder, deleteLanSharedFolder), through any overlap and
\* crash; left out is a device told so while a deletion of the folder was under
\* way (`raced`), for that deletion takes the row of the id it read, the new one
\* too.  A folder of files outgrows its limit only by the uploads that were
\* under way when the limit was tested.
AnsweredIsStored ==
    /\ \A f \in uploaded \ deleted : file[f] = "inline" \/ (file[f] = "cloud" /\ f \in stored)
    /\ \A d \in told \ raced : folder = d
    /\ \A f \in Files :
        Cardinality(FilesOf(Owner[f])) < MaxFiles + Cardinality(Handlers)
=============================================================================
