-------------------------- MODULE ComponentProofs --------------------------
(***************************************************************************)
(* Proofs about smaller components, each for every value of its constants. *)
(* They are instances under a name of their own, so that each keeps its    *)
(* Init, Next and Spec; no theorem speaks of two of them, and a name       *)
(* declared here (call, Handlers, ...) serves each in its turn: files that *)
(* employees share (SharedFiles), what is seen of a supervisor's presence  *)
(* (SupervisorActivity), what monitoring agents upload and how long it is  *)
(* kept (MonitorLogs), the map pins of schools (SchoolPins), the tasks     *)
(* issued each month (AgentTasks) and the days that were worked            *)
(* (Attendance).                                                           *)
(***************************************************************************)
EXTENDS Integers, Sequences, FiniteSets, FiniteSetTheorems, WellFoundedInduction, TLAPS

CONSTANTS
  Handlers, MaxCrashes,
  Owner, DeviceOf, MaxFiles, NoDevice,    \* of SharedFiles
  me,                                     \* of SupervisorActivity and Attendance: the one request at a time
  Tokens, Online, LastTime, MaxSpans,     \* of SupervisorActivity
  Batches, Shots, LastDay, MaxUploads, MaxCounts,     \* of MonitorLogs
  Employees, Templates, Tasks, Months, IssueDays, Lines, None,     \* of AgentTasks
  Schools, Places, InDistrict, InBlock, Named, NoPin,      \* of SchoolPins
  First, Last, Windows                    \* of Attendance, with Employees, Places and me
VARIABLES call, crashes,
          file, stored, folder, uploaded, deleted, told, raced,
          now, token, span, seen,
          day, keep, alarmed, row, keyCount, alert, shot, image, uploads,
          answered, excused, silenced,
          today, employed, template, task, steady, issued, overlapped,
          school, origin, villageCache, late,
          standing, fences, cell, synced, worked, corrected

Shared == INSTANCE SharedFiles
Activity == INSTANCE SupervisorActivity
Logs == INSTANCE MonitorLogs
Todo == INSTANCE AgentTasks
Pins == INSTANCE SchoolPins
Grid == INSTANCE Attendance

\* A set of numbers that is not empty has a least one.
LEMMA SmallestOf ==
  ASSUME NEW T, T \subseteq Nat, T # {}
  PROVE  \E x \in T : \A y \in T : x <= y
<1> DEFINE R == OpToRel(<, Nat)
<1>1. IsWellFoundedOn(R, Nat)
  BY NatLessThanWellFounded
<1>2. ASSUME NEW x \in Nat, NEW y \in Nat, <<y, x>> \notin R PROVE x <= y
  BY <1>2 DEF OpToRel
<1> HIDE DEF R
<1>3. PICK x \in T : \A y \in T : <<y, x>> \notin R
  BY <1>1, WFMin
<1>4. \A y \in T : x <= y
  BY <1>2, <1>3
<1> QED BY <1>4

-----------------------------------------------------------------------------
(* SharedFiles: what a call in progress knows, whoever races.                *)

FileCall ==
  {Shared!IdleCall}
    \cup [pc: {"upload", "deleteCloudFile", "deleteFile"}, f: Shared!Files]
    \cup [pc: {"createFile", "nameOwner"}, f: Shared!Files, as: {"cloud", "inline"}]
    \cup [pc: {"saveFolder", "createFolder"}, f: {NoDevice}, d: Shared!Desktops]
    \cup [pc: {"deleteFolder"}, f: {NoDevice}]

\* A row about to say that the media service has the bytes is right, unless the
\* owner has begun to delete the file; content is only ever removed for that.
FileKnown(c) ==
  /\ c.pc = "createFile" /\ c.as = "cloud" => c.f \in stored \cup deleted
  /\ c.pc \in {"deleteCloudFile", "deleteFile"} => c.f \in deleted

Kept(f) ==
  /\ f \in uploaded => file[f] # "none"
  /\ file[f] = "cloud" => f \in stored

\* The calls that have passed the test of the limit and have no row yet.
Uploading(e) == {h \in Handlers : call[h].pc \in {"upload", "createFile"} /\ Owner[call[h].f] = e}
Room(e) ==
  /\ IsFiniteSet(Shared!FilesOf(e))
  /\ Cardinality(Shared!FilesOf(e)) + Cardinality(Uploading(e)) < MaxFiles + Cardinality(Handlers)

\* A device told so has the folder, and none is while the folder is deleted.
FolderKept ==
  /\ \A d \in told \ raced : folder = d
  /\ Shared!Deleting => told \ raced = {}

FilesInv ==
  /\ Shared!TypeOK
  /\ call \in [Handlers -> FileCall]
  /\ \A h \in Handlers : FileKnown(call[h])
  /\ \A f \in Shared!Files \ deleted : Kept(f)
  /\ FolderKept
  /\ \A f \in Shared!Files : Room(Owner[f])

SharedConstants ==
  IsFiniteSet(Handlers) /\ MaxFiles \in Nat \ {0} /\ NoDevice \notin Shared!Desktops

LEMMA SameCardinality == ASSUME NEW S PROVE Shared!Cardinality(S) = Cardinality(S)
BY DEF Shared!Cardinality, Cardinality

LEMMA FileShapes ==
  ASSUME NEW c \in FileCall
  PROVE  /\ c.pc = "idle" => c = Shared!IdleCall
         /\ c.pc \in {"upload", "createFile", "nameOwner", "deleteCloudFile", "deleteFile"} =>
              c.f \in Shared!Files
         /\ c.pc \in {"upload", "deleteCloudFile", "deleteFile"} => c = [pc |-> c.pc, f |-> c.f]
         /\ c.pc \in {"createFile", "nameOwner"} =>
              c.as \in {"cloud", "inline"} /\ c = [pc |-> c.pc, f |-> c.f, as |-> c.as]
         /\ c.pc \in {"saveFolder", "createFolder"} => c.d \in Shared!Desktops
BY DEF FileCall, Shared!IdleCall

LEMMA FilesFinite ==
  ASSUME SharedConstants, NEW e
  PROVE  /\ IsFiniteSet(Uploading(e)) /\ Cardinality(Uploading(e)) \in Nat
         /\ Cardinality(Uploading(e)) <= Cardinality(Handlers) /\ Cardinality(Handlers) \in Nat
<1>1. Uploading(e) \subseteq Handlers
  BY DEF Uploading
<1> QED BY <1>1, FS_Subset, FS_CardinalityType DEF SharedConstants

LEMMA FewerKeepRoom ==
  ASSUME SharedConstants, NEW e, Room(e),
         Shared!FilesOf(e)' \subseteq Shared!FilesOf(e), Uploading(e)' \subseteq Uploading(e)
  PROVE  Room(e)'
<1>1. IsFiniteSet(Shared!FilesOf(e)') /\ Cardinality(Shared!FilesOf(e)') <= Cardinality(Shared!FilesOf(e))
  BY FS_Subset DEF Room
<1>2. Cardinality(Uploading(e)') <= Cardinality(Uploading(e))
  BY FS_Subset, FilesFinite
<1>3. IsFiniteSet(Uploading(e)')
  BY FS_Subset, FilesFinite
<1>4. /\ Cardinality(Shared!FilesOf(e)') \in Nat /\ Cardinality(Shared!FilesOf(e)) \in Nat
      /\ Cardinality(Uploading(e)') \in Nat /\ Cardinality(Uploading(e)) \in Nat
      /\ Cardinality(Handlers) \in Nat /\ MaxFiles \in Nat
  BY <1>1, <1>3, FS_CardinalityType, FilesFinite DEF Room, SharedConstants
<1>5. Cardinality(Shared!FilesOf(e)') + Cardinality(Uploading(e)') < MaxFiles + Cardinality(Handlers)
  BY <1>1, <1>2, <1>4 DEF Room
<1> QED BY <1>1, <1>5 DEF Room

\* Calls know what they knew while deletions begun are remembered and content
\* is removed for them only.
LEMMA FileCalls ==
  ASSUME FilesInv, NEW h \in Handlers, NEW d \in FileCall, Shared!Goto(h, d), FileKnown(d)',
         deleted \subseteq deleted', stored \cup deleted \subseteq stored' \cup deleted'
  PROVE  /\ call' \in [Handlers -> FileCall] /\ call'[h] = d
         /\ \A g \in Handlers : g # h => call'[g] = call[g]
         /\ \A g \in Handlers : FileKnown(call[g])'
<1>1. /\ call' \in [Handlers -> FileCall] /\ call'[h] = d
      /\ \A g \in Handlers : g # h => call'[g] = call[g]
  BY DEF FilesInv, Shared!Goto
<1>2. ASSUME NEW g \in Handlers PROVE FileKnown(call[g])'
  <2>1. CASE g = h
    BY <1>1, <2>1 DEF FileKnown
  <2>2. CASE g # h
    <3>1. call'[g] = call[g] /\ FileKnown(call[g])
      BY <1>1, <2>2 DEF FilesInv
    <3> QED BY <3>1 DEF FileKnown
  <2> QED BY <2>1, <2>2
<1> QED BY <1>1, <1>2

\* A step that neither adds rows nor begins an upload leaves the room there was.
LEMMA CallsEndUploads ==
  ASSUME NEW h \in Handlers, NEW d, call'[h] = d,
         \/ d.pc \notin {"upload", "createFile"}
         \/ call[h].pc \in {"upload", "createFile"} /\ d.f = call[h].f,
         \A g \in Handlers : g # h => call'[g] = call[g], NEW e
  PROVE  Uploading(e)' \subseteq Uploading(e)
BY DEF Uploading

LEMMA RowsStay ==
  ASSUME NEW e, \A f \in Shared!Files : file'[f] # "none" => file[f] # "none"
  PROVE  Shared!FilesOf(e)' \subseteq Shared!FilesOf(e)
BY DEF Shared!FilesOf

\* A row takes the place of the upload it ends.
LEMMA RowTakesPlace ==
  ASSUME SharedConstants, NEW e, NEW f, NEW h, Room(e), h \in Uploading(e),
         Shared!FilesOf(e)' \subseteq Shared!FilesOf(e) \cup {f},
         Uploading(e)' \subseteq Uploading(e), h \notin Uploading(e)'
  PROVE  Room(e)'
<1>1. /\ IsFiniteSet(Shared!FilesOf(e) \cup {f})
      /\ Cardinality(Shared!FilesOf(e) \cup {f}) <= Cardinality(Shared!FilesOf(e)) + 1
      /\ Cardinality(Shared!FilesOf(e)) \in Nat
  <2>1. PICK rows : rows = Shared!FilesOf(e)
    OBVIOUS
  <2>2. IsFiniteSet(rows) /\ Cardinality(rows) \in Nat
    BY <2>1, FS_CardinalityType DEF Room
  <2>3. /\ IsFiniteSet(rows \cup {f})
        /\ Cardinality(rows \cup {f}) = IF f \in rows THEN Cardinality(rows) ELSE Cardinality(rows) + 1
    BY <2>2, FS_AddElement
  <2> QED BY <2>1, <2>2, <2>3
<1>2. /\ IsFiniteSet(Uploading(e) \ {h})
      /\ Cardinality(Uploading(e) \ {h}) = Cardinality(Uploading(e)) - 1
  BY FS_RemoveElement, FilesFinite
<1>3. /\ IsFiniteSet(Shared!FilesOf(e)')
      /\ Cardinality(Shared!FilesOf(e)') <= Cardinality(Shared!FilesOf(e) \cup {f})
  BY <1>1, FS_Subset
<1>4. /\ IsFiniteSet(Uploading(e)')
      /\ Cardinality(Uploading(e)') <= Cardinality(Uploading(e) \ {h})
  <2>1. Uploading(e)' \subseteq Uploading(e) \ {h}
    OBVIOUS
  <2> QED BY <1>2, <2>1, FS_Subset
<1>5. /\ Cardinality(Shared!FilesOf(e)') \in Nat /\ Cardinality(Uploading(e)') \in Nat
      /\ Cardinality(Shared!FilesOf(e) \cup {f}) \in Nat /\ Cardinality(Uploading(e) \ {h}) \in Nat
      /\ Cardinality(Uploading(e)) \in Nat /\ Cardinality(Handlers) \in Nat /\ MaxFiles \in Nat
  BY <1>1, <1>2, <1>3, <1>4, FS_CardinalityType, FilesFinite DEF SharedConstants
<1>6. Cardinality(Shared!FilesOf(e)') + Cardinality(Uploading(e)') < MaxFiles + Cardinality(Handlers)
  BY <1>1, <1>2, <1>3, <1>4, <1>5 DEF Room
<1> QED BY <1>3, <1>6 DEF Room

\* No call begins to delete the folder but deleteLanSharedFolder.
LEMMA NoMoreDeleting ==
  ASSUME FilesInv, NEW h \in Handlers, NEW d \in FileCall, Shared!Goto(h, d), d.pc # "deleteFolder"
  PROVE  Shared!Deleting' => Shared!Deleting
<1>1. ASSUME NEW g \in Handlers, call'[g].pc = "deleteFolder" PROVE call[g].pc = "deleteFolder"
  BY <1>1 DEF FilesInv, Shared!Goto
<1> QED BY <1>1 DEF Shared!Deleting, Shared!At

\* A device answered while the folder is its own has it, unless it is deleted.
LEMMA AnsweredKeeps ==
  ASSUME FilesInv, NEW x, NEW beside \in BOOLEAN, Shared!Answered(x, beside),
         Shared!Deleting => beside, Shared!Deleting' => Shared!Deleting,
         \/ folder' = folder
         \/ told \ raced = {},
         beside \/ folder' = x
  PROVE  FolderKept'
<1>1. told' \ raced' \subseteq (told \ raced) \cup (IF beside THEN {} ELSE {x})
  BY DEF Shared!Answered
<1>2. \A d \in told' \ raced' : folder' = d
  BY <1>1 DEF FilesInv, FolderKept
<1>3. Shared!Deleting' => told' \ raced' = {}
  BY <1>1 DEF FilesInv, FolderKept
<1> QED BY <1>2, <1>3 DEF FolderKept

LEMMA FileStep ==
  ASSUME FilesInv, SharedConstants, NEW h \in Handlers, Shared!Handle(h)
  PROVE  FilesInv'
<1>1. PICK c : c = call[h]
  OBVIOUS
<1>2. c \in FileCall /\ FileKnown(c) /\ Shared!TypeOK
  BY <1>1 DEF FilesInv
\* Calls that add no row and begin no upload.
<1>3. ASSUME NEW d \in FileCall, Shared!Goto(h, d), FileKnown(d)',
             d.pc \notin {"upload", "createFile"} \/ (c.pc = "upload" /\ d.f = c.f),
             deleted \subseteq deleted', stored \cup deleted \subseteq stored' \cup deleted',
             Shared!TypeOK',
             \A f \in Shared!Files : file'[f] # "none" => file[f] # "none",
             \A f \in Shared!Files \ deleted' : Kept(f)',
             FolderKept'
      PROVE  FilesInv'
  <2>1. /\ call' \in [Handlers -> FileCall] /\ call'[h] = d
        /\ \A g \in Handlers : g # h => call'[g] = call[g]
        /\ \A g \in Handlers : FileKnown(call[g])'
    BY <1>3, FileCalls
  <2>2. ASSUME NEW f \in Shared!Files PROVE Room(Owner[f])'
    <3>1. PICK e : e = Owner[f]
      OBVIOUS
    <3>2. Room(e)
      BY <3>1 DEF FilesInv
    <3>3. Room(e)'
      <4>1. Uploading(e)' \subseteq Uploading(e)
        BY <1>1, <1>3, <2>1, CallsEndUploads
      <4> QED BY <1>3, <3>2, <4>1, RowsStay, FewerKeepRoom
    <3> QED BY <3>1, <3>3 DEF Room, Shared!FilesOf, Uploading
  <2> QED BY <1>3, <2>1, <2>2 DEF FilesInv
<1>4. Shared!IdleCall \in FileCall /\ FileKnown(Shared!IdleCall)' /\ Shared!IdleCall.pc = "idle"
  BY DEF FileCall, FileKnown, Shared!IdleCall
<1>5. ASSUME UNCHANGED <<file, stored, uploaded, deleted>>
      PROVE  \A f \in Shared!Files \ deleted' : Kept(f)'
  BY <1>5 DEF FilesInv, Kept
<1>6. ASSUME NEW d \in FileCall, Shared!Goto(h, d), d.pc # "deleteFolder", UNCHANGED <<folder, told, raced>>
      PROVE  FolderKept'
  <2>1. Shared!Deleting' => Shared!Deleting
    BY <1>6, NoMoreDeleting
  <2> QED BY <1>6, <2>1 DEF FilesInv, FolderKept
<1>7. ASSUME NEW f \in Shared!Files, Shared!uploadSharedFile(h, f) PROVE FilesInv'
  <2>1. PICK d, e : d = [pc |-> "upload", f |-> f] /\ e = Owner[f]
    OBVIOUS
  <2>2. UNCHANGED <<file, stored, uploaded, deleted, folder, told, raced>> /\ Shared!Goto(h, d)
        /\ Cardinality(Shared!FilesOf(e)) < MaxFiles
    <3>1. UNCHANGED <<file, stored, uploaded, deleted, folder, told, raced>>
      BY <1>7 DEF Shared!uploadSharedFile, Shared!files, Shared!folders
    <3>2. Cardinality(Shared!FilesOf(Owner[f])) < MaxFiles
      BY <1>7, SameCardinality DEF Shared!uploadSharedFile
    <3>3. Shared!Goto(h, [pc |-> "upload", f |-> f])
      BY <1>7 DEF Shared!uploadSharedFile
    <3> QED BY <2>1, <3>1, <3>2, <3>3
  <2>3. d \in FileCall /\ FileKnown(d)' /\ d.pc = "upload" /\ d.f = f
    BY <2>1 DEF FileCall, FileKnown
  <2>4. /\ call' \in [Handlers -> FileCall] /\ call'[h] = d
        /\ \A g \in Handlers : g # h => call'[g] = call[g]
        /\ \A g \in Handlers : FileKnown(call[g])'
    BY <2>2, <2>3, FileCalls
  <2>5. ASSUME NEW k \in Shared!Files PROVE Room(Owner[k])'
    <3>1. PICK o : o = Owner[k]
      OBVIOUS
    <3>2. Shared!FilesOf(o)' = Shared!FilesOf(o) /\ Room(o)
      BY <2>2, <3>1 DEF Shared!FilesOf, FilesInv
    <3>3. CASE o # e
      <4>1. Uploading(o)' \subseteq Uploading(o)
        BY <2>1, <2>3, <2>4, <3>3 DEF Uploading
      <4> QED BY <3>1, <3>2, <4>1, FewerKeepRoom DEF Room, Shared!FilesOf, Uploading
    <3>4. CASE o = e
      <4>1. Uploading(o)' \subseteq Handlers
        BY DEF Uploading
      <4>2. Cardinality(Uploading(o)') <= Cardinality(Handlers) /\ IsFiniteSet(Uploading(o)')
        BY <4>1, FS_Subset DEF SharedConstants
      <4>3. Cardinality(Uploading(o)') \in Nat /\ Cardinality(Handlers) \in Nat
            /\ Cardinality(Shared!FilesOf(o)) \in Nat /\ MaxFiles \in Nat
        BY <3>2, <4>2, FS_CardinalityType DEF Room, SharedConstants
      <4>4. Cardinality(Shared!FilesOf(o)) + Cardinality(Uploading(o)') < MaxFiles + Cardinality(Handlers)
        BY <2>2, <3>4, <4>2, <4>3
      <4>5. Room(o)'
        BY <3>2, <4>4 DEF Room
      <4> QED BY <3>1, <4>5 DEF Room, Shared!FilesOf, Uploading
    <3> QED BY <3>3, <3>4
  <2>6. Shared!TypeOK'
    BY <1>2, <2>2 DEF Shared!TypeOK
  <2>7. FolderKept' /\ \A k \in Shared!Files \ deleted' : Kept(k)'
    BY <1>5, <1>6, <2>2, <2>3
  <2> QED BY <2>4, <2>5, <2>6, <2>7 DEF FilesInv
<1>8. CASE Shared!upload(h)
  <2>1. c.pc = "upload" /\ c.f \in Shared!Files
    BY <1>1, <1>2, <1>8, FileShapes DEF Shared!upload, Shared!At
  <2>2. PICK as \in {"cloud", "inline"} :
          /\ Shared!Goto(h, [pc |-> "createFile", f |-> c.f, as |-> as])
          /\ stored' = IF as = "cloud" THEN stored \cup {c.f} ELSE stored
    BY <1>1, <1>8 DEF Shared!upload
  <2>3. UNCHANGED <<file, uploaded, deleted, folder, told, raced>>
    BY <1>8 DEF Shared!upload, Shared!folders
  <2>4. PICK d : d = [pc |-> "createFile", f |-> c.f, as |-> as]
    OBVIOUS
  <2>5. d \in FileCall /\ FileKnown(d)' /\ d.f = c.f /\ d.pc = "createFile"
    BY <2>1, <2>2, <2>4 DEF FileCall, FileKnown
  <2>6. Shared!TypeOK'
    BY <1>2, <2>1, <2>2, <2>3 DEF Shared!TypeOK
  <2>7. \A f \in Shared!Files \ deleted' : Kept(f)'
    BY <2>2, <2>3 DEF FilesInv, Kept
  <2> QED BY <1>3, <1>6, <2>1, <2>2, <2>3, <2>4, <2>5, <2>6, <2>7
<1>9. CASE Shared!createFile(h)
  <2>1. c.pc = "createFile" /\ c.f \in Shared!Files /\ c.as \in {"cloud", "inline"}
        /\ c = [pc |-> "createFile", f |-> c.f, as |-> c.as]
    BY <1>1, <1>2, <1>9, FileShapes DEF Shared!createFile, Shared!At
  <2>2. PICK d, e : d = [pc |-> "nameOwner", f |-> c.f, as |-> c.as] /\ e = Owner[c.f]
    OBVIOUS
  <2>3. Shared!Goto(h, d)
    <3>1. d = [c EXCEPT !.pc = "nameOwner"]
      BY <2>1, <2>2
    <3> QED BY <1>1, <1>9, <3>1 DEF Shared!createFile, Shared!Onto
  <2>4. UNCHANGED <<stored, uploaded, deleted, folder, told, raced>>
    BY <1>9 DEF Shared!createFile, Shared!folders
  <2>5. file' = [file EXCEPT ![c.f] = c.as]
    BY <1>1, <1>9 DEF Shared!createFile
  <2>6. d \in FileCall /\ FileKnown(d)' /\ d.pc = "nameOwner"
    BY <2>1, <2>2 DEF FileCall, FileKnown
  <2>7. /\ call' \in [Handlers -> FileCall] /\ call'[h] = d
        /\ \A g \in Handlers : g # h => call'[g] = call[g]
        /\ \A g \in Handlers : FileKnown(call[g])'
    BY <2>3, <2>4, <2>6, FileCalls
  <2>8. Shared!TypeOK'
    BY <1>2, <2>1, <2>4, <2>5 DEF Shared!TypeOK, Shared!AgentSharedFile
  <2>9. \A f \in Shared!Files : file'[f] = IF f = c.f THEN c.as ELSE file[f]
    BY <1>2, <2>5 DEF Shared!TypeOK
  <2>10. \A f \in Shared!Files \ deleted' : Kept(f)'
    BY <1>2, <2>1, <2>4, <2>9 DEF FilesInv, Kept, FileKnown
  <2>11. ASSUME NEW k \in Shared!Files PROVE Room(Owner[k])'
    <3>1. PICK o : o = Owner[k]
      OBVIOUS
    <3>2. Room(o)
      BY <3>1 DEF FilesInv
    <3>3. Uploading(o)' \subseteq Uploading(o) /\ h \notin Uploading(o)'
      BY <2>6, <2>7, CallsEndUploads DEF Uploading
    <3>4. CASE o # e
      <4>1. Shared!FilesOf(o)' \subseteq Shared!FilesOf(o)
        BY <2>2, <2>9, <3>4 DEF Shared!FilesOf
      <4>2. Room(o)'
        BY <3>2, <3>3, <4>1, FewerKeepRoom
      <4> QED BY <3>1, <4>2 DEF Room, Shared!FilesOf, Uploading
    <3>5. CASE o = e
      <4>1. Shared!FilesOf(o)' \subseteq Shared!FilesOf(o) \cup {c.f}
        BY <2>9 DEF Shared!FilesOf
      <4>2. h \in Uploading(o)
        BY <1>1, <2>1, <2>2, <3>5 DEF Uploading
      <4>3. Room(o)'
        BY <3>2, <3>3, <4>1, <4>2, RowTakesPlace
      <4> QED BY <3>1, <4>3 DEF Room, Shared!FilesOf, Uploading
    <3> QED BY <3>4, <3>5
  <2>12. FolderKept'
    BY <1>6, <2>3, <2>4, <2>6
  <2> QED BY <2>7, <2>8, <2>10, <2>11, <2>12 DEF FilesInv
<1>10. CASE Shared!nameOwner(h)
  <2>1. c.pc = "nameOwner" /\ c.f \in Shared!Files
    BY <1>1, <1>2, <1>10, FileShapes DEF Shared!nameOwner, Shared!At
  <2>2. /\ uploaded' = IF file[c.f] = "none" THEN uploaded ELSE uploaded \cup {c.f}
        /\ Shared!Goto(h, Shared!IdleCall)
    BY <1>1, <1>10 DEF Shared!nameOwner
  <2>3. UNCHANGED <<file, stored, deleted, folder, told, raced>>
    BY <1>10 DEF Shared!nameOwner, Shared!folders
  <2>4. Shared!TypeOK'
    BY <1>2, <2>1, <2>2, <2>3 DEF Shared!TypeOK
  <2>5. \A f \in Shared!Files \ deleted' : Kept(f)'
    BY <2>2, <2>3 DEF FilesInv, Kept
  <2> QED BY <1>3, <1>4, <1>6, <2>2, <2>3, <2>4, <2>5
<1>11. ASSUME NEW f \in Shared!Files, NEW m, Shared!deleteSharedFile(h, f, m) PROVE FilesInv'
  <2>1. /\ deleted' = deleted \cup {f}
        /\ UNCHANGED <<file, stored, uploaded, folder, told, raced>>
    BY <1>11 DEF Shared!deleteSharedFile, Shared!folders
  <2>2. PICK d : d = [pc |-> "deleteCloudFile", f |-> f]
    OBVIOUS
  <2>3. Shared!Goto(h, d)
    BY <1>11, <2>2 DEF Shared!deleteSharedFile
  <2>4. d \in FileCall /\ FileKnown(d)' /\ d.pc = "deleteCloudFile"
    BY <2>1, <2>2 DEF FileCall, FileKnown
  <2>5. Shared!TypeOK'
    BY <1>2, <2>1 DEF Shared!TypeOK
  <2>6. \A k \in Shared!Files \ deleted' : Kept(k)'
    BY <2>1 DEF FilesInv, Kept
  <2> QED BY <1>3, <1>6, <2>1, <2>3, <2>4, <2>5, <2>6
<1>12. CASE Shared!deleteCloudFile(h)
  <2>1. c.pc = "deleteCloudFile" /\ c.f \in Shared!Files /\ c.f \in deleted
        /\ c = [pc |-> "deleteCloudFile", f |-> c.f]
    BY <1>1, <1>2, <1>12, FileShapes DEF Shared!deleteCloudFile, Shared!At, FileKnown
  <2>2. stored' = stored \ {c.f} /\ UNCHANGED <<file, uploaded, deleted, folder, told, raced>>
    BY <1>1, <1>12 DEF Shared!deleteCloudFile, Shared!folders
  <2>3. PICK d : d = [pc |-> "deleteFile", f |-> c.f]
    OBVIOUS
  <2>4. Shared!Goto(h, d)
    <3>1. d = [c EXCEPT !.pc = "deleteFile"]
      BY <2>1, <2>3
    <3> QED BY <1>1, <1>12, <3>1 DEF Shared!deleteCloudFile, Shared!Onto
  <2>5. d \in FileCall /\ FileKnown(d)' /\ d.pc = "deleteFile"
    BY <2>1, <2>2, <2>3 DEF FileCall, FileKnown
  <2>6. Shared!TypeOK' /\ stored \cup deleted \subseteq stored' \cup deleted'
    BY <1>2, <2>1, <2>2 DEF Shared!TypeOK
  <2>7. \A k \in Shared!Files \ deleted' : Kept(k)'
    BY <2>1, <2>2 DEF FilesInv, Kept
  <2> QED BY <1>3, <1>6, <2>2, <2>4, <2>5, <2>6, <2>7
<1>13. CASE Shared!deleteFile(h)
  <2>1. c.pc = "deleteFile" /\ c.f \in Shared!Files /\ c.f \in deleted
    BY <1>1, <1>2, <1>13, FileShapes DEF Shared!deleteFile, Shared!At, FileKnown
  <2>2. file' = [file EXCEPT ![c.f] = "none"] /\ UNCHANGED <<stored, uploaded, deleted, folder, told, raced>>
        /\ Shared!Goto(h, Shared!IdleCall)
    BY <1>1, <1>13 DEF Shared!deleteFile, Shared!folders
  <2>3. Shared!TypeOK'
    BY <1>2, <2>1, <2>2 DEF Shared!TypeOK, Shared!AgentSharedFile
  <2>4. \A k \in Shared!Files : file'[k] = IF k = c.f THEN "none" ELSE file[k]
    BY <1>2, <2>2 DEF Shared!TypeOK
  <2>5. \A k \in Shared!Files \ deleted' : Kept(k)'
    BY <2>1, <2>2, <2>4 DEF FilesInv, Kept
  <2> QED BY <1>3, <1>4, <1>6, <2>2, <2>3, <2>4, <2>5
<1>14. ASSUME NEW d \in FileCall, d.pc \in {"idle", "saveFolder", "createFolder", "deleteFolder"},
              Shared!Goto(h, d), UNCHANGED <<file, stored, uploaded, deleted>>,
              folder' \in Shared!AgentLanSharedFolder, told' \subseteq Shared!Desktops,
              raced' \subseteq Shared!Desktops, FolderKept'
       PROVE  FilesInv'
  <2>1. Shared!TypeOK'
    BY <1>2, <1>14 DEF Shared!TypeOK
  <2>2. FileKnown(d)'
    BY <1>14 DEF FileKnown
  <2> QED BY <1>3, <1>5, <1>14, <2>1, <2>2
<1>15. ASSUME NEW x \in Shared!Desktops, Shared!registerLanSharedFolder(h, x) PROVE FilesInv'
  <2>1. UNCHANGED <<file, stored, uploaded, deleted, folder, told, raced>>
    BY <1>15 DEF Shared!registerLanSharedFolder, Shared!files, Shared!folders
  <2>2. PICK pc \in {"saveFolder", "createFolder"} : Shared!Goto(h, [pc |-> pc, f |-> NoDevice, d |-> x])
    BY <1>15 DEF Shared!registerLanSharedFolder
  <2>3. [pc |-> pc, f |-> NoDevice, d |-> x] \in FileCall
    BY DEF FileCall
  <2> QED BY <1>2, <1>6, <1>14, <2>1, <2>2, <2>3 DEF Shared!TypeOK
<1>16. ASSUME NEW x \in Shared!Desktops, Shared!deleteLanSharedFolder(h, x) PROVE FilesInv'
  <2>1. /\ UNCHANGED <<file, stored, uploaded, deleted, folder, raced>>
        /\ folder = x /\ told' = told \ {x}
        /\ Shared!Goto(h, [pc |-> "deleteFolder", f |-> NoDevice])
    BY <1>16 DEF Shared!deleteLanSharedFolder, Shared!files
  <2>2. [pc |-> "deleteFolder", f |-> NoDevice] \in FileCall
    BY DEF FileCall
  <2>3. told' \ raced' = {}
    BY <2>1 DEF FilesInv, FolderKept
  <2>4. FolderKept'
    BY <2>3 DEF FolderKept
  <2> QED BY <1>2, <1>14, <2>1, <2>2, <2>4 DEF Shared!TypeOK
<1>17. CASE Shared!createFolder(h)
  <2>1. c.d \in Shared!Desktops
    BY <1>1, <1>2, <1>17, FileShapes DEF Shared!createFolder, Shared!At
  <2>2. /\ IF folder = NoDevice THEN folder' = c.d /\ Shared!Answered(c.d, Shared!Deleting)
                                ELSE UNCHANGED <<folder, told, raced>>
        /\ Shared!Goto(h, Shared!IdleCall) /\ UNCHANGED <<file, stored, uploaded, deleted>>
    BY <1>1, <1>17 DEF Shared!createFolder, Shared!files, Shared!folders
  <2>3. folder = NoDevice => told \ raced = {}
    BY <1>2 DEF FilesInv, FolderKept, SharedConstants, Shared!TypeOK
  <2>4. folder' \in Shared!AgentLanSharedFolder /\ told' \subseteq Shared!Desktops /\ raced' \subseteq Shared!Desktops
    BY <1>2, <2>1, <2>2 DEF Shared!TypeOK, Shared!AgentLanSharedFolder, Shared!Answered
  <2>5. FolderKept'
    <3>1. Shared!Deleting' => Shared!Deleting
      BY <1>4, <2>2, NoMoreDeleting
    <3>2. Shared!Deleting \in BOOLEAN
      BY DEF Shared!Deleting
    <3> QED BY <1>4, <1>6, <2>2, <2>3, <3>1, <3>2, AnsweredKeeps
  <2> QED BY <1>4, <1>14, <2>2, <2>4, <2>5
<1>18. CASE Shared!saveFolder(h)
  <2>1. c.d \in Shared!Desktops
    BY <1>1, <1>2, <1>18, FileShapes DEF Shared!saveFolder, Shared!At
  <2>2. /\ \/ UNCHANGED <<told, raced>>
           \/ Shared!Answered(c.d, Shared!Deleting \/ folder # c.d)
        /\ Shared!Goto(h, Shared!IdleCall) /\ UNCHANGED <<file, stored, uploaded, deleted, folder>>
    BY <1>1, <1>18 DEF Shared!saveFolder, Shared!files
  <2>3. folder' \in Shared!AgentLanSharedFolder /\ told' \subseteq Shared!Desktops /\ raced' \subseteq Shared!Desktops
    BY <1>2, <2>1, <2>2 DEF Shared!TypeOK, Shared!Answered
  <2>4. FolderKept'
    <3>1. Shared!Deleting' => Shared!Deleting
      BY <1>4, <2>2, NoMoreDeleting
    <3>2. PICK beside \in BOOLEAN : beside = (Shared!Deleting \/ folder # c.d)
      BY DEF Shared!Deleting
    <3>3. ASSUME Shared!Answered(c.d, beside) PROVE FolderKept'
      BY <2>2, <3>1, <3>2, <3>3, AnsweredKeeps
    <3> QED BY <1>4, <1>6, <2>2, <3>2, <3>3
  <2> QED BY <1>4, <1>14, <2>2, <2>3, <2>4
<1>19. CASE Shared!deleteFolder(h)
  <2>1. /\ folder' = NoDevice /\ UNCHANGED <<told, raced>> /\ c.pc = "deleteFolder"
        /\ Shared!Goto(h, Shared!IdleCall) /\ UNCHANGED <<file, stored, uploaded, deleted>>
    BY <1>1, <1>19 DEF Shared!deleteFolder, Shared!files, Shared!At
  <2>2. told' \ raced' = {}
    BY <1>1, <2>1 DEF FilesInv, FolderKept, Shared!Deleting, Shared!At
  <2>3. FolderKept'
    BY <2>2 DEF FolderKept
  <2> QED BY <1>2, <1>4, <1>14, <2>1, <2>3 DEF Shared!TypeOK, Shared!AgentLanSharedFolder
<1> QED BY <1>7, <1>8, <1>9, <1>10, <1>11, <1>12, <1>13, <1>15, <1>16, <1>17, <1>18, <1>19 DEF Shared!Handle

THEOREM FilesInvariant ==
  ASSUME SharedConstants
  PROVE  Shared!Spec => []FilesInv
<1>1. Shared!Init => FilesInv
  <2> SUFFICES ASSUME Shared!Init PROVE FilesInv
    OBVIOUS
  <2>1. Shared!TypeOK /\ told = {} /\ uploaded = {}
    BY DEF Shared!Init, Shared!TypeOK, Shared!AgentSharedFile, Shared!AgentLanSharedFolder
  <2>2. call \in [Handlers -> FileCall] /\ \A h \in Handlers : call[h].pc = "idle"
    BY DEF Shared!Init, FileCall, Shared!IdleCall
  <2>3. \A f \in Shared!Files : Kept(f)
    BY <2>1 DEF Shared!Init, Kept
  <2>4. ASSUME NEW e PROVE Room(e)
    <3>1. Shared!FilesOf(e) = {} /\ Uploading(e) = {}
      BY <2>2 DEF Shared!Init, Shared!FilesOf, Uploading
    <3>2. Cardinality(Handlers) \in Nat /\ MaxFiles \in Nat \ {0}
      BY FS_CardinalityType DEF SharedConstants
    <3>3. Cardinality({}) = 0 /\ IsFiniteSet({})
      BY FS_EmptySet
    <3> QED BY <3>1, <3>2, <3>3 DEF Room
  <2>5. FolderKept
    BY <2>1 DEF FolderKept
  <2> QED BY <2>1, <2>2, <2>3, <2>4, <2>5 DEF FilesInv, FileKnown
<1>2. FilesInv /\ [Shared!Next]_Shared!vars => FilesInv'
  <2> SUFFICES ASSUME FilesInv, [Shared!Next]_Shared!vars PROVE FilesInv'
    OBVIOUS
  <2>1. CASE Shared!Crash \/ UNCHANGED Shared!vars
    <3>1. /\ UNCHANGED <<file, stored, uploaded, deleted, folder, told, raced>>
          /\ \A h \in Handlers : call'[h] \in {Shared!IdleCall, call[h]}
          /\ call' \in [Handlers -> FileCall]
      BY <2>1 DEF Shared!Crash, Shared!vars, Shared!files, Shared!folders, FilesInv, FileCall
    <3>2. ASSUME NEW f \in Shared!Files PROVE Room(Owner[f])'
      <4>1. PICK e : e = Owner[f]
        OBVIOUS
      <4>2. Shared!FilesOf(e)' \subseteq Shared!FilesOf(e) /\ Uploading(e)' \subseteq Uploading(e)
        BY <3>1 DEF Shared!FilesOf, Uploading, Shared!IdleCall
      <4>3. Room(e)'
        BY <4>1, <4>2, FewerKeepRoom DEF FilesInv
      <4> QED BY <4>1, <4>3 DEF Room, Shared!FilesOf, Uploading
    <3>3. ASSUME NEW h \in Handlers PROVE FileKnown(call[h])'
      BY <3>1 DEF FilesInv, FileKnown, Shared!IdleCall
    <3>4. Shared!TypeOK'
      BY <3>1 DEF FilesInv, Shared!TypeOK
    <3>5. Shared!Deleting' => Shared!Deleting
      BY <3>1 DEF Shared!Deleting, Shared!At, Shared!IdleCall
    <3>6. FolderKept'
      BY <3>1, <3>5 DEF FilesInv, FolderKept
    <3> QED BY <3>1, <3>2, <3>3, <3>4, <3>6 DEF FilesInv, Kept
  <2> QED BY <2>1, FileStep DEF Shared!Next
<1> QED BY <1>1, <1>2, PTL DEF Shared!Spec

\* What an agent was told is stored can be downloaded until its owner begins to
\* delete it, a folder stays with the device that was told so until that device
\* deletes it (a device told so beside a deletion of the folder left out), and an
\* employee's files outgrow the limit by no more than the calls at a time, for any
\* number of files, devices and calls and wherever processes die.
THEOREM AnsweredIsStoredAlways ==
  ASSUME SharedConstants
  PROVE  Shared!Spec => [](Shared!TypeOK /\ Shared!AnsweredIsStored)
<1>1. FilesInv => Shared!TypeOK /\ Shared!AnsweredIsStored
  <2> SUFFICES ASSUME FilesInv PROVE Shared!TypeOK /\ Shared!AnsweredIsStored
    OBVIOUS
  <2>1. \A f \in uploaded \ deleted : file[f] = "inline" \/ (file[f] = "cloud" /\ f \in stored)
    BY DEF FilesInv, Kept, Shared!TypeOK, Shared!AgentSharedFile
  <2>2. ASSUME NEW f \in Shared!Files
        PROVE  Cardinality(Shared!FilesOf(Owner[f])) < MaxFiles + Cardinality(Handlers)
    <3>1. PICK e : e = Owner[f]
      OBVIOUS
    <3>2. Room(e)
      BY <3>1 DEF FilesInv
    <3>3. Cardinality(Shared!FilesOf(e)) < MaxFiles + Cardinality(Handlers)
      BY <3>2, FilesFinite, FS_CardinalityType DEF Room, SharedConstants
    <3> QED BY <3>1, <3>3
  <2> QED BY <2>1, <2>2, SameCardinality DEF FilesInv, FolderKept, Shared!AnsweredIsStored
<1> QED BY <1>1, FilesInvariant, PTL

-----------------------------------------------------------------------------
(* SupervisorActivity: calls one at a time, cut off anywhere.                *)

ActivityConstants ==
    /\ Handlers = {me}
    /\ Online \in Nat /\ LastTime \in Nat /\ MaxSpans \in Nat

Insertion == [pc: {"insert"}, at: Activity!Times]
RowRead == [row: 1..MaxSpans, last: Activity!Times]
ActivityCall ==
  {Activity!IdleCall} \cup Insertion
    \cup [pc: {"endAll", "find"}, at: Activity!Times]
    \cup [pc: {"findLast"}]
    \cup [pc: {"extend"}, row: 1..MaxSpans, at: Activity!Times]
    \cup [pc: {"close"}, rows: SUBSET RowRead, then: Insertion \cup {Activity!IdleCall}]

\* Rows are as long as the supervisor was seen, and end no later than the
\* newest begins, which alone may be open.
Ordered ==
  /\ \A s \in seen : s <= now
  /\ \A i \in Activity!Rows :
       /\ span[i].startedAt <= span[i].lastActiveAt
       /\ span[i].lastActiveAt \in seen
       /\ \A t \in span[i].startedAt..span[i].lastActiveAt :
            \E s \in seen : s <= t /\ t <= s + Online
  /\ \A i, j \in Activity!Rows :
       i # j => \/ span[i].lastActiveAt <= span[j].startedAt
                \/ span[j].lastActiveAt <= span[i].startedAt
  /\ \A i \in Activity!OpenRows, j \in Activity!Rows :
       i # j => span[j].lastActiveAt <= span[i].startedAt
  /\ \A i, j \in Activity!OpenRows : i = j

\* The supervisor was seen at that time, and no row goes beyond it.
Latest(at) == at \in seen /\ \A i \in Activity!Rows : span[i].lastActiveAt <= at

\* What a call is about to write still fits the rows.
Fits(c) ==
  /\ c \in ActivityCall
  /\ c.pc \in {"endAll", "find", "insert", "extend"} => Latest(c.at)
  /\ c.pc = "insert" => Activity!OpenRows = {}
  /\ c.pc = "extend" =>
       c.row \in Activity!OpenRows /\ c.at - span[c.row].lastActiveAt <= Online
  /\ c.pc = "close" =>
       /\ \A r \in c.rows : r.row \in Activity!Rows
       /\ c.then # Activity!IdleCall =>
            Latest(c.then.at) /\ Activity!OpenRows \subseteq {r.row : r \in c.rows}

ActivityInv ==
  /\ Activity!TypeOK
  /\ DOMAIN call = Handlers
  /\ Ordered
  /\ Fits(call[me])

\* The clock, a login, a request or a crash: rows stay, the supervisor may be
\* seen at this moment.
LEMMA SpansStay ==
  ASSUME ActivityConstants, Ordered, Activity!TypeOK,
         UNCHANGED span, now' \in Activity!Times, now <= now',
         seen' = seen \/ seen' = seen \cup {now}
  PROVE  /\ Ordered' /\ (now \in seen' /\ now' = now => Latest(now)')
         /\ Activity!Rows' = Activity!Rows /\ Activity!OpenRows' = Activity!OpenRows
         /\ \A at : Latest(at) => Latest(at)'
<1>1. Activity!Rows' = Activity!Rows /\ Activity!OpenRows' = Activity!OpenRows
  BY DEF Activity!Rows, Activity!OpenRows, Activity!NoSpan, Activity!Open
<1>2. now \in Nat /\ now' \in Nat /\ now \in Activity!Times /\ seen \subseteq Nat
  BY DEF Activity!TypeOK, Activity!Times, ActivityConstants
<1>3. \A i \in Activity!Rows : span[i].lastActiveAt <= now
  BY <1>2 DEF Ordered
<1>4. Ordered'
  <2>1. \A s \in seen' : s <= now'
    <3>1. ASSUME NEW s \in seen PROVE s <= now'
      <4>1. s <= now
        BY DEF Ordered
      <4> QED BY <4>1, <1>2
    <3> QED BY <3>1, <1>2
  <2> QED BY <1>1, <2>1 DEF Ordered
<1>5. ASSUME now \in seen', now' = now PROVE Latest(now)'
  BY <1>1, <1>3, <1>5 DEF Latest
<1>6. \A at : Latest(at) => Latest(at)'
  BY <1>1 DEF Latest
<1> QED BY <1>1, <1>4, <1>5, <1>6

LEMMA OpenSpans ==
  ASSUME ActivityConstants, Activity!TypeOK
  PROVE  /\ Activity!OpenRows \subseteq Activity!Rows /\ Activity!Rows \subseteq 1..MaxSpans
         /\ \A i \in Activity!Rows :
              /\ span[i] \in Activity!Span
              /\ span[i].startedAt \in Nat /\ span[i].lastActiveAt \in Nat
<1>1. /\ Activity!OpenRows \subseteq Activity!Rows /\ Activity!Rows \subseteq 1..MaxSpans
      /\ \A i \in Activity!Rows : span[i] \in Activity!Span
  BY DEF Activity!OpenRows, Activity!Rows, Activity!TypeOK
<1>2. \A r \in Activity!Span : r.startedAt \in Nat /\ r.lastActiveAt \in Nat
  BY DEF Activity!Span, Activity!Times, ActivityConstants
<1> QED BY <1>1, <1>2

\* Steps that only look.
LEMMA ActivityLooks ==
  ASSUME ActivityConstants, ActivityInv, NEW h \in Handlers,
         \/ Activity!recordActivity(h) \/ Activity!endSession(h) \/ Activity!startSessionOnLogin(h)
         \/ Activity!closeStaleOpenSessions(h)
  PROVE  ActivityInv'
<1>0. /\ Activity!OpenRows \subseteq Activity!Rows /\ Activity!Rows \subseteq 1..MaxSpans
      /\ \A i \in Activity!Rows :
           /\ span[i] \in Activity!Span
           /\ span[i].startedAt \in Nat /\ span[i].lastActiveAt \in Nat
  BY OpenSpans DEF ActivityInv
<1> USE <1>0
<1>1. h = me /\ UNCHANGED <<now, token, span, seen>> /\ DOMAIN call' = Handlers
  BY DEF ActivityConstants, ActivityInv, Activity!Goto, Activity!recordActivity, Activity!endSession,
         Activity!startSessionOnLogin, Activity!closeStaleOpenSessions
<1>2. /\ Activity!TypeOK' /\ Ordered' /\ Activity!Rows' = Activity!Rows
      /\ Activity!OpenRows' = Activity!OpenRows
      /\ \A at : Latest(at) => Latest(at)'
  BY <1>1, SpansStay DEF ActivityInv, Activity!TypeOK, ActivityConstants, Activity!Times
<1>3. ASSUME NEW rows \in SUBSET Activity!OpenRows PROVE Activity!Read(rows) \in SUBSET RowRead
  BY DEF Activity!Read, RowRead, Activity!Span, ActivityInv
<1>4. ASSUME NEW rows \in SUBSET Activity!OpenRows
      PROVE  {r.row : r \in Activity!Read(rows)} = rows
  <2>1. ASSUME NEW i \in rows PROVE i \in {r.row : r \in Activity!Read(rows)}
    <3>1. [row |-> i, last |-> span[i].lastActiveAt] \in Activity!Read(rows)
      BY DEF Activity!Read
    <3> QED BY <3>1
  <2>2. ASSUME NEW r \in Activity!Read(rows) PROVE r.row \in rows
    BY DEF Activity!Read
  <2> QED BY <2>1, <2>2
<1>5. ASSUME NEW rows \in SUBSET Activity!OpenRows, NEW then, call'[me] = Activity!Close(rows, then),
             \/ then = Activity!IdleCall
             \/ \E at : then = Activity!Insert(at) /\ at \in Activity!Times /\ Latest(at) /\ rows = Activity!OpenRows
      PROVE  Fits(call[me])'
  <2>1. call'[me] = [pc |-> "close", rows |-> Activity!Read(rows), then |-> then]
    BY <1>5 DEF Activity!Close
  <2>2. then \in Insertion \cup {Activity!IdleCall}
    BY <1>5 DEF Insertion, Activity!Insert
  <2>3. call'[me] \in ActivityCall
    BY <2>1, <2>2, <1>3 DEF ActivityCall
  <2>4. \A r \in Activity!Read(rows) : r.row \in Activity!Rows
    <3>1. \A r \in Activity!Read(rows) : r.row \in rows
      BY <1>4
    <3> QED BY <3>1
  <2>5. then # Activity!IdleCall => Latest(then.at)' /\ Activity!OpenRows \subseteq {r.row : r \in Activity!Read(rows)}
    <3>1. SUFFICES ASSUME then # Activity!IdleCall
                   PROVE  Latest(then.at)' /\ Activity!OpenRows \subseteq {r.row : r \in Activity!Read(rows)}
      OBVIOUS
    <3>2. Latest(then.at) /\ rows = Activity!OpenRows
      BY <1>5, <3>1 DEF Activity!Insert
    <3> QED BY <3>2, <1>2, <1>4
  <2> QED BY <1>2, <2>1, <2>3, <2>4, <2>5 DEF Fits
<1>6. ASSUME call'[me] = Activity!IdleCall PROVE Fits(call[me])'
  BY <1>6 DEF Fits, ActivityCall, Activity!IdleCall
<1>7. CASE Activity!recordActivity(h)
  <2> DEFINE at == call[me].at
  <2>1. call[me].pc = "find" /\ Latest(at) /\ at \in Activity!Times
    BY <1>1, <1>7 DEF Activity!recordActivity, Activity!At, ActivityInv, Fits, ActivityCall, Activity!IdleCall, Insertion
  <2>2. ASSUME Activity!OpenRows = {}, call'[me] = Activity!Insert(at)
        PROVE  Fits(call[me])'
    <3>1. call'[me] = [pc |-> "insert", at |-> at]
      BY <2>2 DEF Activity!Insert
    <3> QED BY <3>1, <2>1, <2>2, <1>1, <1>2 DEF Fits, ActivityCall, Insertion
  <2>3. ASSUME NEW i \in Activity!OpenRows, call'[me] = Activity!Close({i}, Activity!Insert(at))
        PROVE  Fits(call[me])'
    <3>1. Activity!OpenRows = {i}
      BY DEF ActivityInv, Ordered
    <3> QED BY <2>3, <3>1, <2>1, <1>5
  <2>4. ASSUME NEW i \in Activity!OpenRows, ~(at - span[i].lastActiveAt > Online),
               call'[me] = [pc |-> "extend", row |-> i, at |-> at]
        PROVE  Fits(call[me])'
    <3>0. i \in 1..MaxSpans /\ span[i].lastActiveAt \in Nat
      OBVIOUS
    <3>1. at - span[i].lastActiveAt <= Online
      BY <2>4, <2>1, <3>0 DEF ActivityConstants, Activity!Times
    <3>2. call'[me] \in ActivityCall
      BY <2>4, <2>1, <3>0 DEF ActivityCall
    <3> QED BY <2>4, <3>1, <3>2, <2>1, <1>1, <1>2 DEF Fits
  <2>5. \/ Activity!OpenRows = {} /\ call'[me] = Activity!Insert(at)
        \/ \E i \in Activity!OpenRows :
             call'[me] = IF at - span[i].lastActiveAt > Online
                         THEN Activity!Close({i}, Activity!Insert(at))
                         ELSE [pc |-> "extend", row |-> i, at |-> at]
    BY <1>1, <1>7 DEF Activity!recordActivity, Activity!Goto, ActivityInv
  <2>6. Fits(call[me])'
    BY <2>2, <2>3, <2>4, <2>5
  <2> QED BY <1>1, <1>2, <2>6 DEF ActivityInv
<1>8. CASE Activity!endSession(h)
  <2>1. \/ call'[me] = Activity!IdleCall
        \/ \E i \in Activity!OpenRows : call'[me] = Activity!Close({i}, Activity!IdleCall)
    BY <1>1, <1>8 DEF Activity!endSession, Activity!Goto, ActivityInv
  <2>2. Fits(call[me])'
    BY <2>1, <1>5, <1>6
  <2> QED BY <1>1, <1>2, <2>2 DEF ActivityInv
<1>9. CASE Activity!startSessionOnLogin(h)
  <2> DEFINE at == call[me].at
  <2>1. call[me].pc = "endAll" /\ Latest(at) /\ at \in Activity!Times
    BY <1>1, <1>9 DEF Activity!startSessionOnLogin, Activity!At, ActivityInv, Fits, ActivityCall, Activity!IdleCall, Insertion
  <2>2. call'[me] = Activity!Close(Activity!OpenRows, Activity!Insert(at))
    BY <1>1, <1>9 DEF Activity!startSessionOnLogin, Activity!Goto, ActivityInv
  <2> QED BY <1>1, <1>2, <1>5, <2>1, <2>2 DEF ActivityInv
<1>10. CASE Activity!closeStaleOpenSessions(h)
  <2>1. \E rows \in SUBSET Activity!OpenRows : call'[me] = Activity!Close(rows, Activity!IdleCall)
    BY <1>1, <1>10 DEF Activity!closeStaleOpenSessions, Activity!Goto, ActivityInv
  <2> QED BY <1>1, <1>2, <1>5, <2>1 DEF ActivityInv
<1> QED BY <1>7, <1>8, <1>9, <1>10

\* Steps that write a row.
LEMMA ActivityWrites ==
  ASSUME ActivityConstants, ActivityInv, NEW h \in Handlers,
         Activity!extend(h) \/ Activity!close(h) \/ Activity!insert(h)
  PROVE  ActivityInv'
<1>0. /\ Activity!OpenRows \subseteq Activity!Rows /\ Activity!Rows \subseteq 1..MaxSpans
      /\ \A i \in Activity!Rows :
           /\ span[i] \in Activity!Span
           /\ span[i].startedAt \in Nat /\ span[i].lastActiveAt \in Nat
  BY OpenSpans DEF ActivityInv
<1> USE <1>0
<1>1. h = me /\ UNCHANGED <<now, token, seen>> /\ DOMAIN call' = Handlers
  BY DEF ActivityConstants, ActivityInv, Activity!Goto, Activity!extend, Activity!close, Activity!insert
<1>2. now \in Nat /\ seen \subseteq Nat /\ Online \in Nat /\ DOMAIN span = 1..MaxSpans
  BY DEF ActivityConstants, ActivityInv, Activity!TypeOK, Activity!Times
<1>3. ASSUME call'[me] = Activity!IdleCall PROVE Fits(call[me])'
  BY <1>3 DEF Fits, ActivityCall, Activity!IdleCall
<1>4. CASE Activity!extend(h)
  <2> DEFINE at == call[me].at
             own == call[me].row
             new == [span[own] EXCEPT !.lastActiveAt = at]
  <2>1. /\ call[me].pc = "extend" /\ own \in Activity!OpenRows /\ at \in Activity!Times
        /\ Latest(at) /\ at - span[own].lastActiveAt <= Online
    BY <1>1, <1>4 DEF Activity!extend, Activity!At, ActivityInv, Fits, ActivityCall, Activity!IdleCall, Insertion
  <2>2. span' = [span EXCEPT ![own] = new] /\ call'[me] = Activity!IdleCall
    BY <1>1, <1>4 DEF Activity!extend, Activity!Goto, ActivityInv
  <2>3. /\ new \in Activity!Span /\ new.startedAt = span[own].startedAt
        /\ new.lastActiveAt = at /\ new.endedAt = span[own].endedAt
    BY <2>1 DEF Activity!Span
  <2> HIDE DEF new
  <2>4. /\ span'[own] = new /\ \A i \in 1..MaxSpans : i # own => span'[i] = span[i]
        /\ span' \in [1..MaxSpans -> Activity!Span \cup {Activity!NoSpan}]
    BY <2>1, <2>2, <2>3 DEF ActivityInv, Activity!TypeOK
  <2>5. Activity!Rows' = Activity!Rows /\ Activity!OpenRows' = Activity!OpenRows
    <3>1. new # Activity!NoSpan
      BY <2>3 DEF Activity!Span, Activity!NoSpan, Activity!Times
    <3>2. Activity!Rows' = Activity!Rows
      BY <2>1, <2>4, <3>1 DEF Activity!Rows
    <3> QED BY <2>1, <2>3, <2>4, <3>2 DEF Activity!OpenRows
  <2>6. Ordered'
    <3>1. \A s \in seen' : s <= now'
      BY <1>1 DEF ActivityInv, Ordered
    <3>2. \A i \in Activity!Rows : i # own => span'[i] = span[i]
      BY <2>4
    <3>3. \A i \in Activity!Rows : i # own => span[i].lastActiveAt <= span[own].startedAt
      BY <2>1 DEF ActivityInv, Ordered
    <3>4. span[own].startedAt <= span[own].lastActiveAt /\ span[own].lastActiveAt \in seen
          /\ span[own].lastActiveAt <= at /\ at \in seen
      BY <2>1 DEF ActivityInv, Ordered, Latest
    <3>5. span[own].startedAt \in Nat /\ span[own].lastActiveAt \in Nat /\ at \in Nat
      <4>1. own \in Activity!Rows
        BY <2>1
      <4>2. at \in Nat
        <5> HIDE <1>0
        <5> QED BY <2>1 DEF Activity!Times
      <4>3. span[own].startedAt \in Nat /\ span[own].lastActiveAt \in Nat
        BY <4>1
      <4> QED BY <4>2, <4>3
    <3>6. ASSUME NEW t \in new.startedAt..new.lastActiveAt
          PROVE  \E s \in seen : s <= t /\ t <= s + Online
      <4>1. CASE t <= span[own].lastActiveAt
        <5>1. t \in span[own].startedAt..span[own].lastActiveAt
          BY <4>1, <2>3, <3>5
        <5> QED BY <5>1, <2>1 DEF ActivityInv, Ordered
      <4>2. CASE t > span[own].lastActiveAt
        BY <4>2, <2>1, <2>3, <3>4, <3>5, <1>2
      <4> QED BY <4>1, <4>2, <2>3, <3>5
    <3>7. ASSUME NEW i \in Activity!Rows
          PROVE  /\ span'[i].startedAt <= span'[i].lastActiveAt
                 /\ span'[i].lastActiveAt \in seen
                 /\ \A t \in span'[i].startedAt..span'[i].lastActiveAt :
                      \E s \in seen : s <= t /\ t <= s + Online
      <4>1. CASE i = own
        BY <4>1, <2>3, <2>4, <3>4, <3>5, <3>6
      <4>2. CASE i # own
        BY <4>2, <3>2 DEF ActivityInv, Ordered
      <4> QED BY <4>1, <4>2
    <3>8. ASSUME NEW i \in Activity!Rows, NEW j \in Activity!Rows, i # j
          PROVE  \/ span'[i].lastActiveAt <= span'[j].startedAt
                 \/ span'[j].lastActiveAt <= span'[i].startedAt
      <4>1. CASE i = own \/ j = own
        BY <4>1, <3>8, <2>3, <2>4, <3>2, <3>3
      <4>2. CASE i # own /\ j # own
        BY <4>2, <3>8, <3>2 DEF ActivityInv, Ordered
      <4> QED BY <4>1, <4>2
    <3>9. \A i \in Activity!OpenRows : i = own
      BY <2>1 DEF ActivityInv, Ordered
    <3>10. \A i \in Activity!OpenRows, j \in Activity!Rows :
             i # j => span'[j].lastActiveAt <= span'[i].startedAt
      BY <3>2, <3>3, <3>9, <2>3, <2>4
    <3> QED BY <1>1, <2>5, <3>1, <3>7, <3>8, <3>9, <3>10 DEF Ordered
  <2> QED BY <1>1, <1>3, <2>2, <2>4, <2>6 DEF ActivityInv, Activity!TypeOK
<1>5. CASE Activity!close(h)
  <2> DEFINE c == call[me]
  <2>1. c.pc = "close" /\ c \in ActivityCall /\ Fits(c)
    BY <1>1, <1>5 DEF Activity!close, Activity!At, ActivityInv, Fits
  <2>2. c.rows \in SUBSET RowRead /\ c.then \in Insertion \cup {Activity!IdleCall}
        /\ c = [pc |-> "close", rows |-> c.rows, then |-> c.then]
    BY <2>1 DEF ActivityCall, Insertion, Activity!IdleCall
  <2>3. CASE c.rows = {} /\ call'[me] = c.then /\ UNCHANGED span
    <3>1. Activity!TypeOK' /\ Ordered' /\ Activity!Rows' = Activity!Rows
          /\ Activity!OpenRows' = Activity!OpenRows
          /\ \A at : Latest(at) => Latest(at)'
      BY <1>1, <2>3, SpansStay DEF ActivityInv, Activity!TypeOK, ActivityConstants, Activity!Times
    <3>2. CASE c.then = Activity!IdleCall
      BY <1>1, <1>3, <2>3, <3>1, <3>2 DEF ActivityInv
    <3>3. CASE c.then # Activity!IdleCall
      <4>1. Latest(c.then.at) /\ Activity!OpenRows = {}
        BY <2>1, <2>3, <3>3 DEF Fits
      <4>2. c.then \in Insertion /\ c.then.pc = "insert"
        BY <2>2, <3>3 DEF Insertion
      <4>3. Fits(call[me])'
        BY <2>3, <3>1, <4>1, <4>2 DEF Fits, ActivityCall
      <4> QED BY <1>1, <3>1, <4>3 DEF ActivityInv
    <3> QED BY <3>2, <3>3
  <2>4. ASSUME NEW r \in c.rows, span' = [span EXCEPT ![r.row].endedAt = r.last],
               call'[me] = [c EXCEPT !.rows = @ \ {r}]
        PROVE  ActivityInv'
    <3> DEFINE own == r.row
               new == [span[own] EXCEPT !.endedAt = r.last]
    <3>1. own \in Activity!Rows /\ r \in RowRead /\ own \in 1..MaxSpans
      BY <2>1, <2>2 DEF Fits, RowRead
    <3>2. /\ new \in Activity!Span /\ new.startedAt = span[own].startedAt
          /\ new.lastActiveAt = span[own].lastActiveAt /\ new.endedAt # Activity!Open
      BY <3>1 DEF Activity!Span, RowRead, Activity!Open, Activity!Times
    <3>3. span' = [span EXCEPT ![own] = new]
      BY <2>4
    <3> HIDE DEF new
    <3>4. /\ span'[own] = new /\ \A i \in 1..MaxSpans : i # own => span'[i] = span[i]
          /\ span' \in [1..MaxSpans -> Activity!Span \cup {Activity!NoSpan}]
      BY <3>1, <3>2, <3>3 DEF ActivityInv, Activity!TypeOK
    <3>5. Activity!Rows' = Activity!Rows
      <4>1. new # Activity!NoSpan
        BY <3>2 DEF Activity!Span, Activity!NoSpan, Activity!Times
      <4> QED BY <3>1, <3>4, <4>1 DEF Activity!Rows
    <3>6. Activity!OpenRows' = Activity!OpenRows \ {own}
      BY <3>2, <3>4, <3>5 DEF Activity!OpenRows
    <3>7. \A i \in Activity!Rows : /\ span'[i].startedAt = span[i].startedAt
                                   /\ span'[i].lastActiveAt = span[i].lastActiveAt
      BY <3>2, <3>4
    <3>8. Ordered' /\ \A at : Latest(at) => Latest(at)'
      BY <1>1, <3>5, <3>6, <3>7 DEF ActivityInv, Ordered, Latest
    <3>9. call'[me] = [pc |-> "close", rows |-> c.rows \ {r}, then |-> c.then]
      <4> HIDE <1>0
      <4> QED BY <2>2, <2>4
    <3>10. call'[me] \in ActivityCall
      BY <2>2, <3>9 DEF ActivityCall
    <3>11. \A x \in c.rows \ {r} : x.row \in Activity!Rows'
      BY <2>1, <3>5 DEF Fits
    <3>12. c.then # Activity!IdleCall =>
             Latest(c.then.at)' /\ Activity!OpenRows' \subseteq {x.row : x \in c.rows \ {r}}
      <4>1. SUFFICES ASSUME c.then # Activity!IdleCall
                     PROVE  Latest(c.then.at)' /\ Activity!OpenRows' \subseteq {x.row : x \in c.rows \ {r}}
        OBVIOUS
      <4>2. Latest(c.then.at) /\ Activity!OpenRows \subseteq {x.row : x \in c.rows}
        BY <2>1, <4>1 DEF Fits
      <4>3. Activity!OpenRows \ {own} \subseteq {x.row : x \in c.rows \ {r}}
        BY <4>2
      <4>4. Latest(c.then.at)'
        BY <4>2, <3>8, <3>9
      <4> QED BY <4>3, <4>4, <3>6
    <3>13. Fits(call[me])'
      BY <3>9, <3>10, <3>11, <3>12 DEF Fits
    <3> QED BY <1>1, <3>4, <3>8, <3>13 DEF ActivityInv, Activity!TypeOK
  <2> QED BY <1>1, <1>5, <2>3, <2>4 DEF Activity!close, Activity!Goto, ActivityInv
<1>6. CASE Activity!insert(h)
  <2> DEFINE at == call[me].at
             new == [startedAt |-> at, lastActiveAt |-> at, endedAt |-> Activity!Open]
  <2>1. call[me].pc = "insert" /\ at \in Activity!Times /\ Latest(at) /\ Activity!OpenRows = {}
    BY <1>1, <1>6 DEF Activity!insert, Activity!At, ActivityInv, Fits, ActivityCall, Activity!IdleCall, Insertion
  <2>2. PICK own \in (1..MaxSpans) \ Activity!Rows : span' = [span EXCEPT ![own] = new]
    BY <1>1, <1>6 DEF Activity!insert
  <2>3. call'[me] = Activity!IdleCall
    BY <1>1, <1>6 DEF Activity!insert, Activity!Goto, ActivityInv
  <2>4. /\ new \in Activity!Span /\ new.startedAt = at /\ new.lastActiveAt = at
        /\ new.endedAt = Activity!Open
    BY <2>1 DEF Activity!Span
  <2> HIDE DEF new
  <2>5. /\ span'[own] = new /\ \A i \in 1..MaxSpans : i # own => span'[i] = span[i]
        /\ span' \in [1..MaxSpans -> Activity!Span \cup {Activity!NoSpan}]
    BY <2>2, <2>4 DEF ActivityInv, Activity!TypeOK
  <2>6. Activity!Rows' = Activity!Rows \cup {own}
    <3>1. new # Activity!NoSpan
      BY <2>4 DEF Activity!Span, Activity!NoSpan, Activity!Times
    <3> QED BY <2>2, <2>5, <3>1 DEF Activity!Rows
  <2>7. Activity!OpenRows' = {own}
    BY <2>1, <2>2, <2>4, <2>5, <2>6 DEF Activity!OpenRows
  <2>8. \A i \in Activity!Rows : span'[i] = span[i] /\ span[i].lastActiveAt <= at
    BY <2>1, <2>2, <2>5 DEF Latest
  <2>9. at \in Nat /\ at \in seen
    BY <2>1 DEF Latest, Activity!Times
  <2>10. Ordered'
    <3>1. \A s \in seen' : s <= now'
      BY <1>1 DEF ActivityInv, Ordered
    <3>2. ASSUME NEW i \in Activity!Rows \cup {own}
          PROVE  /\ span'[i].startedAt <= span'[i].lastActiveAt
                 /\ span'[i].lastActiveAt \in seen
                 /\ \A t \in span'[i].startedAt..span'[i].lastActiveAt :
                      \E s \in seen : s <= t /\ t <= s + Online
      <4>1. CASE i = own
        BY <4>1, <2>4, <2>5, <2>9, <1>2
      <4>2. CASE i \in Activity!Rows
        BY <4>2, <2>8 DEF ActivityInv, Ordered
      <4> QED BY <4>1, <4>2
    <3>3. ASSUME NEW i \in Activity!Rows \cup {own}, NEW j \in Activity!Rows \cup {own}, i # j
          PROVE  \/ span'[i].lastActiveAt <= span'[j].startedAt
                 \/ span'[j].lastActiveAt <= span'[i].startedAt
      <4>1. CASE i = own \/ j = own
        BY <4>1, <3>3, <2>4, <2>5, <2>8
      <4>2. CASE i # own /\ j # own
        BY <4>2, <3>3, <2>8 DEF ActivityInv, Ordered
      <4> QED BY <4>1, <4>2
    <3>4. \A j \in Activity!Rows \cup {own} : own # j => span'[j].lastActiveAt <= span'[own].startedAt
      BY <2>4, <2>5, <2>8
    <3> QED BY <1>1, <2>6, <2>7, <3>1, <3>2, <3>3, <3>4 DEF Ordered
  <2> QED BY <1>1, <1>3, <2>3, <2>5, <2>10 DEF ActivityInv, Activity!TypeOK
<1> QED BY <1>4, <1>5, <1>6

\* Whatever the supervisor does, time passing and crashes.
LEMMA ActivityAsks ==
  ASSUME ActivityConstants, ActivityInv,
         \/ Activity!Tick \/ Activity!Crash \/ UNCHANGED Activity!vars
         \/ \E h \in Handlers, k \in Tokens :
              \/ Activity!createSession(h, k) \/ Activity!touchSupervisorActivity(h, k)
              \/ Activity!destroySession(h, k)
  PROVE  ActivityInv'
<1>1. /\ UNCHANGED span /\ now \in Nat /\ now' \in Activity!Times /\ now <= now' /\ now \in Activity!Times
      /\ seen' = seen \/ seen' = seen \cup {now}
  BY DEF Activity!Tick, Activity!Crash, Activity!vars, Activity!createSession,
         Activity!touchSupervisorActivity, Activity!destroySession,
         ActivityConstants, ActivityInv, Activity!TypeOK, Activity!Times
<1>2. /\ Ordered' /\ (now \in seen' /\ now' = now => Latest(now)')
      /\ Activity!Rows' = Activity!Rows /\ Activity!OpenRows' = Activity!OpenRows
      /\ \A at : Latest(at) => Latest(at)'
  BY <1>1, SpansStay DEF ActivityInv
<1>3. token' \in [Tokens -> Activity!Times \cup {Activity!Gone}]
  BY <1>1 DEF Activity!Tick, Activity!Crash, Activity!vars, Activity!createSession,
         Activity!touchSupervisorActivity, Activity!destroySession, ActivityInv, Activity!TypeOK
<1>4. Activity!TypeOK'
  BY <1>1, <1>3 DEF ActivityInv, Activity!TypeOK
<1>5. DOMAIN call' = Handlers
  BY DEF Activity!Tick, Activity!Crash, Activity!vars, Activity!createSession,
         Activity!touchSupervisorActivity, Activity!destroySession, ActivityInv, Activity!Goto
<1>6. \/ call'[me] = call[me]
      \/ call'[me] = Activity!IdleCall
      \/ call'[me] = [pc |-> "findLast"]
      \/ /\ call'[me] \in {[pc |-> "endAll", at |-> now], [pc |-> "find", at |-> now]}
         /\ now \in seen' /\ now' = now
  BY DEF Activity!Tick, Activity!Crash, Activity!vars, Activity!createSession, ActivityConstants,
         Activity!touchSupervisorActivity, Activity!destroySession, ActivityInv, Activity!Goto
<1>7. CASE call'[me] = call[me]
  <2>1. UNCHANGED span
    BY <1>1
  <2>2. Fits(call[me])'
    BY <1>2, <1>7, <2>1 DEF ActivityInv, Fits
  <2> QED BY <1>2, <1>4, <1>5, <2>2 DEF ActivityInv
<1>8. CASE call'[me] \in {Activity!IdleCall, [pc |-> "findLast"]}
  <2>1. Fits(call[me])'
    BY <1>8 DEF Fits, ActivityCall, Activity!IdleCall
  <2> QED BY <1>2, <1>4, <1>5, <2>1 DEF ActivityInv
<1>9. CASE call'[me] \in {[pc |-> "endAll", at |-> now], [pc |-> "find", at |-> now]} /\ now \in seen' /\ now' = now
  <2>1. Latest(now)'
    BY <1>2, <1>9
  <2>2. call'[me] \in ActivityCall
    BY <1>1, <1>9 DEF ActivityCall
  <2>3. Latest(call[me].at)'
    BY <1>2, <1>9, <2>1 DEF Latest
  <2>4. Fits(call[me])'
    BY <1>9, <2>2, <2>3 DEF Fits
  <2> QED BY <1>2, <1>4, <1>5, <2>4 DEF ActivityInv
<1> QED BY <1>6, <1>7, <1>8, <1>9

LEMMA AtMostOne ==
  ASSUME NEW S, \A x, y \in S : x = y
  PROVE  Activity!Cardinality(S) <= 1
<1>1. Activity!Cardinality(S) = Cardinality(S)
  BY DEF Activity!Cardinality, Cardinality
<1>2. CASE S = {}
  BY <1>1, <1>2, FS_EmptySet
<1>3. CASE \E x \in S : S = {x}
  <2>1. Cardinality(S) = 1
    BY <1>3, FS_Singleton
  <2> QED BY <1>1, <2>1
<1> QED BY <1>2, <1>3

\* The history of a supervisor's presence counts no time twice and no time he
\* was not there, and has at most one row open, wherever calls are cut off: for
\* any threshold, any number of sessions, rows and moments.
THEOREM PresenceIsSeenAlways ==
  ASSUME ActivityConstants
  PROVE  Activity!Spec => [](Activity!TypeOK /\ Activity!PresenceIsSeen)
<1>1. Activity!Init => ActivityInv
  <2> SUFFICES ASSUME Activity!Init PROVE ActivityInv
    OBVIOUS
  <2>1. Activity!Rows = {} /\ Activity!OpenRows = {}
    BY DEF Activity!Init, Activity!Rows, Activity!OpenRows
  <2>2. Activity!TypeOK /\ DOMAIN call = Handlers
    BY DEF Activity!Init, Activity!TypeOK, Activity!Times, ActivityConstants
  <2>3. Ordered
    BY <2>1 DEF Activity!Init, Ordered
  <2>4. Fits(call[me])
    BY DEF Activity!Init, Activity!IdleCall, Fits, ActivityCall, ActivityConstants
  <2> QED BY <2>2, <2>3, <2>4 DEF ActivityInv
<1>2. ActivityInv /\ [Activity!Next]_Activity!vars => ActivityInv'
  BY ActivityLooks, ActivityWrites, ActivityAsks DEF Activity!Next, Activity!Handle
<1>3. ActivityInv => Activity!TypeOK /\ Activity!PresenceIsSeen
  BY AtMostOne DEF ActivityInv, Ordered, Activity!PresenceIsSeen
<1> QED BY <1>1, <1>2, <1>3, PTL DEF Activity!Spec

-----------------------------------------------------------------------------
(* MonitorLogs: batches, screenshots and clean-ups in any interleaving.      *)

LogConstants ==
  /\ IsFiniteSet(Handlers)
  /\ Batches \subseteq Nat \ {0} /\ Shots \subseteq Nat \ {0}
  /\ LastDay \in Nat \ {0} /\ MaxUploads \in Nat /\ MaxCounts \in Nat

UploadStages == {"application", "alert", "recent", "raise", "website", "count", "file"}
Cleaning == {"findOldShots", "deleteOldWebsites", "deleteOldFiles"}
Pictures == {Logs!NoShot, Logs!Inline} \cup Logs!Images
LogCall ==
  {Logs!IdleCall}
    \cup [pc: UploadStages, b: Batches]
    \cup [pc: {"saveShot"}, s: Shots, image: {Logs!Inline} \cup Logs!Images]
    \cup [pc: {"deleteImages"}, images: SUBSET Pictures, gone: SUBSET Shots, then: {"idle"}]
    \cup [pc: {"deleteImages"}, images: SUBSET Pictures, gone: SUBSET Shots, then: {"logs"}, before: Int]
    \cup [pc: Cleaning, before: Int]
LogTypes ==
  /\ Logs!TypeOK
  /\ DOMAIN call = Handlers
  /\ \A h \in Handlers : call[h] \in LogCall

\* What a call remembers, by where it stands.
LEMMA LogFields ==
  ASSUME NEW c \in LogCall
  PROVE  /\ c.pc \in UploadStages => c.b \in Batches /\ c \in [pc: UploadStages, b: Batches]
         /\ c.pc = "saveShot" => c.s \in Shots /\ c.image \in {Logs!Inline} \cup Logs!Images
         /\ c.pc = "deleteImages" =>
              /\ c.images \subseteq Pictures /\ c.gone \subseteq Shots /\ c.then \in {"idle", "logs"}
              /\ c.then = "logs" => c.before \in Int
              /\ \/ c \in [pc: {"deleteImages"}, images: SUBSET Pictures, gone: SUBSET Shots, then: {"idle"}]
                 \/ c \in [pc: {"deleteImages"}, images: SUBSET Pictures, gone: SUBSET Shots,
                           then: {"logs"}, before: Int]
         /\ c.pc \in Cleaning => c.before \in Int /\ c \in [pc: Cleaning, before: Int]
BY DEF LogCall, UploadStages, Cleaning, Logs!IdleCall

LEMMA LogGoto ==
  ASSUME LogTypes, NEW h \in Handlers, NEW c \in LogCall, Logs!Goto(h, c), Logs!TypeOK'
  PROVE  LogTypes'
BY DEF LogTypes, Logs!Goto

LEMMA LogTyped ==
  ASSUME LogConstants, LogTypes, [Logs!Next]_Logs!vars
  PROVE  LogTypes'
<1>0. /\ Logs!IdleCall \in LogCall /\ \A h \in Handlers : call[h] \in LogCall
      /\ row \in [Logs!Kinds -> SUBSET Batches]
      /\ \A b \in Batches : <<"batch", b>> \in Logs!Sent
      /\ \A s \in Shots : <<"shot", s>> \in Logs!Sent
  BY DEF LogTypes, LogCall, Logs!TypeOK, Logs!Sent
<1>1. ASSUME NEW h \in Handlers, NEW b \in Batches, Logs!ingestAgent(h, b) PROVE LogTypes'
  <2>1. [pc |-> "application", b |-> b] \in LogCall
    BY DEF LogCall, UploadStages
  <2>2. Logs!TypeOK'
    BY <1>1 DEF LogTypes, Logs!TypeOK, Logs!ingestAgent, Logs!time, Logs!logs, Logs!shots, Logs!history
  <2> QED BY <1>1, <2>1, <2>2, LogGoto DEF Logs!ingestAgent
<1>2. ASSUME NEW h \in Handlers, call[h].pc \in UploadStages, NEW pc \in UploadStages, Logs!Onto(h, pc), Logs!TypeOK'
      PROVE  LogTypes'
  <2>1. [call[h] EXCEPT !.pc = pc] \in LogCall
    BY <1>0, <1>2, LogFields DEF LogCall
  <2> QED BY <1>2, <2>1, LogGoto DEF Logs!Onto
<1>3. ASSUME NEW h \in Handlers, NEW kind \in Logs!Kinds, NEW b \in Batches, Logs!Upsert(kind, b)
      PROVE  row' \in [Logs!Kinds -> SUBSET Batches]
  BY <1>0, <1>3 DEF Logs!Upsert
<1>4. ASSUME NEW h \in Handlers,
             Logs!storeApplication(h) \/ Logs!createAlert(h) \/ Logs!findRecent(h) \/ Logs!raiseAlert(h)
               \/ Logs!storeWebsite(h) \/ Logs!countKeys(h)
      PROVE  LogTypes'
  <2>1. call[h].pc \in UploadStages /\ \E pc \in UploadStages : Logs!Onto(h, pc)
    BY <1>4 DEF Logs!storeApplication, Logs!createAlert, Logs!findRecent, Logs!raiseAlert,
         Logs!storeWebsite, Logs!countKeys, Logs!CountedAs, Logs!At, UploadStages
  <2>2. call[h].b \in Batches
    BY <1>0, <2>1, LogFields
  <2>3. row' \in [Logs!Kinds -> SUBSET Batches]
    BY <1>0, <1>3, <1>4, <2>2 DEF Logs!storeApplication, Logs!createAlert, Logs!findRecent,
         Logs!raiseAlert, Logs!storeWebsite, Logs!countKeys, Logs!CountedAs, Logs!logs, Logs!Kinds
  <2>4. alert' \in Logs!AlertState
    <3>1. alert' = alert \/ alert' = [status |-> "open", recent |-> TRUE]
      BY <1>4 DEF Logs!storeApplication, Logs!createAlert, Logs!findRecent,
           Logs!raiseAlert, Logs!storeWebsite, Logs!countKeys, Logs!CountedAs, Logs!logs
    <3>2. [status |-> "open", recent |-> TRUE] \in Logs!AlertState
      BY DEF Logs!AlertState
    <3> QED BY <3>1, <3>2 DEF LogTypes, Logs!TypeOK
  <2>5. keyCount' \in 0..MaxCounts
    BY <1>4 DEF Logs!storeApplication, Logs!createAlert, Logs!findRecent, LogConstants,
         Logs!raiseAlert, Logs!storeWebsite, Logs!countKeys, Logs!CountedAs, Logs!logs, LogTypes, Logs!TypeOK
  <2>6. silenced' \subseteq Batches
    BY <1>4, <2>2 DEF Logs!storeApplication, Logs!createAlert, Logs!findRecent,
         Logs!raiseAlert, Logs!storeWebsite, Logs!countKeys, Logs!CountedAs, Logs!history, LogTypes, Logs!TypeOK
  <2>7. UNCHANGED <<day, keep, alarmed, shot, image, uploads, answered, excused>>
    BY <1>4 DEF Logs!storeApplication, Logs!createAlert, Logs!findRecent, Logs!raiseAlert,
         Logs!storeWebsite, Logs!countKeys, Logs!CountedAs, Logs!history, Logs!time, Logs!shots
  <2>8. Logs!TypeOK'
    BY <2>3, <2>4, <2>5, <2>6, <2>7 DEF LogTypes, Logs!TypeOK
  <2> QED BY <1>2, <2>1, <2>8
<1>5. ASSUME NEW h \in Handlers, Logs!storeFiles(h) PROVE LogTypes'
  <2>1. call[h].b \in Batches
    BY <1>0, <1>5, LogFields DEF Logs!storeFiles, Logs!At, UploadStages
  <2>2. row' \in [Logs!Kinds -> SUBSET Batches] /\ answered' \subseteq Logs!Sent
    BY <1>0, <1>3, <1>5, <2>1 DEF Logs!storeFiles, Logs!Kinds, LogTypes, Logs!TypeOK
  <2>3. Logs!TypeOK'
    BY <1>5, <2>2 DEF LogTypes, Logs!TypeOK, Logs!storeFiles, Logs!time, Logs!shots
  <2> QED BY <1>0, <1>5, <2>3, LogGoto DEF Logs!storeFiles
<1>6. CASE Logs!resolveAlert \/ Logs!HalfHourPasses
  <2>1. alert' \in Logs!AlertState
    BY <1>6 DEF Logs!resolveAlert, Logs!HalfHourPasses, Logs!AlertState, LogTypes, Logs!TypeOK
  <2> QED BY <1>6, <2>1 DEF Logs!resolveAlert, Logs!HalfHourPasses, LogTypes, Logs!TypeOK,
            Logs!time, Logs!shots, Logs!history
<1>7. ASSUME NEW h \in Handlers, NEW s \in Shots, Logs!uploadScreenshotAgent(h, s) PROVE LogTypes'
  <2>1. PICK picture \in {Logs!Inline} \cup Logs!Images :
          Logs!Goto(h, [pc |-> "saveShot", s |-> s, image |-> picture])
    BY <1>7 DEF Logs!uploadScreenshotAgent, Logs!Images, LogConstants, LogTypes, Logs!TypeOK
  <2>2. image' \subseteq Logs!Images /\ uploads' \in 0..MaxUploads
    <3>1. image \subseteq Logs!Images /\ uploads \in 0..MaxUploads /\ MaxUploads \in Nat
      BY DEF LogTypes, Logs!TypeOK, LogConstants
    <3>2. CASE uploads < MaxUploads /\ uploads' = uploads + 1 /\ image' = image \cup {uploads + 1}
      BY <3>1, <3>2 DEF Logs!Images
    <3>3. CASE UNCHANGED <<image, uploads>>
      BY <3>1, <3>3
    <3> QED BY <1>7, <3>2, <3>3 DEF Logs!uploadScreenshotAgent
  <2>3. Logs!TypeOK'
    BY <1>7, <2>2 DEF Logs!uploadScreenshotAgent, LogTypes, Logs!TypeOK, Logs!time, Logs!logs, Logs!history
  <2>4. [pc |-> "saveShot", s |-> s, image |-> picture] \in LogCall
    BY DEF LogCall
  <2> QED BY <2>1, <2>3, <2>4, LogGoto
<1>8. ASSUME NEW h \in Handlers, Logs!saveShot(h) PROVE LogTypes'
  <2>1. call[h].s \in Shots /\ call[h].image \in {Logs!Inline} \cup Logs!Images
    BY <1>0, <1>8, LogFields DEF Logs!saveShot, Logs!At
  <2>2. shot' \in [Shots -> {Logs!NoShot, Logs!Inline} \cup Logs!Images] /\ answered' \subseteq Logs!Sent
    BY <1>0, <1>8, <2>1 DEF Logs!saveShot, LogTypes, Logs!TypeOK
  <2>3. Logs!TypeOK'
    BY <1>8, <2>2 DEF Logs!saveShot, LogTypes, Logs!TypeOK, Logs!time, Logs!logs
  <2> QED BY <1>0, <1>8, <2>3, LogGoto DEF Logs!saveShot
<1>9. ASSUME NEW h \in Handlers, NEW s \in Shots, Logs!deleteScreenshots(h, s) PROVE LogTypes'
  <2>1. [pc |-> "deleteImages", images |-> {shot[s]}, gone |-> {s}, then |-> "idle"] \in LogCall
    BY DEF LogCall, Pictures, LogTypes, Logs!TypeOK
  <2>2. Logs!TypeOK'
    BY <1>0, <1>9 DEF Logs!deleteScreenshots, LogTypes, Logs!TypeOK, Logs!time, Logs!logs, Logs!shots
  <2> QED BY <1>9, <2>1, <2>2, LogGoto DEF Logs!deleteScreenshots
<1>10. ASSUME NEW h \in Handlers, Logs!deleteImage(h) PROVE LogTypes'
  <2>1. PICK i \in call[h].images : /\ image' = image \ {i}
                                    /\ Logs!Goto(h, [call[h] EXCEPT !.images = @ \ {i}])
    BY <1>10 DEF Logs!deleteImage
  <2>2. [call[h] EXCEPT !.images = @ \ {i}] \in LogCall
    BY <1>0, <1>10, LogFields DEF Logs!deleteImage, Logs!At, LogCall
  <2>3. Logs!TypeOK'
    BY <1>10, <2>1 DEF Logs!deleteImage, LogTypes, Logs!TypeOK, Logs!time, Logs!logs, Logs!history
  <2> QED BY <2>1, <2>2, <2>3, LogGoto
<1>11. ASSUME NEW h \in Handlers, Logs!deleteRows(h) PROVE LogTypes'
  <2>1. (IF call[h].then = "idle" THEN Logs!IdleCall
         ELSE [pc |-> "deleteOldWebsites", before |-> call[h].before]) \in LogCall
    <3>1. call[h].then # "idle" => call[h].before \in Int
      BY <1>0, <1>11, LogFields DEF Logs!deleteRows, Logs!At
    <3> QED BY <1>0, <3>1 DEF LogCall, Cleaning
  <2>2. shot' \in [Shots -> {Logs!NoShot, Logs!Inline} \cup Logs!Images]
    BY <1>11 DEF Logs!deleteRows, LogTypes, Logs!TypeOK
  <2>3. Logs!TypeOK'
    BY <1>11, <2>2 DEF Logs!deleteRows, LogTypes, Logs!TypeOK, Logs!time, Logs!logs, Logs!history
  <2> QED BY <1>11, <2>1, <2>3, LogGoto DEF Logs!deleteRows
<1>12. ASSUME NEW h \in Handlers, Logs!applyRetentionPolicies(h) PROVE LogTypes'
  <2>1. [pc |-> "findOldShots", before |-> day - keep] \in LogCall
    BY DEF LogCall, Cleaning, LogTypes, Logs!TypeOK, LogConstants
  <2>2. Logs!TypeOK'
    BY <1>12 DEF Logs!applyRetentionPolicies, LogTypes, Logs!TypeOK, Logs!time, Logs!logs, Logs!shots,
         Logs!history
  <2> QED BY <1>12, <2>1, <2>2, LogGoto DEF Logs!applyRetentionPolicies
<1>13. ASSUME NEW h \in Handlers, Logs!findOldShots(h) PROVE LogTypes'
  <2> DEFINE old == Logs!Before(call[h].before, Shots)
  <2>1. old \subseteq Shots /\ call[h].before \in Int
    BY <1>0, <1>13, LogFields DEF Logs!Before, Logs!findOldShots, Logs!At, Cleaning
  <2>2. {shot[s] : s \in old} \subseteq Pictures
    BY <2>1 DEF Pictures, LogTypes, Logs!TypeOK
  <2>3. Logs!Goto(h, [pc |-> "deleteImages", images |-> {shot[s] : s \in old}, gone |-> old,
                      then |-> "logs", before |-> call[h].before])
    BY <1>13 DEF Logs!findOldShots
  <2> HIDE DEF old
  <2>4. [pc |-> "deleteImages", images |-> {shot[s] : s \in old}, gone |-> old,
         then |-> "logs", before |-> call[h].before] \in LogCall
    BY <2>1, <2>2 DEF LogCall
  <2>5. Logs!TypeOK'
    BY <1>13 DEF Logs!findOldShots, LogTypes, Logs!TypeOK, Logs!time, Logs!logs, Logs!shots, Logs!history
  <2> QED BY <2>3, <2>4, <2>5, LogGoto
<1>14. ASSUME NEW h \in Handlers, Logs!deleteOldWebsites(h) PROVE LogTypes'
  <2>1. [call[h] EXCEPT !.pc = "deleteOldFiles"] \in LogCall
    BY <1>0, <1>14, LogFields DEF Logs!deleteOldWebsites, Logs!At, LogCall, Cleaning
  <2>2. row' \in [Logs!Kinds -> SUBSET Batches]
    BY <1>0, <1>14 DEF Logs!deleteOldWebsites, Logs!Aged, Logs!Kinds
  <2>3. Logs!TypeOK'
    BY <1>14, <2>2 DEF Logs!deleteOldWebsites, LogTypes, Logs!TypeOK, Logs!time, Logs!shots, Logs!history
  <2> QED BY <1>14, <2>1, <2>3, LogGoto DEF Logs!deleteOldWebsites, Logs!Onto
<1>15. ASSUME NEW h \in Handlers, Logs!deleteOldFiles(h) PROVE LogTypes'
  <2>1. row' \in [Logs!Kinds -> SUBSET Batches]
    BY <1>0, <1>15 DEF Logs!deleteOldFiles, Logs!Aged, Logs!Kinds
  <2>2. Logs!TypeOK'
    BY <1>15, <2>1 DEF Logs!deleteOldFiles, LogTypes, Logs!TypeOK, Logs!time, Logs!shots, Logs!history
  <2> QED BY <1>0, <1>15, <2>2, LogGoto DEF Logs!deleteOldFiles
<1>16. ASSUME Logs!DayPasses \/ \E days \in 0..1, on \in BOOLEAN : Logs!updateSettings(days, on)
       PROVE  LogTypes'
  <2>1. day' \in 1..LastDay /\ keep' \in 0..1 /\ alarmed' \in BOOLEAN
    BY <1>16 DEF Logs!DayPasses, Logs!updateSettings, LogTypes, Logs!TypeOK, LogConstants
  <2>2. excused' \subseteq Logs!Sent
    BY <1>16 DEF Logs!DayPasses, Logs!updateSettings, Logs!Passing, LogTypes, Logs!TypeOK
  <2>3. UNCHANGED <<row, keyCount, alert, shot, image, uploads, answered, silenced, call>>
    BY <1>16 DEF Logs!DayPasses, Logs!updateSettings, Logs!logs, Logs!shots
  <2> QED BY <2>1, <2>2, <2>3 DEF LogTypes, Logs!TypeOK
<1>17. CASE Logs!Crash
  BY <1>0, <1>17 DEF Logs!Crash, LogTypes, Logs!TypeOK, Logs!time, Logs!logs, Logs!shots, Logs!history
<1>18. CASE UNCHANGED Logs!vars
  BY <1>18 DEF Logs!vars, LogTypes, Logs!TypeOK
<1>19. ASSUME NEW h \in Handlers, Logs!Handle(h) PROVE LogTypes'
  BY <1>19, <1>1, <1>4, <1>5, <1>7, <1>8, <1>9, <1>10, <1>11, <1>12, <1>13, <1>14, <1>15 DEF Logs!Handle
<1> QED BY <1>6, <1>16, <1>17, <1>18, <1>19 DEF Logs!Next

\* What is past its time is excused, also by the reckoning of a clean-up that
\* began earlier; so is every screenshot that is being deleted.
Past(due) == \A x \in Logs!Sent : x[2] < due => x \in excused
Ages(c) ==
  /\ c.pc \in Cleaning \/ (c.pc = "deleteImages" /\ c.then = "logs") => Past(c.before)
  /\ c.pc = "deleteImages" => \A s \in c.gone : <<"shot", s>> \in excused
Aged == Past(day - keep) /\ \A h \in Handlers : Ages(call[h])

\* What a batch has written so far is there, the alert it found too.
Wrote(c) ==
  /\ c.pc \in UploadStages \ {"application"} => c.b \in row["application"]
  /\ c.pc \in {"website", "count", "file"} => c.b \in silenced \/ alert.status # "none"
  /\ c.pc \in {"count", "file"} => <<"batch", c.b>> \in excused \/ c.b \in row["website"]
Events ==
  /\ \A h \in Handlers : Wrote(call[h])
  /\ \A x \in Logs!Answered("batch") :
       /\ x[2] \in row["application"]
       /\ x \in excused \/ (x[2] \in row["website"] /\ x[2] \in row["file"])
       /\ x[2] \in silenced \/ alert.status # "none"

\* Keys are counted before the answer.
Filing == {h \in Handlers : call[h].pc = "file"}
Keys ==
  /\ IsFiniteSet(Logs!Answered("batch"))
  /\ keyCount >= Cardinality(Logs!Answered("batch")) + Cardinality(Filing)

\* An image nobody points to yet is safe, and one that is being deleted belongs
\* to screenshots that are.
Saving(h) == call[h].pc = "saveShot" /\ call[h].image \in Logs!Images
Deleting(h) == call[h].pc = "deleteImages"
Used ==
  /\ \A s \in Shots : shot[s] <= uploads
  /\ \A i \in image : i <= uploads
  /\ \A h \in Handlers : Saving(h) => call[h].image <= uploads
  /\ \A h \in Handlers : Deleting(h) => \A i \in call[h].images : i <= uploads
Fresh(h) ==
  Saving(h) =>
    /\ call[h].image \in image
    /\ \A s \in Shots : shot[s] # call[h].image
    /\ \A g \in Handlers : Saving(g) /\ g # h => call[g].image # call[h].image
    /\ \A g \in Handlers : Deleting(g) => call[h].image \notin call[g].images
Owned(h) ==
  Deleting(h) => \A i \in call[h].images \cap Logs!Images : \A s \in Shots : shot[s] = i => s \in call[h].gone
Screens ==
  /\ Used
  /\ \A s, t \in Shots : shot[s] \in Logs!Images /\ shot[s] = shot[t] => s = t
  /\ \A h \in Handlers : Fresh(h) /\ Owned(h)
  /\ \A x \in Logs!Answered("shot") \ excused : shot[x[2]] \in image \cup {Logs!Inline}

LogInv == LogTypes /\ Aged /\ Events /\ Keys /\ Screens

\* Nothing that is excused, silenced or answered is taken back.
LEMMA HistoryGrows ==
  ASSUME [Logs!Next]_Logs!vars
  PROVE  excused \subseteq excused' /\ silenced \subseteq silenced' /\ answered \subseteq answered'
BY DEF Logs!Next, Logs!Handle, Logs!vars, Logs!history, Logs!ingestAgent, Logs!storeApplication,
       Logs!createAlert, Logs!findRecent, Logs!raiseAlert, Logs!storeWebsite, Logs!countKeys,
       Logs!CountedAs, Logs!storeFiles, Logs!uploadScreenshotAgent, Logs!deleteScreenshots,
       Logs!saveShot, Logs!deleteImage, Logs!deleteRows, Logs!applyRetentionPolicies,
       Logs!findOldShots, Logs!deleteOldWebsites, Logs!deleteOldFiles, Logs!resolveAlert,
       Logs!HalfHourPasses, Logs!DayPasses, Logs!updateSettings, Logs!Passing, Logs!Crash

LEMMA AgedStep ==
  ASSUME LogConstants, LogTypes, Aged, [Logs!Next]_Logs!vars
  PROVE  Aged'
<1>0. /\ excused \subseteq excused' /\ DOMAIN call = Handlers
      /\ \A h \in Handlers : call[h] \in LogCall
  BY HistoryGrows DEF LogTypes
<1>1. \A due : Past(due) => Past(due)'
  BY <1>0 DEF Past
<1>2. \A h \in Handlers : call'[h] = call[h] => Ages(call[h])'
  BY <1>0, <1>1 DEF Aged, Ages
<1>3. CASE UNCHANGED <<day, keep>>
  <2>1. Past(day - keep)'
    BY <1>1, <1>3 DEF Aged
  <2>2. ASSUME NEW h \in Handlers, NEW c, Logs!Goto(h, c),
               c.pc \notin Cleaning \cup {"deleteImages"}
        PROVE  Aged'
    <3>1. Ages(call[h])'
      BY <1>0, <2>2 DEF Logs!Goto, Ages
    <3> QED BY <1>0, <1>2, <2>1, <2>2, <3>1 DEF Aged, Logs!Goto
  <2>3. ASSUME NEW h \in Handlers, call[h].pc \in UploadStages, NEW pc \in UploadStages, Logs!Onto(h, pc)
        PROVE  Aged'
    <3>1. [call[h] EXCEPT !.pc = pc].pc = pc
      BY <1>0, <2>3, LogFields
    <3> QED BY <2>2, <2>3, <3>1 DEF Logs!Onto, UploadStages, Cleaning
  <2>4. ASSUME NEW h \in Handlers,
               \/ \E b \in Batches : Logs!ingestAgent(h, b)
               \/ Logs!storeFiles(h) \/ Logs!saveShot(h) \/ Logs!deleteOldFiles(h)
               \/ \E s \in Shots : Logs!uploadScreenshotAgent(h, s)
        PROVE  Aged'
    <3>1. \/ \E b \in Batches : Logs!Goto(h, [pc |-> "application", b |-> b])
          \/ Logs!Goto(h, Logs!IdleCall)
          \/ \E s \in Shots : \E i : Logs!Goto(h, [pc |-> "saveShot", s |-> s, image |-> i])
      BY <2>4 DEF Logs!ingestAgent, Logs!storeFiles, Logs!saveShot, Logs!deleteOldFiles,
           Logs!uploadScreenshotAgent
    <3> QED BY <2>2, <3>1 DEF Logs!IdleCall, Cleaning
  <2>5. ASSUME NEW h \in Handlers,
               Logs!storeApplication(h) \/ Logs!createAlert(h) \/ Logs!findRecent(h) \/ Logs!raiseAlert(h)
                 \/ Logs!storeWebsite(h) \/ Logs!countKeys(h)
        PROVE  Aged'
    <3>1. call[h].pc \in UploadStages /\ \E pc \in UploadStages : Logs!Onto(h, pc)
      BY <2>5 DEF Logs!storeApplication, Logs!createAlert, Logs!findRecent, Logs!raiseAlert,
           Logs!storeWebsite, Logs!countKeys, Logs!CountedAs, Logs!At, UploadStages
    <3> QED BY <2>3, <3>1
  <2>6. ASSUME NEW h \in Handlers, Ages(call[h])', \A g \in Handlers : g # h => call'[g] = call[g]
        PROVE  Aged'
    BY <1>2, <2>1, <2>6 DEF Aged
  <2>7. ASSUME NEW h \in Handlers, NEW s \in Shots, Logs!deleteScreenshots(h, s) PROVE Aged'
    <3>1. /\ call'[h] = [pc |-> "deleteImages", images |-> {shot[s]}, gone |-> {s}, then |-> "idle"]
          /\ \A g \in Handlers : g # h => call'[g] = call[g]
      BY <1>0, <2>7 DEF Logs!deleteScreenshots, Logs!Goto
    <3>2. <<"shot", s>> \in excused'
      BY <2>7 DEF Logs!deleteScreenshots
    <3>3. Ages(call[h])'
      BY <3>1, <3>2 DEF Ages, Cleaning
    <3> QED BY <2>6, <3>1, <3>3
  <2>8. ASSUME NEW h \in Handlers, Logs!deleteImage(h) PROVE Aged'
    <3>1. /\ call[h].pc = "deleteImages" /\ \A g \in Handlers : g # h => call'[g] = call[g]
          /\ call'[h].pc = "deleteImages" /\ call'[h].gone = call[h].gone /\ call'[h].then = call[h].then
          /\ call[h].then = "logs" => call'[h].before = call[h].before
      BY <1>0, <2>8, LogFields DEF Logs!deleteImage, Logs!Goto, Logs!At
    <3>2. Ages(call[h])'
      BY <1>0, <1>1, <3>1 DEF Ages, Aged, Cleaning
    <3> QED BY <2>6, <3>1, <3>2
  <2>9. ASSUME NEW h \in Handlers, Logs!deleteRows(h) PROVE Aged'
    <3>1. /\ call[h].pc = "deleteImages" /\ \A g \in Handlers : g # h => call'[g] = call[g]
          /\ call'[h] = IF call[h].then = "idle" THEN Logs!IdleCall
                        ELSE [pc |-> "deleteOldWebsites", before |-> call[h].before]
          /\ call[h].then \in {"idle", "logs"}
      BY <1>0, <2>9, LogFields DEF Logs!deleteRows, Logs!Goto, Logs!At
    <3>2. Ages(call[h])'
      BY <1>0, <1>1, <3>1 DEF Ages, Aged, Cleaning, Logs!IdleCall
    <3> QED BY <2>6, <3>1, <3>2
  <2>10. ASSUME NEW h \in Handlers, Logs!applyRetentionPolicies(h) PROVE Aged'
    <3>1. /\ call'[h] = [pc |-> "findOldShots", before |-> day - keep]
          /\ \A g \in Handlers : g # h => call'[g] = call[g]
      BY <1>0, <2>10 DEF Logs!applyRetentionPolicies, Logs!Goto
    <3>2. Ages(call[h])'
      BY <1>3, <2>1, <3>1 DEF Ages, Cleaning
    <3> QED BY <2>6, <3>1, <3>2
  <2>11. ASSUME NEW h \in Handlers, Logs!findOldShots(h) PROVE Aged'
    <3> DEFINE old == Logs!Before(call[h].before, Shots)
    <3>1. /\ call[h].pc = "findOldShots" /\ \A g \in Handlers : g # h => call'[g] = call[g]
          /\ call'[h] = [pc |-> "deleteImages", images |-> {shot[s] : s \in old}, gone |-> old,
                         then |-> "logs", before |-> call[h].before]
      BY <1>0, <2>11 DEF Logs!findOldShots, Logs!Goto, Logs!At
    <3>2. Past(call[h].before)
      BY <3>1 DEF Aged, Ages, Cleaning
    <3>3. \A s \in old : <<"shot", s>> \in excused
      BY <3>2 DEF Past, Logs!Before, Logs!Sent
    <3> HIDE DEF old
    <3>4. /\ call'[h].pc = "deleteImages" /\ call'[h].before = call[h].before /\ call'[h].gone = old
      BY <3>1
    <3>5. Ages(call[h])'
      BY <1>0, <1>1, <3>2, <3>3, <3>4 DEF Ages
    <3> QED BY <2>6, <3>1, <3>5
  <2>12. ASSUME NEW h \in Handlers, Logs!deleteOldWebsites(h) PROVE Aged'
    <3>1. /\ call[h].pc = "deleteOldWebsites" /\ \A g \in Handlers : g # h => call'[g] = call[g]
          /\ call'[h].pc = "deleteOldFiles" /\ call'[h].before = call[h].before
      BY <1>0, <2>12, LogFields DEF Logs!deleteOldWebsites, Logs!Goto, Logs!Onto, Logs!At, Cleaning
    <3>2. Ages(call[h])'
      BY <1>1, <3>1 DEF Ages, Aged, Cleaning
    <3> QED BY <2>6, <3>1, <3>2
  <2>13. CASE Logs!Crash
    <3>1. \A h \in Handlers : Ages(call[h])'
      BY <2>13 DEF Logs!Crash, Logs!IdleCall, Ages, Cleaning
    <3> QED BY <2>1, <3>1 DEF Aged
  <2>14. CASE UNCHANGED call
    BY <1>2, <2>1, <2>14 DEF Aged
  <2>15. ASSUME NEW h \in Handlers, Logs!Handle(h) PROVE Aged'
    BY <2>15, <2>4, <2>5, <2>7, <2>8, <2>9, <2>10, <2>11, <2>12 DEF Logs!Handle
  <2> QED BY <2>13, <2>14, <2>15 DEF Logs!Next, Logs!vars, Logs!resolveAlert, Logs!HalfHourPasses,
            Logs!DayPasses, Logs!updateSettings
<1>4. CASE Logs!DayPasses \/ \E days \in 0..1, on \in BOOLEAN : Logs!updateSettings(days, on)
  <2>1. Past(day - keep)'
    BY <1>4 DEF Logs!DayPasses, Logs!updateSettings, Logs!Passing, Past
  <2>2. call' = call
    BY <1>4 DEF Logs!DayPasses, Logs!updateSettings
  <2> QED BY <1>2, <2>1, <2>2 DEF Aged
<1> QED BY <1>3, <1>4 DEF Logs!Next, Logs!vars, Logs!Handle, Logs!time, Logs!ingestAgent, Logs!storeApplication,
       Logs!createAlert, Logs!findRecent, Logs!raiseAlert, Logs!storeWebsite, Logs!countKeys,
       Logs!CountedAs, Logs!storeFiles, Logs!uploadScreenshotAgent, Logs!deleteScreenshots,
       Logs!saveShot, Logs!deleteImage, Logs!deleteRows, Logs!applyRetentionPolicies,
       Logs!findOldShots, Logs!deleteOldWebsites, Logs!deleteOldFiles, Logs!resolveAlert,
       Logs!HalfHourPasses, Logs!Crash

LEMMA EventsStep ==
  ASSUME LogConstants, LogTypes, Aged, Events, [Logs!Next]_Logs!vars
  PROVE  Events'
<1>0. /\ excused \subseteq excused' /\ silenced \subseteq silenced' /\ DOMAIN call = Handlers
      /\ \A h \in Handlers : call[h] \in LogCall
      /\ row \in [Logs!Kinds -> SUBSET Batches]
      /\ {"application", "website", "file"} = Logs!Kinds
      /\ Logs!Answered("batch") \subseteq Logs!Sent
      /\ \A x \in Logs!Sent : x[1] = "batch" => x[2] \in Batches /\ x = <<"batch", x[2]>>
      /\ \A b \in Batches : <<"batch", b>> \in Logs!Sent
  BY HistoryGrows DEF LogTypes, Logs!TypeOK, Logs!Kinds, Logs!Answered, Logs!Sent
<1>1. \A h \in Handlers : call[h].pc \in UploadStages => call[h].b \in Batches
  BY <1>0, LogFields
<1>2. \A x \in Logs!Answered("batch") : x[1] = "batch" /\ x[2] \in Batches /\ x = <<"batch", x[2]>>
  BY <1>0 DEF Logs!Answered
\* Rows keep what is not past its time, an alert stays one.
<1> DEFINE Keeps ==
      /\ row["application"] \subseteq row'["application"]
      /\ \A b \in Batches : \A kind \in {"website", "file"} :
           b \in row[kind] => b \in row'[kind] \/ <<"batch", b>> \in excused
      /\ alert.status # "none" => alert'.status # "none"
<1>3. ASSUME Keeps PROVE \A h \in Handlers : call'[h] = call[h] => Wrote(call[h])'
  <2> SUFFICES ASSUME NEW h \in Handlers, call'[h] = call[h] PROVE Wrote(call[h])'
    OBVIOUS
  <2>1. Wrote(call[h])
    BY DEF Events
  <2>2. call[h].pc \in {"website", "count", "file"} => call[h].b \in silenced' \/ alert'.status # "none"
    BY <1>0, <1>3, <2>1 DEF Wrote
  <2>3. call[h].pc \in {"count", "file"} => <<"batch", call[h].b>> \in excused' \/ call[h].b \in row'["website"]
    BY <1>0, <1>1, <1>3, <2>1 DEF Wrote, UploadStages
  <2>4. call[h].pc \in UploadStages \ {"application"} => call[h].b \in row'["application"]
    BY <1>3, <2>1 DEF Wrote
  <2> QED BY <2>2, <2>3, <2>4 DEF Wrote
<1>4. ASSUME Keeps, UNCHANGED answered PROVE \A x \in Logs!Answered("batch")' :
         /\ x[2] \in row'["application"]
         /\ x \in excused' \/ (x[2] \in row'["website"] /\ x[2] \in row'["file"])
         /\ x[2] \in silenced' \/ alert'.status # "none"
  <2>1. Logs!Answered("batch")' = Logs!Answered("batch")
    BY <1>4 DEF Logs!Answered
  <2> QED BY <1>0, <1>2, <1>4, <2>1 DEF Events
<1>5. ASSUME Keeps, UNCHANGED answered, NEW h \in Handlers,
             \A g \in Handlers : g # h => call'[g] = call[g], Wrote(call[h])'
      PROVE  Events'
  BY <1>3, <1>4, <1>5 DEF Events
<1>6. ASSUME row' = row, alert' = alert PROVE Keeps
  BY <1>6
<1> HIDE DEF Keeps
<1>7. ASSUME NEW h \in Handlers,
             \/ \E b \in Batches : Logs!ingestAgent(h, b)
             \/ \E s \in Shots : Logs!uploadScreenshotAgent(h, s) \/ Logs!deleteScreenshots(h, s)
             \/ Logs!deleteImage(h) \/ Logs!deleteRows(h)
             \/ Logs!applyRetentionPolicies(h) \/ Logs!findOldShots(h)
      PROVE  Events'
  <2>1. /\ row' = row /\ alert' = alert /\ answered' = answered
        /\ \A g \in Handlers : g # h => call'[g] = call[g]
    BY <1>0, <1>7 DEF Logs!ingestAgent, Logs!uploadScreenshotAgent, Logs!deleteScreenshots, Logs!deleteImage,
         Logs!deleteRows, Logs!applyRetentionPolicies, Logs!findOldShots, Logs!Goto, Logs!logs, Logs!history
  <2>2. call'[h].pc \notin UploadStages \ {"application"}
    <3>1. CASE Logs!deleteImage(h)
      BY <1>0, <3>1, LogFields DEF Logs!deleteImage, Logs!Goto, Logs!At, UploadStages
    <3>2. CASE Logs!deleteRows(h)
      BY <1>0, <3>2 DEF Logs!deleteRows, Logs!Goto, Logs!IdleCall, UploadStages
    <3>3. CASE \E s \in Shots : Logs!uploadScreenshotAgent(h, s)
      BY <1>0, <3>3 DEF Logs!uploadScreenshotAgent, Logs!Goto, UploadStages
    <3>4. CASE \/ \E b \in Batches : Logs!ingestAgent(h, b)
               \/ \E s \in Shots : Logs!deleteScreenshots(h, s)
               \/ Logs!applyRetentionPolicies(h) \/ Logs!findOldShots(h)
      BY <1>0, <3>4 DEF Logs!ingestAgent, Logs!deleteScreenshots, Logs!applyRetentionPolicies,
           Logs!findOldShots, Logs!Goto, UploadStages
    <3> QED BY <1>7, <3>1, <3>2, <3>3, <3>4
  <2>3. Wrote(call[h])'
    BY <2>2 DEF Wrote, UploadStages
  <2> QED BY <1>5, <1>6, <2>1, <2>3
<1>8. ASSUME NEW h \in Handlers, NEW pc \in UploadStages, call[h].pc \in UploadStages, Logs!Onto(h, pc)
      PROVE  /\ call'[h].pc = pc /\ call'[h].b = call[h].b
             /\ \A g \in Handlers : g # h => call'[g] = call[g]
  BY <1>0, <1>8, LogFields DEF Logs!Onto, Logs!Goto
<1>9. ASSUME NEW h \in Handlers, Logs!storeApplication(h) PROVE Events'
  <2>1. /\ call[h].pc = "application" /\ row' = [row EXCEPT !["application"] = @ \cup {call[h].b}]
        /\ alert' = alert /\ answered' = answered
        /\ call'[h].pc = "alert" /\ call'[h].b = call[h].b
        /\ \A g \in Handlers : g # h => call'[g] = call[g]
    BY <1>8, <1>9 DEF Logs!storeApplication, Logs!At, Logs!Upsert, Logs!history, UploadStages
  <2>2. Keeps /\ call[h].b \in row'["application"]
    BY <1>0, <2>1 DEF Keeps
  <2>3. Wrote(call[h])'
    BY <2>1, <2>2 DEF Wrote
  <2> QED BY <1>5, <2>1, <2>2, <2>3
<1>10. ASSUME NEW h \in Handlers, Logs!createAlert(h) PROVE Events'
  <2>1. /\ call[h].pc = "alert" /\ row' = row /\ alert' = alert /\ answered' = answered
        /\ call'[h].pc = IF alarmed THEN "recent" ELSE "website"
        /\ call'[h].b = call[h].b
        /\ \A g \in Handlers : g # h => call'[g] = call[g]
        /\ ~alarmed => call[h].b \in silenced'
    BY <1>8, <1>10 DEF Logs!createAlert, Logs!At, Logs!logs, UploadStages
  <2>2. call[h].b \in row["application"]
    BY <2>1 DEF Events, Wrote, UploadStages
  <2>3. Wrote(call[h])'
    BY <2>1, <2>2 DEF Wrote
  <2> QED BY <1>5, <1>6, <2>1, <2>3
<1>11. ASSUME NEW h \in Handlers, Logs!findRecent(h) PROVE Events'
  <2>1. /\ call[h].pc = "recent" /\ row' = row /\ alert' = alert /\ answered' = answered
        /\ call'[h].pc = IF alert = [status |-> "open", recent |-> TRUE] THEN "website" ELSE "raise"
        /\ call'[h].b = call[h].b
        /\ \A g \in Handlers : g # h => call'[g] = call[g]
    BY <1>8, <1>11 DEF Logs!findRecent, Logs!At, Logs!logs, Logs!history, UploadStages
  <2>2. call[h].b \in row["application"]
    BY <2>1 DEF Events, Wrote, UploadStages
  <2>3. call'[h].pc = "website" => alert.status # "none"
    BY <2>1
  <2>4. Wrote(call[h])'
    BY <2>1, <2>2, <2>3 DEF Wrote
  <2> QED BY <1>5, <1>6, <2>1, <2>4
<1>12. ASSUME NEW h \in Handlers, Logs!raiseAlert(h) PROVE Events'
  <2>1. /\ call[h].pc = "raise" /\ row' = row /\ alert' = [status |-> "open", recent |-> TRUE]
        /\ answered' = answered /\ call'[h].pc = "website" /\ call'[h].b = call[h].b
        /\ \A g \in Handlers : g # h => call'[g] = call[g]
    BY <1>8, <1>12 DEF Logs!raiseAlert, Logs!At, Logs!history, UploadStages
  <2>2. call[h].b \in row["application"] /\ alert'.status = "open"
    BY <2>1 DEF Events, Wrote, UploadStages
  <2>3. Wrote(call[h])' /\ Keeps
    BY <2>1, <2>2 DEF Wrote, Keeps
  <2> QED BY <1>5, <2>1, <2>3
<1>13. ASSUME NEW h \in Handlers, Logs!storeWebsite(h) PROVE Events'
  <2>1. /\ call[h].pc = "website" /\ row' = [row EXCEPT !["website"] = @ \cup {call[h].b}]
        /\ alert' = alert /\ answered' = answered
        /\ call'[h].pc = "count" /\ call'[h].b = call[h].b
        /\ \A g \in Handlers : g # h => call'[g] = call[g]
    BY <1>8, <1>13 DEF Logs!storeWebsite, Logs!At, Logs!Upsert, Logs!history, UploadStages
  <2>2. Keeps /\ call[h].b \in row'["website"] /\ row'["application"] = row["application"]
    BY <1>0, <2>1 DEF Keeps
  <2>3. call[h].b \in row["application"] /\ (call[h].b \in silenced \/ alert.status # "none")
    BY <2>1 DEF Events, Wrote, UploadStages
  <2>4. Wrote(call[h])'
    BY <1>0, <2>1, <2>2, <2>3 DEF Wrote
  <2> QED BY <1>5, <2>1, <2>2, <2>4
<1>14. ASSUME NEW h \in Handlers, Logs!countKeys(h) PROVE Events'
  <2>1. /\ call[h].pc = "count" /\ row' = row /\ alert' = alert /\ answered' = answered
        /\ call'[h].pc = "file" /\ call'[h].b = call[h].b
        /\ \A g \in Handlers : g # h => call'[g] = call[g]
    BY <1>8, <1>14 DEF Logs!countKeys, Logs!CountedAs, Logs!At, Logs!history, UploadStages
  <2>2. Wrote(call[h])
    BY DEF Events
  <2>3. Wrote(call[h])'
    BY <1>0, <2>1, <2>2 DEF Wrote, UploadStages
  <2> QED BY <1>5, <1>6, <2>1, <2>3
<1>15. ASSUME NEW h \in Handlers, Logs!storeFiles(h) PROVE Events'
  <2> DEFINE b == call[h].b
  <2>1. /\ call[h].pc = "file" /\ row' = [row EXCEPT !["file"] = @ \cup {b}]
        /\ alert' = alert /\ answered' = answered \cup {<<"batch", b>>}
        /\ call'[h] = Logs!IdleCall
        /\ \A g \in Handlers : g # h => call'[g] = call[g]
    BY <1>0, <1>15 DEF Logs!storeFiles, Logs!At, Logs!Upsert, Logs!Goto
  <2>2. Keeps /\ b \in row'["file"] /\ row'["application"] = row["application"] /\ row'["website"] = row["website"]
    BY <1>0, <2>1 DEF Keeps
  <2>3. /\ b \in row["application"] /\ (b \in silenced \/ alert.status # "none")
        /\ <<"batch", b>> \in excused \/ b \in row["website"]
    BY <2>1 DEF Events, Wrote, UploadStages
  <2>4. \A g \in Handlers : Wrote(call[g])'
    <3>1. Wrote(call[h])'
      BY <2>1 DEF Wrote, Logs!IdleCall, UploadStages
    <3> QED BY <1>3, <2>1, <2>2, <3>1
  <2>5. ASSUME NEW x \in Logs!Answered("batch")'
        PROVE  /\ x[2] \in row'["application"]
               /\ x \in excused' \/ (x[2] \in row'["website"] /\ x[2] \in row'["file"])
               /\ x[2] \in silenced' \/ alert'.status # "none"
    <3>1. CASE x = <<"batch", b>>
      BY <1>0, <2>1, <2>2, <2>3, <3>1
    <3>2. CASE x # <<"batch", b>>
      <4>1. x \in Logs!Answered("batch")
        BY <2>1, <3>2 DEF Logs!Answered
      <4>2. /\ x[2] \in row["application"]
            /\ x \in excused \/ (x[2] \in row["website"] /\ x[2] \in row["file"])
            /\ x[2] \in silenced \/ alert.status # "none"
        BY <4>1 DEF Events
      <4>3. row["file"] \subseteq row'["file"]
        BY <1>0, <2>1
      <4> QED BY <1>0, <2>1, <2>2, <4>2, <4>3
    <3> QED BY <3>1, <3>2
  <2> QED BY <2>4, <2>5 DEF Events
<1>16. ASSUME NEW h \in Handlers, Logs!saveShot(h) PROVE Events'
  <2>1. /\ row' = row /\ alert' = alert /\ answered' = answered \cup {<<"shot", call[h].s>>}
        /\ call'[h] = Logs!IdleCall
        /\ \A g \in Handlers : g # h => call'[g] = call[g]
    BY <1>0, <1>16 DEF Logs!saveShot, Logs!Goto, Logs!logs
  <2>2. Logs!Answered("batch")' = Logs!Answered("batch")
    BY <2>1 DEF Logs!Answered
  <2>3. Wrote(call[h])'
    BY <2>1 DEF Wrote, Logs!IdleCall, UploadStages
  <2>4. \A g \in Handlers : Wrote(call[g])'
    BY <1>3, <1>6, <2>1, <2>3
  <2> QED BY <1>0, <2>1, <2>2, <2>4 DEF Events
<1>17. ASSUME NEW h \in Handlers, Logs!deleteOldWebsites(h) \/ Logs!deleteOldFiles(h) PROVE Events'
  <2>1. /\ call[h].pc \in Cleaning /\ alert' = alert /\ answered' = answered
        /\ \E kind \in {"website", "file"} :
             row' = [row EXCEPT ![kind] = @ \ Logs!Before(call[h].before, Batches)]
        /\ call'[h].pc \in {"idle", "deleteOldFiles"}
        /\ \A g \in Handlers : g # h => call'[g] = call[g]
    BY <1>0, <1>17, LogFields DEF Logs!deleteOldWebsites, Logs!deleteOldFiles, Logs!Onto, Logs!Goto, Logs!At,
         Logs!Aged, Logs!IdleCall, Logs!history, Cleaning
  <2>2. Past(call[h].before)
    BY <2>1 DEF Aged, Ages
  <2>3. \A b \in Logs!Before(call[h].before, Batches) : <<"batch", b>> \in excused
    BY <1>0, <2>2 DEF Past, Logs!Before
  <2>4. Keeps
    BY <1>0, <2>1, <2>3 DEF Keeps
  <2>5. Wrote(call[h])'
    BY <2>1 DEF Wrote, UploadStages
  <2> QED BY <1>5, <2>1, <2>4, <2>5
<1>18. CASE UNCHANGED <<row, answered, call>> /\ (alert.status # "none" => alert'.status # "none")
  <2>1. Keeps
    BY <1>18 DEF Keeps
  <2> QED BY <1>3, <1>4, <1>18, <2>1 DEF Events
<1>19. CASE Logs!Crash
  <2>1. row' = row /\ alert' = alert /\ answered' = answered /\ \A h \in Handlers : call'[h] = Logs!IdleCall
    BY <1>19 DEF Logs!Crash, Logs!logs, Logs!history
  <2>2. \A h \in Handlers : Wrote(call[h])'
    BY <2>1 DEF Wrote, Logs!IdleCall, UploadStages
  <2> QED BY <1>4, <1>6, <2>1, <2>2 DEF Events
<1>20. CASE Logs!resolveAlert \/ Logs!HalfHourPasses \/ Logs!DayPasses
            \/ (\E days \in 0..1, on \in BOOLEAN : Logs!updateSettings(days, on)) \/ UNCHANGED Logs!vars
  <2>1. UNCHANGED <<row, answered, call>>
    BY <1>20 DEF Logs!resolveAlert, Logs!HalfHourPasses, Logs!DayPasses, Logs!updateSettings, Logs!vars,
         Logs!logs, Logs!history
  <2>2. alert \in Logs!AlertState
    BY DEF LogTypes, Logs!TypeOK
  <2>3. alert.status # "none" => alert'.status # "none"
    BY <1>20, <2>2 DEF Logs!resolveAlert, Logs!HalfHourPasses, Logs!DayPasses, Logs!updateSettings, Logs!vars,
         Logs!logs, Logs!AlertState
  <2> QED BY <1>18, <2>1, <2>3
<1>21. ASSUME NEW h \in Handlers, Logs!Handle(h) PROVE Events'
  BY <1>21, <1>7, <1>9, <1>10, <1>11, <1>12, <1>13, <1>14, <1>15, <1>16, <1>17 DEF Logs!Handle
<1> QED BY <1>19, <1>20, <1>21 DEF Logs!Next

\* Steps that have to do with neither screenshots nor answers.
Other(h) ==
  \/ \E b \in Batches : Logs!ingestAgent(h, b)
  \/ Logs!storeApplication(h) \/ Logs!createAlert(h) \/ Logs!findRecent(h) \/ Logs!raiseAlert(h)
  \/ Logs!storeWebsite(h) \/ Logs!applyRetentionPolicies(h)
  \/ Logs!deleteOldWebsites(h) \/ Logs!deleteOldFiles(h)

LEMMA OthersMove ==
  ASSUME LogTypes, NEW h \in Handlers, Other(h)
  PROVE  /\ UNCHANGED <<shot, image, uploads, answered, keyCount>> /\ excused' = excused
         /\ \A g \in Handlers : g # h => call'[g] = call[g]
         /\ call[h].pc \notin {"file", "saveShot", "deleteImages"}
         /\ call'[h].pc \notin {"file", "saveShot", "deleteImages"}
<1>0. /\ DOMAIN call = Handlers /\ \A g \in Handlers : call[g] \in LogCall
  BY DEF LogTypes
<1>1. /\ UNCHANGED <<shot, image, uploads, answered, keyCount>> /\ excused' = excused
      /\ \A g \in Handlers : g # h => call'[g] = call[g]
  BY <1>0 DEF Other, Logs!ingestAgent, Logs!storeApplication, Logs!createAlert, Logs!findRecent, Logs!raiseAlert,
       Logs!storeWebsite, Logs!applyRetentionPolicies, Logs!deleteOldWebsites, Logs!deleteOldFiles,
       Logs!Goto, Logs!Onto, Logs!logs, Logs!shots, Logs!history
<1>2. CASE Logs!deleteOldFiles(h) \/ Logs!applyRetentionPolicies(h) \/ \E b \in Batches : Logs!ingestAgent(h, b)
  BY <1>0, <1>1, <1>2 DEF Logs!ingestAgent, Logs!applyRetentionPolicies, Logs!deleteOldFiles,
       Logs!Goto, Logs!Idle, Logs!At, Logs!IdleCall
<1>3. CASE Logs!deleteOldWebsites(h)
  BY <1>0, <1>1, <1>3, LogFields DEF Logs!deleteOldWebsites, Logs!Onto, Logs!Goto, Logs!At, Cleaning
<1>4. CASE \/ Logs!storeApplication(h) \/ Logs!createAlert(h) \/ Logs!findRecent(h) \/ Logs!raiseAlert(h)
           \/ Logs!storeWebsite(h)
  <2>1. /\ call[h].pc \in {"application", "alert", "recent", "raise", "website"}
        /\ \E pc \in {"alert", "recent", "raise", "website", "count"} : Logs!Onto(h, pc)
    BY <1>4 DEF Logs!storeApplication, Logs!createAlert, Logs!findRecent, Logs!raiseAlert,
         Logs!storeWebsite, Logs!At
  <2> QED BY <1>0, <1>1, <2>1, LogFields DEF Logs!Onto, Logs!Goto, UploadStages
<1> QED BY <1>2, <1>3, <1>4 DEF Other

\* Steps of nobody's call.
Outside ==
  \/ Logs!resolveAlert \/ Logs!HalfHourPasses \/ Logs!DayPasses
  \/ (\E days \in 0..1, on \in BOOLEAN : Logs!updateSettings(days, on)) \/ UNCHANGED Logs!vars

LEMMA OutsideRests ==
  ASSUME Outside
  PROVE  UNCHANGED <<shot, image, uploads, answered, keyCount, call>>
BY DEF Outside, Logs!resolveAlert, Logs!HalfHourPasses, Logs!DayPasses, Logs!updateSettings, Logs!vars,
       Logs!logs, Logs!shots, Logs!history

LEMMA OneMore ==
  ASSUME NEW S, NEW x, IsFiniteSet(S)
  PROVE  /\ IsFiniteSet(S \cup {x})
         /\ Cardinality(S \cup {x}) \in Nat /\ Cardinality(S \cup {x}) <= Cardinality(S) + 1
<1>1. /\ IsFiniteSet(S \cup {x})
      /\ Cardinality(S \cup {x}) = IF x \in S THEN Cardinality(S) ELSE Cardinality(S) + 1
  BY FS_AddElement
<1>2. Cardinality(S) \in Nat
  BY FS_CardinalityType
<1> QED BY <1>1, <1>2

LEMMA KeysStep ==
  ASSUME LogConstants, LogTypes, Keys, [Logs!Next]_Logs!vars
  PROVE  Keys'
<1> DEFINE said == Logs!Answered("batch")
<1>0. /\ DOMAIN call = Handlers /\ \A g \in Handlers : call[g] \in LogCall
      /\ keyCount \in Nat /\ IsFiniteSet(Filing) /\ IsFiniteSet(said)
      /\ Cardinality(Filing) \in Nat /\ Cardinality(said) \in Nat
  <2>1. IsFiniteSet(Filing)
    BY FS_Subset DEF Filing, LogConstants
  <2> QED BY <2>1, FS_CardinalityType DEF LogTypes, Logs!TypeOK, Keys
<1>1. ASSUME said' = said, keyCount' = keyCount, Filing' = Filing PROVE Keys'
  BY <1>1 DEF Keys
<1>2. ASSUME NEW h \in Handlers, said' = said, keyCount' = keyCount,
             \A g \in Handlers : g # h => call'[g] = call[g],
             call[h].pc # "file", call'[h].pc # "file"
      PROVE  Keys'
  BY <1>1, <1>2 DEF Filing
<1>3. ASSUME NEW h \in Handlers, Other(h) PROVE Keys'
  <2>1. said' = said
    BY <1>3, OthersMove DEF Logs!Answered
  <2> QED BY <1>2, <1>3, <2>1, OthersMove
<1>4. ASSUME NEW h \in Handlers, Logs!countKeys(h) PROVE Keys'
  <2>1. /\ call[h].pc = "count" /\ keyCount' = keyCount + 1 /\ answered' = answered
        /\ Logs!Onto(h, "file")
    BY <1>4 DEF Logs!countKeys, Logs!CountedAs, Logs!At, Logs!history
  <2>2. call'[h].pc = "file" /\ \A g \in Handlers : g # h => call'[g] = call[g]
    BY <1>0, <2>1, LogFields DEF Logs!Onto, Logs!Goto, UploadStages
  <2>3. Filing' = Filing \cup {h} /\ said' = said
    BY <2>1, <2>2 DEF Filing, Logs!Answered
  <2>4. /\ Cardinality(Filing \cup {h}) \in Nat
        /\ Cardinality(Filing \cup {h}) <= Cardinality(Filing) + 1
    BY <1>0, OneMore
  <2>5. Cardinality(Filing') \in Nat /\ Cardinality(Filing') <= Cardinality(Filing) + 1
    BY <2>3, <2>4
  <2> QED BY <1>0, <2>1, <2>3, <2>4, <2>5 DEF Keys
<1>5. ASSUME NEW h \in Handlers, Logs!storeFiles(h) PROVE Keys'
  <2>1. /\ call[h].pc = "file" /\ keyCount' = keyCount
        /\ answered' = answered \cup {<<"batch", call[h].b>>}
        /\ call'[h] = Logs!IdleCall /\ \A g \in Handlers : g # h => call'[g] = call[g]
    BY <1>0, <1>5 DEF Logs!storeFiles, Logs!At, Logs!Goto
  <2>2. Filing' = Filing \ {h} /\ h \in Filing
    BY <2>1 DEF Filing, Logs!IdleCall
  <2>3. said' = said \cup {<<"batch", call[h].b>>}
    BY <2>1 DEF Logs!Answered
  <2>4. Cardinality(Filing') = Cardinality(Filing) - 1
    BY <1>0, <2>2, FS_RemoveElement
  <2>5. /\ IsFiniteSet(said \cup {<<"batch", call[h].b>>})
        /\ Cardinality(said \cup {<<"batch", call[h].b>>}) \in Nat
        /\ Cardinality(said \cup {<<"batch", call[h].b>>}) <= Cardinality(said) + 1
    BY <1>0, OneMore
  <2>6. /\ IsFiniteSet(said') /\ Cardinality(said') \in Nat
        /\ Cardinality(said') <= Cardinality(said) + 1
    BY <2>3, <2>5
  <2> QED BY <1>0, <2>1, <2>4, <2>5, <2>6 DEF Keys
<1>6. ASSUME NEW h \in Handlers,
             \/ \E s \in Shots : Logs!uploadScreenshotAgent(h, s) \/ Logs!deleteScreenshots(h, s)
             \/ Logs!saveShot(h) \/ Logs!deleteImage(h) \/ Logs!deleteRows(h) \/ Logs!findOldShots(h)
      PROVE  Keys'
  <2>1. keyCount' = keyCount /\ \A g \in Handlers : g # h => call'[g] = call[g]
    BY <1>0, <1>6 DEF Logs!uploadScreenshotAgent, Logs!deleteScreenshots, Logs!saveShot, Logs!deleteImage,
         Logs!deleteRows, Logs!findOldShots, Logs!Goto, Logs!logs
  <2>2. answered' = answered \/ answered' = answered \cup {<<"shot", call[h].s>>}
    BY <1>6 DEF Logs!uploadScreenshotAgent, Logs!deleteScreenshots, Logs!saveShot, Logs!deleteImage,
         Logs!deleteRows, Logs!findOldShots, Logs!history
  <2>3. said' = said
    BY <2>2 DEF Logs!Answered
  <2>4. call[h].pc \in {"idle", "saveShot", "deleteImages", "findOldShots"}
    BY <1>6 DEF Logs!uploadScreenshotAgent, Logs!deleteScreenshots, Logs!saveShot, Logs!deleteImage,
         Logs!deleteRows, Logs!findOldShots, Logs!Idle, Logs!At
  <2>5. call'[h].pc # "file"
    <3>1. CASE Logs!deleteImage(h)
      BY <1>0, <3>1, LogFields DEF Logs!deleteImage, Logs!Goto, Logs!At
    <3>2. CASE \E s \in Shots : Logs!uploadScreenshotAgent(h, s)
      BY <1>0, <3>2 DEF Logs!uploadScreenshotAgent, Logs!Goto
    <3>3. CASE \/ \E s \in Shots : Logs!deleteScreenshots(h, s)
               \/ Logs!saveShot(h) \/ Logs!deleteRows(h) \/ Logs!findOldShots(h)
      BY <1>0, <3>3 DEF Logs!deleteScreenshots, Logs!saveShot, Logs!deleteRows, Logs!findOldShots,
           Logs!Goto, Logs!IdleCall
    <3> QED BY <1>6, <3>1, <3>2, <3>3
  <2> QED BY <1>2, <2>1, <2>3, <2>4, <2>5
<1>7. CASE Outside
  <2>1. said' = said /\ keyCount' = keyCount /\ Filing' = Filing
    BY <1>7, OutsideRests DEF Logs!Answered, Filing
  <2> QED BY <1>1, <2>1
<1>8. CASE Logs!Crash
  <2>1. said' = said /\ keyCount' = keyCount /\ Filing' = {}
    BY <1>8 DEF Logs!Crash, Logs!logs, Logs!history, Logs!Answered, Filing, Logs!IdleCall
  <2>2. Cardinality(Filing') = 0
    BY <2>1, FS_EmptySet
  <2> QED BY <1>0, <2>1, <2>2 DEF Keys
<1>9. ASSUME NEW h \in Handlers, Logs!Handle(h) PROVE Keys'
  BY <1>9, <1>3, <1>4, <1>5, <1>6 DEF Logs!Handle, Other
<1> QED BY <1>7, <1>8, <1>9 DEF Logs!Next, Outside

LEMMA ScreensStep ==
  ASSUME LogConstants, LogTypes, Aged, Screens, [Logs!Next]_Logs!vars
  PROVE  Screens'
<1>0. /\ DOMAIN call = Handlers /\ \A g \in Handlers : call[g] \in LogCall
      /\ shot \in [Shots -> Pictures] /\ image \subseteq Logs!Images
      /\ uploads \in Nat /\ MaxUploads \in Nat /\ Logs!Images = 1..MaxUploads
      /\ Logs!NoShot = 0 /\ Logs!Inline = -1
      /\ \A x \in Logs!Answered("shot") : x[1] = "shot" /\ x[2] \in Shots /\ x = <<"shot", x[2]>>
      /\ excused \subseteq excused'
  <2>1. Logs!Answered("shot") \subseteq Logs!Sent
    BY DEF LogTypes, Logs!TypeOK, Logs!Answered
  <2>2. \A x \in Logs!Answered("shot") : x[1] = "shot" /\ x[2] \in Shots /\ x = <<"shot", x[2]>>
    BY <2>1 DEF Logs!Sent, Logs!Answered
  <2> QED BY <2>2, HistoryGrows DEF LogTypes, Logs!TypeOK, LogConstants, Logs!Images, Logs!NoShot, Logs!Inline, Pictures
<1>t. \A g \in Handlers :
        /\ call[g].pc = "saveShot" => call[g].s \in Shots /\ call[g].image \in {Logs!Inline} \cup Logs!Images
        /\ Deleting(g) => call[g].images \subseteq Pictures /\ call[g].gone \subseteq Shots
  BY <1>0, LogFields DEF Deleting
<1>1. ASSUME UNCHANGED <<shot, image, uploads, answered>>,
             \A g \in Handlers : call'[g] = call[g] \/ ~(Saving(g)' \/ Deleting(g)')
      PROVE  Screens'
  <2>1. Logs!Answered("shot")' = Logs!Answered("shot")
    BY <1>1 DEF Logs!Answered
  <2>2. \A x \in Logs!Answered("shot")' \ excused' : shot'[x[2]] \in image' \cup {Logs!Inline}
    BY <1>0, <1>1, <2>1 DEF Screens
  <2>3. \A g \in Handlers : (Saving(g)' => Saving(g) /\ call'[g] = call[g])
                            /\ (Deleting(g)' => Deleting(g) /\ call'[g] = call[g])
    BY <1>1 DEF Saving, Deleting
  <2>4. Used'
    BY <1>1, <2>3 DEF Screens, Used
  <2>5. ASSUME NEW g \in Handlers PROVE Fresh(g)' /\ Owned(g)'
    <3>1. Fresh(g) /\ Owned(g)
      BY DEF Screens
    <3>2. Fresh(g)'
      BY <1>1, <2>3, <3>1 DEF Fresh
    <3>3. Owned(g)'
      BY <1>1, <2>3, <3>1 DEF Owned
    <3> QED BY <3>2, <3>3
  <2> QED BY <1>1, <2>2, <2>4, <2>5 DEF Screens
<1>2. ASSUME NEW h \in Handlers, Other(h) \/ Logs!countKeys(h) \/ Logs!storeFiles(h) PROVE Screens'
  <2>1. CASE Other(h)
    <3>1. UNCHANGED <<shot, image, uploads, answered>>
      BY <2>1, OthersMove
    <3>2. \A g \in Handlers : call'[g] = call[g] \/ ~(Saving(g)' \/ Deleting(g)')
      BY <2>1, OthersMove DEF Saving, Deleting
    <3> QED BY <1>1, <3>1, <3>2
  <2>2. CASE Logs!countKeys(h)
    <3>1. UNCHANGED <<shot, image, uploads, answered>> /\ call[h].pc = "count" /\ Logs!Onto(h, "file")
      BY <2>2 DEF Logs!countKeys, Logs!CountedAs, Logs!shots, Logs!history, Logs!At
    <3>2. \A g \in Handlers : call'[g] = call[g] \/ ~(Saving(g)' \/ Deleting(g)')
      BY <1>0, <3>1, LogFields DEF Saving, Deleting, Logs!Onto, Logs!Goto, UploadStages
    <3> QED BY <1>1, <3>1, <3>2
  <2>3. CASE Logs!storeFiles(h)
    <3>1. /\ UNCHANGED <<shot, image, uploads>> /\ answered' = answered \cup {<<"batch", call[h].b>>}
          /\ call'[h] = Logs!IdleCall /\ \A g \in Handlers : g # h => call'[g] = call[g]
      BY <1>0, <2>3 DEF Logs!storeFiles, Logs!shots, Logs!Goto
    <3>2. Logs!Answered("shot")' = Logs!Answered("shot")
      BY <3>1 DEF Logs!Answered
    <3>3. \A g \in Handlers : (Saving(g)' => Saving(g) /\ call'[g] = call[g])
                              /\ (Deleting(g)' => Deleting(g) /\ call'[g] = call[g])
      BY <3>1 DEF Saving, Deleting, Logs!IdleCall
    <3>4. Used'
      BY <3>1, <3>3 DEF Screens, Used
    <3>5. ASSUME NEW g \in Handlers PROVE Fresh(g)' /\ Owned(g)'
      <4>1. Fresh(g) /\ Owned(g)
        BY DEF Screens
      <4>2. Fresh(g)'
        BY <3>1, <3>3, <4>1 DEF Fresh
      <4>3. Owned(g)'
        BY <3>1, <3>3, <4>1 DEF Owned
      <4> QED BY <4>2, <4>3
    <3>6. \A x \in Logs!Answered("shot")' \ excused' : shot'[x[2]] \in image' \cup {Logs!Inline}
      BY <1>0, <3>1, <3>2 DEF Screens
    <3> QED BY <3>1, <3>4, <3>5, <3>6 DEF Screens
  <2> QED BY <1>2, <2>1, <2>2, <2>3
<1>3. ASSUME NEW h \in Handlers, NEW s \in Shots, Logs!uploadScreenshotAgent(h, s) PROVE Screens'
  <2>1. /\ UNCHANGED <<shot, answered, excused>>
        /\ \A g \in Handlers : g # h => call'[g] = call[g]
        /\ \/ /\ uploads < MaxUploads /\ uploads' = uploads + 1 /\ image' = image \cup {uploads + 1}
              /\ call'[h] = [pc |-> "saveShot", s |-> s, image |-> uploads + 1]
           \/ /\ UNCHANGED <<image, uploads>>
              /\ call'[h] = [pc |-> "saveShot", s |-> s, image |-> Logs!Inline]
    BY <1>0, <1>3 DEF Logs!uploadScreenshotAgent, Logs!history, Logs!Goto
  <2>2. CASE call'[h] = [pc |-> "saveShot", s |-> s, image |-> Logs!Inline] /\ UNCHANGED <<image, uploads>>
    BY <1>0, <1>1, <2>1, <2>2 DEF Saving, Deleting
  <2>3. CASE /\ uploads < MaxUploads /\ uploads' = uploads + 1 /\ image' = image \cup {uploads + 1}
             /\ call'[h] = [pc |-> "saveShot", s |-> s, image |-> uploads + 1]
    <3> DEFINE new == uploads + 1
    <3>1. /\ new \in Logs!Images /\ call'[h].pc = "saveShot" /\ call'[h].image = new
          /\ \A s1 \in Shots : shot[s1] # new /\ shot[s1] <= uploads' /\ shot[s1] <= uploads
          /\ \A i \in image : i <= uploads'
      BY <1>0, <2>3 DEF Screens, Used, Pictures
    <3>2. \A g \in Handlers : Saving(g) => call[g].image # new /\ call[g].image <= uploads'
      BY <1>0, <2>3 DEF Screens, Used, Saving
    <3>3. ASSUME NEW g \in Handlers, Deleting(g) PROVE new \notin call[g].images /\ \A i \in call[g].images : i <= uploads'
      BY <1>0, <1>t, <2>3, <3>3 DEF Screens, Used, Pictures
    <3>4. \A g \in Handlers : g # h => (Saving(g)' <=> Saving(g)) /\ (Deleting(g)' <=> Deleting(g))
      BY <2>1 DEF Saving, Deleting
    <3>5. Saving(h)' /\ ~Deleting(h)'
      BY <3>1 DEF Saving, Deleting
    <3>6. Used'
      BY <1>0, <2>1, <2>3, <3>1, <3>2, <3>3, <3>4, <3>5 DEF Used
    <3>7. Fresh(h)' /\ Owned(h)'
      BY <2>1, <2>3, <3>1, <3>2, <3>3, <3>4, <3>5 DEF Fresh, Owned
    <3>8. ASSUME NEW g \in Handlers, g # h PROVE Fresh(g)' /\ Owned(g)'
      <4>1. Fresh(g) /\ Owned(g)
        BY DEF Screens
      <4>2. Fresh(g)'
        BY <2>1, <2>3, <3>1, <3>2, <3>4, <3>5, <3>8, <4>1 DEF Fresh
      <4>3. Owned(g)'
        BY <2>1, <3>4, <3>8, <4>1 DEF Owned
      <4> QED BY <4>2, <4>3
    <3>9. \A x \in Logs!Answered("shot")' \ excused' : shot'[x[2]] \in image' \cup {Logs!Inline}
      BY <2>1, <2>3 DEF Screens, Logs!Answered
    <3> QED BY <2>1, <3>6, <3>7, <3>8, <3>9 DEF Screens
  <2> QED BY <2>1, <2>2, <2>3
<1>4. ASSUME NEW h \in Handlers, Logs!saveShot(h) PROVE Screens'
  <2> DEFINE s == call[h].s
             i == call[h].image
  <2>1. /\ call[h].pc = "saveShot" /\ s \in Shots /\ i \in {Logs!Inline} \cup Logs!Images
        /\ UNCHANGED <<image, uploads, excused>> /\ shot' = [shot EXCEPT ![s] = i]
        /\ answered' = answered \cup {<<"shot", s>>}
        /\ call'[h] = Logs!IdleCall /\ \A g \in Handlers : g # h => call'[g] = call[g]
    BY <1>0, <1>4, <1>t DEF Logs!saveShot, Logs!At, Logs!Goto
  <2>2. shot'[s] = i /\ \A t \in Shots : t # s => shot'[t] = shot[t]
    BY <1>0, <2>1
  <2>3. /\ ~Saving(h)' /\ ~Deleting(h)'
        /\ \A g \in Handlers : g # h => (Saving(g)' <=> Saving(g)) /\ (Deleting(g)' <=> Deleting(g))
    BY <2>1 DEF Saving, Deleting, Logs!IdleCall
  <2>4. i \in Logs!Images => /\ i \in image /\ i <= uploads /\ \A t \in Shots : shot[t] # i
                             /\ \A g \in Handlers : Saving(g) /\ g # h => call[g].image # i
                             /\ \A g \in Handlers : Deleting(g) => i \notin call[g].images
    BY <2>1 DEF Screens, Used, Fresh, Saving
  <2>5. Used'
    <3>1. i <= uploads
      BY <1>0, <2>1, <2>4
    <3> QED BY <2>1, <2>2, <2>3, <3>1 DEF Screens, Used
  <2>6. ASSUME NEW g \in Handlers PROVE Fresh(g)' /\ Owned(g)'
    <3>1. CASE g = h
      BY <2>3, <3>1 DEF Fresh, Owned
    <3>2. CASE g # h
      <4>1. Fresh(g) /\ Owned(g)
        BY DEF Screens
      <4>2. Saving(g) => call[g].image \in Logs!Images /\ call[g].image # i
        BY <2>4, <3>2 DEF Saving
      <4>3. Fresh(g)'
        BY <2>1, <2>2, <2>3, <3>2, <4>1, <4>2 DEF Fresh
      <4>4. Owned(g)'
        BY <2>1, <2>2, <2>3, <2>4, <3>2, <4>1 DEF Owned
      <4> QED BY <4>3, <4>4
    <3> QED BY <3>1, <3>2
  <2>7. \A t, u \in Shots : shot'[t] \in Logs!Images /\ shot'[t] = shot'[u] => t = u
    BY <2>2, <2>4 DEF Screens
  <2>8. ASSUME NEW x \in Logs!Answered("shot")' \ excused' PROVE shot'[x[2]] \in image' \cup {Logs!Inline}
    <3>1. CASE x = <<"shot", s>>
      BY <2>1, <2>2, <2>4, <3>1
    <3>2. CASE x # <<"shot", s>>
      <4>1. x \in Logs!Answered("shot") \ excused
        BY <2>1, <3>2 DEF Logs!Answered
      <4>2. x[2] \in Shots /\ x[2] # s
        BY <1>0, <3>2, <4>1
      <4> QED BY <2>1, <2>2, <4>1, <4>2 DEF Screens
    <3> QED BY <3>1, <3>2
  <2> QED BY <2>5, <2>6, <2>7, <2>8 DEF Screens
\* A deletion begins: of the screenshots in `gone`, which are all excused.
<1>5. ASSUME NEW h \in Handlers, UNCHANGED <<shot, image, uploads, answered>>,
             \A g \in Handlers : g # h => call'[g] = call[g],
             NEW gone \in SUBSET Shots, ~Saving(h),
             call'[h].pc = "deleteImages", call'[h].gone = gone, call'[h].images = {shot[s] : s \in gone}
      PROVE  Screens'
  <2>1. /\ ~Saving(h)' /\ Deleting(h)'
        /\ \A g \in Handlers : g # h => (Saving(g)' <=> Saving(g)) /\ (Deleting(g)' <=> Deleting(g))
    BY <1>5 DEF Saving, Deleting
  <2>2. Used'
    BY <1>5, <2>1 DEF Screens, Used
  <2>3. Fresh(h)' /\ Owned(h)'
    BY <1>5, <2>1 DEF Fresh, Owned, Screens
  <2>4. ASSUME NEW g \in Handlers, g # h PROVE Fresh(g)' /\ Owned(g)'
    <3>1. Fresh(g) /\ Owned(g)
      BY DEF Screens
    <3>2. Fresh(g)'
      BY <1>5, <2>1, <2>4, <3>1 DEF Fresh
    <3>3. Owned(g)'
      BY <1>5, <2>1, <2>4, <3>1 DEF Owned
    <3> QED BY <3>2, <3>3
  <2>5. \A x \in Logs!Answered("shot")' \ excused' : shot'[x[2]] \in image' \cup {Logs!Inline}
    BY <1>0, <1>5 DEF Screens, Logs!Answered
  <2> QED BY <1>5, <2>2, <2>3, <2>4, <2>5 DEF Screens
<1>6. ASSUME NEW h \in Handlers, NEW s \in Shots, Logs!deleteScreenshots(h, s) PROVE Screens'
  <2>1. /\ UNCHANGED <<shot, image, uploads, answered>> /\ call[h].pc = "idle"
        /\ \A g \in Handlers : g # h => call'[g] = call[g]
        /\ call'[h] = [pc |-> "deleteImages", images |-> {shot[s]}, gone |-> {s}, then |-> "idle"]
    BY <1>0, <1>6 DEF Logs!deleteScreenshots, Logs!shots, Logs!Goto, Logs!Idle, Logs!At
  <2>2. {shot[s]} = {shot[t] : t \in {s}} /\ ~Saving(h)
    BY <2>1 DEF Saving
  <2> QED BY <1>5, <2>1, <2>2
<1>7. ASSUME NEW h \in Handlers, Logs!findOldShots(h) PROVE Screens'
  <2> DEFINE old == Logs!Before(call[h].before, Shots)
  <2>1. /\ UNCHANGED <<shot, image, uploads, answered>> /\ call[h].pc = "findOldShots"
        /\ \A g \in Handlers : g # h => call'[g] = call[g]
        /\ call'[h] = [pc |-> "deleteImages", images |-> {shot[s] : s \in old}, gone |-> old,
                       then |-> "logs", before |-> call[h].before]
    BY <1>0, <1>7 DEF Logs!findOldShots, Logs!shots, Logs!history, Logs!Goto, Logs!At
  <2>2. old \in SUBSET Shots /\ ~Saving(h)
    BY <2>1 DEF Saving, Logs!Before
  <2> HIDE DEF old
  <2>3. /\ call'[h].pc = "deleteImages" /\ call'[h].gone = old
        /\ call'[h].images = {shot[s] : s \in old}
    BY <2>1
  <2> QED BY <1>5, <2>1, <2>2, <2>3
<1>8. ASSUME NEW h \in Handlers, Logs!deleteImage(h) PROVE Screens'
  <2>1. PICK i \in call[h].images :
          /\ image' = image \ {i}
          /\ Logs!Goto(h, [call[h] EXCEPT !.images = @ \ {i}])
    BY <1>8 DEF Logs!deleteImage
  <2>2. /\ call[h].pc = "deleteImages" /\ UNCHANGED <<shot, uploads, answered, excused>>
        /\ \A g \in Handlers : g # h => call'[g] = call[g]
        /\ call'[h].pc = "deleteImages" /\ call'[h].gone = call[h].gone
        /\ call'[h].images = call[h].images \ {i}
    BY <1>0, <1>8, <2>1, LogFields DEF Logs!deleteImage, Logs!At, Logs!Goto, Logs!history
  <2>3. /\ Deleting(h) /\ ~Saving(h)' /\ ~Saving(h)
        /\ \A g \in Handlers : (g # h => (Saving(g)' <=> Saving(g))) /\ (Deleting(g)' <=> Deleting(g))
    BY <2>2 DEF Saving, Deleting
  <2>4. \A g \in Handlers : Deleting(g) => call'[g].images \subseteq call[g].images /\ call'[g].gone = call[g].gone
    BY <2>2
  <2>5. Used'
    BY <2>1, <2>2, <2>3, <2>4 DEF Screens, Used
  <2>6. ASSUME NEW g \in Handlers PROVE Fresh(g)' /\ Owned(g)'
    <3>1. Fresh(g) /\ Owned(g)
      BY DEF Screens
    <3>2. Saving(g) => call[g].image # i /\ g # h
      BY <2>1, <2>3, <3>1 DEF Fresh
    <3>3. Fresh(g)'
      BY <2>1, <2>2, <2>3, <2>4, <3>1, <3>2 DEF Fresh
    <3>4. Owned(g)'
      BY <2>2, <2>3, <2>4, <3>1 DEF Owned
    <3> QED BY <3>3, <3>4
  <2>7. ASSUME NEW x \in Logs!Answered("shot")' \ excused' PROVE shot'[x[2]] \in image' \cup {Logs!Inline}
    <3>1. x \in Logs!Answered("shot") /\ x \notin excused
      BY <2>2, <2>7 DEF Logs!Answered
    <3>2. x[2] \in Shots /\ x = <<"shot", x[2]>> /\ shot[x[2]] \in image \cup {Logs!Inline}
      BY <1>0, <3>1 DEF Screens
    <3>3. x[2] \notin call[h].gone
      BY <2>2, <3>1, <3>2 DEF Aged, Ages
    <3>4. shot[x[2]] \in Logs!Images => shot[x[2]] # i
      BY <2>1, <2>3, <3>2, <3>3 DEF Screens, Owned
    <3> QED BY <1>0, <2>1, <2>2, <3>2, <3>4
  <2> QED BY <2>2, <2>5, <2>6, <2>7 DEF Screens
<1>9. ASSUME NEW h \in Handlers, Logs!deleteRows(h) PROVE Screens'
  <2>1. /\ call[h].pc = "deleteImages" /\ call[h].images = {} /\ UNCHANGED <<image, uploads, answered, excused>>
        /\ \A g \in Handlers : g # h => call'[g] = call[g]
        /\ call'[h].pc \in {"idle", "deleteOldWebsites"}
        /\ \A s \in Shots : shot'[s] = IF s \in call[h].gone THEN Logs!NoShot ELSE shot[s]
    BY <1>0, <1>9 DEF Logs!deleteRows, Logs!At, Logs!Goto, Logs!history, Logs!IdleCall
  <2>2. /\ ~Saving(h)' /\ ~Deleting(h)'
        /\ \A g \in Handlers : g # h => (Saving(g)' <=> Saving(g)) /\ (Deleting(g)' <=> Deleting(g))
    BY <2>1 DEF Saving, Deleting
  <2>3. \A s \in Shots : shot'[s] = shot[s] \/ shot'[s] = 0
    BY <1>0, <2>1
  <2>4. 0 \notin Logs!Images
    BY <1>0
  <2>5. Used'
    BY <1>0, <2>1, <2>2, <2>3 DEF Screens, Used
  <2>6. ASSUME NEW g \in Handlers PROVE Fresh(g)' /\ Owned(g)'
    <3>1. CASE g = h
      BY <2>2, <3>1 DEF Fresh, Owned
    <3>2. CASE g # h
      <4>1. Fresh(g) /\ Owned(g)
        BY DEF Screens
      <4>2. Saving(g) => call[g].image \in Logs!Images
        BY DEF Saving
      <4>3. Fresh(g)'
        BY <2>1, <2>2, <2>3, <2>4, <3>2, <4>1, <4>2 DEF Fresh
      <4>4. Owned(g)'
        BY <2>1, <2>2, <2>3, <2>4, <3>2, <4>1 DEF Owned
      <4> QED BY <4>3, <4>4
    <3> QED BY <3>1, <3>2
  <2>7. \A s, t \in Shots : shot'[s] \in Logs!Images /\ shot'[s] = shot'[t] => s = t
    BY <2>3, <2>4 DEF Screens
  <2>8. ASSUME NEW x \in Logs!Answered("shot")' \ excused' PROVE shot'[x[2]] \in image' \cup {Logs!Inline}
    <3>1. x \in Logs!Answered("shot") /\ x \notin excused
      BY <2>1, <2>8 DEF Logs!Answered
    <3>2. x[2] \in Shots /\ x = <<"shot", x[2]>> /\ shot[x[2]] \in image \cup {Logs!Inline}
      BY <1>0, <3>1 DEF Screens
    <3>3. x[2] \notin call[h].gone
      BY <2>1, <3>1, <3>2 DEF Aged, Ages
    <3> QED BY <2>1, <3>2, <3>3
  <2> QED BY <2>5, <2>6, <2>7, <2>8 DEF Screens
<1>10. CASE Outside
  BY <1>1, <1>10, OutsideRests
<1>11. CASE Logs!Crash
  BY <1>1, <1>11 DEF Logs!Crash, Logs!shots, Logs!history, Saving, Deleting, Logs!IdleCall
<1>12. ASSUME NEW h \in Handlers, Logs!Handle(h) PROVE Screens'
  BY <1>12, <1>2, <1>3, <1>4, <1>6, <1>7, <1>8, <1>9 DEF Logs!Handle, Other
<1> QED BY <1>10, <1>11, <1>12 DEF Logs!Next, Outside

\* What an agent was answered for is there, however often it came, whatever
\* crashed and whatever was cleaned up meanwhile: for any number of requests,
\* batches and screenshots of any days (ingestAgent, uploadScreenshotAgent).
THEOREM LogsAreKeptAlways ==
  ASSUME LogConstants
  PROVE  Logs!Spec => [](Logs!TypeOK /\ Logs!AnsweredIsStored)
<1>1. Logs!Init => LogInv
  <2> SUFFICES ASSUME Logs!Init PROVE LogInv
    OBVIOUS
  <2>0. /\ answered = {} /\ \A h \in Handlers : call[h] = Logs!IdleCall /\ DOMAIN call = Handlers
    BY DEF Logs!Init
  <2>1. [status |-> "none", recent |-> FALSE] \in Logs!AlertState
    BY DEF Logs!AlertState
  <2>2. LogTypes
    BY <2>1 DEF Logs!Init, LogTypes, Logs!TypeOK, LogConstants, LogCall
  <2>3. Aged
    <3>1. day = 1 /\ keep \in {0, 1}
      BY DEF Logs!Init
    <3>2. ASSUME NEW x \in Logs!Sent PROVE x[2] \in Nat \ {0}
      <4>1. \/ \E b \in Batches : x = <<"batch", b>>
            \/ \E s \in Shots : x = <<"shot", s>>
        BY Zenon DEF Logs!Sent
      <4>2. x[2] \in Batches \cup Shots
        BY <4>1
      <4> QED BY <4>2 DEF LogConstants
    <3>3. Past(day - keep)
      BY <3>1, <3>2 DEF Past
    <3> QED BY <2>0, <3>3 DEF Aged, Ages, Logs!IdleCall, Cleaning
  <2>4. Logs!Answered("batch") = {} /\ Logs!Answered("shot") = {}
    BY <2>0 DEF Logs!Answered
  <2>5. Events
    BY <2>0, <2>4 DEF Events, Wrote, Logs!IdleCall, UploadStages
  <2>6. Keys
    <3>1. Filing = {}
      BY <2>0 DEF Filing, Logs!IdleCall
    <3> QED BY <2>4, <3>1, FS_EmptySet DEF Keys, Logs!Init
  <2>7. Screens
    <3>1. \A h \in Handlers : ~Saving(h) /\ ~Deleting(h)
      BY <2>0 DEF Saving, Deleting, Logs!IdleCall
    <3>2. uploads = 0 /\ image = {} /\ \A s \in Shots : shot[s] = 0 /\ 0 \notin Logs!Images
      BY DEF Logs!Init, Logs!NoShot, Logs!Images, LogConstants
    <3> QED BY <2>4, <3>1, <3>2 DEF Screens, Used, Fresh, Owned
  <2> QED BY <2>2, <2>3, <2>5, <2>6, <2>7 DEF LogInv
<1>2. LogInv /\ [Logs!Next]_Logs!vars => LogInv'
  BY LogTyped, AgedStep, EventsStep, KeysStep, ScreensStep DEF LogInv
<1>3. LogInv => Logs!TypeOK /\ Logs!AnsweredIsStored
  <2> SUFFICES ASSUME LogInv PROVE Logs!TypeOK /\ Logs!AnsweredIsStored
    OBVIOUS
  <2>1. Logs!Cardinality(Logs!Answered("batch")) = Cardinality(Logs!Answered("batch"))
    BY DEF Logs!Cardinality, Cardinality
  <2>2. keyCount >= Cardinality(Logs!Answered("batch"))
    <3>1. IsFiniteSet(Filing) /\ IsFiniteSet(Logs!Answered("batch"))
      BY FS_Subset DEF Filing, LogConstants, LogInv, Keys
    <3>2. Cardinality(Filing) \in Nat /\ Cardinality(Logs!Answered("batch")) \in Nat /\ keyCount \in Nat
      BY <3>1, FS_CardinalityType DEF LogInv, LogTypes, Logs!TypeOK
    <3> QED BY <3>2 DEF LogInv, Keys
  <2>3. \A x \in Logs!Answered("batch") :
          /\ x[2] \in row["application"]
          /\ x \notin excused => \A kind \in Logs!Aging : x[2] \in row[kind]
          /\ x[2] \notin silenced => alert.status # "none"
    BY DEF LogInv, Events, Logs!Aging
  <2>4. \A x \in Logs!Answered("shot") \ excused : shot[x[2]] \in image \cup {Logs!Inline}
    BY DEF LogInv, Screens
  <2> QED BY <2>1, <2>2, <2>3, <2>4 DEF LogInv, LogTypes, Logs!AnsweredIsStored
<1> QED BY <1>1, <1>2, <1>3, PTL DEF Logs!Spec

-----------------------------------------------------------------------------
(* SchoolPins: what a search has in hand when it writes, whoever writes too. *)

Row == [pin: Places \cup {NoPin}, verified: BOOLEAN, tried: BOOLEAN]
Origins == {"none", "admin", "fast", "gate", "listing"}
Job == [pc: {"next", "search", "sources", "save"}, kind: {"resolve", "assign", "auto"},
        fast: BOOLEAN, keep: BOOLEAN, todo: SUBSET Schools, s: Schools \cup {0},
        pin: Places \cup {NoPin}, how: {"", "fast", "gate", "listing"}]
Flagging == [pc: {"flag"}, todo: SUBSET Schools]
PinCall == {Pins!IdleCall} \cup Job \cup Flagging \cup [pc: {"verify"}, s: Schools, pin: Places]

PinFacts == Schools \subseteq Nat /\ Named \subseteq Places /\ NoPin \notin Places

\* A slow search that relies on the register or the village sources has a pin
\* Google was asked about; a fast one says that it is fast.
Backed(c) ==
  c \in Job /\ c.pc = "save" =>
    /\ c.pin \in Places /\ c.how # ""
    /\ c.fast => c.how = "fast"
    /\ c.how = "gate" => c.pin \in InBlock
\* Whoever only sets the flag found a pin there, and no pin is taken away.
HasPins(c) == c \in Flagging => \A s \in c.todo : school[s].pin # NoPin
CallsBack == \A h \in Handlers : Backed(call[h]) /\ HasPins(call[h])

\* What is right of one school's row, and of who verified it.
Vouched(kept, by) ==
  /\ kept.verified => kept.pin # NoPin
  /\ kept.verified /\ by # "admin" => kept.pin \in InDistrict \cap Named
  /\ kept.verified /\ by = "gate" => kept.pin \in InBlock
PinTypes ==
  /\ school \in [Schools -> Row] /\ origin \in [Schools -> Origins]
  /\ villageCache \in Places \cup {NoPin} /\ late \subseteq BOOLEAN
  /\ call \in [Handlers -> PinCall]
PinInv == PinTypes /\ CallsBack /\ \A s \in Schools : Vouched(school[s], origin[s])

LEMMA LeastOf ==
  ASSUME NEW T \in SUBSET Nat, T # {}
  PROVE  Pins!Min(T) \in T
BY SmallestOf DEF Pins!Min

LEMMA PinCallGoes ==
  ASSUME PinTypes, NEW h \in Handlers, NEW c \in PinCall, Pins!Goto(h, c)
  PROVE  /\ \A g \in Handlers : call'[g] = IF g = h THEN c ELSE call[g]
         /\ call' \in [Handlers -> PinCall]
BY DEF Pins!Goto, PinTypes

LEMMA PinCallShapes ==
  ASSUME NEW c \in PinCall
  PROVE  /\ c.pc \in {"next", "search", "sources", "save"} => c \in Job
         /\ c.pc = "flag" => c \in Flagging
         /\ c.pc = "verify" => c.s \in Schools /\ c.pin \in Places
<1>1. CASE c = Pins!IdleCall
  BY <1>1 DEF Pins!IdleCall
<1>2. CASE c \in Job
  BY <1>2 DEF Job
<1>3. CASE c \in Flagging
  BY <1>3 DEF Flagging
<1>4. CASE c \in [pc: {"verify"}, s: Schools, pin: Places]
  BY <1>4
<1> QED BY <1>1, <1>2, <1>3, <1>4 DEF PinCall

\* Pins are set, never taken away.
PinsStay == \A s \in Schools : school[s].pin # NoPin => school'[s].pin # NoPin

LEMMA BackOn ==
  ASSUME PinInv, PinsStay, NEW h \in Handlers, NEW c \in PinCall, Pins!Goto(h, c),
         Backed(c), HasPins(c)'
  PROVE  call' \in [Handlers -> PinCall] /\ CallsBack'
<1>1. call' \in [Handlers -> PinCall] /\ \A g \in Handlers : call'[g] = IF g = h THEN c ELSE call[g]
  BY PinCallGoes DEF PinInv
<1>2. ASSUME NEW g \in Handlers PROVE (Backed(call[g]) /\ HasPins(call[g]))'
  <2>1. CASE g = h
    BY <1>1, <2>1 DEF Backed, HasPins
  <2>2. CASE g # h
    <3>1. PICK q : q = call[g] OBVIOUS
    <3>2. Backed(q) /\ HasPins(q) /\ call'[g] = q
      BY <1>1, <2>2, <3>1 DEF PinInv, CallsBack
    <3>3. HasPins(q)' BY <3>2 DEF PinsStay, HasPins, Flagging
    <3> QED BY <3>2, <3>3 DEF Backed, HasPins
  <2> QED BY <2>1, <2>2
<1> QED BY <1>1, <1>2 DEF CallsBack

LEMMA BackStays ==
  ASSUME PinInv, PinsStay, UNCHANGED call
  PROVE  call' \in [Handlers -> PinCall] /\ CallsBack'
<1>1. ASSUME NEW g \in Handlers PROVE (Backed(call[g]) /\ HasPins(call[g]))'
  <2>1. PICK q : q = call[g] OBVIOUS
  <2>2. Backed(q) /\ HasPins(q) /\ call'[g] = q
    BY <2>1 DEF PinInv, CallsBack
  <2>3. HasPins(q)' BY <2>2 DEF PinsStay, HasPins, Flagging
  <2> QED BY <2>2, <2>3 DEF Backed, HasPins
<1> QED BY <1>1 DEF CallsBack, PinInv, PinTypes

\* A call moves and no row is written.
LEMMA PinStill ==
  ASSUME PinInv, UNCHANGED <<school, origin>>, villageCache' \in Places \cup {NoPin}, late' \subseteq BOOLEAN,
         NEW h \in Handlers, NEW c \in PinCall, Pins!Goto(h, c), Backed(c), HasPins(c)
  PROVE  PinInv'
<1>1. PinsStay /\ HasPins(c)'
  BY DEF PinsStay, HasPins
<1>2. call' \in [Handlers -> PinCall] /\ CallsBack'
  BY <1>1, BackOn
<1> QED BY <1>2 DEF PinInv, PinTypes

\* One row is written.
LEMMA RowWritten ==
  ASSUME PinInv, NEW s \in Schools, NEW kept \in Row, NEW by \in Origins,
         school' = [school EXCEPT ![s] = kept], origin' = [origin EXCEPT ![s] = by],
         Vouched(kept, by), kept.pin # NoPin \/ school[s].pin = NoPin
  PROVE  /\ PinsStay /\ school' \in [Schools -> Row] /\ origin' \in [Schools -> Origins]
         /\ (\A x \in Schools : Vouched(school[x], origin[x]))'
<1>1. /\ school' \in [Schools -> Row] /\ origin' \in [Schools -> Origins]
      /\ \A x \in Schools : school'[x] = IF x = s THEN kept ELSE school[x]
      /\ \A x \in Schools : origin'[x] = IF x = s THEN by ELSE origin[x]
  BY DEF PinInv, PinTypes
<1>2. PinsStay BY <1>1 DEF PinsStay
<1>3. ASSUME NEW x \in Schools PROVE Vouched(school'[x], origin'[x])
  <2>1. CASE x = s
    <3>1. school'[x] = kept /\ origin'[x] = by BY <1>1, <2>1
    <3> QED BY <3>1
  <2>2. CASE x # s
    <3>1. school'[x] = school[x] /\ origin'[x] = origin[x] BY <1>1, <2>2
    <3>2. Vouched(school[x], origin[x]) BY DEF PinInv
    <3> QED BY <3>1, <3>2
  <2> QED BY <2>1, <2>2
<1>4. (\A x \in Schools : Vouched(school[x], origin[x]))'
  BY <1>3
<1> QED BY <1>1, <1>2, <1>4

\* A search that goes on to save what it found.
PinSaving(b, at, how) == [b EXCEPT !.pc = "save", !.pin = at, !.how = IF b.fast THEN "fast" ELSE how]

LEMMA SavingIsBacked ==
  ASSUME NEW b \in Job, NEW at \in Places, NEW how \in {"gate", "listing"},
         how = "gate" /\ ~b.fast => at \in InBlock,
         NEW c, c = PinSaving(b, at, how)
  PROVE  c \in PinCall /\ Backed(c) /\ HasPins(c)
<1>1. /\ c \in Job /\ c.pc = "save" /\ c.pin = at /\ c.fast = b.fast
      /\ c.how = IF b.fast THEN "fast" ELSE how
  BY DEF PinSaving, Job
<1>2. c \in PinCall BY <1>1 DEF PinCall
<1>3. Backed(c) BY <1>1 DEF Backed
<1>4. HasPins(c) BY <1>1 DEF HasPins, Job, Flagging
<1> QED BY <1>2, <1>3, <1>4

LEMMA NotSaving ==
  ASSUME NEW c \in Job, c.pc # "save"
  PROVE  c \in PinCall /\ Backed(c) /\ HasPins(c)
BY DEF PinCall, Backed, HasPins, Job, Flagging

LEMMA RestingPins ==
  /\ Pins!IdleCall \in PinCall /\ Backed(Pins!IdleCall) /\ HasPins(Pins!IdleCall)
  /\ HasPins(Pins!IdleCall)'
BY DEF PinCall, Backed, HasPins, Job, Flagging, Pins!IdleCall

\* What a gate lets through, by the mode of the search.
LEMMA GatesHold ==
  ASSUME PinFacts, NEW fast \in BOOLEAN, NEW pin
  PROVE  /\ pin \in Pins!RegistryMatches(fast) => pin \in Places /\ (~fast => pin \in InBlock)
         /\ pin \in Pins!GoogleMatches => pin \in Places
         /\ pin \in Pins!VillageSources => pin \in Places
         /\ Pins!Trusted(fast, pin) => (~fast => pin \in InBlock)
<1>1. pin \in Pins!RegistryMatches(fast) => pin \in Places /\ (~fast => pin \in InBlock)
  BY DEF PinFacts, Pins!RegistryMatches, Pins!lookupExternalSchoolRegistry, Pins!validatePinForBlock,
     Pins!validateAddressText, Pins!tryRegistryVillageFallback, Pins!tryOneFiveNineDirectPath
<1>2. pin \in Pins!GoogleMatches => pin \in Places
  BY DEF Pins!GoogleMatches, Pins!searchSchoolPlace, Pins!pickBestSchoolPlace,
     Pins!collectGooglePlacesCandidates, Pins!geocodeAddress
<1>3. pin \in Pins!VillageSources => pin \in Places
  BY DEF PinFacts, Pins!VillageSources, Pins!tryOneFiveNineDirectPath, Pins!resolveVillagePlace,
     Pins!resolveOsmVillageCombo, Pins!pickVillagePlace, Pins!resolveVillageOsm,
     Pins!collectGooglePlacesCandidates, Pins!geocodeAddress
<1>4. Pins!Trusted(fast, pin) => (~fast => pin \in InBlock)
  BY DEF Pins!Trusted, Pins!enrichPinWithGoogleReverseGeocode, Pins!validatePinForBlock,
     Pins!validateAddressText
<1> QED BY <1>1, <1>2, <1>3, <1>4

LEMMA Searches ==
  ASSUME PinFacts, PinInv, NEW h \in Handlers, Pins!resolveSchoolPlaceDetailed(h)
  PROVE  PinInv'
<1>1. PICK b : b = call[h]
  OBVIOUS
<1> DEFINE onward == [b EXCEPT !.pc = "sources"]
<1>2. /\ b.pc = "search" /\ UNCHANGED <<school, origin, villageCache, late>>
      /\ \/ \E pin \in Pins!RegistryMatches(b.fast) : Pins!Goto(h, PinSaving(b, pin, "gate"))
         \/ \E pin \in Pins!GoogleMatches : Pins!Goto(h, PinSaving(b, pin, "listing"))
         \/ /\ villageCache # NoPin /\ Pins!Trusted(b.fast, villageCache)
            /\ Pins!Goto(h, PinSaving(b, villageCache, "gate"))
         \/ Pins!Goto(h, onward)
  BY <1>1, Zenon DEF Pins!resolveSchoolPlaceDetailed, Pins!At, Pins!Found, PinSaving
<1>3. b \in PinCall /\ b \in Job /\ b.fast \in BOOLEAN
  <2>1. b \in PinCall BY <1>1 DEF PinInv, PinTypes
  <2>2. b \in Job BY <1>2, <2>1, PinCallShapes
  <2>3. b.fast \in BOOLEAN BY <2>2 DEF Job
  <2> QED BY <2>1, <2>2, <2>3
<1>4. \A at, how : (/\ at \in Places /\ how \in {"gate", "listing"} /\ (how = "gate" /\ ~b.fast => at \in InBlock)
                    /\ Pins!Goto(h, PinSaving(b, at, how))) => PinInv'
  BY <1>2, <1>3, SavingIsBacked, PinStill DEF PinInv, PinTypes
<1>5. CASE \E pin \in Pins!RegistryMatches(b.fast) : Pins!Goto(h, PinSaving(b, pin, "gate"))
  BY <1>3, <1>4, <1>5, GatesHold
<1>6. CASE \E pin \in Pins!GoogleMatches : Pins!Goto(h, PinSaving(b, pin, "listing"))
  BY <1>3, <1>4, <1>6, GatesHold
<1>7. CASE /\ villageCache # NoPin /\ Pins!Trusted(b.fast, villageCache)
           /\ Pins!Goto(h, PinSaving(b, villageCache, "gate"))
  <2>1. PICK pin : pin = villageCache OBVIOUS
  <2>2. pin \in Places /\ Pins!Trusted(b.fast, pin) /\ Pins!Goto(h, PinSaving(b, pin, "gate"))
    BY <1>7, <2>1 DEF PinInv, PinTypes
  <2>3. ~b.fast => pin \in InBlock BY <1>3, <2>2, GatesHold
  <2> QED BY <1>4, <2>2, <2>3
<1>8. CASE Pins!Goto(h, onward)
  <2>1. PICK c : c = onward OBVIOUS
  <2>2. c \in Job /\ c.pc # "save" BY <1>3, <2>1 DEF Job
  <2> QED BY <1>2, <1>8, <2>1, <2>2, NotSaving, PinStill DEF PinInv, PinTypes
<1> QED BY <1>2, <1>5, <1>6, <1>7, <1>8

Idling(b) == [b EXCEPT !.pc = "next", !.s = 0, !.pin = NoPin, !.how = ""]
LEMMA IdlingIsBacked ==
  ASSUME NEW b \in Job, NEW c, c = Idling(b)
  PROVE  c \in Job /\ c.pc # "save" /\ c \in PinCall /\ Backed(c) /\ HasPins(c) /\ HasPins(c)'
<1>1. c \in Job /\ c.pc = "next" BY DEF Idling, Job
<1>2. HasPins(c)' BY <1>1 DEF HasPins, Job, Flagging
<1> QED BY <1>1, <1>2, NotSaving

LEMMA AsksSources ==
  ASSUME PinFacts, PinInv, NEW h \in Handlers, Pins!resolveVillageMultiSource(h)
  PROVE  PinInv'
<1>1. PICK b : b = call[h]
  OBVIOUS
<1>2. /\ b.pc = "sources" /\ UNCHANGED <<school, origin, late>>
      /\ \/ \E pin \in Pins!VillageSources :
              Pins!Trusted(b.fast, pin) /\ villageCache' = pin /\ Pins!Goto(h, PinSaving(b, pin, "gate"))
         \/ Pins!Goto(h, Idling(b)) /\ UNCHANGED villageCache
  BY <1>1, Zenon DEF Pins!resolveVillageMultiSource, Pins!At, Pins!Found, PinSaving, Pins!Onward, Idling, Pins!cachePin
<1>3. b \in PinCall /\ b \in Job /\ b.fast \in BOOLEAN
  <2>1. b \in PinCall BY <1>1 DEF PinInv, PinTypes
  <2>2. b \in Job BY <1>2, <2>1, PinCallShapes
  <2>3. b.fast \in BOOLEAN BY <2>2 DEF Job
  <2> QED BY <2>1, <2>2, <2>3
<1>4. ASSUME NEW pin \in Pins!VillageSources, Pins!Trusted(b.fast, pin), villageCache' = pin,
             Pins!Goto(h, PinSaving(b, pin, "gate"))
      PROVE  PinInv'
  <2>1. pin \in Places /\ (~b.fast => pin \in InBlock)
    BY <1>3, <1>4, GatesHold
  <2>2. PICK c : c = PinSaving(b, pin, "gate") OBVIOUS
  <2>3. c \in PinCall /\ Backed(c) /\ HasPins(c) BY <1>3, <2>1, <2>2, SavingIsBacked
  <2> QED BY <1>2, <1>4, <2>1, <2>2, <2>3, PinStill DEF PinInv, PinTypes
<1>5. CASE Pins!Goto(h, Idling(b)) /\ UNCHANGED villageCache
  <2>1. PICK c : c = Idling(b) OBVIOUS
  <2> QED BY <1>2, <1>3, <1>5, <2>1, IdlingIsBacked, PinStill DEF PinInv, PinTypes
<1> QED BY <1>2, <1>4, <1>5

LEMMA GivesUp ==
  ASSUME PinInv, NEW h \in Handlers, Pins!giveUp(h)
  PROVE  PinInv'
<1>1. PICK b : b = call[h]
  OBVIOUS
<1>2. /\ b.pc \in {"search", "sources"} /\ UNCHANGED <<school, origin, villageCache>>
      /\ late' = late \cup {b.fast} /\ Pins!Goto(h, Idling(b))
  BY <1>1, Zenon DEF Pins!giveUp, Pins!At, Pins!Onward, Idling
<1>3. b \in Job
  BY <1>1, <1>2, PinCallShapes DEF PinInv, PinTypes
<1>4. late' \subseteq BOOLEAN
  BY <1>2, <1>3 DEF PinInv, PinTypes, Job
<1>5. PICK c : c = Idling(b) OBVIOUS
<1> QED BY <1>2, <1>3, <1>4, <1>5, IdlingIsBacked, PinStill DEF PinInv, PinTypes

LEMMA LateAnswers ==
  ASSUME PinFacts, PinInv, NEW fast \in BOOLEAN, Pins!lateAnswer(fast)
  PROVE  PinInv'
<1>1. UNCHANGED <<school, origin, call>> /\ late' \subseteq BOOLEAN
  BY DEF Pins!lateAnswer, PinInv, PinTypes
<1>2. villageCache' \in Places \cup {NoPin}
  <2>1. CASE UNCHANGED villageCache
    BY <2>1 DEF PinInv, PinTypes
  <2>2. CASE \E pin \in Pins!VillageSources : villageCache' = pin
    BY <2>2, GatesHold
  <2> QED BY <2>1, <2>2 DEF Pins!lateAnswer, Pins!cachePin
<1>3. PinsStay BY <1>1 DEF PinsStay
<1>4. call' \in [Handlers -> PinCall] /\ CallsBack' BY <1>1, <1>3, BackStays
<1> QED BY <1>1, <1>2, <1>4 DEF PinInv, PinTypes

LEMMA StartsJob ==
  ASSUME PinInv, NEW h \in Handlers,
         NEW kind \in {"resolve", "assign", "auto"}, NEW fast \in BOOLEAN, NEW stays \in BOOLEAN,
         NEW page \in SUBSET Schools, Pins!Goto(h, Pins!Job(kind, fast, page, stays)),
         UNCHANGED <<school, origin, villageCache, late>>
  PROVE  PinInv'
<1>1. PICK c : c = Pins!Job(kind, fast, page, stays) OBVIOUS
<1>2. c \in Job /\ c.pc # "save" BY <1>1 DEF Pins!Job, Job
<1> QED BY <1>1, <1>2, NotSaving, PinStill DEF PinInv, PinTypes

LEMMA StartsJobs ==
  ASSUME PinInv, NEW h \in Handlers,
         \/ \E fast, stays, skip \in BOOLEAN :
              \/ Pins!bulkResolveLocations(h, fast, Schools, stays, skip)
              \/ Pins!bulkAssignVillageLocations(h, fast, Schools, stays, skip)
         \/ Pins!ensureSupervisorSchoolLocations(h)
  PROVE  PinInv'
<1>1. CASE \E fast, stays, skip \in BOOLEAN :
             \/ Pins!bulkResolveLocations(h, fast, Schools, stays, skip)
             \/ Pins!bulkAssignVillageLocations(h, fast, Schools, stays, skip)
  <2>1. PICK fast \in BOOLEAN, stays \in BOOLEAN, skip \in BOOLEAN :
             \/ Pins!bulkResolveLocations(h, fast, Schools, stays, skip)
             \/ Pins!bulkAssignVillageLocations(h, fast, Schools, stays, skip)
    BY <1>1
  <2>2. CASE Pins!bulkResolveLocations(h, fast, Schools, stays, skip)
    BY <2>2, StartsJob DEF Pins!bulkResolveLocations
  <2>3. CASE Pins!bulkAssignVillageLocations(h, fast, Schools, stays, skip)
    BY <2>3, StartsJob DEF Pins!bulkAssignVillageLocations
  <2> QED BY <2>1, <2>2, <2>3
<1>2. CASE Pins!ensureSupervisorSchoolLocations(h)
  BY <1>2, StartsJob DEF Pins!ensureSupervisorSchoolLocations
<1> QED BY <1>1, <1>2

LEMMA TakesSchool ==
  ASSUME PinFacts, PinInv, NEW h \in Handlers, Pins!nextSchool(h)
  PROVE  PinInv'
<1>1. PICK b : b = call[h]
  OBVIOUS
<1>2. PICK s : s = Pins!Min(b.todo)
  OBVIOUS
<1>3. PICK c : c = [b EXCEPT !.s = s, !.todo = @ \ {s}, !.pc = "search"]
  OBVIOUS
<1>4. /\ b.pc = "next" /\ b.todo # {} /\ Pins!Goto(h, c) /\ UNCHANGED <<school, origin, villageCache, late>>
  BY <1>1, <1>2, <1>3, Zenon DEF Pins!nextSchool, Pins!At
<1>5. b \in Job
  BY <1>1, <1>4, PinCallShapes DEF PinInv, PinTypes
<1>6. s \in Schools
  BY <1>2, <1>4, <1>5, LeastOf DEF Job, PinFacts
<1>7. c \in Job /\ c.pc # "save"
  BY <1>3, <1>5, <1>6 DEF Job
<1> QED BY <1>4, <1>7, NotSaving, PinStill DEF PinInv, PinTypes

LEMMA TakesSupervisorsSchool ==
  ASSUME PinFacts, PinInv, NEW h \in Handlers, Pins!autoResolveSchoolLocation(h)
  PROVE  PinInv'
<1>1. PICK b : b = call[h]
  OBVIOUS
<1>2. PICK s : s = Pins!Min(b.todo)
  OBVIOUS
<1> DEFINE c == [b EXCEPT !.s = s, !.todo = @ \ {s}]
           skip == [c EXCEPT !.s = 0]
           go == [c EXCEPT !.pc = "search"]
<1>3. /\ b.pc = "next" /\ b.todo # {} /\ UNCHANGED <<origin, villageCache, late>>
      /\ \/ Pins!Goto(h, skip) /\ UNCHANGED school
         \/ Pins!Goto(h, go) /\ school' = [school EXCEPT ![s].tried = TRUE]
  BY <1>1, <1>2, Zenon DEF Pins!autoResolveSchoolLocation, Pins!At
<1>4. b \in Job
  BY <1>1, <1>3, PinCallShapes DEF PinInv, PinTypes
<1>5. s \in Schools
  BY <1>2, <1>3, <1>4, LeastOf DEF Job, PinFacts
<1>6. c \in Job
  BY <1>4, <1>5 DEF Job
<1>7. skip \in Job /\ skip.pc = "next" /\ go \in Job /\ go.pc = "search"
  BY <1>3, <1>4, <1>6 DEF Job
<1> HIDE DEF skip, go
<1>8. CASE Pins!Goto(h, skip) /\ UNCHANGED school
  BY <1>3, <1>7, <1>8, NotSaving, PinStill DEF PinInv, PinTypes
<1>9. CASE Pins!Goto(h, go) /\ school' = [school EXCEPT ![s].tried = TRUE]
  <2>1. PICK kept : kept = [school[s] EXCEPT !.tried = TRUE] OBVIOUS
  <2>2. school[s] \in Row /\ origin[s] \in Origins BY <1>5 DEF PinInv, PinTypes
  <2>3. kept \in Row /\ kept.pin = school[s].pin /\ kept.verified = school[s].verified
    BY <2>1, <2>2 DEF Row
  <2>4. Vouched(kept, origin[s])
    BY <1>5, <2>3 DEF PinInv, Vouched
  <2>5. school' = [school EXCEPT ![s] = kept] /\ origin' = [origin EXCEPT ![s] = origin[s]]
    BY <1>3, <1>9, <2>1 DEF PinInv, PinTypes
  <2>6. /\ PinsStay /\ school' \in [Schools -> Row] /\ origin' \in [Schools -> Origins]
        /\ (\A x \in Schools : Vouched(school[x], origin[x]))'
    BY <1>5, <2>2, <2>3, <2>4, <2>5, RowWritten
  <2>7. go \in PinCall /\ Backed(go) /\ HasPins(go) BY <1>7, NotSaving
  <2>8. HasPins(go)' BY <1>7 DEF HasPins, Flagging
  <2>9. call' \in [Handlers -> PinCall] /\ CallsBack'
    BY <1>9, <2>6, <2>7, <2>8, BackOn
  <2> QED BY <1>3, <2>6, <2>9 DEF PinInv, PinTypes
<1> QED BY <1>3, <1>8, <1>9

LEMMA EndsJob ==
  ASSUME PinInv, NEW h \in Handlers, Pins!endJob(h)
  PROVE  PinInv'
<1>1. Pins!Goto(h, Pins!IdleCall) /\ UNCHANGED <<school, origin, villageCache, late>>
  BY DEF Pins!endJob
<1> QED BY <1>1, RestingPins, PinStill DEF PinInv, PinTypes

LEMMA HourPassesOn ==
  ASSUME PinInv, Pins!HourPasses
  PROVE  PinInv'
<1>1. /\ school' = [s \in Schools |-> [school[s] EXCEPT !.tried = FALSE]]
      /\ UNCHANGED <<origin, villageCache, late, call>>
  BY DEF Pins!HourPasses
<1>2. ASSUME NEW s \in Schools
      PROVE  school'[s] \in Row /\ school'[s].pin = school[s].pin /\ school'[s].verified = school[s].verified
  <2>1. school[s] \in Row BY DEF PinInv, PinTypes
  <2>2. school'[s] = [school[s] EXCEPT !.tried = FALSE] BY <1>1
  <2> QED BY <2>1, <2>2 DEF Row
<1>3. PinsStay BY <1>2 DEF PinsStay
<1>4. call' \in [Handlers -> PinCall] /\ CallsBack' BY <1>1, <1>3, BackStays
<1>5. school' \in [Schools -> Row] BY <1>1, <1>2
<1>6. ASSUME NEW s \in Schools PROVE Vouched(school'[s], origin'[s])
  BY <1>1, <1>2 DEF PinInv, Vouched
<1>7. (\A s \in Schools : Vouched(school[s], origin[s]))' BY <1>6
<1> QED BY <1>1, <1>4, <1>5, <1>7 DEF PinInv, PinTypes

\* What a job may save as verified.
LEMMA SafeIsVouched ==
  ASSUME NEW pin, Pins!pinSafeForAutoVerify(pin)
  PROVE  pin \in InDistrict \cap Named
BY DEF Pins!pinSafeForAutoVerify, Pins!isUnsafeSchoolPin, Pins!coordinatesInExpectedDistrict,
   Pins!placeMatchesSchoolContext, Pins!isAdminPlaceName, Pins!placeInExpectedAdminArea

\* A job at its save writes, or does not, and goes on.
LEMMA JobSaves ==
  ASSUME PinFacts, PinInv, NEW h \in Handlers, NEW b, b = call[h], b.pc = "save",
         UNCHANGED <<villageCache, late>>, Pins!Goto(h, Idling(b)),
         NEW verified \in BOOLEAN, verified => Pins!pinSafeForAutoVerify(b.pin),
         \/ UNCHANGED <<school, origin>>
         \/ /\ school' = [school EXCEPT ![b.s] = [@ EXCEPT !.pin = b.pin, !.verified = verified]]
            /\ origin' = [origin EXCEPT ![b.s] = IF verified THEN b.how ELSE "none"]
  PROVE  PinInv'
<1>1. b \in Job /\ Backed(b)
  BY PinCallShapes DEF PinInv, PinTypes, CallsBack
<1>2. /\ b.pin \in Places /\ (b.how = "gate" => b.pin \in InBlock)
      /\ b.how \in {"fast", "gate", "listing"} /\ b.s \in Schools \cup {0}
  BY <1>1 DEF Backed, Job
<1>3. PICK c : c = Idling(b) OBVIOUS
<1>4. c \in PinCall /\ Backed(c) /\ HasPins(c) /\ HasPins(c)'
  BY <1>1, <1>3, IdlingIsBacked
<1>5. CASE UNCHANGED <<school, origin>>
  BY <1>3, <1>4, <1>5, PinStill DEF PinInv, PinTypes
<1>6. CASE /\ school' = [school EXCEPT ![b.s] = [@ EXCEPT !.pin = b.pin, !.verified = verified]]
           /\ origin' = [origin EXCEPT ![b.s] = IF verified THEN b.how ELSE "none"]
  <2>1. CASE b.s \notin Schools
    <3>1. UNCHANGED <<school, origin>> BY <1>6, <2>1 DEF PinInv, PinTypes
    <3> QED BY <1>5, <3>1
  <2>2. CASE b.s \in Schools
    <3>1. PICK kept : kept = [school[b.s] EXCEPT !.pin = b.pin, !.verified = verified] OBVIOUS
    <3>2. PICK by : by = IF verified THEN b.how ELSE "none" OBVIOUS
    <3>3. school[b.s] \in Row BY <2>2 DEF PinInv, PinTypes
    <3>4. kept \in Row /\ kept.pin = b.pin /\ kept.verified = verified
      BY <1>2, <3>1, <3>3 DEF Row
    <3>5. school' = [school EXCEPT ![b.s] = kept] /\ origin' = [origin EXCEPT ![b.s] = by]
      BY <1>6, <2>2, <3>1, <3>2 DEF PinInv, PinTypes
    <3>6. verified => b.pin \in InDistrict \cap Named BY SafeIsVouched
    <3>7. b.pin # NoPin BY <1>2 DEF PinFacts
    <3>8. Vouched(kept, by) /\ by \in Origins
      BY <1>2, <3>2, <3>4, <3>6, <3>7 DEF Vouched, Origins
    <3>9. /\ PinsStay /\ school' \in [Schools -> Row] /\ origin' \in [Schools -> Origins]
          /\ (\A x \in Schools : Vouched(school[x], origin[x]))'
      BY <2>2, <3>4, <3>5, <3>7, <3>8, RowWritten
    <3>10. call' \in [Handlers -> PinCall] /\ CallsBack'
      BY <1>3, <1>4, <3>9, BackOn
    <3> QED BY <3>9, <3>10 DEF PinInv, PinTypes
  <2> QED BY <2>1, <2>2
<1> QED BY <1>5, <1>6

LEMMA JobsSave ==
  ASSUME PinFacts, PinInv, NEW h \in Handlers,
         Pins!saveResolved(h) \/ Pins!saveAssigned(h) \/ Pins!saveAuto(h)
  PROVE  PinInv'
<1>1. PICK b : b = call[h]
  OBVIOUS
<1> DEFINE Writes(verified) ==
             /\ school' = [school EXCEPT ![b.s] = [@ EXCEPT !.pin = b.pin, !.verified = verified]]
             /\ origin' = [origin EXCEPT ![b.s] = IF verified THEN b.how ELSE "none"]
<1>2. CASE Pins!saveResolved(h)
  <2>1. /\ b.pc = "save" /\ UNCHANGED <<villageCache, late>> /\ Pins!Goto(h, Idling(b))
        /\ \/ Pins!pinSafeForAutoVerify(b.pin) /\ Writes(TRUE)
           \/ UNCHANGED <<school, origin>>
    BY <1>1, <1>2, Zenon DEF Pins!saveResolved, Pins!At, Pins!Save, Pins!Onward, Idling
  <2>2. CASE Pins!pinSafeForAutoVerify(b.pin) /\ Writes(TRUE)
    BY <1>1, <2>1, <2>2, JobSaves
  <2>3. CASE UNCHANGED <<school, origin>>
    <3>1. PICK verified \in BOOLEAN : ~verified OBVIOUS
    <3> QED BY <1>1, <2>1, <2>3, <3>1, JobSaves
  <2> QED BY <2>1, <2>2, <2>3
<1>3. CASE Pins!saveAssigned(h) \/ Pins!saveAuto(h)
  <2>1. PICK verified : verified = Pins!pinSafeForAutoVerify(b.pin) OBVIOUS
  <2>2. verified \in BOOLEAN
    BY <2>1 DEF Pins!pinSafeForAutoVerify
  <2>3. CASE Pins!saveAssigned(h)
    <3>1. /\ b.pc = "save" /\ UNCHANGED <<villageCache, late>> /\ Pins!Goto(h, Idling(b))
          /\ \/ Writes(verified)
             \/ UNCHANGED <<school, origin>>
      BY <1>1, <2>1, <2>3, Zenon DEF Pins!saveAssigned, Pins!At, Pins!Save, Pins!Onward, Idling
    <3> QED BY <1>1, <2>1, <2>2, <3>1, JobSaves
  <2>4. CASE Pins!saveAuto(h)
    <3>1. /\ b.pc = "save" /\ UNCHANGED <<villageCache, late>> /\ Pins!Goto(h, Idling(b))
          /\ Writes(verified)
      BY <1>1, <2>1, <2>4, Zenon DEF Pins!saveAuto, Pins!At, Pins!Save, Pins!Onward, Idling
    <3> QED BY <1>1, <2>1, <2>2, <3>1, JobSaves
  <2> QED BY <1>3, <2>3, <2>4
<1> QED BY <1>2, <1>3

\* What the administrator writes is his to answer for.
LEMMA ByHandWritten ==
  ASSUME PinFacts, PinInv, NEW s \in Schools, NEW at \in Places, NEW verified \in BOOLEAN,
         NEW kept, kept = [school[s] EXCEPT !.pin = at, !.verified = verified], Pins!ByHand(s, kept)
  PROVE  /\ PinsStay /\ school' \in [Schools -> Row] /\ origin' \in [Schools -> Origins]
         /\ (\A x \in Schools : Vouched(school[x], origin[x]))'
<1>1. school[s] \in Row BY DEF PinInv, PinTypes
<1>2. kept \in Row /\ kept.pin = at BY <1>1 DEF Row
<1>3. at # NoPin BY DEF PinFacts
<1>4. Vouched(kept, "admin") /\ "admin" \in Origins BY <1>2, <1>3 DEF Vouched, Origins
<1>5. school' = [school EXCEPT ![s] = kept] /\ origin' = [origin EXCEPT ![s] = "admin"]
  BY DEF Pins!ByHand
<1> QED BY <1>2, <1>3, <1>4, <1>5, RowWritten

LEMMA PatchesPin ==
  ASSUME PinFacts, PinInv, NEW s \in Schools,
         Pins!upgradeSchoolToExact(s) \/ \E at \in Places : Pins!patchSchoolLocation(s, at)
  PROVE  PinInv'
<1>1. UNCHANGED <<villageCache, late, call>>
  BY DEF Pins!upgradeSchoolToExact, Pins!patchSchoolLocation
<1>2. \E at \in Places : Pins!ByHand(s, [school[s] EXCEPT !.pin = at, !.verified = FALSE])
  BY DEF Pins!upgradeSchoolToExact, Pins!patchSchoolLocation, Pins!searchSchoolPlace,
     Pins!pickBestSchoolPlace, Pins!collectGooglePlacesCandidates, Pins!geocodeAddress
<1>3. PICK at \in Places : Pins!ByHand(s, [school[s] EXCEPT !.pin = at, !.verified = FALSE])
  BY <1>2
<1>4. PICK verified \in BOOLEAN : verified = FALSE OBVIOUS
<1>5. /\ PinsStay /\ school' \in [Schools -> Row] /\ origin' \in [Schools -> Origins]
      /\ (\A x \in Schools : Vouched(school[x], origin[x]))'
  BY <1>3, <1>4, ByHandWritten
<1>6. call' \in [Handlers -> PinCall] /\ CallsBack' BY <1>1, <1>5, BackStays
<1> QED BY <1>1, <1>5, <1>6 DEF PinInv, PinTypes

LEMMA AsksToVerify ==
  ASSUME PinInv, NEW h \in Handlers, NEW s \in Schools, NEW pin \in Places \cup {school[s].pin},
         Pins!verifySchoolLocation(h, s, pin)
  PROVE  PinInv'
<1>1. PICK c : c = [pc |-> "verify", s |-> s, pin |-> pin] OBVIOUS
<1>2. pin # NoPin /\ Pins!Goto(h, c) /\ UNCHANGED <<school, origin, villageCache, late>>
  BY <1>1 DEF Pins!verifySchoolLocation
<1>3. school[s] \in Row BY DEF PinInv, PinTypes
<1>4. pin \in Places BY <1>2, <1>3 DEF Row
<1>5. c \in PinCall /\ Backed(c) /\ HasPins(c)
  BY <1>1, <1>4 DEF PinCall, Backed, HasPins, Job, Flagging
<1> QED BY <1>2, <1>5, PinStill DEF PinInv, PinTypes

LEMMA Verifies ==
  ASSUME PinFacts, PinInv, NEW h \in Handlers, Pins!saveVerified(h)
  PROVE  PinInv'
<1>1. PICK b : b = call[h] OBVIOUS
<1>2. /\ b.pc = "verify" /\ Pins!Goto(h, Pins!IdleCall) /\ UNCHANGED <<villageCache, late>>
      /\ Pins!ByHand(b.s, [school[b.s] EXCEPT !.pin = b.pin, !.verified = TRUE])
  BY <1>1, Zenon DEF Pins!saveVerified, Pins!At
<1>3. b.s \in Schools /\ b.pin \in Places
  BY <1>1, <1>2, PinCallShapes DEF PinInv, PinTypes
<1>4. PICK verified \in BOOLEAN : verified = TRUE OBVIOUS
<1>5. PICK s \in Schools, at \in Places : s = b.s /\ at = b.pin BY <1>3
<1>6. /\ PinsStay /\ school' \in [Schools -> Row] /\ origin' \in [Schools -> Origins]
      /\ (\A x \in Schools : Vouched(school[x], origin[x]))'
  BY <1>2, <1>4, <1>5, ByHandWritten
<1>7. call' \in [Handlers -> PinCall] /\ CallsBack' BY <1>2, <1>6, RestingPins, BackOn
<1> QED BY <1>2, <1>6, <1>7 DEF PinInv, PinTypes

LEMMA AsksToFlag ==
  ASSUME PinInv, NEW h \in Handlers, Pins!verifyVillageLocations(h)
  PROVE  PinInv'
<1>1. PICK c : c = [pc |-> "flag", todo |-> {s \in Schools : school[s].pin # NoPin}] OBVIOUS
<1>2. Pins!Goto(h, c) /\ UNCHANGED <<school, origin, villageCache, late>>
  BY <1>1 DEF Pins!verifyVillageLocations
<1>3. c \in PinCall /\ Backed(c) /\ HasPins(c)
  BY <1>1 DEF PinCall, Backed, HasPins, Job, Flagging
<1> QED BY <1>2, <1>3, PinStill DEF PinInv, PinTypes

LEMMA Flags ==
  ASSUME PinFacts, PinInv, NEW h \in Handlers, Pins!flagSchool(h)
  PROVE  PinInv'
<1>1. PICK b : b = call[h] OBVIOUS
<1>2. PICK s : s = Pins!Min(b.todo) OBVIOUS
<1>3. PICK c : c = [b EXCEPT !.todo = @ \ {s}] OBVIOUS
<1>4. /\ b.pc = "flag" /\ UNCHANGED <<villageCache, late>>
      /\ \/ Pins!Goto(h, Pins!IdleCall) /\ UNCHANGED <<school, origin>>
         \/ /\ b.todo # {} /\ school' = [school EXCEPT ![s].verified = TRUE]
            /\ origin' = [origin EXCEPT ![s] = "admin"] /\ Pins!Goto(h, c)
  BY <1>1, <1>2, <1>3, Zenon DEF Pins!flagSchool, Pins!At
<1>5. b \in Flagging /\ HasPins(b)
  BY <1>1, <1>4, PinCallShapes DEF PinInv, PinTypes, CallsBack
<1>6. CASE Pins!Goto(h, Pins!IdleCall) /\ UNCHANGED <<school, origin>>
  BY <1>4, <1>6, RestingPins, PinStill DEF PinInv, PinTypes
<1>7. CASE /\ b.todo # {} /\ school' = [school EXCEPT ![s].verified = TRUE]
           /\ origin' = [origin EXCEPT ![s] = "admin"] /\ Pins!Goto(h, c)
  <2>1. s \in b.todo /\ s \in Schools
    BY <1>2, <1>5, <1>7, LeastOf DEF Flagging, PinFacts
  <2>2. school[s].pin # NoPin /\ school[s] \in Row
    BY <1>5, <2>1 DEF HasPins, PinInv, PinTypes
  <2>3. PICK kept : kept = [school[s] EXCEPT !.verified = TRUE] OBVIOUS
  <2>4. kept \in Row /\ kept.pin = school[s].pin
    BY <2>2, <2>3 DEF Row
  <2>5. Vouched(kept, "admin") /\ "admin" \in Origins
    BY <2>2, <2>4 DEF Vouched, Origins
  <2>6. school' = [school EXCEPT ![s] = kept] BY <1>7, <2>3
  <2>7. /\ PinsStay /\ school' \in [Schools -> Row] /\ origin' \in [Schools -> Origins]
        /\ (\A x \in Schools : Vouched(school[x], origin[x]))'
    BY <1>7, <2>1, <2>2, <2>4, <2>5, <2>6, RowWritten
  <2>8. c \in Flagging /\ c.todo \subseteq b.todo
    BY <1>3, <1>5 DEF Flagging
  <2>9. c \in PinCall /\ Backed(c)
    BY <2>8 DEF PinCall, Backed, Job, Flagging
  <2>10. HasPins(c)'
    BY <1>5, <2>7, <2>8 DEF HasPins, PinsStay, Flagging
  <2>11. call' \in [Handlers -> PinCall] /\ CallsBack' BY <1>7, <2>7, <2>9, <2>10, BackOn
  <2> QED BY <1>4, <2>7, <2>11 DEF PinInv, PinTypes
<1> QED BY <1>4, <1>6, <1>7

LEMMA RestartsPins ==
  ASSUME PinInv, Pins!Restart
  PROVE  PinInv'
<1>1. /\ UNCHANGED <<school, origin>> /\ villageCache' = NoPin /\ late' = {}
      /\ call' = [h \in Handlers |-> Pins!IdleCall]
  BY DEF Pins!Restart
<1>2. call' \in [Handlers -> PinCall] BY <1>1, RestingPins
<1>3. CallsBack'
  <2>1. \A g \in Handlers : call'[g] = Pins!IdleCall BY <1>1
  <2>2. ASSUME NEW g \in Handlers PROVE (Backed(call[g]) /\ HasPins(call[g]))'
    <3>1. call'[g] = Pins!IdleCall BY <2>1
    <3>2. Pins!IdleCall \notin Job /\ Pins!IdleCall \notin Flagging
      BY DEF Job, Flagging, Pins!IdleCall
    <3> QED BY <3>1, <3>2 DEF Backed, HasPins
  <2> QED BY <2>2 DEF CallsBack
<1> QED BY <1>1, <1>2, <1>3 DEF PinInv, PinTypes

LEMMA PinsBegin ==
  ASSUME Pins!Init
  PROVE  PinInv
<1>1. PinTypes
  BY DEF Pins!Init, PinTypes, Row, Origins, Pins!NewSchool, PinCall
<1>2. CallsBack
  BY DEF Pins!Init, CallsBack, Backed, HasPins, Job, Flagging, Pins!IdleCall
<1>3. \A s \in Schools : Vouched(school[s], origin[s])
  BY DEF Pins!Init, Vouched, Pins!NewSchool
<1> QED BY <1>1, <1>2, <1>3 DEF PinInv

LEMMA PinSteps ==
  ASSUME PinFacts, PinInv, [Pins!Next]_Pins!vars
  PROVE  PinInv'
<1>1. ASSUME NEW h \in Handlers, Pins!Jobs(h) PROVE PinInv'
  BY <1>1, StartsJobs, TakesSchool, TakesSupervisorsSchool, EndsJob, Searches, AsksSources,
     GivesUp, JobsSave DEF Pins!Jobs
<1>2. ASSUME NEW h \in Handlers, Pins!Administrator(h) PROVE PinInv'
  BY <1>2, AsksToVerify, Verifies, AsksToFlag, Flags DEF Pins!Administrator
<1>3. CASE UNCHANGED Pins!vars
  <2>1. UNCHANGED <<school, origin, villageCache, late, call>> BY <1>3 DEF Pins!vars
  <2>2. PinsStay BY <2>1 DEF PinsStay
  <2>3. call' \in [Handlers -> PinCall] /\ CallsBack' BY <2>1, <2>2, BackStays
  <2> QED BY <2>1, <2>3 DEF PinInv, PinTypes
<1> QED BY <1>1, <1>2, <1>3, PatchesPin, LateAnswers, HourPassesOn, RestartsPins DEF Pins!Next

\* However jobs, the searches they gave up, supervisors' requests and the
\* administrator overlap, a pin a job verified lies in the district under the
\* village's name, and a slow job's was seen by Google in the block.
THEOREM PinsAreVouchedByJobs ==
  ASSUME PinFacts
  PROVE  Pins!Spec => [](Pins!TypeOK /\ Pins!PinsAreVouched)
<1>1. Pins!Init => PinInv BY PinsBegin
<1>2. PinInv /\ [Pins!Next]_Pins!vars => PinInv' BY PinSteps
<1>3. PinInv => Pins!TypeOK
  BY DEF PinInv, PinTypes, Pins!TypeOK, Row, Vouched
<1>4. PinInv => Pins!PinsAreVouched
  BY DEF PinInv, Vouched, Pins!PinsAreVouched
<1> QED BY <1>1, <1>2, <1>3, <1>4, PTL DEF Pins!Spec

-----------------------------------------------------------------------------
(* AgentTasks: what a pass knows of the month it issues, and what the        *)
(* templates of the month have behind them.                                  *)

IssuePass ==
  [pc: {"find"}, month: DOMAIN Months, day: Nat]
    \cup [pc: {"next"}, month: DOMAIN Months, day: Nat, whole: BOOLEAN,
          todo: SUBSET (Templates \X Employees)]
    \cup [pc: {"issue"}, month: DOMAIN Months, day: Nat, whole: BOOLEAN,
          todo: SUBSET (Templates \X Employees), t: Templates, e: Employees]
TaskCall ==
  {Todo!IdleCall} \cup IssuePass
    \cup [pc: {"give"}, todo: SUBSET (Employees \X Nat)]
    \cup [pc: {"save"}, k: Tasks, to: {"pending", "done", "cancelled"}]

Calendar == Months \in Seq(Nat \ {0}) /\ Len(Months) >= 1 /\ IssueDays \subseteq Nat \ {0}
TaskTypes == Todo!TypeOK /\ call \in [Handlers -> TaskCall]

\* The tasks of a month are those its history names, and none is of a later one.
Noted(task1) ==
  task1 # Todo!NoTask /\ task1.template # None =>
    /\ task1.period <= today.month
    /\ task1.period = today.month => <<task1.template, task1.employee>> \in issued
AllNoted == \A k \in Tasks : Noted(task[k])

\* No pass is ahead of the clock, and one of today has each employee of a
\* steady template that is due behind it or still before it.
InTime(c) ==
  c \in IssuePass =>
    /\ c.month <= today.month
    /\ c.month = today.month => c.day <= today.day
Due(t) == Todo!effectiveDayOfMonth(today.month, template[t].issueDay)
Covers(c) ==
  c \in IssuePass /\ c.pc # "find" /\ c.month = today.month /\ c.day = today.day /\ c.whole =>
    \A t \in steady : Due(t) = today.day =>
      \A e \in template[t].employees \cap employed : <<t, e>> \in issued \cup c.todo
CallsCover == \A h \in Handlers : InTime(call[h]) /\ Covers(call[h])

SteadyAreActive == \A t \in steady : template[t].status = "active"
Given(t) == \A e \in template[t].employees \cap employed : <<t, e>> \in issued
DueAreGiven ==
  \A t \in steady :
    Due(t) < today.day \/ (Due(t) = today.day /\ today.passed) => Given(t)

MonthInv == TaskTypes /\ AllNoted /\ CallsCover /\ SteadyAreActive /\ DueAreGiven

\* What most steps leave as it is, or let grow or shrink.
Mild ==
  /\ today'.month = today.month /\ today'.day = today.day
  /\ steady' \subseteq steady
  /\ \A t \in steady' : template'[t] = template[t]
  /\ employed' \subseteq employed
  /\ issued \subseteq issued'

LEMMA MildKeeps ==
  ASSUME Mild
  PROVE  /\ \A c : InTime(c) => InTime(c)'
         /\ \A c : Covers(c) => Covers(c)'
         /\ \A given : Noted(given) => Noted(given)'
         /\ SteadyAreActive => SteadyAreActive'
         /\ today' = today /\ DueAreGiven => DueAreGiven'
<1>1. \A c : InTime(c) => InTime(c)'
  BY DEF Mild, InTime
<1>2. \A t \in steady' : t \in steady /\ Due(t)' = Due(t)
  BY DEF Mild, Due, Todo!effectiveDayOfMonth
<1>3. ASSUME NEW c, Covers(c) PROVE Covers(c)'
  BY <1>2, <1>3 DEF Mild, Covers
<1>4. \A given : Noted(given) => Noted(given)'
  BY DEF Mild, Noted
<1>5. SteadyAreActive => SteadyAreActive'
  BY DEF Mild, SteadyAreActive
<1>6. ASSUME today' = today, DueAreGiven PROVE DueAreGiven'
  BY <1>2, <1>6 DEF Mild, DueAreGiven, Given
<1> QED BY <1>1, <1>3, <1>4, <1>5, <1>6

LEMMA TaskCallGoes ==
  ASSUME call \in [Handlers -> TaskCall], NEW h \in Handlers, NEW c, Todo!Goto(h, c)
  PROVE  /\ \A g \in Handlers : call'[g] = IF g = h THEN c ELSE call[g]
         /\ c \in TaskCall => call' \in [Handlers -> TaskCall]
BY DEF Todo!Goto

LEMMA TaskCallShapes ==
  ASSUME NEW c \in TaskCall
  PROVE  /\ c.pc \in {"find", "next", "issue"} <=> c \in IssuePass
         /\ c.pc \in {"find", "next", "issue"} => c.month \in DOMAIN Months /\ c.day \in Nat
         /\ c.pc \in {"next", "issue"} =>
              /\ c.whole \in BOOLEAN
              /\ c.todo \in SUBSET (Templates \X Employees)
         /\ c.pc = "next" => c \in [pc: {"next"}, month: DOMAIN Months, day: Nat, whole: BOOLEAN,
                                    todo: SUBSET (Templates \X Employees)]
         /\ c.pc = "issue" => c.t \in Templates /\ c.e \in Employees
         /\ c.pc = "give" => c.todo \in SUBSET (Employees \X Nat)
         /\ c.pc = "save" => c.k \in Tasks /\ c.to \in {"pending", "done", "cancelled"}
BY DEF TaskCall, IssuePass, Todo!IdleCall

\* The steps that only move a call.
Still == UNCHANGED <<today, employed, template, task, steady, issued>>

LEMMA StillIsMild ==
  ASSUME Still, TaskTypes, AllNoted, SteadyAreActive, DueAreGiven, overlapped' \in BOOLEAN
  PROVE  Mild /\ Todo!TypeOK' /\ AllNoted' /\ SteadyAreActive' /\ DueAreGiven'
<1>1. Mild BY DEF Still, Mild
<1>2. Todo!TypeOK' BY DEF Still, TaskTypes, Todo!TypeOK
<1>3. AllNoted' BY <1>1, MildKeeps DEF Still, AllNoted
<1> QED BY <1>1, <1>2, <1>3, MildKeeps DEF Still

\* One call moves, to what a pass of today may know.
LEMMA CallMoves ==
  ASSUME MonthInv, Mild, NEW h \in Handlers, NEW c, Todo!Goto(h, c), c \in TaskCall,
         InTime(c)', Covers(c)'
  PROVE  call' \in [Handlers -> TaskCall] /\ CallsCover'
<1>1. call' \in [Handlers -> TaskCall] /\ \A g \in Handlers : call'[g] = IF g = h THEN c ELSE call[g]
  BY TaskCallGoes DEF MonthInv, TaskTypes
<1>2. ASSUME NEW g \in Handlers PROVE (InTime(call[g]) /\ Covers(call[g]))'
  <2>1. CASE g = h
    BY <1>1, <2>1 DEF InTime, Covers
  <2>2. CASE g # h
    <3>1. PICK q : q = call[g]
      OBVIOUS
    <3>2. InTime(q)' /\ Covers(q)' /\ call'[g] = q
      BY <1>1, <2>2, <3>1, MildKeeps DEF MonthInv, CallsCover
    <3> QED BY <3>2 DEF InTime, Covers
  <2> QED BY <2>1, <2>2
<1> QED BY <1>1, <1>2 DEF CallsCover

LEMMA RestsInTime ==
  ASSUME NEW c, c \in TaskCall, c \notin IssuePass
  PROVE  InTime(c) /\ Covers(c) /\ InTime(c)' /\ Covers(c)'
BY DEF InTime, Covers

\* A call that moves and changes nothing else.
LEMMA StillStep ==
  ASSUME MonthInv, Still, overlapped' \in BOOLEAN, NEW h \in Handlers, NEW c, Todo!Goto(h, c),
         c \in TaskCall, InTime(c), Covers(c)
  PROVE  MonthInv'
<1>1. Mild /\ Todo!TypeOK' /\ AllNoted' /\ SteadyAreActive' /\ DueAreGiven'
  BY StillIsMild DEF MonthInv
<1>2. call' \in [Handlers -> TaskCall] /\ CallsCover'
  BY <1>1, MildKeeps, CallMoves
<1> QED BY <1>1, <1>2 DEF MonthInv, TaskTypes

LEMMA Clock ==
  ASSUME Calendar, Todo!TypeOK
  PROVE  /\ today.month \in DOMAIN Months /\ today.day \in 1..Months[today.month]
         /\ today.passed \in BOOLEAN /\ today = [month |-> today.month, day |-> today.day, passed |-> today.passed]
         /\ DOMAIN Months = 1..Len(Months) /\ \A m \in DOMAIN Months : Months[m] \in Nat \ {0}
         /\ today.day \in Nat \ {0}
<1>1. DOMAIN Months = 1..Len(Months) /\ \A m \in DOMAIN Months : Months[m] \in Nat \ {0}
  BY DEF Calendar
<1>2. PICK m \in DOMAIN Months : today \in [month: {m}, day: 1..Months[m], passed: BOOLEAN]
  BY DEF Todo!TypeOK, Todo!Date
<1> QED BY <1>1, <1>2

LEMMA StartOfPass ==
  ASSUME Calendar, MonthInv, NEW c, c = [pc |-> "find", month |-> today.month, day |-> today.day]
  PROVE  c \in TaskCall /\ InTime(c) /\ Covers(c)
<1>1. c \in IssuePass BY Clock DEF MonthInv, TaskTypes, IssuePass
<1>2. InTime(c) BY <1>1, Clock DEF MonthInv, TaskTypes, InTime
<1> QED BY <1>1, <1>2 DEF TaskCall, Covers

LEMMA Starts ==
  ASSUME Calendar, MonthInv, NEW h \in Handlers, Todo!materializeRecurringTasks(h)
  PROVE  MonthInv'
<1>1. PICK c : c = [pc |-> "find", month |-> today.month, day |-> today.day]
  OBVIOUS
<1>2. c \in TaskCall /\ InTime(c) /\ Covers(c) BY <1>1, StartOfPass
<1>3. Still /\ overlapped' \in BOOLEAN /\ Todo!Goto(h, c)
  BY <1>1 DEF Todo!materializeRecurringTasks, Still, Todo!docs, MonthInv, TaskTypes, Todo!TypeOK
<1> QED BY <1>2, <1>3, StillStep

LEMMA Finds ==
  ASSUME Calendar, MonthInv, NEW h \in Handlers, Todo!findTemplates(h)
  PROVE  MonthInv'
<1> DEFINE due == {t \in Templates : /\ template[t].status = "active"
                                     /\ Todo!isRecurringIssueToday(call[h].month, call[h].day, template[t].issueDay)}
           todo == UNION {{t} \X template[t].employees : t \in due}
<1>1. PICK c : c = [pc |-> "next", month |-> call[h].month, day |-> call[h].day, whole |-> TRUE, todo |-> todo]
  OBVIOUS
<1>2. Still /\ overlapped' = overlapped /\ Todo!Goto(h, c) /\ call[h].pc = "find"
  BY <1>1, Zenon DEF Todo!findTemplates, Still, Todo!docs, Todo!At
<1>3. call[h] \in TaskCall /\ call[h] \in IssuePass /\ call[h].month \in DOMAIN Months /\ call[h].day \in Nat
  BY <1>2, TaskCallShapes DEF MonthInv, TaskTypes
<1>4. \A t \in due : template[t].employees \subseteq Employees
  BY DEF MonthInv, TaskTypes, Todo!TypeOK, Todo!AgentRecurringTask, Todo!NoTemplate
<1>5. todo \in SUBSET (Templates \X Employees)
  BY <1>4
<1>6. c \in IssuePass /\ c \in TaskCall
  BY <1>1, <1>3, <1>5 DEF IssuePass, TaskCall
<1>7. InTime(c)
  BY <1>1, <1>3 DEF InTime, MonthInv, CallsCover
<1>8. ASSUME c.month = today.month, c.day = today.day, NEW t \in steady, Due(t) = today.day,
             NEW e \in template[t].employees
      PROVE  <<t, e>> \in c.todo
  <2>1. t \in Templates /\ template[t].status = "active"
    BY DEF MonthInv, SteadyAreActive, TaskTypes, Todo!TypeOK
  <2>2. t \in due
    BY <1>1, <1>8, <2>1 DEF Due, Todo!isRecurringIssueToday
  <2>3. <<t, e>> \in {t} \X template[t].employees
    OBVIOUS
  <2> QED BY <1>1, <2>2, <2>3
<1>9. Covers(c)
  BY <1>8 DEF Covers
<1> QED BY <1>2, <1>6, <1>7, <1>9, StillStep DEF MonthInv, TaskTypes, Todo!TypeOK

LEMMA NotedTask ==
  ASSUME MonthInv, NEW t \in Templates, NEW e \in Employees, None \notin Templates,
         Todo!TaskOfMonth(t, e, today.month)
  PROVE  <<t, e>> \in issued
BY DEF MonthInv, AllNoted, Noted, Todo!TaskOfMonth, Todo!Unused

LEMMA Checks ==
  ASSUME Calendar, MonthInv, None \notin Templates,
         NEW h \in Handlers, NEW t \in Templates, NEW e \in Employees, Todo!checkExists(h, t, e)
  PROVE  MonthInv'
<1>1. PICK b : b = call[h]
  OBVIOUS
<1> DEFINE skip == [b EXCEPT !.todo = @ \ {<<t, e>>}]
           go == [pc |-> "issue", month |-> b.month, day |-> b.day, whole |-> b.whole, todo |-> b.todo, t |-> t, e |-> e]
<1>2. /\ Still /\ overlapped' = overlapped /\ b.pc = "next" /\ <<t, e>> \in b.todo
      /\ \/ (Todo!TaskOfMonth(t, e, b.month) \/ e \notin employed) /\ Todo!Goto(h, skip)
         \/ Todo!Goto(h, go)
  BY <1>1, Zenon DEF Todo!checkExists, Still, Todo!docs, Todo!At
<1>3. b \in TaskCall /\ b \in IssuePass /\ InTime(b) /\ Covers(b)
      /\ b \in [pc: {"next"}, month: DOMAIN Months, day: Nat, whole: BOOLEAN,
                todo: SUBSET (Templates \X Employees)]
  BY <1>1, <1>2, TaskCallShapes DEF MonthInv, TaskTypes, CallsCover
<1>4. overlapped' \in BOOLEAN BY <1>2 DEF MonthInv, TaskTypes, Todo!TypeOK
<1>5. CASE (Todo!TaskOfMonth(t, e, b.month) \/ e \notin employed) /\ Todo!Goto(h, skip)
  <2>1. PICK c : c = skip OBVIOUS
  <2>2. /\ c \in IssuePass /\ c \in TaskCall /\ c.month = b.month /\ c.day = b.day
        /\ c.whole = b.whole /\ c.todo = b.todo \ {<<t, e>>}
    BY <1>3, <2>1 DEF IssuePass, TaskCall
  <2>3. InTime(c) BY <1>3, <2>2 DEF InTime
  <2>4. ASSUME b.month = today.month, NEW t2 \in steady, NEW e2 \in employed,
               <<t2, e2>> \in issued \cup b.todo
        PROVE  <<t2, e2>> \in issued \cup c.todo
    <3>1. CASE t2 = t /\ e2 = e
      BY <1>5, <2>4, <3>1, NotedTask
    <3>2. CASE ~(t2 = t /\ e2 = e)
      BY <2>2, <2>4, <3>2
    <3> QED BY <3>1, <3>2
  <2>5. b.pc # "find" BY <1>2
  <2>6. Covers(c) BY <1>3, <2>2, <2>4, <2>5 DEF Covers
  <2> QED BY <1>2, <1>4, <1>5, <2>1, <2>2, <2>3, <2>6, StillStep
<1>6. CASE Todo!Goto(h, go)
  <2>1. PICK c : c = go OBVIOUS
  <2>2. /\ c \in IssuePass /\ c \in TaskCall /\ c.month = b.month /\ c.day = b.day
        /\ c.whole = b.whole /\ c.todo = b.todo
    BY <1>3, <2>1 DEF IssuePass, TaskCall
  <2>3. InTime(c) BY <1>3, <2>2 DEF InTime
  <2>4. b.pc # "find" BY <1>2
  <2>5. Covers(c) BY <1>3, <2>2, <2>4 DEF Covers
  <2> QED BY <1>2, <1>4, <1>6, <2>1, <2>2, <2>3, <2>5, StillStep
<1> QED BY <1>2, <1>5, <1>6

\* What comes after a task was issued, or could not be.
LEMMA AfterIssue ==
  ASSUME MonthInv, NEW b \in TaskCall, b.pc = "issue", InTime(b),
         NEW c, \/ c = Todo!NextEmployee(b)
                \/ c = [Todo!NextEmployee(b) EXCEPT !.whole = FALSE]
  PROVE  /\ c \in IssuePass /\ c \in TaskCall /\ InTime(c)
         /\ c.month = b.month /\ c.day = b.day /\ c.pc = "next" /\ c.todo = b.todo \ {<<b.t, b.e>>}
         /\ c.whole => b.whole /\ c = Todo!NextEmployee(b)
         /\ c = Todo!NextEmployee(b) => c.whole = b.whole
<1> DEFINE next == [pc |-> "next", month |-> b.month, day |-> b.day, whole |-> b.whole,
                    todo |-> b.todo \ {<<b.t, b.e>>}]
<1>1. next = Todo!NextEmployee(b)
  BY DEF Todo!NextEmployee
<1>2. /\ b \in IssuePass /\ b.month \in DOMAIN Months /\ b.day \in Nat /\ b.whole \in BOOLEAN
      /\ b.todo \in SUBSET (Templates \X Employees)
  BY TaskCallShapes
<1>3. next \in [pc: {"next"}, month: DOMAIN Months, day: Nat, whole: BOOLEAN,
                todo: SUBSET (Templates \X Employees)]
  BY <1>2
<1>4. /\ c \in [pc: {"next"}, month: DOMAIN Months, day: Nat, whole: BOOLEAN,
                todo: SUBSET (Templates \X Employees)]
      /\ c.month = b.month /\ c.day = b.day /\ c.todo = b.todo \ {<<b.t, b.e>>}
      /\ c.whole => b.whole /\ c = next
      /\ c = next => c.whole = b.whole
  <2> HIDE DEF next
  <2>1. CASE c = next
    BY <1>3, <2>1 DEF next
  <2>2. CASE c = [next EXCEPT !.whole = FALSE]
    <3>1. next.month = b.month /\ next.day = b.day /\ next.todo = b.todo \ {<<b.t, b.e>>} /\ next.whole = b.whole
      BY DEF next
    <3>2. c.whole = FALSE /\ c.month = next.month /\ c.day = next.day /\ c.todo = next.todo
          /\ c \in [pc: {"next"}, month: DOMAIN Months, day: Nat, whole: BOOLEAN,
                    todo: SUBSET (Templates \X Employees)]
      BY <1>3, <2>2
    <3> QED BY <3>1, <3>2
  <2> QED BY <1>1, <2>1, <2>2
<1> HIDE DEF next
<1>5. c \in IssuePass /\ c \in TaskCall /\ c.pc = "next"
  BY <1>4 DEF IssuePass, TaskCall
<1>6. InTime(c)
  BY <1>2, <1>4 DEF InTime
<1> QED BY <1>1, <1>4, <1>5, <1>6

LEMMA CannotIssue ==
  ASSUME Calendar, MonthInv, NEW h \in Handlers, Todo!issueFails(h)
  PROVE  MonthInv'
<1>1. PICK b : b = call[h]
  OBVIOUS
<1>2. PICK c : c = [Todo!NextEmployee(b) EXCEPT !.whole = FALSE]
  OBVIOUS
<1>3. Still /\ overlapped' = overlapped /\ Todo!Goto(h, c) /\ b.pc = "issue"
  BY <1>1, <1>2, Zenon DEF Todo!issueFails, Still, Todo!docs, Todo!At
<1>4. b \in TaskCall /\ InTime(b)
  BY <1>1 DEF MonthInv, TaskTypes, CallsCover
<1>5. c \in IssuePass /\ c \in TaskCall /\ InTime(c) /\ (c.whole => c = Todo!NextEmployee(b))
  BY <1>2, <1>3, <1>4, AfterIssue
<1>6. c.whole = FALSE
  BY <1>2 DEF Todo!NextEmployee
<1>7. Covers(c)
  BY <1>6 DEF Covers
<1> QED BY <1>3, <1>5, <1>7, StillStep DEF MonthInv, TaskTypes, Todo!TypeOK

LEMMA Idles ==
  ASSUME MonthInv
  PROVE  /\ Todo!IdleCall \in TaskCall /\ InTime(Todo!IdleCall) /\ Covers(Todo!IdleCall)
         /\ InTime(Todo!IdleCall)' /\ Covers(Todo!IdleCall)'
BY DEF TaskCall, Todo!IdleCall, InTime, Covers, IssuePass

\* A pass of today that has come to its end leaves nobody out.
LEMMA Ends ==
  ASSUME Calendar, MonthInv, NEW h \in Handlers, Todo!endPass(h)
  PROVE  MonthInv'
<1>1. PICK b : b = call[h]
  OBVIOUS
<1>2. /\ b.pc = "next" /\ b.todo = {} /\ Todo!Goto(h, Todo!IdleCall)
      /\ today' = [today EXCEPT !.passed = @ \/ (b.whole /\ b.month = today.month /\ b.day = today.day)]
      /\ UNCHANGED <<employed, template, task, steady, issued, overlapped>>
  BY <1>1, Zenon DEF Todo!endPass, Todo!docs, Todo!At
<1>3. b \in TaskCall /\ b \in IssuePass /\ Covers(b) /\ b.whole \in BOOLEAN
  BY <1>1, <1>2, TaskCallShapes DEF MonthInv, TaskTypes, CallsCover
<1>4. /\ today.month \in DOMAIN Months /\ today.day \in 1..Months[today.month] /\ today.passed \in BOOLEAN
      /\ today = [month |-> today.month, day |-> today.day, passed |-> today.passed]
  BY Clock DEF MonthInv, TaskTypes
<1>5. /\ today'.month = today.month /\ today'.day = today.day
      /\ today'.passed = (today.passed \/ (b.whole /\ b.month = today.month /\ b.day = today.day))
      /\ today' = [month |-> today.month, day |-> today.day, passed |-> today'.passed]
  BY <1>2, <1>4, Zenon
<1>6. today'.passed \in BOOLEAN
  BY <1>5
<1>7. today' \in Todo!Date
  <2>1. today' \in [month: {today.month}, day: 1..Months[today.month], passed: BOOLEAN]
    BY <1>4, <1>5, <1>6
  <2> QED BY <1>4, <2>1 DEF Todo!Date
<1>8. Mild
  BY <1>2, <1>5 DEF Mild
<1>9. Todo!TypeOK'
  BY <1>2, <1>7 DEF MonthInv, TaskTypes, Todo!TypeOK
<1>10. AllNoted' /\ SteadyAreActive'
  BY <1>2, <1>8, MildKeeps DEF MonthInv, AllNoted
<1>11. call' \in [Handlers -> TaskCall] /\ CallsCover'
  BY <1>2, <1>8, Idles, CallMoves
<1>12. \A t : Due(t)' = Due(t) /\ Given(t)' = Given(t)
  BY <1>2, <1>5 DEF Due, Given, Todo!effectiveDayOfMonth
<1>13. ASSUME NEW t \in steady, Due(t) = today.day, today'.passed, ~today.passed PROVE Given(t)
  <2>1. b.whole /\ b.month = today.month /\ b.day = today.day
    BY <1>5, <1>13
  <2> QED BY <1>2, <1>3, <1>13, <2>1 DEF Covers, Given
<1>14. DueAreGiven'
  BY <1>2, <1>5, <1>12, <1>13 DEF MonthInv, DueAreGiven
<1> QED BY <1>9, <1>10, <1>11, <1>14 DEF MonthInv, TaskTypes

LEMMA Breaks ==
  ASSUME MonthInv, NEW h \in Handlers, Todo!passFails(h)
  PROVE  MonthInv'
<1>1. Still /\ overlapped' = overlapped /\ Todo!Goto(h, Todo!IdleCall)
  BY DEF Todo!passFails, Still, Todo!docs
<1> QED BY <1>1, Idles, StillStep DEF MonthInv, TaskTypes, Todo!TypeOK

NewTask(t, e, period, status) == [template |-> t, employee |-> e, period |-> period, status |-> status]

\* A task that is made takes an id that was free.
LEMMA TakesFreeId ==
  ASSUME Todo!TypeOK, NEW given, given \in Todo!AgentTask, Todo!Free # {},
         task' = [task EXCEPT ![CHOOSE k \in Todo!Free : TRUE] = given]
  PROVE  /\ \E k \in Tasks : /\ task[k] = Todo!NoTask
                             /\ \A j \in Tasks : task'[j] = IF j = k THEN given ELSE task[j]
         /\ task' \in [Tasks -> Todo!AgentTask \cup {Todo!NoTask}]
<1>1. PICK k : k = CHOOSE i \in Todo!Free : TRUE
  OBVIOUS
<1>2. k \in Todo!Free
  BY <1>1
<1>3. k \in Tasks /\ task[k] = Todo!NoTask
  BY <1>2 DEF Todo!Free, Todo!Unused
<1>4. task' = [task EXCEPT ![k] = given]
  BY <1>1
<1> QED BY <1>3, <1>4 DEF Todo!TypeOK

LEMMA NewTaskKnown ==
  ASSUME NEW t \in Templates \cup {None}, NEW e \in Employees, NEW period \in 0..Len(Months),
         NEW status \in {"pending", "done"}
  PROVE  NewTask(t, e, period, status) \in Todo!AgentTask
BY DEF NewTask, Todo!AgentTask

LEMMA Makes ==
  ASSUME Todo!TypeOK, NEW e \in Employees, NEW t \in Templates \cup {None}, NEW period \in 0..Len(Months),
         Todo!createOneAdminTask(e, t, period)
  PROVE  /\ \E k \in Tasks : /\ task[k] = Todo!NoTask
                             /\ \A j \in Tasks : task'[j] = IF j = k THEN NewTask(t, e, period, "pending") ELSE task[j]
         /\ task' \in [Tasks -> Todo!AgentTask \cup {Todo!NoTask}]
<1>1. NewTask(t, e, period, "pending") \in Todo!AgentTask
  BY NewTaskKnown
<1>2. Todo!Free # {} /\ task' = [task EXCEPT ![CHOOSE k \in Todo!Free : TRUE] = NewTask(t, e, period, "pending")]
  BY DEF Todo!createOneAdminTask, NewTask
<1> QED BY <1>1, <1>2, TakesFreeId

\* The tasks stay noted when each is as it was, is gone, or is noted itself.
LEMMA NotedOn ==
  ASSUME AllNoted, Mild,
         \A k \in Tasks : task'[k] = task[k] \/ task'[k] = Todo!NoTask \/ Noted(task[k])'
  PROVE  AllNoted'
<1>1. ASSUME NEW k \in Tasks PROVE Noted(task[k])'
  <2>1. PICK given : given = task'[k]
    OBVIOUS
  <2>2. CASE task'[k] = task[k]
    <3>1. Noted(given)
      BY <2>1, <2>2 DEF AllNoted
    <3>2. Noted(given)'
      BY <3>1, MildKeeps
    <3> QED BY <2>1, <3>2 DEF Noted
  <2>3. CASE task'[k] = Todo!NoTask
    BY <2>3 DEF Noted, Todo!NoTask
  <2> QED BY <2>2, <2>3
<1> QED BY <1>1 DEF AllNoted

LEMMA Issues ==
  ASSUME Calendar, MonthInv, NEW h \in Handlers, Todo!issueTask(h)
  PROVE  MonthInv'
<1>1. PICK b : b = call[h]
  OBVIOUS
<1>2. PICK c : c = Todo!NextEmployee(b)
  OBVIOUS
<1>3. /\ b.pc = "issue" /\ Todo!createOneAdminTask(b.e, b.t, b.month) /\ Todo!Goto(h, c)
      /\ issued' = IF b.month = today.month THEN issued \cup {<<b.t, b.e>>} ELSE issued
      /\ UNCHANGED <<today, employed, template, steady, overlapped>>
  BY <1>1, <1>2, Zenon DEF Todo!issueTask, Todo!At
<1>4. b \in TaskCall /\ InTime(b) /\ Covers(b)
  BY <1>1 DEF MonthInv, TaskTypes, CallsCover
<1>5. b \in IssuePass /\ b.month \in DOMAIN Months /\ b.day \in Nat /\ b.t \in Templates /\ b.e \in Employees
  BY <1>3, <1>4, TaskCallShapes
<1>6. /\ c \in IssuePass /\ c \in TaskCall /\ InTime(c)
      /\ c.month = b.month /\ c.day = b.day /\ c.todo = b.todo \ {<<b.t, b.e>>} /\ c.whole = b.whole
  BY <1>2, <1>3, <1>4, AfterIssue
<1>7. Todo!TypeOK /\ today.month \in DOMAIN Months /\ DOMAIN Months = 1..Len(Months) /\ Len(Months) \in Nat
  BY Clock DEF MonthInv, TaskTypes, Calendar
<1>8. b.month \in 0..Len(Months)
  BY <1>5, <1>7
<1>9. /\ \E k \in Tasks : /\ task[k] = Todo!NoTask
                          /\ \A j \in Tasks : task'[j] = IF j = k THEN NewTask(b.t, b.e, b.month, "pending") ELSE task[j]
      /\ task' \in [Tasks -> Todo!AgentTask \cup {Todo!NoTask}]
  BY <1>3, <1>5, <1>7, <1>8, Makes
<1>10. issued \subseteq issued' /\ issued' \in SUBSET (Templates \X Employees)
  BY <1>3, <1>5, <1>7 DEF Todo!TypeOK
<1>11. Mild
  BY <1>3, <1>10 DEF Mild
<1>12. Todo!TypeOK'
  BY <1>3, <1>7, <1>9, <1>10 DEF Todo!TypeOK
<1>13. AllNoted'
  <2>1. b.month <= today.month /\ (b.month = today.month => <<b.t, b.e>> \in issued')
    BY <1>3, <1>4, <1>5 DEF InTime
  <2>2. Noted(NewTask(b.t, b.e, b.month, "pending"))'
    BY <1>3, <2>1 DEF Noted, NewTask
  <2>3. ASSUME NEW k \in Tasks, task'[k] = NewTask(b.t, b.e, b.month, "pending")
        PROVE  Noted(task[k])'
    BY <2>2, <2>3 DEF Noted
  <2>4. \A k \in Tasks : task'[k] = task[k] \/ Noted(task[k])'
    BY <1>9, <2>3
  <2> QED BY <1>11, <2>4, NotedOn DEF MonthInv
<1>14. Covers(c)'
  <2>1. b.month = today.month => issued \cup b.todo \subseteq issued' \cup c.todo
    BY <1>3, <1>6
  <2>2. b.pc # "find" BY <1>3
  <2>3. \A t : Due(t)' = Due(t)
    BY <1>3 DEF Due, Todo!effectiveDayOfMonth
  <2> QED BY <1>3, <1>4, <1>5, <1>6, <2>1, <2>2, <2>3 DEF Covers
<1>15. InTime(c)' BY <1>6, <1>11, MildKeeps
<1>16. call' \in [Handlers -> TaskCall] /\ CallsCover'
  BY <1>3, <1>6, <1>11, <1>14, <1>15, CallMoves
<1>17. SteadyAreActive' /\ DueAreGiven'
  BY <1>3, <1>11, MildKeeps DEF MonthInv
<1> QED BY <1>12, <1>13, <1>16, <1>17 DEF MonthInv, TaskTypes

\* The steps that touch templates, tasks by hand and the register.
LEMMA MildStep ==
  ASSUME MonthInv, Mild, today' = today, Todo!TypeOK', AllNoted', call' \in [Handlers -> TaskCall],
         CallsCover'
  PROVE  MonthInv'
BY MildKeeps DEF MonthInv, TaskTypes

LEMMA CallsStay ==
  ASSUME MonthInv, Mild, UNCHANGED call
  PROVE  call' \in [Handlers -> TaskCall] /\ CallsCover'
<1>1. ASSUME NEW g \in Handlers PROVE (InTime(call[g]) /\ Covers(call[g]))'
  <2>1. PICK q : q = call[g]
    OBVIOUS
  <2>2. InTime(q)' /\ Covers(q)' /\ call'[g] = q
    BY <2>1, MildKeeps DEF MonthInv, CallsCover
  <2> QED BY <2>2 DEF InTime, Covers
<1> QED BY <1>1 DEF MonthInv, TaskTypes, CallsCover

LEMMA AsksFor ==
  ASSUME MonthInv, NEW h \in Handlers, NEW c, Still, overlapped' = overlapped, Todo!Goto(h, c),
         c \in TaskCall, c \notin IssuePass
  PROVE  MonthInv'
BY RestsInTime, StillStep DEF MonthInv, TaskTypes, Todo!TypeOK

LEMMA Completes ==
  ASSUME MonthInv, NEW h \in Handlers, NEW k \in Tasks, Todo!completeTask(h, k)
  PROVE  MonthInv'
<1>1. PICK c : c = [pc |-> "save", k |-> k, to |-> "done"]
  OBVIOUS
<1>2. Still /\ overlapped' = overlapped /\ Todo!Goto(h, c)
  BY <1>1 DEF Todo!completeTask, Still, Todo!docs
<1>3. c \in TaskCall /\ c \notin IssuePass
  BY <1>1 DEF TaskCall, IssuePass
<1> QED BY <1>2, <1>3, AsksFor

LEMMA PatchesTask ==
  ASSUME MonthInv, NEW h \in Handlers, NEW k \in Tasks, NEW to \in {"pending", "cancelled"},
         Todo!patchAdminTask(h, k, to)
  PROVE  MonthInv'
<1>1. PICK c : c = [pc |-> "save", k |-> k, to |-> to]
  OBVIOUS
<1>2. Still /\ overlapped' = overlapped /\ Todo!Goto(h, c)
  BY <1>1 DEF Todo!patchAdminTask, Still, Todo!docs
<1>3. c \in TaskCall /\ c \notin IssuePass
  BY <1>1 DEF TaskCall, IssuePass
<1> QED BY <1>2, <1>3, AsksFor

LEMMA Gives ==
  ASSUME MonthInv, NEW h \in Handlers, NEW es \in SUBSET Employees, NEW lines \in Lines, Lines \subseteq Nat,
         Todo!createAdminTask(h, es, lines)
  PROVE  MonthInv'
<1>1. PICK c : c = [pc |-> "give", todo |-> es \X Todo!splitTaskBulletLines(lines)]
  OBVIOUS
<1>2. Still /\ overlapped' = overlapped /\ Todo!Goto(h, c)
  BY <1>1 DEF Todo!createAdminTask, Still, Todo!docs
<1>3. Todo!splitTaskBulletLines(lines) \subseteq Nat
  BY DEF Todo!splitTaskBulletLines
<1>4. c \in TaskCall /\ c \notin IssuePass
  BY <1>1, <1>3 DEF TaskCall, IssuePass
<1> QED BY <1>2, <1>4, AsksFor

\* A task that is not of a template is noted whatever the month.
LEMMA ByHandNoted ==
  ASSUME NEW e, NEW status
  PROVE  Noted(NewTask(None, e, 0, status))'
BY DEF Noted, NewTask

LEMMA GivesOne ==
  ASSUME Calendar, MonthInv, NEW h \in Handlers, NEW e \in Employees, Todo!giveTask(h, e)
  PROVE  MonthInv'
<1>1. PICK b : b = call[h]
  OBVIOUS
<1>2. PICK n : /\ b.pc = "give" /\ n \in {x[2] : x \in b.todo} /\ <<e, n>> \in b.todo
               /\ IF e \in employed
                  THEN /\ Todo!createOneAdminTask(e, None, 0)
                       /\ LET left == b.todo \ {<<e, n>>}
                          IN Todo!Goto(h, IF left = {} THEN Todo!IdleCall ELSE [pc |-> "give", todo |-> left])
                  ELSE Todo!Goto(h, Todo!IdleCall) /\ UNCHANGED task
  BY <1>1, Zenon DEF Todo!giveTask, Todo!At
<1>3. UNCHANGED <<today, employed, template, steady, issued, overlapped>>
  BY DEF Todo!giveTask
<1>4. b \in TaskCall /\ b.todo \in SUBSET (Employees \X Nat)
  BY <1>1, <1>2, TaskCallShapes DEF MonthInv, TaskTypes
<1>5. PICK c : Todo!Goto(h, c) /\ c \in TaskCall /\ c \notin IssuePass
  <2>1. [pc |-> "give", todo |-> b.todo \ {<<e, n>>}] \in TaskCall
        /\ [pc |-> "give", todo |-> b.todo \ {<<e, n>>}] \notin IssuePass
    BY <1>4 DEF TaskCall, IssuePass
  <2>2. Todo!IdleCall \in TaskCall /\ Todo!IdleCall \notin IssuePass
    BY DEF TaskCall, Todo!IdleCall, IssuePass
  <2> QED BY <1>2, <2>1, <2>2
<1>6. Mild /\ today' = today BY <1>3 DEF Mild
<1>7. call' \in [Handlers -> TaskCall] /\ CallsCover'
  BY <1>5, <1>6, RestsInTime, CallMoves
<1>8. CASE Todo!createOneAdminTask(e, None, 0)
  <2>1. Todo!TypeOK /\ Len(Months) \in Nat
    BY DEF MonthInv, TaskTypes, Calendar
  <2>2. /\ \E k \in Tasks : \A j \in Tasks : task'[j] = IF j = k THEN NewTask(None, e, 0, "pending") ELSE task[j]
        /\ task' \in [Tasks -> Todo!AgentTask \cup {Todo!NoTask}]
    BY <1>8, <2>1, Makes
  <2>3. Todo!TypeOK'
    BY <1>3, <2>1, <2>2 DEF Todo!TypeOK
  <2>4. ASSUME NEW k \in Tasks, task'[k] = NewTask(None, e, 0, "pending") PROVE Noted(task[k])'
    BY <2>4, ByHandNoted DEF Noted
  <2>5. AllNoted'
    BY <1>6, <2>2, <2>4, NotedOn DEF MonthInv
  <2> QED BY <1>6, <1>7, <2>3, <2>5, MildStep
<1>9. CASE UNCHANGED task
  <2>1. Todo!TypeOK' BY <1>3, <1>9 DEF MonthInv, TaskTypes, Todo!TypeOK
  <2>2. AllNoted' BY <1>6, <1>9, NotedOn DEF MonthInv
  <2> QED BY <1>6, <1>7, <2>1, <2>2, MildStep
<1> QED BY <1>2, <1>8, <1>9

LEMMA Reports ==
  ASSUME Calendar, MonthInv, NEW e \in Employees, Todo!reportSelfCompletedTask(e)
  PROVE  MonthInv'
<1>1. /\ Todo!Free # {} /\ task' = [task EXCEPT ![CHOOSE k \in Todo!Free : TRUE] = NewTask(None, e, 0, "done")]
      /\ UNCHANGED <<today, employed, template, steady, issued, overlapped, call>>
  BY DEF Todo!reportSelfCompletedTask, NewTask
<1>2. Mild /\ today' = today BY <1>1 DEF Mild
<1>3. Todo!TypeOK /\ NewTask(None, e, 0, "done") \in Todo!AgentTask
  <2>1. 0 \in 0..Len(Months)
    BY DEF Calendar
  <2> QED BY <2>1, NewTaskKnown DEF MonthInv, TaskTypes
<1>4. /\ \E k \in Tasks : \A j \in Tasks : task'[j] = IF j = k THEN NewTask(None, e, 0, "done") ELSE task[j]
      /\ task' \in [Tasks -> Todo!AgentTask \cup {Todo!NoTask}]
  BY <1>1, <1>3, TakesFreeId
<1>5. Todo!TypeOK' BY <1>1, <1>3, <1>4 DEF Todo!TypeOK
<1>6. ASSUME NEW k \in Tasks, task'[k] = NewTask(None, e, 0, "done") PROVE Noted(task[k])'
  BY <1>6, ByHandNoted DEF Noted
<1>7. AllNoted' BY <1>2, <1>4, <1>6, NotedOn DEF MonthInv
<1> QED BY <1>1, <1>2, <1>5, <1>7, CallsStay, MildStep

LEMMA Saves ==
  ASSUME Calendar, MonthInv, NEW h \in Handlers, Todo!saveTask(h)
  PROVE  MonthInv'
<1>1. PICK b : b = call[h]
  OBVIOUS
<1>2. /\ b.pc = "save" /\ task' = IF b.k \in Todo!Unused THEN task ELSE [task EXCEPT ![b.k].status = b.to]
      /\ Todo!Goto(h, Todo!IdleCall)
      /\ UNCHANGED <<today, employed, template, steady, issued, overlapped>>
  BY <1>1, Zenon DEF Todo!saveTask, Todo!At
<1>3. b \in TaskCall /\ b.k \in Tasks /\ b.to \in {"pending", "done", "cancelled"}
  BY <1>1, <1>2, TaskCallShapes DEF MonthInv, TaskTypes
<1>4. Todo!TypeOK BY DEF MonthInv, TaskTypes
<1>5. Mild /\ today' = today BY <1>2 DEF Mild
<1>6. /\ task' \in [Tasks -> Todo!AgentTask \cup {Todo!NoTask}]
      /\ \A j \in Tasks : task'[j] # task[j] =>
           /\ task'[j].template = task[j].template /\ task'[j].employee = task[j].employee
           /\ task'[j].period = task[j].period /\ task[j] # Todo!NoTask
  <2>1. CASE b.k \in Todo!Unused
    BY <1>2, <1>4, <2>1 DEF Todo!TypeOK
  <2>2. CASE b.k \notin Todo!Unused
    <3>1. task[b.k] \in Todo!AgentTask /\ task[b.k] # Todo!NoTask
      BY <1>3, <1>4, <2>2 DEF Todo!Unused, Todo!TypeOK
    <3>2. PICK given : given = [task[b.k] EXCEPT !.status = b.to]
      OBVIOUS
    <3>3. /\ given \in Todo!AgentTask /\ given.template = task[b.k].template
          /\ given.employee = task[b.k].employee /\ given.period = task[b.k].period
      BY <1>3, <3>1, <3>2 DEF Todo!AgentTask
    <3>4. task' = [task EXCEPT ![b.k] = given]
      BY <1>2, <2>2, <3>2
    <3> QED BY <1>3, <1>4, <3>1, <3>3, <3>4 DEF Todo!TypeOK
  <2> QED BY <2>1, <2>2
<1>7. AllNoted'
  BY <1>2, <1>6 DEF MonthInv, AllNoted, Noted
<1>8. Todo!TypeOK' BY <1>2, <1>4, <1>6 DEF Todo!TypeOK
<1>9. call' \in [Handlers -> TaskCall] /\ CallsCover'
  BY <1>2, <1>5, Idles, CallMoves
<1> QED BY <1>5, <1>7, <1>8, <1>9, MildStep

LEMMA Creates ==
  ASSUME Calendar, MonthInv, NEW h \in Handlers, NEW t \in Templates, NEW es \in SUBSET Employees,
         NEW d \in IssueDays, Todo!createRecurringTask(h, t, es, d)
  PROVE  MonthInv'
<1>1. PICK c : c = [pc |-> "find", month |-> today.month, day |-> today.day]
  OBVIOUS
<1>2. c \in TaskCall /\ InTime(c) /\ Covers(c)
  BY <1>1, StartOfPass
<1>3. PICK new : new = [status |-> "active", issueDay |-> d, employees |-> es]
  OBVIOUS
<1>4. /\ template[t].status = "none" /\ es # {} /\ template' = [template EXCEPT ![t] = new]
      /\ Todo!Goto(h, c) /\ overlapped' \in BOOLEAN
      /\ UNCHANGED <<today, employed, task, steady, issued>>
  BY <1>1, <1>3 DEF Todo!createRecurringTask, MonthInv, TaskTypes, Todo!TypeOK
<1>5. Todo!TypeOK BY DEF MonthInv, TaskTypes
<1>6. new \in Todo!AgentRecurringTask
  BY <1>3, <1>4 DEF Todo!AgentRecurringTask
<1>7. Mild /\ today' = today
  <2>1. t \notin steady BY <1>4 DEF MonthInv, SteadyAreActive
  <2> QED BY <1>4, <1>5, <2>1 DEF Mild, Todo!TypeOK
<1>8. Todo!TypeOK' BY <1>4, <1>5, <1>6 DEF Todo!TypeOK
<1>9. AllNoted' BY <1>4, <1>7, NotedOn DEF MonthInv
<1>10. call' \in [Handlers -> TaskCall] /\ CallsCover'
  BY <1>2, <1>4, <1>7, MildKeeps, CallMoves
<1> QED BY <1>7, <1>8, <1>9, <1>10, MildStep

LEMMA PatchesTemplate ==
  ASSUME MonthInv, NEW t \in Templates, NEW es \in SUBSET Employees, NEW d \in IssueDays,
         NEW s \in {"active", "paused"}, Todo!patchRecurringTask(t, es, d, s)
  PROVE  MonthInv'
<1>1. PICK new : new = [status |-> s, issueDay |-> d, employees |-> es]
  OBVIOUS
<1>2. /\ es # {} /\ template' = [template EXCEPT ![t] = new] /\ steady' = steady \ {t}
      /\ UNCHANGED <<today, employed, task, issued, overlapped, call>>
  BY <1>1 DEF Todo!patchRecurringTask
<1>3. Todo!TypeOK BY DEF MonthInv, TaskTypes
<1>4. new \in Todo!AgentRecurringTask
  BY <1>1, <1>2 DEF Todo!AgentRecurringTask
<1>5. Mild /\ today' = today BY <1>2, <1>3 DEF Mild, Todo!TypeOK
<1>6. Todo!TypeOK' BY <1>2, <1>3, <1>4 DEF Todo!TypeOK
<1>7. AllNoted' BY <1>2, <1>5, NotedOn DEF MonthInv
<1> QED BY <1>2, <1>5, <1>6, <1>7, CallsStay, MildStep

LEMMA DeletesTemplate ==
  ASSUME MonthInv, NEW t \in Templates, Todo!deleteRecurringTask(t)
  PROVE  MonthInv'
<1>1. /\ template' = [template EXCEPT ![t] = Todo!NoTemplate] /\ steady' = steady \ {t}
      /\ UNCHANGED <<today, employed, task, issued, overlapped, call>>
  BY DEF Todo!deleteRecurringTask
<1>2. Todo!TypeOK BY DEF MonthInv, TaskTypes
<1>3. Mild /\ today' = today BY <1>1, <1>2 DEF Mild, Todo!TypeOK
<1>4. Todo!NoTemplate \in Todo!AgentRecurringTask BY DEF Todo!AgentRecurringTask
<1>5. Todo!TypeOK' BY <1>1, <1>2, <1>4 DEF Todo!TypeOK
<1>6. AllNoted' BY <1>1, <1>3, NotedOn DEF MonthInv
<1> QED BY <1>1, <1>3, <1>5, <1>6, CallsStay, MildStep

LEMMA DeletesTask ==
  ASSUME MonthInv, NEW k \in Tasks, Todo!deleteAdminTask(k)
  PROVE  MonthInv'
<1>1. /\ task' = [task EXCEPT ![k] = Todo!NoTask]
      /\ UNCHANGED <<today, employed, template, steady, issued, overlapped, call>>
  BY DEF Todo!deleteAdminTask
<1>2. Mild /\ today' = today BY <1>1 DEF Mild
<1>3. Todo!TypeOK' /\ \A j \in Tasks : task'[j] = task[j] \/ task'[j] = Todo!NoTask
  BY <1>1 DEF MonthInv, TaskTypes, Todo!TypeOK
<1>4. AllNoted' BY <1>2, <1>3, NotedOn DEF MonthInv
<1> QED BY <1>1, <1>2, <1>3, <1>4, CallsStay, MildStep

LEMMA Leaves ==
  ASSUME MonthInv, NEW e \in Employees, Todo!EmployeeDeleted(e)
  PROVE  MonthInv'
<1>1. employed' = employed \ {e} /\ UNCHANGED <<today, template, task, steady, issued, overlapped, call>>
  BY DEF Todo!EmployeeDeleted
<1>2. Mild /\ today' = today BY <1>1 DEF Mild
<1>3. Todo!TypeOK' BY <1>1 DEF MonthInv, TaskTypes, Todo!TypeOK
<1>4. AllNoted' BY <1>1, <1>2, NotedOn DEF MonthInv
<1> QED BY <1>1, <1>2, <1>3, <1>4, CallsStay, MildStep

LEMMA Crashes ==
  ASSUME MonthInv, Todo!Crash
  PROVE  MonthInv'
<1>1. Still /\ overlapped' = overlapped /\ call' = [h \in Handlers |-> Todo!IdleCall]
  BY DEF Todo!Crash, Still, Todo!docs
<1>2. Mild /\ Todo!TypeOK' /\ AllNoted' /\ SteadyAreActive' /\ DueAreGiven'
  BY <1>1, StillIsMild DEF MonthInv, TaskTypes, Todo!TypeOK
<1>3. call' \in [Handlers -> TaskCall]
  BY <1>1, Idles
<1>4. CallsCover'
  <2> SUFFICES ASSUME NEW g \in Handlers PROVE (InTime(call[g]) /\ Covers(call[g]))'
    BY DEF CallsCover
  <2>1. call'[g] = Todo!IdleCall BY <1>1
  <2> QED BY <2>1 DEF InTime, Covers, IssuePass, Todo!IdleCall
<1> QED BY <1>2, <1>3, <1>4 DEF MonthInv, TaskTypes

\* The day a steady template is due on is a day of the month.
LEMMA DueIsADay ==
  ASSUME Calendar, Todo!TypeOK, NEW t \in Templates, template[t].status = "active", NEW m \in DOMAIN Months
  PROVE  Todo!effectiveDayOfMonth(m, template[t].issueDay) \in 1..Months[m]
<1>1. template[t].issueDay \in Nat \ {0}
  <2>1. template[t] \in Todo!AgentRecurringTask BY DEF Todo!TypeOK
  <2>2. template[t] \in [status: {"active", "paused"}, issueDay: IssueDays, employees: (SUBSET Employees) \ {{}}]
    BY <2>1 DEF Todo!AgentRecurringTask, Todo!NoTemplate
  <2> QED BY <2>2 DEF Calendar
<1>2. Months[m] \in Nat \ {0} BY DEF Calendar
<1> QED BY <1>1, <1>2 DEF Todo!effectiveDayOfMonth

\* At midnight every pass is of a day gone by.
LEMMA MidnightCalls ==
  ASSUME MonthInv, UNCHANGED call, Calendar,
         NEW m \in Nat, NEW d \in Nat, today'.month = m, today'.day = d,
         \/ m = today.month /\ d = today.day + 1
         \/ m = today.month + 1
  PROVE  CallsCover'
<1>1. today.month \in DOMAIN Months /\ today.month \in Nat /\ today.day \in Nat
  BY Clock DEF MonthInv, TaskTypes
<1>2. ASSUME NEW g \in Handlers PROVE (InTime(call[g]) /\ Covers(call[g]))'
  <2>1. PICK q : q = call[g]
    OBVIOUS
  <2>2. InTime(q) /\ call'[g] = q /\ q \in TaskCall
    BY <2>1 DEF MonthInv, CallsCover, TaskTypes
  <2>3. q \in IssuePass => q.month \in Nat /\ q.day \in Nat
    BY <2>2, TaskCallShapes, Clock DEF MonthInv, TaskTypes
  <2>4. InTime(q)' /\ (q \in IssuePass => ~(q.month = today'.month /\ q.day = today'.day))
    BY <1>1, <2>2, <2>3 DEF InTime
  <2>5. Covers(q)'
    BY <2>4 DEF Covers
  <2> QED BY <2>2, <2>4, <2>5 DEF InTime, Covers
<1> QED BY <1>2 DEF CallsCover

LEMMA NextDay ==
  ASSUME Calendar, MonthInv, today.passed, today.day < Months[today.month],
         today' = [month |-> today.month, day |-> today.day + 1, passed |-> FALSE],
         UNCHANGED <<employed, template, task, steady, issued, overlapped, call>>
  PROVE  MonthInv'
<1>1. /\ today.month \in DOMAIN Months /\ today.day \in 1..Months[today.month] /\ Months[today.month] \in Nat
      /\ today.month \in Nat
  BY Clock DEF MonthInv, TaskTypes
<1>2. today' \in Todo!Date
  <2>1. today' \in [month: {today.month}, day: 1..Months[today.month], passed: BOOLEAN]
    BY <1>1
  <2> QED BY <1>1, <2>1 DEF Todo!Date
<1>3. Todo!TypeOK' BY <1>2 DEF MonthInv, TaskTypes, Todo!TypeOK
<1>4. AllNoted' /\ SteadyAreActive'
  BY DEF MonthInv, AllNoted, Noted, SteadyAreActive
<1>5. CallsCover' BY <1>1, MidnightCalls
<1>6. DueAreGiven'
  <2> SUFFICES ASSUME NEW t \in steady, Due(t)' <= today.day PROVE Given(t)'
    <3>1. \A t \in steady : Due(t)' \in Nat
      <4>1. \A t \in steady : Due(t) \in 1..Months[today.month]
        BY <1>1, DueIsADay DEF MonthInv, SteadyAreActive, TaskTypes, Todo!TypeOK, Due
      <4> QED BY <1>1, <4>1 DEF Due, Todo!effectiveDayOfMonth
    <3> QED BY <1>1, <3>1 DEF DueAreGiven
  <2>1. Due(t)' = Due(t) BY DEF Due, Todo!effectiveDayOfMonth
  <2>2. Due(t) \in Nat
    BY <1>1, DueIsADay DEF MonthInv, SteadyAreActive, TaskTypes, Todo!TypeOK, Due
  <2>3. Given(t) BY <1>1, <2>1, <2>2 DEF MonthInv, DueAreGiven
  <2> QED BY <2>3 DEF Given
<1> QED BY <1>3, <1>4, <1>5, <1>6 DEF MonthInv, TaskTypes

LEMMA NextMonth ==
  ASSUME Calendar, MonthInv, today.month < Len(Months),
         today' = [month |-> today.month + 1, day |-> 1, passed |-> FALSE],
         steady' = {t \in Templates : template[t].status = "active"}, issued' = {},
         UNCHANGED <<employed, template, task, overlapped, call>>
  PROVE  MonthInv'
<1>1. /\ today.month \in DOMAIN Months /\ DOMAIN Months = 1..Len(Months) /\ Len(Months) \in Nat
      /\ \A m \in DOMAIN Months : Months[m] \in Nat \ {0}
  BY Clock DEF MonthInv, TaskTypes, Calendar
<1>2. today.month + 1 \in DOMAIN Months /\ today.month \in Nat BY <1>1
<1>3. today' \in Todo!Date
  <2>1. today' \in [month: {today.month + 1}, day: 1..Months[today.month + 1], passed: BOOLEAN]
    BY <1>1, <1>2
  <2> QED BY <1>2, <2>1 DEF Todo!Date
<1>4. Todo!TypeOK' BY <1>3 DEF MonthInv, TaskTypes, Todo!TypeOK
<1>5. AllNoted'
  <2> SUFFICES ASSUME NEW k \in Tasks PROVE Noted(task[k])'
    BY DEF AllNoted
  <2>1. PICK given : given = task[k] OBVIOUS
  <2>2. Noted(given) /\ task'[k] = given /\ given \in Todo!AgentTask \cup {Todo!NoTask}
    BY <2>1 DEF MonthInv, AllNoted, TaskTypes, Todo!TypeOK
  <2>3. given # Todo!NoTask => given.period \in Nat
    BY <1>1, <2>2 DEF Todo!AgentTask
  <2> QED BY <1>2, <2>2, <2>3 DEF Noted
<1>6. CallsCover' BY <1>2, MidnightCalls
<1>7. SteadyAreActive' BY DEF SteadyAreActive
<1>8. DueAreGiven'
  <2> SUFFICES ASSUME NEW t \in steady' PROVE Due(t)' \in Nat \ {0}
    BY DEF DueAreGiven
  <2>1. Todo!effectiveDayOfMonth(today.month + 1, template[t].issueDay) \in Nat \ {0}
    BY <1>1, <1>2, DueIsADay DEF MonthInv, TaskTypes
  <2> QED BY <2>1 DEF Due, Todo!effectiveDayOfMonth
<1> QED BY <1>4, <1>5, <1>6, <1>7, <1>8 DEF MonthInv, TaskTypes

LEMMA Midnights ==
  ASSUME Calendar, MonthInv, Todo!Midnight
  PROVE  MonthInv'
BY NextDay, NextMonth DEF Todo!Midnight, Todo!docs

LEMMA MonthStarts ==
  ASSUME Calendar, Todo!Init
  PROVE  MonthInv
<1>1. /\ 1 \in DOMAIN Months /\ 1 \in 1..Months[1] /\ Months[1] \in Nat
  BY DEF Calendar
<1>2. today \in Todo!Date
  <2>1. today \in [month: {1}, day: 1..Months[1], passed: BOOLEAN]
    BY <1>1 DEF Todo!Init
  <2> QED BY <1>1, <2>1 DEF Todo!Date
<1>3. \A t \in Templates : template[t] \in Todo!AgentRecurringTask
  BY DEF Todo!Init, Todo!AgentRecurringTask
<1>4. Todo!TypeOK
  BY <1>2, <1>3 DEF Todo!Init, Todo!TypeOK
<1>5. call \in [Handlers -> TaskCall] /\ CallsCover
  BY DEF Todo!Init, TaskCall, CallsCover, InTime, Covers, IssuePass, Todo!IdleCall
<1>6. AllNoted BY DEF Todo!Init, AllNoted, Noted
<1>7. SteadyAreActive BY DEF Todo!Init, SteadyAreActive
<1>8. DueAreGiven
  <2>1. today.day = 1 /\ ~today.passed /\ today.month = 1 BY DEF Todo!Init
  <2>2. \A t \in steady : Due(t) \in 1..Months[1]
    BY <1>1, <1>4, <1>7, <2>1, DueIsADay DEF SteadyAreActive, Todo!TypeOK, Due
  <2> QED BY <1>1, <2>1, <2>2 DEF DueAreGiven
<1> QED BY <1>4, <1>5, <1>6, <1>7, <1>8 DEF MonthInv, TaskTypes

LEMMA MonthStays ==
  ASSUME MonthInv, UNCHANGED Todo!vars
  PROVE  MonthInv'
<1>1. Still /\ overlapped' \in BOOLEAN /\ UNCHANGED call
  BY DEF Todo!vars, Todo!docs, Still, MonthInv, TaskTypes, Todo!TypeOK
<1>2. Mild /\ Todo!TypeOK' /\ AllNoted' /\ SteadyAreActive' /\ DueAreGiven'
  BY <1>1, StillIsMild DEF MonthInv
<1> QED BY <1>1, <1>2, CallsStay DEF MonthInv, TaskTypes

TaskFacts == Calendar /\ Lines \subseteq Nat /\ None \notin Templates

LEMMA MonthSteps ==
  ASSUME TaskFacts, MonthInv, [Todo!Next]_Todo!vars
  PROVE  MonthInv'
<1> USE DEF TaskFacts
<1>1. ASSUME NEW h \in Handlers, Todo!Handle(h) PROVE MonthInv'
  <2>1. CASE Todo!materializeRecurringTasks(h) BY <2>1, Starts
  <2>2. CASE Todo!findTemplates(h) BY <2>2, Finds
  <2>3. CASE Todo!issueFails(h) BY <2>3, CannotIssue
  <2>4. CASE Todo!endPass(h) BY <2>4, Ends
  <2>5. CASE Todo!passFails(h) BY <2>5, Breaks
  <2>6. CASE Todo!saveTask(h) BY <2>6, Saves
  <2>7. CASE \E t \in Templates, e \in Employees : Todo!checkExists(h, t, e) BY <2>7, Checks
  <2>8. CASE Todo!issueTask(h) BY <2>8, Issues
  <2>9. CASE \E k \in Tasks : Todo!completeTask(h, k) BY <2>9, Completes
  <2>10. CASE \E t \in Templates, es \in SUBSET Employees, d \in IssueDays : Todo!createRecurringTask(h, t, es, d)
    BY <2>10, Creates
  <2>11. CASE \E es \in SUBSET Employees, lines \in Lines : Todo!createAdminTask(h, es, lines)
    BY <2>11, Gives
  <2>12. CASE \E e \in Employees : Todo!giveTask(h, e) BY <2>12, GivesOne
  <2>13. CASE \E k \in Tasks, to \in {"pending", "cancelled"} : Todo!patchAdminTask(h, k, to)
    BY <2>13, PatchesTask
  <2> QED BY <1>1, <2>1, <2>2, <2>3, <2>4, <2>5, <2>6, <2>7, <2>8, <2>9, <2>10, <2>11, <2>12, <2>13
      DEF Todo!Handle
<1>2. CASE \E t \in Templates, es \in SUBSET Employees, d \in IssueDays, s \in {"active", "paused"} :
             Todo!patchRecurringTask(t, es, d, s)
  BY <1>2, PatchesTemplate
<1>3. CASE \E t \in Templates : Todo!deleteRecurringTask(t) BY <1>3, DeletesTemplate
<1>4. CASE \E e \in Employees : Todo!reportSelfCompletedTask(e) BY <1>4, Reports
<1>5. CASE \E k \in Tasks : Todo!deleteAdminTask(k) BY <1>5, DeletesTask
<1>6. CASE \E e \in Employees : Todo!EmployeeDeleted(e) BY <1>6, Leaves
<1>7. CASE Todo!Midnight BY <1>7, Midnights
<1>8. CASE Todo!Crash BY <1>8, Crashes
<1>9. CASE UNCHANGED Todo!vars BY <1>9, MonthStays
<1> QED BY <1>1, <1>2, <1>3, <1>4, <1>5, <1>6, <1>7, <1>8, <1>9 DEF Todo!Next

\* When the month is over, every day a steady template can be due on is past.
LEMMA MonthClosesNow ==
  ASSUME TaskFacts, MonthInv, [Todo!Next]_Todo!vars
  PROVE  Todo!MonthCloses
<1> SUFFICES ASSUME today'.month # today.month, NEW t \in steady,
                    NEW e \in template[t].employees \cap employed
             PROVE  <<t, e>> \in issued
  BY DEF Todo!MonthCloses
<1>1. CASE Todo!Midnight
  <2>1. today.passed /\ ~(today.day < Months[today.month])
    BY <1>1 DEF Todo!Midnight
  <2>2. /\ today.month \in DOMAIN Months /\ today.day \in 1..Months[today.month]
        /\ Months[today.month] \in Nat
    BY Clock DEF MonthInv, TaskTypes, TaskFacts
  <2>3. Due(t) \in 1..Months[today.month]
    BY <2>2, DueIsADay DEF MonthInv, SteadyAreActive, TaskTypes, Todo!TypeOK, Due, TaskFacts
  <2>4. Due(t) < today.day \/ (Due(t) = today.day /\ today.passed)
    BY <2>1, <2>2, <2>3
  <2> QED BY <2>4 DEF MonthInv, DueAreGiven, Given
<1>2. ASSUME NEW h \in Handlers, Todo!Handle(h), today' # today PROVE FALSE
  <2>1. Todo!endPass(h)
    BY <1>2 DEF Todo!Handle, Todo!materializeRecurringTasks, Todo!findTemplates, Todo!issueFails,
         Todo!passFails, Todo!saveTask, Todo!checkExists, Todo!issueTask, Todo!completeTask,
         Todo!createRecurringTask, Todo!createAdminTask, Todo!giveTask, Todo!patchAdminTask
  <2>2. today = [month |-> today.month, day |-> today.day, passed |-> today.passed]
    BY Clock DEF MonthInv, TaskTypes, TaskFacts
  <2>3. today'.month = today.month
    BY <2>1, <2>2 DEF Todo!endPass
  <2> QED BY <2>3
<1>3. CASE UNCHANGED today
  BY <1>3
<1>4. CASE ~Todo!Midnight /\ ~UNCHANGED today
  BY <1>2, <1>4 DEF Todo!Next, Todo!vars, Todo!patchRecurringTask, Todo!deleteRecurringTask,
     Todo!reportSelfCompletedTask, Todo!deleteAdminTask, Todo!EmployeeDeleted, Todo!Crash
<1> QED BY <1>1, <1>3, <1>4

\* A template that was active and unchanged all month long has given every one
\* of its employees a task by the end of it, for every calendar, however many
\* passes overlap, break off or skip an employee (materializeRecurringTasks).
THEOREM EveryMonthIsIssuedByTasks ==
  ASSUME TaskFacts
  PROVE  Todo!Spec => []Todo!TypeOK /\ Todo!EveryMonthIsIssued
<1>1. Todo!Init => MonthInv
  BY MonthStarts DEF TaskFacts
<1>2. MonthInv /\ [Todo!Next]_Todo!vars => MonthInv'
  BY MonthSteps
<1>3. MonthInv => Todo!TypeOK
  BY DEF MonthInv, TaskTypes
<1>4. MonthInv /\ [Todo!Next]_Todo!vars => [Todo!MonthCloses]_Todo!vars
  BY MonthClosesNow
<1> QED BY <1>1, <1>2, <1>3, <1>4, PTL DEF Todo!Spec, Todo!EveryMonthIsIssued

-----------------------------------------------------------------------------
(* AgentTasks: one pass at a time asks before it issues.                     *)

OnceEach ==
  \A j, k \in Tasks \ Todo!Unused :
    task[j].template # None /\ j # k =>
      <<task[j].template, task[j].employee, task[j].period>>
        # <<task[k].template, task[k].employee, task[k].period>>
InPass(c) == c.pc \in {"find", "next", "issue"}
OnePass == \A g, h \in Handlers : InPass(call[g]) /\ InPass(call[h]) => g = h
Lacks(c) == c.pc = "issue" => ~Todo!TaskOfMonth(c.t, c.e, c.month)
OnceInv == overlapped \/ (OnceEach /\ OnePass /\ \A h \in Handlers : Lacks(call[h]))

\* No task of a template comes in.
Fewer ==
  \A k \in Tasks : task'[k] # Todo!NoTask /\ task'[k].template # None =>
    /\ task[k] # Todo!NoTask /\ task[k].template = task'[k].template
    /\ task[k].employee = task'[k].employee /\ task[k].period = task'[k].period

LEMMA FewerKeeps ==
  ASSUME Fewer, None \notin Templates
  PROVE  /\ OnceEach => OnceEach'
         /\ \A c \in TaskCall : Lacks(c) => Lacks(c)'
<1>1. ASSUME OnceEach, NEW j \in Tasks, NEW k \in Tasks, task'[j] # Todo!NoTask, task'[k] # Todo!NoTask,
             task'[j].template # None, j # k,
             <<task'[j].template, task'[j].employee, task'[j].period>>
               = <<task'[k].template, task'[k].employee, task'[k].period>>
      PROVE  FALSE
  <2>1. task'[k].template # None BY <1>1
  <2>2. /\ task[j] # Todo!NoTask /\ task[k] # Todo!NoTask /\ task[j].template # None
        /\ <<task[j].template, task[j].employee, task[j].period>>
             = <<task[k].template, task[k].employee, task[k].period>>
    BY <1>1, <2>1 DEF Fewer
  <2> QED BY <1>1, <2>2 DEF OnceEach, Todo!Unused
<1>2. OnceEach => OnceEach'
  BY <1>1 DEF OnceEach, Todo!Unused
<1>3. ASSUME NEW c \in TaskCall, c.pc = "issue", Todo!TaskOfMonth(c.t, c.e, c.month)'
      PROVE  Todo!TaskOfMonth(c.t, c.e, c.month)
  <2>1. c.t # None BY <1>3, TaskCallShapes
  <2> QED BY <1>3, <2>1 DEF Todo!TaskOfMonth, Todo!Unused, Fewer
<1> QED BY <1>2, <1>3 DEF Lacks

LEMMA SameTasksAreFewer == ASSUME UNCHANGED task PROVE Fewer
BY DEF Fewer

\* One call moves and enters no pass it was not in.
LEMMA OnceOn ==
  ASSUME TaskTypes, OnceInv, Fewer, None \notin Templates, overlapped' = overlapped,
         NEW h \in Handlers, NEW c \in TaskCall, Todo!Goto(h, c),
         InPass(c) => InPass(call[h]), Lacks(c)
  PROVE  OnceInv'
<1>1. \A g \in Handlers : call'[g] = IF g = h THEN c ELSE call[g]
  BY TaskCallGoes DEF TaskTypes
<1> SUFFICES ASSUME OnceEach, OnePass, \A g \in Handlers : Lacks(call[g])
             PROVE  OnceEach' /\ OnePass' /\ \A g \in Handlers : Lacks(call[g])'
  BY DEF OnceInv
<1>2. OnceEach' BY FewerKeeps
<1>3. OnePass' BY <1>1 DEF OnePass, InPass
<1>4. ASSUME NEW g \in Handlers PROVE Lacks(call[g])'
  <2>1. PICK q : q = call'[g] OBVIOUS
  <2>2. q \in TaskCall /\ Lacks(q)
    <3>1. CASE g = h BY <1>1, <2>1, <3>1
    <3>2. CASE g # h
      <4>1. q = call[g] BY <1>1, <2>1, <3>2
      <4>2. Lacks(q) BY <4>1 DEF Lacks
      <4>3. q \in TaskCall BY <4>1 DEF TaskTypes
      <4> QED BY <4>2, <4>3
    <3> QED BY <3>1, <3>2
  <2>3. Lacks(q)' BY <2>2, FewerKeeps
  <2> QED BY <2>1, <2>3 DEF Lacks
<1> QED BY <1>2, <1>3, <1>4

\* No call moves.
LEMMA OnceStays ==
  ASSUME TaskTypes, OnceInv, Fewer, None \notin Templates, overlapped' = overlapped, UNCHANGED call
  PROVE  OnceInv'
<1> SUFFICES ASSUME OnceEach, OnePass, \A g \in Handlers : Lacks(call[g])
             PROVE  OnceEach' /\ OnePass' /\ \A g \in Handlers : Lacks(call[g])'
  BY DEF OnceInv
<1>1. OnceEach' BY FewerKeeps
<1>2. OnePass' BY DEF OnePass
<1>3. ASSUME NEW g \in Handlers PROVE Lacks(call[g])'
  <2>1. PICK q : q = call[g] OBVIOUS
  <2>2. Lacks(q) BY <2>1 DEF Lacks
  <2>3. q \in TaskCall BY <2>1 DEF TaskTypes
  <2>4. Lacks(q)' BY <2>2, <2>3, FewerKeeps
  <2> QED BY <2>1, <2>4 DEF Lacks
<1> QED BY <1>1, <1>2, <1>3

\* A pass that begins is the only one, or the overlap is recorded.
LEMMA OnceBegins ==
  ASSUME TaskTypes, OnceInv, None \notin Templates, UNCHANGED task,
         overlapped' = (overlapped \/ Todo!Passing # {}),
         NEW h \in Handlers, NEW c \in TaskCall, Todo!Goto(h, c), c.pc = "find"
  PROVE  OnceInv'
<1>1. \A g \in Handlers : call'[g] = IF g = h THEN c ELSE call[g]
  BY TaskCallGoes DEF TaskTypes
<1> SUFFICES ASSUME Todo!Passing = {}, OnceEach
             PROVE  OnceEach' /\ OnePass' /\ \A g \in Handlers : Lacks(call[g])'
  BY DEF OnceInv
<1>2. \A g \in Handlers : g # h => ~InPass(call'[g])
  BY <1>1 DEF Todo!Passing, InPass
<1>3. OnceEach' BY SameTasksAreFewer, FewerKeeps
<1>4. OnePass' BY <1>2 DEF OnePass, InPass
<1>5. \A g \in Handlers : call'[g].pc # "issue"
  BY <1>1, <1>2 DEF InPass
<1>6. \A g \in Handlers : Lacks(call[g])' BY <1>5 DEF Lacks
<1> QED BY <1>3, <1>4, <1>6

LEMMA OnceIssued ==
  ASSUME TaskFacts, MonthInv, OnceInv, NEW h \in Handlers, Todo!issueTask(h)
  PROVE  OnceInv'
<1> USE DEF TaskFacts
<1>1. PICK b : b = call[h]
  OBVIOUS
<1>2. PICK c : c = Todo!NextEmployee(b)
  OBVIOUS
<1>3. /\ b.pc = "issue" /\ Todo!createOneAdminTask(b.e, b.t, b.month) /\ Todo!Goto(h, c)
      /\ overlapped' = overlapped
  BY <1>1, <1>2, Zenon DEF Todo!issueTask, Todo!At
<1>4. b \in TaskCall /\ InTime(b)
  BY <1>1 DEF MonthInv, TaskTypes, CallsCover
<1>5. b.month \in DOMAIN Months /\ b.t \in Templates /\ b.e \in Employees
  BY <1>3, <1>4, TaskCallShapes
<1>6. c.pc = "next"
  BY <1>2, <1>3, <1>4, AfterIssue
<1>7. Todo!TypeOK /\ b.month \in 0..Len(Months)
  BY <1>5, Clock DEF MonthInv, TaskTypes, Calendar
<1>8. PICK k \in Tasks : /\ task[k] = Todo!NoTask
                         /\ \A j \in Tasks : task'[j] = IF j = k THEN NewTask(b.t, b.e, b.month, "pending") ELSE task[j]
  BY <1>3, <1>5, <1>7, Makes
<1> SUFFICES ASSUME OnceEach, OnePass, \A g \in Handlers : Lacks(call[g])
             PROVE  OnceEach' /\ OnePass' /\ \A g \in Handlers : Lacks(call[g])'
  BY <1>3 DEF OnceInv
<1>9. \A g \in Handlers : call'[g] = IF g = h THEN c ELSE call[g]
  BY <1>3, TaskCallGoes DEF MonthInv, TaskTypes
<1>10. \A g \in Handlers : g # h => ~InPass(call[g])
  BY <1>1, <1>3 DEF OnePass, InPass
<1>11. OnePass' BY <1>9, <1>10 DEF OnePass
<1>12. \A g \in Handlers : call'[g].pc # "issue"
  BY <1>6, <1>9, <1>10 DEF InPass
<1>13. \A g \in Handlers : Lacks(call[g])' BY <1>12 DEF Lacks
<1>14. ~Todo!TaskOfMonth(b.t, b.e, b.month)
  BY <1>1, <1>3 DEF Lacks
<1>15. \A j \in Tasks \ Todo!Unused :
         <<task[j].template, task[j].employee, task[j].period>> # <<b.t, b.e, b.month>>
  BY <1>14 DEF Todo!TaskOfMonth
<1>16. /\ task'[k].template = b.t /\ task'[k].employee = b.e /\ task'[k].period = b.month
  BY <1>8 DEF NewTask
<1>17. OnceEach'
  <2> SUFFICES ASSUME NEW i \in Tasks, NEW j \in Tasks, task'[i] # Todo!NoTask, task'[j] # Todo!NoTask,
                      task'[i].template # None, i # j
               PROVE  <<task'[i].template, task'[i].employee, task'[i].period>>
                        # <<task'[j].template, task'[j].employee, task'[j].period>>
    BY DEF OnceEach, Todo!Unused
  <2>1. CASE i = k
    <3>1. task'[j] = task[j] /\ j \in Tasks \ Todo!Unused
      BY <1>8, <2>1 DEF Todo!Unused
    <3> QED BY <1>15, <1>16, <2>1, <3>1
  <2>2. CASE j = k
    <3>1. task'[i] = task[i] /\ i \in Tasks \ Todo!Unused
      BY <1>8, <2>2 DEF Todo!Unused
    <3> QED BY <1>15, <1>16, <2>2, <3>1
  <2>3. CASE i # k /\ j # k
    BY <1>8, <2>3 DEF OnceEach, Todo!Unused
  <2> QED BY <2>1, <2>2, <2>3
<1> QED BY <1>11, <1>13, <1>17

LEMMA OnceChecked ==
  ASSUME TaskFacts, MonthInv, OnceInv,
         NEW h \in Handlers, NEW t \in Templates, NEW e \in Employees, Todo!checkExists(h, t, e)
  PROVE  OnceInv'
<1>1. PICK b : b = call[h]
  OBVIOUS
<1> DEFINE skip == [b EXCEPT !.todo = @ \ {<<t, e>>}]
           go == [pc |-> "issue", month |-> b.month, day |-> b.day, whole |-> b.whole, todo |-> b.todo, t |-> t, e |-> e]
<1>2. /\ UNCHANGED task /\ overlapped' = overlapped /\ b.pc = "next"
      /\ \/ Todo!Goto(h, skip)
         \/ ~Todo!TaskOfMonth(t, e, b.month) /\ Todo!Goto(h, go)
  BY <1>1, Zenon DEF Todo!checkExists, Todo!docs, Todo!At
<1>3. b \in [pc: {"next"}, month: DOMAIN Months, day: Nat, whole: BOOLEAN,
             todo: SUBSET (Templates \X Employees)]
  BY <1>1, <1>2, TaskCallShapes DEF MonthInv, TaskTypes
<1>4. InPass(call[h]) BY <1>1, <1>2 DEF InPass
<1>5. CASE Todo!Goto(h, skip)
  <2>1. PICK c : c = skip OBVIOUS
  <2>2. c \in TaskCall /\ c.pc = "next"
    BY <1>3, <2>1 DEF IssuePass, TaskCall
  <2>3. Lacks(c) BY <2>2 DEF Lacks
  <2> QED BY <1>2, <1>4, <1>5, <2>1, <2>2, <2>3, SameTasksAreFewer, OnceOn DEF MonthInv, TaskFacts
<1>6. CASE ~Todo!TaskOfMonth(t, e, b.month) /\ Todo!Goto(h, go)
  <2>1. PICK c : c = go OBVIOUS
  <2>2. c \in TaskCall /\ c.t = t /\ c.e = e /\ c.month = b.month
    BY <1>2, <1>3, <2>1 DEF IssuePass, TaskCall
  <2>3. Lacks(c) BY <1>6, <2>2 DEF Lacks
  <2> QED BY <1>2, <1>4, <1>6, <2>1, <2>2, <2>3, SameTasksAreFewer, OnceOn DEF MonthInv, TaskFacts
<1> QED BY <1>2, <1>5, <1>6

\* A call that does not go on to issue a task, while no task of a template comes in.
LEMMA OnceCalls ==
  ASSUME TaskFacts, MonthInv, OnceInv, Fewer, overlapped' = overlapped,
         NEW h \in Handlers, NEW c \in TaskCall, Todo!Goto(h, c),
         InPass(c) => InPass(call[h]), c.pc # "issue"
  PROVE  OnceInv'
BY OnceOn DEF MonthInv, TaskFacts, Lacks

LEMMA ByHandIsFewer ==
  ASSUME NEW e, NEW status, \E k \in Tasks : \A j \in Tasks :
           task'[j] = IF j = k THEN NewTask(None, e, 0, status) ELSE task[j]
  PROVE  Fewer
BY DEF Fewer, NewTask

LEMMA SavesAreFewer ==
  ASSUME Todo!TypeOK, NEW k \in Tasks, NEW to,
         task' = IF k \in Todo!Unused THEN task ELSE [task EXCEPT ![k].status = to]
  PROVE  Fewer
<1>1. CASE k \in Todo!Unused
  BY <1>1, SameTasksAreFewer
<1>2. CASE k \notin Todo!Unused
  <2>1. task[k] \in Todo!AgentTask /\ task[k] # Todo!NoTask
    BY <1>2 DEF Todo!Unused, Todo!TypeOK
  <2>2. PICK given : given = [task[k] EXCEPT !.status = to]
    OBVIOUS
  <2>3. given.template = task[k].template /\ given.employee = task[k].employee /\ given.period = task[k].period
    BY <2>1, <2>2 DEF Todo!AgentTask
  <2>4. \A j \in Tasks : task'[j] = IF j = k THEN given ELSE task[j]
    BY <1>2, <2>2 DEF Todo!TypeOK
  <2> QED BY <2>1, <2>3, <2>4 DEF Fewer
<1> QED BY <1>1, <1>2

LEMMA OnceInPass ==
  ASSUME TaskFacts, MonthInv, OnceInv, NEW h \in Handlers,
         Todo!findTemplates(h) \/ Todo!issueFails(h) \/ Todo!endPass(h) \/ Todo!passFails(h)
  PROVE  OnceInv'
<1>1. MonthInv'
  BY Finds, CannotIssue, Ends, Breaks DEF TaskFacts
<1>2. UNCHANGED task /\ overlapped' = overlapped /\ InPass(call[h])
  BY DEF Todo!findTemplates, Todo!issueFails, Todo!endPass, Todo!passFails, Todo!docs, Todo!At,
     InPass, Todo!Passing
<1>3. PICK c : Todo!Goto(h, c) /\ c.pc # "issue"
  BY DEF Todo!findTemplates, Todo!issueFails, Todo!endPass, Todo!passFails, Todo!NextEmployee,
     Todo!IdleCall
<1>4. call'[h] = c
  BY <1>3, TaskCallGoes DEF MonthInv, TaskTypes
<1>5. c \in TaskCall
  BY <1>1, <1>4 DEF MonthInv, TaskTypes
<1> QED BY <1>2, <1>3, <1>5, SameTasksAreFewer, OnceCalls

LEMMA OnceAsked ==
  ASSUME TaskFacts, MonthInv, OnceInv, NEW h \in Handlers,
         \/ \E k \in Tasks : Todo!completeTask(h, k)
         \/ \E k \in Tasks, to \in {"pending", "cancelled"} : Todo!patchAdminTask(h, k, to)
         \/ \E es \in SUBSET Employees, lines \in Lines : Todo!createAdminTask(h, es, lines)
  PROVE  OnceInv'
<1>1. MonthInv'
  BY Completes, PatchesTask, Gives DEF TaskFacts
<1>2. UNCHANGED task /\ overlapped' = overlapped
  BY DEF Todo!completeTask, Todo!patchAdminTask, Todo!createAdminTask, Todo!docs
<1>3. PICK c : Todo!Goto(h, c) /\ c.pc \in {"save", "give"}
  <2>1. ASSUME NEW k \in Tasks, Todo!completeTask(h, k)
        PROVE  \E c : Todo!Goto(h, c) /\ c.pc \in {"save", "give"}
    <3>1. Todo!Goto(h, [pc |-> "save", k |-> k, to |-> "done"])
      BY <2>1 DEF Todo!completeTask
    <3>2. [pc |-> "save", k |-> k, to |-> "done"].pc = "save" OBVIOUS
    <3> QED BY <3>1, <3>2
  <2>2. ASSUME NEW k \in Tasks, NEW to \in {"pending", "cancelled"}, Todo!patchAdminTask(h, k, to)
        PROVE  \E c : Todo!Goto(h, c) /\ c.pc \in {"save", "give"}
    <3>1. Todo!Goto(h, [pc |-> "save", k |-> k, to |-> to])
      BY <2>2 DEF Todo!patchAdminTask
    <3>2. [pc |-> "save", k |-> k, to |-> to].pc = "save" OBVIOUS
    <3> QED BY <3>1, <3>2
  <2>3. ASSUME NEW es \in SUBSET Employees, NEW lines \in Lines, Todo!createAdminTask(h, es, lines)
        PROVE  \E c : Todo!Goto(h, c) /\ c.pc \in {"save", "give"}
    <3>1. Todo!Goto(h, [pc |-> "give", todo |-> es \X Todo!splitTaskBulletLines(lines)])
      BY <2>3 DEF Todo!createAdminTask
    <3>2. [pc |-> "give", todo |-> es \X Todo!splitTaskBulletLines(lines)].pc = "give" OBVIOUS
    <3> QED BY <3>1, <3>2
  <2> QED BY <2>1, <2>2, <2>3
<1>4. call'[h] = c
  BY <1>3, TaskCallGoes DEF MonthInv, TaskTypes
<1>5. c \in TaskCall
  BY <1>1, <1>4 DEF MonthInv, TaskTypes
<1> QED BY <1>2, <1>3, <1>5, SameTasksAreFewer, OnceCalls DEF InPass

LEMMA OnceSaved ==
  ASSUME TaskFacts, MonthInv, OnceInv, NEW h \in Handlers, Todo!saveTask(h)
  PROVE  OnceInv'
<1>1. PICK b : b = call[h]
  OBVIOUS
<1>2. /\ b.pc = "save" /\ task' = IF b.k \in Todo!Unused THEN task ELSE [task EXCEPT ![b.k].status = b.to]
      /\ Todo!Goto(h, Todo!IdleCall) /\ overlapped' = overlapped
  BY <1>1, Zenon DEF Todo!saveTask, Todo!At
<1>3. b.k \in Tasks
  BY <1>1, <1>2, TaskCallShapes DEF MonthInv, TaskTypes
<1>4. Fewer
  BY <1>2, <1>3, SavesAreFewer DEF MonthInv, TaskTypes
<1> QED BY <1>2, <1>4, Idles, OnceCalls DEF Todo!IdleCall, InPass

LEMMA OnceGiven ==
  ASSUME TaskFacts, MonthInv, OnceInv, NEW h \in Handlers, NEW e \in Employees, Todo!giveTask(h, e)
  PROVE  OnceInv'
<1>1. MonthInv'
  BY GivesOne DEF TaskFacts
<1>2. overlapped' = overlapped /\ (Todo!createOneAdminTask(e, None, 0) \/ UNCHANGED task)
  BY DEF Todo!giveTask
<1>3. PICK c : Todo!Goto(h, c) /\ c.pc \in {"give", "idle"}
  BY DEF Todo!giveTask, Todo!IdleCall
<1>4. call'[h] = c
  BY <1>3, TaskCallGoes DEF MonthInv, TaskTypes
<1>5. c \in TaskCall
  BY <1>1, <1>4 DEF MonthInv, TaskTypes
<1>6. Fewer
  <2>1. CASE Todo!createOneAdminTask(e, None, 0)
    <3>1. 0 \in 0..Len(Months) /\ None \in Templates \cup {None} /\ Todo!TypeOK
      BY DEF MonthInv, TaskTypes, TaskFacts, Calendar
    <3>2. \E k \in Tasks : \A j \in Tasks : task'[j] = IF j = k THEN NewTask(None, e, 0, "pending") ELSE task[j]
      BY <2>1, <3>1, Makes
    <3> QED BY <3>2, ByHandIsFewer
  <2>2. CASE UNCHANGED task BY <2>2, SameTasksAreFewer
  <2> QED BY <1>2, <2>1, <2>2
<1> QED BY <1>2, <1>3, <1>5, <1>6, OnceCalls DEF InPass

LEMMA OnceReported ==
  ASSUME TaskFacts, MonthInv, OnceInv, NEW e \in Employees, Todo!reportSelfCompletedTask(e)
  PROVE  OnceInv'
<1>1. /\ Todo!Free # {} /\ task' = [task EXCEPT ![CHOOSE k \in Todo!Free : TRUE] = NewTask(None, e, 0, "done")]
      /\ UNCHANGED <<overlapped, call>>
  BY DEF Todo!reportSelfCompletedTask, NewTask
<1>2. Todo!TypeOK /\ 0 \in 0..Len(Months)
  BY DEF MonthInv, TaskTypes, TaskFacts, Calendar
<1>3. NewTask(None, e, 0, "done") \in Todo!AgentTask
  BY <1>2, NewTaskKnown
<1>4. \E k \in Tasks : \A j \in Tasks : task'[j] = IF j = k THEN NewTask(None, e, 0, "done") ELSE task[j]
  BY <1>1, <1>2, <1>3, TakesFreeId
<1> QED BY <1>1, <1>4, ByHandIsFewer, OnceStays DEF MonthInv, TaskFacts

LEMMA OnceElsewhere ==
  ASSUME TaskFacts, MonthInv, OnceInv,
         \/ \E t \in Templates, es \in SUBSET Employees, d \in IssueDays, s \in {"active", "paused"} :
              Todo!patchRecurringTask(t, es, d, s)
         \/ \E t \in Templates : Todo!deleteRecurringTask(t)
         \/ \E k \in Tasks : Todo!deleteAdminTask(k)
         \/ \E e \in Employees : Todo!EmployeeDeleted(e)
         \/ Todo!Midnight
         \/ UNCHANGED Todo!vars
  PROVE  OnceInv'
<1>1. UNCHANGED <<overlapped, call>>
  BY DEF Todo!patchRecurringTask, Todo!deleteRecurringTask, Todo!deleteAdminTask, Todo!EmployeeDeleted,
     Todo!Midnight, Todo!vars
<1>2. Fewer
  <2>1. CASE UNCHANGED task BY <2>1, SameTasksAreFewer
  <2>2. ASSUME NEW k \in Tasks, task' = [task EXCEPT ![k] = Todo!NoTask] PROVE Fewer
    BY <2>2 DEF Fewer, MonthInv, TaskTypes, Todo!TypeOK
  <2> QED BY <2>1, <2>2 DEF Todo!patchRecurringTask, Todo!deleteRecurringTask, Todo!deleteAdminTask,
       Todo!EmployeeDeleted, Todo!Midnight, Todo!vars, Todo!docs
<1> QED BY <1>1, <1>2, OnceStays DEF MonthInv, TaskFacts

LEMMA OnceCrashed ==
  ASSUME TaskFacts, MonthInv, OnceInv, Todo!Crash
  PROVE  OnceInv'
<1>1. UNCHANGED task /\ overlapped' = overlapped /\ \A g \in Handlers : call'[g] = Todo!IdleCall
  BY DEF Todo!Crash, Todo!docs
<1>2. OnceEach => OnceEach'
  BY <1>1, SameTasksAreFewer, FewerKeeps DEF TaskFacts
<1>3. OnePass' /\ \A g \in Handlers : Lacks(call[g])'
  BY <1>1 DEF OnePass, InPass, Lacks, Todo!IdleCall
<1> QED BY <1>1, <1>2, <1>3 DEF OnceInv

LEMMA OnceSteps ==
  ASSUME TaskFacts, MonthInv, OnceInv, [Todo!Next]_Todo!vars
  PROVE  OnceInv'
<1>1. ASSUME NEW h \in Handlers, Todo!Handle(h) PROVE OnceInv'
  <2>1. ASSUME NEW c, c = [pc |-> "find", month |-> today.month, day |-> today.day], Todo!Goto(h, c),
               UNCHANGED task, overlapped' = (overlapped \/ Todo!Passing # {})
        PROVE  OnceInv'
    <3>1. c \in TaskCall BY <2>1, StartOfPass DEF TaskFacts
    <3> QED BY <2>1, <3>1, OnceBegins DEF MonthInv, TaskFacts
  <2>2. CASE Todo!materializeRecurringTasks(h)
    BY <2>1, <2>2 DEF Todo!materializeRecurringTasks, Todo!docs
  <2>3. CASE \E t \in Templates, es \in SUBSET Employees, d \in IssueDays : Todo!createRecurringTask(h, t, es, d)
    BY <2>1, <2>3 DEF Todo!createRecurringTask
  <2> QED BY <1>1, <2>2, <2>3, OnceInPass, OnceSaved, OnceChecked, OnceIssued, OnceAsked, OnceGiven
      DEF Todo!Handle
<1>2. CASE Todo!Crash BY <1>2, OnceCrashed
<1>3. CASE \E e \in Employees : Todo!reportSelfCompletedTask(e) BY <1>3, OnceReported
<1> QED BY <1>1, <1>2, <1>3, OnceElsewhere DEF Todo!Next

\* As long as no two passes overlap, an employee has at most one task of a
\* template for a month, however often the timer, the lists and the restarts
\* run (materializeRecurringTasks), for every calendar and every set of requests.
THEOREM OneTaskPerMonthByTasks ==
  ASSUME TaskFacts
  PROVE  Todo!Spec => []Todo!OneTaskPerMonth
<1>1. Todo!Init => MonthInv /\ OnceInv
  <2>1. Todo!Init => OnceInv
    BY DEF Todo!Init, OnceInv, OnceEach, OnePass, InPass, Lacks, Todo!Unused, Todo!IdleCall
  <2> QED BY <2>1, MonthStarts DEF TaskFacts
<1>2. MonthInv /\ OnceInv /\ [Todo!Next]_Todo!vars => MonthInv' /\ OnceInv'
  BY MonthSteps, OnceSteps
<1>3. OnceInv => Todo!OneTaskPerMonth
  BY DEF OnceInv, OnceEach, Todo!OneTaskPerMonth
<1> QED BY <1>1, <1>2, <1>3, PTL DEF Todo!Spec

-----------------------------------------------------------------------------
(* Attendance: the months looked back at, however many.                      *)

\* The month before.
Before(k) == IF k.month = 0 THEN [month |-> 11, year |-> k.year - 1] ELSE [k EXCEPT !.month = @ - 1]

LEMMA MonthBefore ==
  ASSUME NEW t \in Int
  PROVE  Before(Grid!Key(t)) = Grid!Key(t - 1)
<1>1. /\ (t % 12) \in 0..11 /\ t = 12 * (t \div 12) + (t % 12)
      /\ ((t - 1) % 12) \in 0..11 /\ t - 1 = 12 * ((t - 1) \div 12) + ((t - 1) % 12)
      /\ t \div 12 \in Int /\ (t - 1) \div 12 \in Int
  OBVIOUS
<1>2. CASE (t % 12) = 0
  <2>1. ((t - 1) % 12) = 11 /\ (t - 1) \div 12 = t \div 12 - 1
    BY <1>1, <1>2
  <2> QED BY <1>2, <2>1 DEF Before, Grid!Key
<1>3. CASE (t % 12) # 0
  <2>1. ((t - 1) % 12) = (t % 12) - 1 /\ (t - 1) \div 12 = t \div 12
    BY <1>1, <1>3
  <2> QED BY <1>3, <2>1 DEF Before, Grid!Key
<1> QED BY <1>2, <1>3

\* The keys looked up are those of the months of the window: the code counts
\* months back over the year's end as the calendar does.
LEMMA KeysOfTheWindow ==
  ASSUME NEW t \in Int, NEW n \in Nat
  PROVE  Grid!getLastNMonthKeys(Grid!Key(t), n) = {Grid!Key(t - i + 1) : i \in 1..n}
<1> DEFINE Counts(f) == f = [i \in 1..n |-> IF i = 1 THEN Grid!Key(t)
                                            ELSE IF f[i - 1].month = 0
                                                 THEN [month |-> 11, year |-> f[i - 1].year - 1]
                                                 ELSE [f[i - 1] EXCEPT !.month = @ - 1]]
           keys == CHOOSE f : Counts(f)
           calendar == [i \in 1..n |-> Grid!Key(t - i + 1)]
<1>1. Grid!getLastNMonthKeys(Grid!Key(t), n) = {keys[i] : i \in 1..n}
  BY DEF Grid!getLastNMonthKeys
<1>2. Counts(calendar)
  <2>1. ASSUME NEW i \in 1..n
        PROVE  calendar[i] = IF i = 1 THEN Grid!Key(t)
                             ELSE IF calendar[i - 1].month = 0
                                  THEN [month |-> 11, year |-> calendar[i - 1].year - 1]
                                  ELSE [calendar[i - 1] EXCEPT !.month = @ - 1]
    <3>1. CASE i = 1
      <4>1. t - i + 1 = t BY <3>1
      <4> QED BY <3>1, <4>1
    <3>2. CASE i # 1
      <4>1. i - 1 \in 1..n BY <3>2
      <4>2. calendar[i] = Grid!Key(t - i + 1) OBVIOUS
      <4>3. calendar[i - 1] = Grid!Key(t - (i - 1) + 1) BY <4>1
      <4>4. t - (i - 1) + 1 \in Int /\ (t - (i - 1) + 1) - 1 = t - i + 1 OBVIOUS
      <4>5. Before(Grid!Key(t - (i - 1) + 1)) = Grid!Key(t - i + 1)
        BY <4>4, MonthBefore
      <4> HIDE DEF calendar
      <4> QED BY <3>2, <4>2, <4>3, <4>5 DEF Before
    <3> QED BY <3>1, <3>2
  <2>2. calendar = [i \in 1..n |-> calendar[i]] OBVIOUS
  <2> HIDE DEF calendar
  <2> QED BY <2>1, <2>2
<1>3. Counts(keys)
  <2> HIDE DEF Counts, calendar
  <2> QED BY <1>2
<1>4. ASSUME NEW j \in 1..n, keys[j] # calendar[j] PROVE FALSE
  <2> DEFINE differ == {i \in 1..n : keys[i] # calendar[i]}
  <2>1. differ \subseteq Nat /\ differ # {}
    <3> HIDE DEF keys, calendar
    <3>1. j \in differ BY <1>4
    <3> QED BY <3>1
  <2>2. PICK i \in differ : \A k \in differ : i <= k
    <3> HIDE DEF differ
    <3> QED BY <2>1, SmallestOf
  <2>3. i \in 1..n /\ keys[i] # calendar[i] OBVIOUS
  <2>4. /\ keys[i] = IF i = 1 THEN Grid!Key(t)
                     ELSE IF keys[i - 1].month = 0
                          THEN [month |-> 11, year |-> keys[i - 1].year - 1]
                          ELSE [keys[i - 1] EXCEPT !.month = @ - 1]
        /\ calendar[i] = IF i = 1 THEN Grid!Key(t)
                         ELSE IF calendar[i - 1].month = 0
                              THEN [month |-> 11, year |-> calendar[i - 1].year - 1]
                              ELSE [calendar[i - 1] EXCEPT !.month = @ - 1]
    <3> HIDE DEF keys, calendar
    <3>1. i \in 1..n BY <2>3
    <3> QED BY <1>2, <1>3, <3>1
  <2>5. i # 1 => i - 1 \in 1..n /\ keys[i - 1] = calendar[i - 1]
    <3> SUFFICES ASSUME i # 1 PROVE i - 1 \in 1..n /\ keys[i - 1] = calendar[i - 1]
      OBVIOUS
    <3>1. i - 1 \in 1..n /\ ~(i <= i - 1) BY <2>3
    <3>2. i - 1 \notin differ BY <2>2, <3>1
    <3> QED BY <3>1, <3>2
  <2> HIDE DEF keys, calendar
  <2> QED BY <2>3, <2>4, <2>5
<1>5. \A i \in 1..n : keys[i] = Grid!Key(t - i + 1)
  BY <1>4
<1> HIDE DEF keys
<1> QED BY <1>1, <1>5

-----------------------------------------------------------------------------
(* Attendance: what the grid holds of the days somebody was told of.         *)

Entries == [pc: {"bulk"}, days: SUBSET Grid!Days, status: Grid!Statuses]
Punches == [pc: {"essl"}, days: SUBSET Grid!Days]
Logins == [pc: {"login", "logout", "mark", "log"}, day: Grid!Days, out: Grid!Days]
Lists == [pc: {"exits", "listed"}, window: SUBSET Int, checkedMonths: SUBSET [month: Int, year: Int],
          known: SUBSET Grid!Days, active: (SUBSET Employees) \cup {Grid!Unread},
          present: (SUBSET Employees) \cup {Grid!Unread}, last: SUBSET Grid!Days]
GridCall ==
  {Grid!IdleCall} \cup Entries \cup Punches \cup Logins \cup Lists
    \cup [pc: {"esslCell"}, day: Grid!Days, then: Punches]
    \cup [pc: {"punched"}, day: Grid!Days]

GridFacts ==
  /\ Handlers = {me} /\ First \in Int /\ Last \in Int /\ First <= Last /\ Windows \subseteq Nat
  /\ "unread" \notin Employees

\* An administrator's mark stays, what was seen is marked or corrected, and
\* a day that is logged as synced, or about to be, is marked.
Marked(d) == cell[d] # Grid!Blank
DaysAreMarked ==
  \A d \in Grid!Days :
    /\ d \in corrected <=> cell[d] = "A"
    /\ d \in worked \ corrected => cell[d] = "P"
    /\ synced[d] = "synced" => Marked(d)
LogIsMarked(c) == c.pc = "log" => Marked(c.day)

\* What a list has read is still so, and its months cover its window.
Seen(c, d) == Grid!Key(d[2]) \in c.checkedMonths /\ cell[d] = "P"
ListIsRead(c) ==
  c \in Lists =>
    /\ c.known = worked \ corrected
    /\ \A t \in c.window : Grid!Key(t) \in c.checkedMonths
    /\ c.pc = "exits" /\ c.present # Grid!Unread =>
         \A d \in Grid!Days : Seen(c, d) => d[1] \in c.present
    /\ c.pc = "listed" =>
         /\ c.active \in SUBSET Employees
         /\ \A d \in Grid!Days : Seen(c, d) => d[1] \notin c.active
         /\ \A d \in c.last : d[1] \in c.active /\ cell[d] = "P"

GridTypes == Grid!TypeOK /\ call \in [Handlers -> GridCall]
GridInv == GridTypes /\ DaysAreMarked /\ \A h \in Handlers : LogIsMarked(call[h]) /\ ListIsRead(call[h])

LEMMA GridCallShapes ==
  ASSUME NEW c \in GridCall
  PROVE  /\ c.pc = "bulk" => c \in Entries
         /\ c.pc = "essl" => c \in Punches
         /\ c.pc = "esslCell" => c.day \in Grid!Days /\ c.then \in Punches
         /\ c.pc = "punched" => c.day \in Grid!Days
         /\ c.pc \in {"login", "logout", "mark", "log"} => c \in Logins
         /\ c.pc \in {"exits", "listed"} <=> c \in Lists
<1>1. CASE c = Grid!IdleCall
  BY <1>1 DEF Grid!IdleCall, Lists
<1>2. CASE c \in Entries
  BY <1>2 DEF Entries, Lists
<1>3. CASE c \in Punches
  BY <1>3 DEF Punches, Lists
<1>4. CASE c \in Logins
  BY <1>4 DEF Logins, Lists
<1>5. CASE c \in Lists
  BY <1>5 DEF Lists
<1>6. CASE c \in [pc: {"esslCell"}, day: Grid!Days, then: Punches]
  BY <1>6 DEF Lists
<1>7. CASE c \in [pc: {"punched"}, day: Grid!Days]
  BY <1>7 DEF Lists
<1> QED BY <1>1, <1>2, <1>3, <1>4, <1>5, <1>6, <1>7 DEF GridCall

LEMMA GridCallGoes ==
  ASSUME GridFacts, GridTypes, NEW h \in Handlers, NEW c \in GridCall, Grid!Goto(h, c)
  PROVE  /\ call' \in [Handlers -> GridCall]
         /\ \A g \in Handlers : call'[g] = c
<1>1. call' \in [Handlers -> GridCall] /\ \A g \in Handlers : call'[g] = IF g = h THEN c ELSE call[g]
  BY DEF Grid!Goto, GridTypes
<1> QED BY <1>1 DEF GridFacts

\* The one call moves and the grid stays.
LEMMA GridStill ==
  ASSUME GridFacts, GridInv, UNCHANGED <<now, standing, fences, cell, synced, worked, corrected>>,
         NEW h \in Handlers, NEW c \in GridCall, Grid!Goto(h, c), LogIsMarked(c), ListIsRead(c)
  PROVE  GridInv'
<1>1. call' \in [Handlers -> GridCall] /\ \A g \in Handlers : call'[g] = c
  BY GridCallGoes DEF GridInv
<1>2. Grid!TypeOK' /\ DaysAreMarked'
  BY DEF GridInv, GridTypes, Grid!TypeOK, DaysAreMarked, Marked
<1>3. LogIsMarked(c)' /\ ListIsRead(c)'
  BY DEF LogIsMarked, Marked, ListIsRead, Seen
<1>4. ASSUME NEW g \in Handlers PROVE (LogIsMarked(call[g]) /\ ListIsRead(call[g]))'
  BY <1>1, <1>3 DEF LogIsMarked, ListIsRead
<1> QED BY <1>1, <1>2, <1>4 DEF GridInv, GridTypes

\* A call that has nothing of the log or of a list in hand.
Light(c) == c.pc # "log" /\ c \notin Lists
LEMMA LightIsFine == ASSUME NEW c, Light(c) PROVE LogIsMarked(c) /\ ListIsRead(c) /\ (LogIsMarked(c) /\ ListIsRead(c))'
BY DEF Light, LogIsMarked, ListIsRead

LEMMA GridMoves ==
  ASSUME GridFacts, GridInv, Grid!TypeOK', DaysAreMarked',
         NEW h \in Handlers, NEW c \in GridCall, Grid!Goto(h, c), (LogIsMarked(c) /\ ListIsRead(c))'
  PROVE  GridInv'
<1>1. call' \in [Handlers -> GridCall] /\ \A g \in Handlers : call'[g] = c
  BY GridCallGoes DEF GridInv
<1>2. ASSUME NEW g \in Handlers PROVE (LogIsMarked(call[g]) /\ ListIsRead(call[g]))'
  BY <1>1 DEF LogIsMarked, ListIsRead
<1> QED BY <1>1, <1>2 DEF GridInv, GridTypes

LEMMA UpsertKeeps ==
  ASSUME GridInv, NEW d \in Grid!Days, NEW status \in Grid!Statuses, Grid!upsertCell(d, status),
         UNCHANGED <<now, standing, fences, synced>>
  PROVE  Grid!TypeOK' /\ DaysAreMarked'
<1>1. /\ cell' \in [Grid!Days -> Grid!Statuses \cup {Grid!Blank}]
      /\ \A x \in Grid!Days : cell'[x] = IF x = d THEN status ELSE cell[x]
  BY DEF GridInv, GridTypes, Grid!TypeOK, Grid!upsertCell
<1>2. \/ status = "P" /\ worked' = worked \cup {d} /\ corrected' = corrected \ {d}
      \/ status = "A" /\ worked' = worked /\ corrected' = corrected \cup {d}
  BY DEF Grid!upsertCell, Grid!Statuses
<1>3. Grid!TypeOK'
  BY <1>1, <1>2 DEF GridInv, GridTypes, Grid!TypeOK
<1>4. DaysAreMarked'
  BY <1>1, <1>2 DEF GridInv, DaysAreMarked, Marked, Grid!Blank
<1> QED BY <1>3, <1>4

GridIdles == Grid!IdleCall \in GridCall /\ Light(Grid!IdleCall)
LEMMA GridIdle == GridIdles
BY DEF GridIdles, GridCall, Light, Lists, Grid!IdleCall

LEMMA LightCalls ==
  ASSUME NEW c, c \in Entries \/ c \in Punches \/ (c \in Logins /\ c.pc # "log")
                \/ c \in [pc: {"esslCell"}, day: Grid!Days, then: Punches]
                \/ c \in [pc: {"punched"}, day: Grid!Days]
  PROVE  c \in GridCall /\ Light(c)
<1>1. c.pc \notin {"exits", "listed", "log"} /\ c \in GridCall
  BY DEF GridCall, Entries, Punches, Logins
<1> QED BY <1>1 DEF Light, Lists

\* Requests that begin, and pass on, without touching the grid.
LEMMA GridAsks ==
  ASSUME GridFacts, GridInv, NEW h \in Handlers,
         \/ Grid!bulkUpsert(h) \/ Grid!syncEsslPunches(h) \/ Grid!esslEmployee(h)
         \/ \E e \in Employees, type \in {"in", "out"}, p \in Places, r \in BOOLEAN : Grid!punch(h, e, type, p, r)
         \/ \E e \in Employees, in, out \in First..now : in <= out /\ Grid!ingest(h, e, in, out)
         \/ Grid!listed(h)
  PROVE  GridInv'
<1> DEFINE Same == UNCHANGED <<now, standing, fences, cell, synced, worked, corrected>>
<1>0. ASSUME Same, NEW c \in GridCall, Grid!Goto(h, c), Light(c) PROVE GridInv'
  BY <1>0, LightIsFine, GridStill
<1>1. CASE Grid!bulkUpsert(h)
  <2>1. PICK days \in SUBSET Grid!Days, s \in Grid!Statuses : Grid!Goto(h, [pc |-> "bulk", days |-> days, status |-> s])
    BY <1>1 DEF Grid!bulkUpsert
  <2>2. PICK c : c = [pc |-> "bulk", days |-> days, status |-> s] OBVIOUS
  <2>3. c \in Entries BY <2>2 DEF Entries
  <2> QED BY <1>0, <1>1, <2>1, <2>2, <2>3, LightCalls DEF Grid!bulkUpsert, Grid!office
<1>2. CASE Grid!syncEsslPunches(h)
  <2>1. PICK days \in SUBSET Grid!Days : Grid!Goto(h, [pc |-> "essl", days |-> days])
    BY <1>2 DEF Grid!syncEsslPunches
  <2>2. PICK c : c = [pc |-> "essl", days |-> days] OBVIOUS
  <2>3. c \in Punches BY <2>2 DEF Punches
  <2> QED BY <1>0, <1>2, <2>1, <2>2, <2>3, LightCalls DEF Grid!syncEsslPunches, Grid!office
<1>3. CASE Grid!esslEmployee(h)
  <2>1. PICK b : b = call[h] OBVIOUS
  <2>2. PICK d, rest :
          /\ d \in b.days /\ b.pc = "essl" /\ rest = [b EXCEPT !.days = @ \ {d}]
          /\ Grid!Goto(h, IF standing[d[1]] # "removed" THEN [pc |-> "esslCell", day |-> d, then |-> rest]
                          ELSE IF rest.days = {} THEN Grid!IdleCall ELSE rest)
    BY <1>3, <2>1, Zenon DEF Grid!esslEmployee, Grid!At
  <2>3. b \in Punches
    BY <2>1, <2>2, GridCallShapes DEF GridInv, GridTypes
  <2>4. d \in Grid!Days /\ rest \in Punches
    BY <2>2, <2>3 DEF Punches
  <2>5. [pc |-> "esslCell", day |-> d, then |-> rest] \in [pc: {"esslCell"}, day: Grid!Days, then: Punches]
    BY <2>4
  <2>6. PICK c : /\ Grid!Goto(h, c)
                 /\ \/ c = Grid!IdleCall \/ c \in Punches
                    \/ c \in [pc: {"esslCell"}, day: Grid!Days, then: Punches]
    BY <2>2, <2>4, <2>5
  <2>7. c \in GridCall /\ Light(c)
    BY <2>6, LightCalls, GridIdle DEF GridIdles
  <2> QED BY <1>0, <1>3, <2>6, <2>7 DEF Grid!esslEmployee, Grid!office
<1>4. CASE \E e \in Employees, type \in {"in", "out"}, p \in Places, r \in BOOLEAN : Grid!punch(h, e, type, p, r)
  <2>1. PICK e \in Employees, type \in {"in", "out"}, p \in Places, r \in BOOLEAN : Grid!punch(h, e, type, p, r)
    BY <1>4
  <2>2. PICK c : c = [pc |-> "punched", day |-> <<e, now>>] OBVIOUS
  <2>3. Same /\ (Grid!Goto(h, c) \/ Grid!Goto(h, Grid!IdleCall))
    BY <2>1, <2>2 DEF Grid!punch, Grid!office
  <2>4. <<e, now>> \in Grid!Days BY DEF GridInv, GridTypes, Grid!TypeOK, Grid!Days
  <2>5. c \in [pc: {"punched"}, day: Grid!Days] BY <2>2, <2>4
  <2>6. c \in GridCall /\ Light(c) BY <2>5, LightCalls
  <2> QED BY <1>0, <2>3, <2>6, GridIdle DEF GridIdles
<1>5. CASE \E e \in Employees, in, out \in First..now : in <= out /\ Grid!ingest(h, e, in, out)
  <2>1. PICK e \in Employees, in \in First..now, out \in First..now : Grid!ingest(h, e, in, out)
    BY <1>5
  <2>2. PICK c : c = [pc |-> "login", day |-> <<e, in>>, out |-> <<e, out>>] OBVIOUS
  <2>3. First..now \subseteq Grid!Times
    BY DEF GridFacts, GridInv, GridTypes, Grid!TypeOK, Grid!Times
  <2>4. <<e, in>> \in Grid!Days /\ <<e, out>> \in Grid!Days BY <2>3 DEF Grid!Days
  <2>5. c \in Logins /\ c.pc # "log" BY <2>2, <2>4 DEF Logins
  <2> QED BY <1>0, <2>1, <2>2, <2>5, LightCalls DEF Grid!ingest, Grid!office
<1>6. CASE Grid!listed(h)
  BY <1>0, <1>6, GridIdle DEF GridIdles, Grid!listed, Grid!office
<1> QED BY <1>1, <1>2, <1>3, <1>4, <1>5, <1>6

LEMMA WritesCell ==
  ASSUME GridFacts, GridInv, NEW h \in Handlers,
         Grid!nextEntry(h) \/ Grid!esslCell(h) \/ Grid!syncDailyAttendance(h)
  PROVE  GridInv'
<1>1. PICK b : b = call[h] OBVIOUS
<1>2. b \in GridCall BY <1>1 DEF GridInv, GridTypes
<1>3. UNCHANGED <<now, standing, fences, synced>>
  BY DEF Grid!nextEntry, Grid!esslCell, Grid!syncDailyAttendance, Grid!office
<1>4. CASE Grid!nextEntry(h)
  <2>1. PICK d \in b.days : /\ b.pc = "bulk" /\ Grid!upsertCell(d, b.status)
                            /\ Grid!Goto(h, IF b.days = {d} THEN Grid!IdleCall ELSE [b EXCEPT !.days = @ \ {d}])
    BY <1>1, <1>4, Zenon DEF Grid!nextEntry, Grid!At
  <2>2. b \in Entries BY <1>2, <2>1, GridCallShapes
  <2>3. d \in Grid!Days /\ b.status \in Grid!Statuses /\ [b EXCEPT !.days = @ \ {d}] \in Entries
    BY <2>2 DEF Entries
  <2>4. PICK c : Grid!Goto(h, c) /\ (c = Grid!IdleCall \/ c \in Entries)
    BY <2>1, <2>3
  <2>5. c \in GridCall /\ Light(c) BY <2>4, LightCalls, GridIdle DEF GridIdles
  <2>6. Grid!TypeOK' /\ DaysAreMarked' BY <1>3, <2>1, <2>3, UpsertKeeps
  <2> QED BY <2>4, <2>5, <2>6, LightIsFine, GridMoves
<1>5. CASE Grid!esslCell(h)
  <2>1. /\ b.pc = "esslCell" /\ Grid!upsertCell(b.day, "P")
        /\ Grid!Goto(h, IF b.then.days = {} THEN Grid!IdleCall ELSE b.then)
    BY <1>1, <1>5, Zenon DEF Grid!esslCell, Grid!At
  <2>2. b.day \in Grid!Days /\ b.then \in Punches BY <1>2, <2>1, GridCallShapes
  <2>3. PICK c : Grid!Goto(h, c) /\ (c = Grid!IdleCall \/ c \in Punches)
    BY <2>1, <2>2
  <2>4. c \in GridCall /\ Light(c) BY <2>3, LightCalls, GridIdle DEF GridIdles
  <2>5. Grid!TypeOK' /\ DaysAreMarked'
    BY <1>3, <2>1, <2>2, UpsertKeeps DEF Grid!Statuses
  <2> QED BY <2>3, <2>4, <2>5, LightIsFine, GridMoves
<1>6. CASE Grid!syncDailyAttendance(h)
  <2>1. b.pc = "punched" /\ Grid!upsertCell(b.day, "P") /\ Grid!Goto(h, Grid!IdleCall)
    BY <1>1, <1>6, Zenon DEF Grid!syncDailyAttendance, Grid!At
  <2>2. b.day \in Grid!Days BY <1>2, <2>1, GridCallShapes
  <2>3. Grid!TypeOK' /\ DaysAreMarked'
    BY <1>3, <2>1, <2>2, UpsertKeeps DEF Grid!Statuses
  <2> QED BY <2>1, <2>3, GridIdle, LightIsFine, GridMoves DEF GridIdles
<1> QED BY <1>4, <1>5, <1>6

LEMMA LoginSyncs ==
  ASSUME GridFacts, GridInv, NEW h \in Handlers,
         Grid!syncAttendancePunchIn(h) \/ Grid!mark(h) \/ Grid!log(h) \/ Grid!syncAttendancePunchOut(h)
  PROVE  GridInv'
<1>1. PICK b : b = call[h] OBVIOUS
<1>2. b \in GridCall /\ LogIsMarked(b)
  BY <1>1 DEF GridInv, GridTypes, LogIsMarked
<1>3. Grid!TypeOK /\ DaysAreMarked
  BY DEF GridInv, GridTypes
<1> DEFINE out == [b EXCEPT !.pc = "logout"]
<1>4. CASE Grid!syncAttendancePunchIn(h)
  <2>1. /\ b.pc = "login" /\ UNCHANGED <<now, standing, fences, cell, synced, corrected>>
        /\ \/ /\ Grid!Goto(h, out)
              /\ worked' = IF synced[b.day] = "synced" THEN worked \cup {b.day} ELSE worked
           \/ Grid!Goto(h, [b EXCEPT !.pc = "mark"]) /\ UNCHANGED worked
    BY <1>1, <1>4, Zenon DEF Grid!syncAttendancePunchIn, Grid!At, Grid!office
  <2>2. b \in Logins BY <1>2, <2>1, GridCallShapes
  <2>3. b.day \in Grid!Days BY <2>2 DEF Logins
  <2>4. PICK c : Grid!Goto(h, c) /\ c \in Logins /\ c.pc # "log"
    <3>1. out \in Logins /\ out.pc = "logout" BY <2>2 DEF Logins
    <3>2. [b EXCEPT !.pc = "mark"] \in Logins /\ [b EXCEPT !.pc = "mark"].pc = "mark" BY <2>2 DEF Logins
    <3> QED BY <2>1, <3>1, <3>2
  <2>5. Grid!TypeOK'
    BY <1>3, <2>1, <2>3 DEF Grid!TypeOK
  <2>6. \A d \in worked' \ corrected' : d \in Grid!Days => cell[d] = "P"
    <3>1. synced[b.day] = "synced" => Marked(b.day) /\ cell[b.day] \in Grid!Statuses \cup {Grid!Blank}
      BY <1>3, <2>3 DEF DaysAreMarked, Grid!TypeOK
    <3> QED BY <1>3, <2>1, <2>3, <3>1 DEF DaysAreMarked, Marked, Grid!Statuses
  <2>7. DaysAreMarked' BY <1>3, <2>1, <2>6 DEF DaysAreMarked, Marked
  <2> QED BY <2>4, <2>5, <2>7, LightCalls, LightIsFine, GridMoves
<1>5. CASE Grid!mark(h)
  <2>1. PICK c : c = [b EXCEPT !.pc = "log"] OBVIOUS
  <2>2. /\ b.pc = "mark" /\ cell' = [cell EXCEPT ![b.day] = IF @ = Grid!Blank THEN "P" ELSE @]
        /\ Grid!Goto(h, c) /\ UNCHANGED <<now, standing, fences, synced, worked, corrected>>
    BY <1>1, <1>5, <2>1, Zenon DEF Grid!mark, Grid!At, Grid!office
  <2>3. b \in Logins BY <1>2, <2>2, GridCallShapes
  <2>4. b.day \in Grid!Days /\ c \in Logins /\ c.day = b.day /\ c.pc = "log" BY <2>1, <2>3 DEF Logins
  <2>5. /\ cell' \in [Grid!Days -> Grid!Statuses \cup {Grid!Blank}]
        /\ \A d \in Grid!Days : cell'[d] = IF d = b.day /\ cell[d] = Grid!Blank THEN "P" ELSE cell[d]
    BY <1>3, <2>2, <2>4 DEF Grid!TypeOK, Grid!Statuses
  <2>6. Grid!TypeOK' BY <1>3, <2>2, <2>5 DEF Grid!TypeOK
  <2>7. DaysAreMarked'
    BY <1>3, <2>2, <2>5 DEF DaysAreMarked, Marked, Grid!Blank
  <2>8. LogIsMarked(c)' BY <2>4, <2>5 DEF LogIsMarked, Marked, Grid!Blank
  <2>9. c \in GridCall /\ c \notin Lists BY <2>4 DEF GridCall, Lists
  <2>10. ListIsRead(c)' BY <2>9 DEF ListIsRead
  <2> QED BY <2>2, <2>6, <2>7, <2>8, <2>9, <2>10, GridMoves
<1>6. CASE Grid!log(h)
  <2>1. /\ b.pc = "log" /\ synced' = [synced EXCEPT ![b.day] = "synced"] /\ worked' = worked \cup {b.day}
        /\ Grid!Goto(h, out) /\ UNCHANGED <<now, standing, fences, cell, corrected>>
    BY <1>1, <1>6, Zenon DEF Grid!log, Grid!At, Grid!office
  <2>2. b \in Logins BY <1>2, <2>1, GridCallShapes
  <2>3. b.day \in Grid!Days /\ out \in Logins /\ out.pc # "log" BY <2>2 DEF Logins
  <2>4. Grid!TypeOK' BY <1>3, <2>1, <2>3 DEF Grid!TypeOK, Grid!Log
  <2>5. cell[b.day] \in Grid!Statuses /\ Marked(b.day)
    BY <1>2, <1>3, <2>1, <2>3 DEF LogIsMarked, Marked, Grid!TypeOK
  <2>6. DaysAreMarked'
    BY <1>3, <2>1, <2>3, <2>5 DEF DaysAreMarked, Marked, Grid!Statuses, Grid!TypeOK
  <2> HIDE DEF out
  <2> QED BY <2>1, <2>3, <2>4, <2>6, LightCalls, LightIsFine, GridMoves
<1>7. CASE Grid!syncAttendancePunchOut(h)
  <2>1. /\ b.pc = "logout" /\ Grid!Goto(h, Grid!IdleCall)
        /\ \/ synced' = synced
           \/ synced' = [synced EXCEPT ![b.out] = "pending"]
        /\ UNCHANGED <<now, standing, fences, cell, worked, corrected>>
    BY <1>1, <1>7, Zenon DEF Grid!syncAttendancePunchOut, Grid!At, Grid!office
  <2>2. Grid!TypeOK' /\ \A d \in Grid!Days : synced'[d] = "synced" => synced[d] = "synced"
    BY <1>3, <2>1 DEF Grid!TypeOK, Grid!Log
  <2>3. DaysAreMarked' BY <1>3, <2>1, <2>2 DEF DaysAreMarked, Marked
  <2> QED BY <2>1, <2>2, <2>3, GridIdle, LightIsFine, GridMoves DEF GridIdles
<1> QED BY <1>4, <1>5, <1>6, <1>7

LEMMA AsksForExits ==
  ASSUME GridFacts, GridInv, NEW h \in Handlers, NEW t \in Grid!Times, NEW n \in Windows,
         Grid!getExitEligibility(h, t, n)
  PROVE  GridInv'
<1>1. t \in Int /\ n \in Nat BY DEF GridFacts, Grid!Times
<1>2. PICK c : c = [pc |-> "exits", window |-> (t - n + 1)..t,
                    checkedMonths |-> Grid!getLastNMonthKeys(Grid!Key(t), n),
                    known |-> worked \ corrected, active |-> Grid!Unread, present |-> Grid!Unread, last |-> {}]
  OBVIOUS
<1>3. Grid!Goto(h, c) /\ UNCHANGED <<now, standing, fences, cell, synced, worked, corrected>>
  BY <1>2 DEF Grid!getExitEligibility, Grid!office
<1>4. c.checkedMonths = {Grid!Key(t - i + 1) : i \in 1..n}
  BY <1>1, <1>2, KeysOfTheWindow
<1>5. \A i \in 1..n : Grid!Key(t - i + 1) \in [month: Int, year: Int]
  BY <1>1 DEF Grid!Key
<1>6. c \in Lists
  <2>1. c.checkedMonths \in SUBSET [month: Int, year: Int] BY <1>4, <1>5
  <2>2. worked \ corrected \in SUBSET Grid!Days BY DEF GridInv, GridTypes, Grid!TypeOK
  <2> QED BY <1>1, <1>2, <2>1, <2>2 DEF Lists
<1>7. \A u \in c.window : Grid!Key(u) \in c.checkedMonths
  <2> SUFFICES ASSUME NEW u \in (t - n + 1)..t PROVE Grid!Key(u) \in c.checkedMonths
    BY <1>2
  <2>1. t - u + 1 \in 1..n /\ t - (t - u + 1) + 1 = u BY <1>1
  <2> QED BY <1>4, <2>1
<1>8. ListIsRead(c) /\ LogIsMarked(c) BY <1>2, <1>7 DEF ListIsRead, LogIsMarked
<1>9. c \in GridCall BY <1>6 DEF GridCall
<1> QED BY <1>3, <1>8, <1>9, GridStill

LEMMA UnreadIsNoSet == ASSUME GridFacts, NEW x, x \in SUBSET Employees PROVE x # Grid!Unread
BY DEF GridFacts, Grid!Unread

LEMMA ReadsRegister ==
  ASSUME GridFacts, GridInv, NEW h \in Handlers, Grid!activeEmployees(h)
  PROVE  GridInv'
<1>1. PICK b : b = call[h] OBVIOUS
<1>2. PICK c : c = [b EXCEPT !.active = {e \in Employees : standing[e] = "active"}] OBVIOUS
<1>3. /\ b.pc = "exits" /\ Grid!Goto(h, c)
      /\ UNCHANGED <<now, standing, fences, cell, synced, worked, corrected>>
  BY <1>1, <1>2, Zenon DEF Grid!activeEmployees, Grid!At, Grid!office
<1>4. b \in GridCall /\ ListIsRead(b) BY <1>1 DEF GridInv, GridTypes, ListIsRead
<1>5. b \in Lists BY <1>3, <1>4, GridCallShapes
<1>6. /\ c \in Lists /\ c.pc = "exits" /\ c.known = b.known /\ c.window = b.window
      /\ c.checkedMonths = b.checkedMonths /\ c.present = b.present
  BY <1>2, <1>3, <1>5 DEF Lists
<1>7. ListIsRead(c) /\ LogIsMarked(c)
  BY <1>3, <1>4, <1>5, <1>6 DEF ListIsRead, LogIsMarked, Seen
<1>8. c \in GridCall BY <1>6 DEF GridCall
<1> QED BY <1>3, <1>7, <1>8, GridStill

LEMMA ReadsPresence ==
  ASSUME GridFacts, GridInv, NEW h \in Handlers, Grid!presentInWindow(h)
  PROVE  GridInv'
<1>1. PICK b : b = call[h] OBVIOUS
<1> DEFINE spotted == {d[1] : d \in {d \in Grid!Days : Grid!Key(d[2]) \in b.checkedMonths /\ cell[d] = "P"}}
<1>2. PICK c : c = [b EXCEPT !.present = spotted] OBVIOUS
<1>3. /\ b.pc = "exits" /\ Grid!Goto(h, c)
      /\ UNCHANGED <<now, standing, fences, cell, synced, worked, corrected>>
  BY <1>1, <1>2, Zenon DEF Grid!presentInWindow, Grid!At, Grid!office
<1>4. b \in GridCall /\ ListIsRead(b) BY <1>1 DEF GridInv, GridTypes, ListIsRead
<1>5. b \in Lists BY <1>3, <1>4, GridCallShapes
<1>6. spotted \in SUBSET Employees BY DEF Grid!Days
<1>7. /\ c \in Lists /\ c.pc = "exits" /\ c.known = b.known /\ c.window = b.window
      /\ c.checkedMonths = b.checkedMonths /\ c.present = spotted
  <2> HIDE DEF spotted
  <2> QED BY <1>2, <1>3, <1>5, <1>6 DEF Lists
<1>8. \A d \in Grid!Days : Seen(c, d) => d[1] \in c.present
  BY <1>7 DEF Seen
<1>9. ListIsRead(c) /\ LogIsMarked(c)
  <2> HIDE DEF spotted
  <2> QED BY <1>3, <1>4, <1>5, <1>7, <1>8 DEF ListIsRead, LogIsMarked
<1>10. c \in GridCall BY <1>7 DEF GridCall
<1> QED BY <1>3, <1>9, <1>10, GridStill

LEMMA ReadsLastDates ==
  ASSUME GridFacts, GridInv, NEW h \in Handlers, Grid!getLastPresentDates(h)
  PROVE  GridInv'
<1>1. PICK b : b = call[h] OBVIOUS
<1>2. PICK eligible : eligible = b.active \ b.present OBVIOUS
<1>3. PICK last : /\ \A d \in last : d \in eligible \X Grid!Times /\ cell[<<d[1], d[2]>>] = "P"
                  /\ b.pc = "exits" /\ b.active # Grid!Unread /\ b.present # Grid!Unread
                  /\ Grid!Goto(h, [b EXCEPT !.pc = "listed", !.active = eligible, !.last = last])
                  /\ UNCHANGED <<now, standing, fences, cell, synced, worked, corrected>>
  <2> DEFINE Present(e) == {t \in Grid!Times : cell[<<e, t>>] = "P"}
             last == {d \in eligible \X Grid!Times : d[2] \in Present(d[1]) /\ \A u \in Present(d[1]) : u <= d[2]}
  <2>1. /\ b.pc = "exits" /\ b.active # Grid!Unread /\ b.present # Grid!Unread
        /\ Grid!Goto(h, [b EXCEPT !.pc = "listed", !.active = eligible, !.last = last])
        /\ UNCHANGED <<now, standing, fences, cell, synced, worked, corrected>>
    BY <1>1, <1>2, Zenon DEF Grid!getLastPresentDates, Grid!At, Grid!office
  <2>2. \A d \in last : d \in eligible \X Grid!Times /\ cell[<<d[1], d[2]>>] = "P"
    OBVIOUS
  <2> HIDE DEF last
  <2> QED BY <2>1, <2>2
<1>4. PICK c : c = [b EXCEPT !.pc = "listed", !.active = eligible, !.last = last] OBVIOUS
<1>5. b \in GridCall /\ ListIsRead(b) BY <1>1 DEF GridInv, GridTypes, ListIsRead
<1>6. b \in Lists BY <1>3, <1>5, GridCallShapes
<1>7. b.active \in SUBSET Employees /\ eligible \in SUBSET Employees
  BY <1>2, <1>3, <1>6 DEF Lists
<1>8. ASSUME NEW d \in last PROVE d \in Grid!Days /\ d[1] \in eligible /\ cell[d] = "P"
  <2>1. d \in eligible \X Grid!Times /\ cell[<<d[1], d[2]>>] = "P" BY <1>3
  <2>2. PICK e \in eligible, t \in Grid!Times : d = <<e, t>> BY <2>1
  <2>3. d[1] = e /\ d[2] = t BY <2>2
  <2>4. <<d[1], d[2]>> = d BY <2>2, <2>3
  <2>5. d \in Grid!Days BY <1>7, <2>2 DEF Grid!Days
  <2> QED BY <2>1, <2>3, <2>4, <2>5
<1>9. /\ c \in Lists /\ c.pc = "listed" /\ c.known = b.known /\ c.window = b.window
      /\ c.checkedMonths = b.checkedMonths /\ c.active = eligible /\ c.last = last
  <2>1. last \in SUBSET Grid!Days BY <1>8
  <2> QED BY <1>4, <1>6, <1>7, <2>1 DEF Lists
<1>10. \A d \in Grid!Days : Seen(c, d) => d[1] \notin c.active
  BY <1>2, <1>3, <1>5, <1>6, <1>9 DEF ListIsRead, Seen
<1>11. ListIsRead(c) /\ LogIsMarked(c)
  BY <1>5, <1>6, <1>7, <1>8, <1>9, <1>10 DEF ListIsRead, LogIsMarked
<1>12. c \in GridCall BY <1>9 DEF GridCall
<1> QED BY <1>3, <1>4, <1>11, <1>12, GridStill

\* The clock, the fences, the register and a crash leave the grid alone.
LEMMA AroundTheGrid ==
  ASSUME GridFacts, GridInv,
         \/ Grid!Tick \/ Grid!Crash \/ UNCHANGED Grid!vars
         \/ \E p \in Places : Grid!createGeofence(p)
         \/ \E e \in Employees : Grid!markExit(e) \/ Grid!remove(e)
  PROVE  GridInv'
<1>1. /\ UNCHANGED <<cell, synced, worked, corrected>>
      /\ UNCHANGED call \/ call' = [h \in Handlers |-> Grid!IdleCall]
  BY DEF Grid!Tick, Grid!Crash, Grid!vars, Grid!createGeofence, Grid!markExit, Grid!remove
<1>2. Grid!TypeOK'
  <2>1. now' \in Grid!Times
    BY DEF Grid!Tick, Grid!Crash, Grid!vars, Grid!createGeofence, Grid!markExit, Grid!remove, Grid!office,
       GridInv, GridTypes, Grid!TypeOK, GridFacts, Grid!Times
  <2>2. standing' \in [Employees -> {"active", "exited", "removed"}] /\ fences' \subseteq Places
    BY DEF Grid!Tick, Grid!Crash, Grid!vars, Grid!createGeofence, Grid!markExit, Grid!remove, Grid!office,
       GridInv, GridTypes, Grid!TypeOK
  <2> QED BY <1>1, <2>1, <2>2 DEF GridInv, GridTypes, Grid!TypeOK
<1>3. DaysAreMarked' BY <1>1 DEF GridInv, DaysAreMarked, Marked
<1>4. call' \in [Handlers -> GridCall]
  BY <1>1, GridIdle DEF GridInv, GridTypes, GridIdles
<1>5. ASSUME NEW g \in Handlers PROVE (LogIsMarked(call[g]) /\ ListIsRead(call[g]))'
  <2>1. PICK q : q = call'[g] OBVIOUS
  <2>2. LogIsMarked(q) /\ ListIsRead(q)
    <3>1. CASE call'[g] = call[g]
      <4>1. q = call[g] BY <2>1, <3>1
      <4>2. LogIsMarked(call[g]) /\ ListIsRead(call[g]) BY DEF GridInv
      <4> QED BY <4>1, <4>2
    <3>2. CASE call'[g] = Grid!IdleCall
      BY <2>1, <3>2, GridIdle, LightIsFine DEF GridIdles
    <3> QED BY <1>1, <3>1, <3>2
  <2>3. (LogIsMarked(q) /\ ListIsRead(q))'
    BY <1>1, <2>2 DEF LogIsMarked, Marked, ListIsRead, Seen
  <2> QED BY <2>1, <2>3 DEF LogIsMarked, ListIsRead
<1> QED BY <1>2, <1>3, <1>4, <1>5 DEF GridInv, GridTypes

LEMMA GridBegins ==
  ASSUME GridFacts, Grid!Init
  PROVE  GridInv
<1>1. Grid!TypeOK BY DEF Grid!Init, Grid!TypeOK, GridFacts, Grid!Times, Grid!Log
<1>2. DaysAreMarked BY DEF Grid!Init, DaysAreMarked, Marked, Grid!Blank
<1>3. call \in [Handlers -> GridCall] /\ \A h \in Handlers : call[h] = Grid!IdleCall
  BY GridIdle DEF Grid!Init, GridIdles
<1>4. \A h \in Handlers : LogIsMarked(call[h]) /\ ListIsRead(call[h])
  BY <1>3, GridIdle DEF GridIdles, Light, LogIsMarked, ListIsRead
<1> QED BY <1>1, <1>2, <1>3, <1>4 DEF GridInv, GridTypes

LEMMA GridSteps ==
  ASSUME GridFacts, GridInv, [Grid!Next]_Grid!vars
  PROVE  GridInv'
<1>1. ASSUME NEW h \in Handlers, Grid!Handle(h) PROVE GridInv'
  BY <1>1, GridAsks, WritesCell, LoginSyncs, AsksForExits, ReadsRegister, ReadsPresence, ReadsLastDates
  DEF Grid!Handle
<1> QED BY <1>1, AroundTheGrid DEF Grid!Next

\* Nobody is listed to be let go who is known to have been present in the
\* months looked at, however many and across whatever years' ends, with calls
\* served one at a time and cut off anywhere (attendance.service.ts).
THEOREM ExitListIsJustByGrid ==
  ASSUME GridFacts
  PROVE  Grid!Spec => [](Grid!TypeOK /\ Grid!ExitListIsJust)
<1>1. Grid!Init => GridInv BY GridBegins
<1>2. GridInv /\ [Grid!Next]_Grid!vars => GridInv' BY GridSteps
<1>3. GridInv => Grid!ExitListIsJust
  <2> SUFFICES ASSUME GridInv PROVE Grid!ExitListIsJust
    OBVIOUS
  <2>1. \A d \in corrected : cell[d] = "A"
    BY DEF GridInv, GridTypes, Grid!TypeOK, DaysAreMarked
  <2>2. ASSUME NEW h \in Handlers, Grid!At(h, "listed")
        PROVE  /\ \A e \in call[h].active, t \in Grid!Times : t \in call[h].window =>
                    <<e, t>> \notin call[h].known \/ <<e, t>> \in corrected
               /\ \A d \in call[h].last : d[2] \notin call[h].window
    <3>1. PICK b : b = call[h] OBVIOUS
    <3>2. b \in GridCall /\ ListIsRead(b) /\ b.pc = "listed"
      BY <2>2, <3>1 DEF GridInv, GridTypes, ListIsRead, Grid!At
    <3>3. b \in Lists /\ b.last \in SUBSET Grid!Days /\ b.window \in SUBSET Int
      <4>1. b \in Lists BY <3>2, GridCallShapes
      <4> QED BY <4>1 DEF Lists
    <3>4. ASSUME NEW e \in b.active, NEW t \in Grid!Times, t \in b.window, <<e, t>> \in b.known
          PROVE  FALSE
      <4>1. <<e, t>> \in Grid!Days /\ <<e, t>>[2] = t /\ <<e, t>>[1] = e
        BY <3>2, <3>3 , <3>4 DEF ListIsRead, Grid!Days
      <4>2. cell[<<e, t>>] = "P"
        BY <3>2, <3>3, <3>4, <4>1 DEF ListIsRead, GridInv, DaysAreMarked
      <4> QED BY <3>2, <3>3, <3>4, <4>1, <4>2 DEF ListIsRead, Seen
    <3>5. ASSUME NEW d \in b.last, d[2] \in b.window PROVE FALSE
      BY <3>2, <3>3, <3>5 DEF ListIsRead, Seen
    <3> QED BY <3>1, <3>4, <3>5
  <2> QED BY <2>1, <2>2 DEF Grid!ExitListIsJust
<1>4. GridInv => Grid!TypeOK BY DEF GridInv, GridTypes
<1> QED BY <1>1, <1>2, <1>3, <1>4, PTL DEF Grid!Spec

=============================================================================
