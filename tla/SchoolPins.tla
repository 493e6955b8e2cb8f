----------------------------- MODULE SchoolPins -----------------------------
(***************************************************************************)
(* Where the schools are: the pin of each, whether it is verified, and the *)
(* searches that find one (school-works.service.ts and the resolvers under *)
(* common/utils).  A search asks a register of schools, Google and, for    *)
(* the village, several sources; every answer takes seconds, so that bulk  *)
(* jobs, supervisors' requests and the administrator's own corrections     *)
(* overlap.  The village pins of a block are cached in the process.        *)
(***************************************************************************)
EXTENDS Integers, FiniteSets, FiniteSetsExt

CONSTANTS
    Schools,        \* the schools of one block and village, 1 .. n
    Handlers,       \* requests in progress
    Places,         \* what a source may name: a point in Bihar with a name
    InDistrict,     \* those inside the district's bounds
    InBlock,        \* those that Google, asked back, sees in block and village
    Named,          \* those with the village in their name
    NoPin

VARIABLES
    school,         \* per school: its pin, whether that is verified, and
                    \* whether it was searched within the hour
    origin,         \* history: who has verified the pin of each school
    villageCache,   \* getSessionVillageCache: the village's pin, or NoPin
    late,           \* modes of searches that go on though their job gave up
    call

vars == <<school, origin, villageCache, late, call>>

NewSchool == [pin |-> NoPin, verified |-> FALSE, tried |-> FALSE]
IdleCall == [pc |-> "idle"]
Goto(h, c) == call' = [call EXCEPT ![h] = c]
At(h, pc) == call[h].pc = pc
Idle(h) == At(h, "idle")

-----------------------------------------------------------------------------
(* What is tested of a place.  The address a source gives with it names    *)
(* the block, as each source insists; the school's row has no address.     *)

coordinatesInExpectedDistrict(pin) == pin \in InDistrict

\* An empty text counts as the name of an office.
isAdminPlaceName(text) == text = ""

placeInExpectedAdminArea(address) == address = "block"

placeMatchesSchoolContext(pin) == pin \in Named

isUnsafeSchoolPin(pin, address) ==
    \/ ~coordinatesInExpectedDistrict(pin)
    \/ isAdminPlaceName(address)
    \/ (address # "" /\ ~placeInExpectedAdminArea(address))
    \/ ~placeMatchesSchoolContext(pin)

\* The jobs test with the address of the match in hand ...
pinSafeForAutoVerify(pin) == ~isUnsafeSchoolPin(pin, "block")

\* ... the geofence with the school's row, which keeps no address.
getVerifiedSchoolPin(row) ==
    IF ~row.verified \/ row.pin = NoPin \/ isUnsafeSchoolPin(row.pin, "") THEN NoPin ELSE row.pin

validateAddressText(pin) == pin \in InBlock

\* The district's bounds, and what Google sees at the coordinates; when it does
\* not answer, a lenient gate takes the source's own address.
validatePinForBlock(pin, requireGoogle, answered) ==
    /\ coordinatesInExpectedDistrict(pin)
    /\ IF answered THEN validateAddressText(pin) ELSE ~requireGoogle

-----------------------------------------------------------------------------
(* What the sources may answer: one of a set of places, or none.           *)

\* A register knows the school by its code, whatever coordinates it gives.
lookupExternalSchoolRegistry == Places

\* Listings without the block in their address score below zero.
isBlockedPlaceCandidate(address) == isAdminPlaceName(address) \/ ~placeInExpectedAdminArea(address)
scoreSchoolCandidate(address) == ~isBlockedPlaceCandidate(address)
scoreVillageCandidate(address) == ~isBlockedPlaceCandidate(address)

\* The best listing; its address names the block, its coordinates are its own.
collectGooglePlacesCandidates == Places
geocodeAddress == Places
pickBestSchoolPlace(candidates) == {pin \in candidates : scoreSchoolCandidate("block")}
searchSchoolPlace == pickBestSchoolPlace(collectGooglePlacesCandidates \cup geocodeAddress)
pickVillagePlace(candidates) == {pin \in candidates : scoreVillageCandidate("block")}
resolveVillageOsm == {pin \in Places : scoreVillageCandidate("block")}
resolveVillagePlace ==
    pickVillagePlace(collectGooglePlacesCandidates \cup geocodeAddress) \cup resolveVillageOsm

\* The village pages are found by the path district/block/village.
tryOneFiveNineDirectPath == Named
resolveOsmVillageCombo == Named

\* In fast mode the coordinates are held against the district only.
pinPassesFastVillageGate(pin) == coordinatesInExpectedDistrict(pin)

tryRegistryVillageFallback(fastMode) ==
    {pin \in tryOneFiveNineDirectPath :
        IF fastMode THEN pinPassesFastVillageGate(pin)
        ELSE validatePinForBlock(pin, TRUE, TRUE)}

\* Step 0 of a search: the register, or the village it names.
RegistryMatches(fastMode) ==
    {pin \in lookupExternalSchoolRegistry :
        \E answered \in BOOLEAN : validatePinForBlock(pin, ~fastMode, answered)}
    \cup tryRegistryVillageFallback(fastMode)

\* Step 1: the school itself on Google.
GoogleMatches == {pin \in searchSchoolPlace : ~isUnsafeSchoolPin(pin, "block")}

\* Step 2: the village.
VillageSources == tryOneFiveNineDirectPath \cup resolveVillagePlace \cup resolveOsmVillageCombo

\* finalizePin: Google has to see the block and the village there.
enrichPinWithGoogleReverseGeocode(pin) == validatePinForBlock(pin, TRUE, TRUE)

Trusted(fastMode, pin) == fastMode \/ enrichPinWithGoogleReverseGeocode(pin)

-----------------------------------------------------------------------------
(* One search, of school c.s for the handler's call c.                     *)

\* `how`: a fast search, or what a slow one relies on.
Found(h, pin, how) ==
    Goto(h, [call[h] EXCEPT !.pc = "save", !.pin = pin, !.how = IF call[h].fast THEN "fast" ELSE how])
Onward(h) == Goto(h, [call[h] EXCEPT !.pc = "next", !.s = 0, !.pin = NoPin, !.how = ""])

\* The cache comes last: a fast search trusts it, whoever filled it.
resolveSchoolPlaceDetailed(h) ==
    /\ At(h, "search")
    /\ \/ \E pin \in RegistryMatches(call[h].fast) : Found(h, pin, "gate")
       \/ \E pin \in GoogleMatches : Found(h, pin, "listing")
       \/ IF villageCache # NoPin /\ Trusted(call[h].fast, villageCache)
          THEN Found(h, villageCache, "gate")
          ELSE Goto(h, [call[h] EXCEPT !.pc = "sources"])
    /\ UNCHANGED <<school, origin, villageCache, late>>

cachePin(pin) == villageCache' = pin

resolveVillageMultiSource(h) ==
    /\ At(h, "sources")
    /\ \/ \E pin \in VillageSources :
            /\ Trusted(call[h].fast, pin)
            /\ cachePin(pin)
            /\ Found(h, pin, "gate")
       \/ (Onward(h) /\ UNCHANGED villageCache)
    /\ UNCHANGED <<school, origin, late>>

\* A bulk job waits for so long and goes on to the next school; nothing stops
\* the search, which still fills the cache.
giveUp(h) ==
    /\ At(h, "search") \/ At(h, "sources")
    /\ call[h].kind \in {"resolve", "assign"}
    /\ late' = late \cup {call[h].fast}
    /\ Onward(h)
    /\ UNCHANGED <<school, origin, villageCache>>

lateAnswer(fast) ==
    /\ fast \in late
    /\ late' = late \ {fast}
    /\ \/ UNCHANGED villageCache
       \/ (\E pin \in VillageSources : Trusted(fast, pin) /\ cachePin(pin))
    /\ UNCHANGED <<school, origin, call>>

-----------------------------------------------------------------------------
(* The jobs over a block.  The page of schools is read once, at the start. *)

Job(kind, fast, page, keep) ==
    [pc |-> "next", kind |-> kind, fast |-> fast, keep |-> keep, todo |-> page, s |-> 0, pin |-> NoPin, how |-> ""]

\* `keep` is saveVerified and `skip` skipExisting.
bulkResolveLocations(h, fast, page, keep, skip) ==
    /\ Idle(h)
    /\ Goto(h, Job("resolve", fast,
                   {s \in page : ~(skip /\ school[s].verified /\ school[s].pin # NoPin)}, keep))
    /\ UNCHANGED <<school, origin, villageCache, late>>

\* `keep` is saveDraft.
bulkAssignVillageLocations(h, fast, page, keep, skip) ==
    /\ Idle(h)
    /\ Goto(h, Job("assign", fast,
                   {s \in page : ~(skip /\ school[s].pin # NoPin /\ school[s].verified)}, keep))
    /\ UNCHANGED <<school, origin, villageCache, late>>

\* The schools of a supervisor that have no verified pin, two at a time.
ensureSupervisorSchoolLocations(h) ==
    /\ Idle(h)
    /\ Goto(h, Job("auto", FALSE, {s \in Schools : getVerifiedSchoolPin(school[s]) = NoPin}, TRUE))
    /\ UNCHANGED <<school, origin, villageCache, late>>

nextSchool(h) ==
    /\ At(h, "next") /\ call[h].todo # {} /\ call[h].kind # "auto"
    /\ LET s == Min(call[h].todo)
       IN Goto(h, [call[h] EXCEPT !.s = s, !.todo = @ \ {s}, !.pc = "search"])
    /\ UNCHANGED <<school, origin, villageCache, late>>

\* The school is read anew; a verified pin is let be, and so is a school that
\* was searched within the hour.
autoResolveSchoolLocation(h) ==
    /\ At(h, "next") /\ call[h].todo # {} /\ call[h].kind = "auto"
    /\ LET s == Min(call[h].todo)
           row == school[s]
           ready == row.verified /\ getVerifiedSchoolPin(row) # NoPin
           c == [call[h] EXCEPT !.s = s, !.todo = @ \ {s}]
       IN IF ready \/ row.tried
          THEN Goto(h, [c EXCEPT !.s = 0]) /\ UNCHANGED school
          ELSE /\ school' = [school EXCEPT ![s].tried = TRUE]
               /\ Goto(h, [c EXCEPT !.pc = "search"])
    /\ UNCHANGED <<origin, villageCache, late>>

endJob(h) ==
    /\ At(h, "next") /\ call[h].todo = {}
    /\ Goto(h, IdleCall)
    /\ UNCHANGED <<school, origin, villageCache, late>>

HourPasses ==
    /\ \E s \in Schools : school[s].tried
    /\ school' = [s \in Schools |-> [school[s] EXCEPT !.tried = FALSE]]
    /\ UNCHANGED <<origin, villageCache, late, call>>

\* What a job writes: its kind decides what becomes of an unsafe match.
Save(h, verified) ==
    LET c == call[h] IN
    /\ school' = [school EXCEPT ![c.s] = [@ EXCEPT !.pin = c.pin, !.verified = verified]]
    /\ origin' = [origin EXCEPT ![c.s] = IF verified THEN c.how ELSE "none"]

saveResolved(h) ==
    /\ At(h, "save") /\ call[h].kind = "resolve"
    /\ IF call[h].keep /\ pinSafeForAutoVerify(call[h].pin)
       THEN Save(h, TRUE)
       ELSE UNCHANGED <<school, origin>>
    /\ Onward(h)
    /\ UNCHANGED <<villageCache, late>>

\* Mutant: whatever was found is saved as verified.
saveAssignedMutant(h) ==
    /\ At(h, "save") /\ call[h].kind = "assign"
    /\ IF call[h].keep THEN Save(h, TRUE) ELSE UNCHANGED <<school, origin>>
    /\ Onward(h)
    /\ UNCHANGED <<villageCache, late>>

saveAssigned(h) ==
    /\ At(h, "save") /\ call[h].kind = "assign"
    /\ IF call[h].keep
       THEN Save(h, pinSafeForAutoVerify(call[h].pin))
       ELSE UNCHANGED <<school, origin>>
    /\ Onward(h)
    /\ UNCHANGED <<villageCache, late>>

saveAuto(h) ==
    /\ At(h, "save") /\ call[h].kind = "auto"
    /\ Save(h, pinSafeForAutoVerify(call[h].pin))
    /\ Onward(h)
    /\ UNCHANGED <<villageCache, late>>

-----------------------------------------------------------------------------
(* The administrator.  Each of these writes whatever it read or was given. *)

ByHand(s, row) ==
    /\ school' = [school EXCEPT ![s] = row]
    /\ origin' = [origin EXCEPT ![s] = "admin"]

patchSchoolLocation(s, at) ==
    /\ ByHand(s, [school[s] EXCEPT !.pin = at, !.verified = FALSE])
    /\ UNCHANGED <<villageCache, late, call>>

\* An exact listing, found outside any job, waits to be verified.
upgradeSchoolToExact(s) ==
    /\ \E pin \in searchSchoolPlace : ByHand(s, [school[s] EXCEPT !.pin = pin, !.verified = FALSE])
    /\ UNCHANGED <<villageCache, late, call>>

\* The pin on the map, or the one that was read before.
verifySchoolLocation(h, s, pin) ==
    /\ Idle(h)
    /\ pin # NoPin
    /\ Goto(h, [pc |-> "verify", s |-> s, pin |-> pin])
    /\ UNCHANGED <<school, origin, villageCache, late>>

saveVerified(h) ==
    /\ At(h, "verify")
    /\ ByHand(call[h].s, [school[call[h].s] EXCEPT !.pin = call[h].pin, !.verified = TRUE])
    /\ Goto(h, IdleCall)
    /\ UNCHANGED <<villageCache, late>>

\* Only the flag is written, to the pin that is there by then.
verifyVillageLocations(h) ==
    /\ Idle(h)
    /\ Goto(h, [pc |-> "flag", todo |-> {s \in Schools : school[s].pin # NoPin}])
    /\ UNCHANGED <<school, origin, villageCache, late>>

flagSchool(h) ==
    /\ At(h, "flag")
    /\ IF call[h].todo = {}
       THEN Goto(h, IdleCall) /\ UNCHANGED <<school, origin>>
       ELSE LET s == Min(call[h].todo) IN
            /\ school' = [school EXCEPT ![s].verified = TRUE]
            /\ origin' = [origin EXCEPT ![s] = "admin"]
            /\ Goto(h, [call[h] EXCEPT !.todo = @ \ {s}])
    /\ UNCHANGED <<villageCache, late>>

\* The process dies; the cache goes with it.
Restart ==
    /\ villageCache # NoPin
    /\ villageCache' = NoPin
    /\ late' = {}
    /\ call' = [h \in Handlers |-> IdleCall]
    /\ UNCHANGED <<school, origin>>

Init ==
    /\ school = [s \in Schools |-> NewSchool]
    /\ origin = [s \in Schools |-> "none"]
    /\ villageCache = NoPin /\ late = {}
    /\ call = [h \in Handlers |-> IdleCall]

Jobs(h) ==
    \/ \E fast, keep, skip \in BOOLEAN :
        \/ bulkResolveLocations(h, fast, Schools, keep, skip)
        \/ bulkAssignVillageLocations(h, fast, Schools, keep, skip)
    \/ ensureSupervisorSchoolLocations(h)
    \/ nextSchool(h) \/ autoResolveSchoolLocation(h) \/ endJob(h)
    \/ resolveSchoolPlaceDetailed(h) \/ resolveVillageMultiSource(h)
    \/ giveUp(h) \/ saveResolved(h) \/ saveAssigned(h) \/ saveAuto(h)

Administrator(h) ==
    \/ \E s \in Schools : \E pin \in Places \cup {school[s].pin} : verifySchoolLocation(h, s, pin)
    \/ saveVerified(h) \/ verifyVillageLocations(h) \/ flagSchool(h)

Next ==
    \/ \E h \in Handlers : Jobs(h) \/ Administrator(h)
    \/ \E s \in Schools : upgradeSchoolToExact(s) \/ \E at \in Places : patchSchoolLocation(s, at)
    \/ \E fast \in BOOLEAN : lateAnswer(fast)
    \/ HourPasses \/ Restart

Spec == Init /\ [][Next]_vars
-----------------------------------------------------------------------------
TypeOK ==
    /\ \A s \in Schools :
         /\ school[s].pin \in Places \cup {NoPin}
         /\ school[s].verified \in BOOLEAN /\ school[s].tried \in BOOLEAN
         /\ school[s].verified => school[s].pin # NoPin
    /\ villageCache \in Places \cup {NoPin}
    /\ late \subseteq BOOLEAN

\* The jobs verify what they find themselves.  However they, their abandoned
\* searches and the administrator overlap, a pin a job verified lies in the
\* district under the village's name, and a slow job's pin from the register or
\* the village sources was seen by Google in the block, even though fast jobs
\* fill the same cache with pins nobody asked Google about.
PinsAreVouched ==
    \A s \in Schools :
        /\ school[s].verified /\ origin[s] # "admin" => school[s].pin \in InDistrict \cap Named
        /\ school[s].verified /\ origin[s] = "gate" => school[s].pin \in InBlock

\* autoResolveSchoolLocation returns 'already_verified' ("pin kept unchanged")
\* for a school with a verified pin: a supervisor's search moves no pin that
\* is verified, in the district, and under the village's name.
VerifiedPinIsKept ==
    [][\A s \in Schools, h \in Handlers :
        /\ saveAuto(h) /\ call[h].s = s
        /\ school[s].verified /\ ~isUnsafeSchoolPin(school[s].pin, "block")
        => school'[s].pin = school[s].pin]_vars
=============================================================================
