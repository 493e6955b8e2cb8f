---------------------------- MODULE VisitEvidence ----------------------------
(***************************************************************************)
(* The rules a field visit is judged by: the days a school must be left    *)
(* alone (supervisor-visit-cooldown.util.ts), who shares its cooldown      *)
(* (supervisor-school-access.util.ts), and what the GPS of the photos and  *)
(* the trail of location pings say of it (createVisit,                     *)
(* verifyVisitAgainstPingTrail). Distances are abstracted to the side of   *)
(* the limit they fall on.                                                 *)
(***************************************************************************)
EXTENDS Integers, FiniteSets

CONSTANT MinDays  \* MIN_DAYS_BETWEEN_SCHOOL_VISITS

ASSUME MinDaysAssumption == MinDays \in Nat \ {0}

NoVisitYet == -1

CooldownActive(lastVisitDate, nextVisitDate) ==
  lastVisitDate # NoVisitYet /\ nextVisitDate - lastVisitDate < MinDays

\* A block with more than one supervisor shares the cooldown of its schools.
IsSchoolSharedVisitCooldown(block, blocks) ==
  Cardinality({s \in DOMAIN blocks : block \in blocks[s]}) > 1

\* What a submission brings with it: the school's pin ("verified" when
\* getVerifiedSchoolPin returns one, see SchoolPins), where the photos were
\* taken, how exact the GPS was, and the pings of the 45 minutes around it.
Evidence ==
  [pin: {"verified", "draft", "none"}, photos: {"inside", "outside"},
   accuracy: {"good", "poor"},
   trail: {"lookup_failed", "empty", "mock", "far", "elsewhere", "near"}]

\* verifyVisitAgainstPingTrail; a failed look-up counts as an empty trail.
PingVerdict(trail) ==
  CASE trail \in {"lookup_failed", "empty"} -> "no_ping_trail"
    [] trail = "mock" -> "ping_mock"
    [] trail = "far" -> "ping_far_from_school"
    [] trail = "elsewhere" -> "visit_ping_mismatch"
    [] trail = "near" -> "verified"

\* What the position of the photos alone says.
GpsVerdict(e) ==
  CASE e.pin # "verified" -> "school_pin_missing"
    [] e.pin = "verified" /\ e.photos = "outside" -> "outside_geofence"
    [] e.pin = "verified" /\ e.photos = "inside" /\ e.accuracy = "poor" -> "poor_gps_accuracy"
    [] OTHER -> "verified"

\* Without a pin there is nothing to hold the trail against.
PingsAreChecked(e) == e.pin = "verified"

LocationMatchStatus(e) ==
  IF GpsVerdict(e) = "verified" /\ PingsAreChecked(e) THEN PingVerdict(e.trail)
  ELSE GpsVerdict(e)

NeedsReview(e) ==
  \/ e.pin # "verified" \/ e.photos = "outside" \/ e.accuracy = "poor"
  \/ PingsAreChecked(e) /\ PingVerdict(e.trail) # "verified"
=============================================================================
