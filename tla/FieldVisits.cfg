SPECIFICATION MCSpec
CONSTANTS
  Handlers = {h1}
  Supervisors = {s1, s2}
  Schools = {w1}
  Visits = {v1, v2}
  Commitments = {c1}
  Plans = {p1}
  NoCommitment = NoCommitment
  MinDays = 1
  LastDay = 1
  MaxUpsets = 1
  g1 = g1
  u1 = u1
  u2 = u2
  u3 = u3
INVARIANTS SettledIsQuiet ShownIsDecided SharesAddUp PartnersFollowSchools PresenceIsSeen
PROPERTIES CooldownHolds CompletionIsEarned VisitSettles MissedMeansMissed
SYMMETRY Symmetry
CHECK_DEADLOCK FALSE
