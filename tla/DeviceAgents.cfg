SPECIFICATION MCSpec
CONSTANTS
  Handlers = {h1, h2}
  Devices = {d1, d2}
  Employees = {e1}
  Commands = {c1}
  None = None
  MaxTokens = 2
  MaxKeys = 2
  MaxCrashes = 1
  w1 = w1
  w2 = w2
  k1 = k1
  k2 = k2
  m1 = m1
  m2 = m2
SYMMETRY Symmetry
CONSTRAINT Bounded
INVARIANTS AgentsAreBacked OneTaskPerMonth ExitListIsJust AnsweredIsStored
PROPERTIES RevocationSticks EveryMonthIsIssued
CHECK_DEADLOCK FALSE
