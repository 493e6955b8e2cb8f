SPECIFICATION Spec
CONSTANTS
  Handlers = {h1, h2}
  Keys = {k1}
  LopKeys = {}
  Requests = {r1, r2}
  Days = {1, 2}
  Allocations = {2}
  MaxCrashes = 0
INVARIANTS DecidedOnce
CHECK_DEADLOCK FALSE
