SPECIFICATION MCSpec
CONSTANTS
  Handlers = {h1}
  Supervisors = {s1, s2}
  Devices = {d1, d2}
  NoDevice = NoDevice
  MaxCrashes = 1
  g1 = g1
  g2 = g2
  t1 = t1
  p1 = p1
  v1 = v1
  q1 = q1
  a1 = a1
  x1 = x1
  x2 = x2
  x3 = x3
  NoPin = NoPin
INVARIANTS TypeOK OneOwner InvoicesAreAnnounced NothingIsLost PinsAreVouched
PROPERTIES MoveNeedsCode
SYMMETRY Symmetry
CHECK_DEADLOCK FALSE
