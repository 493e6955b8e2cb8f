SPECIFICATION MCSpec
CONSTANTS
  Handlers = {h1, h2}
  Keys = {k1, lop}
  LopKeys = {lop}
  Requests = {r1, r2}
  Days <- Lengths
  Allocations = {1}
  MaxCrashes = 1
  g1 = g1
  g2 = g2
  l1 = l1
  l2 = l2
  q1 = q1
  q2 = q2
  m1 = m1
  m2 = m2
  i1 = i1
  i2 = i2
  i3 = i3
SYMMETRY Symmetry
INVARIANTS TypeOK  RowsAreBacked ApprovedMeansApplied NoItemLost SerialsAreContiguous SessionsAreCurrent GuessesAreBounded
PROPERTIES AddedOnTop
CHECK_DEADLOCK FALSE
