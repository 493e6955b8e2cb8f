SPECIFICATION MCSpec
CONSTANTS
  Handlers = {h1}
  Requests = {r1, r2}
  AckDays = 2
  MaxReplies = 1
  MaxCrashes = 1
  g1 = g1
  g2 = g2
  t1 = t1
  t2 = t2
  o1 = o1
  d1 = d1
  d2 = d2
INVARIANTS OneTenderPerBid GuaranteesAgree ContentSurvives ImportsFindTheirs
PROPERTIES ImplementsTicket ExpiryWasAnnounced ParticipationStands
CHECK_DEADLOCK FALSE
