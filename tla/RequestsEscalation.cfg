SPECIFICATION Spec
CONSTANTS
  Handlers = {h1, h2}
  Requests = {r1}
  AckDays = 2
  MaxReplies = 1
  MaxCrashes = 0
PROPERTIES EscalationStands
CHECK_DEADLOCK FALSE
