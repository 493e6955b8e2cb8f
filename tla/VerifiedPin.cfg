SPECIFICATION Spec
CONSTANTS
  Schools = {1}
  Handlers = {h1}
  Places = {p1, p2}
  InDistrict = {p1, p2}
  InBlock = {p1}
  Named = {p1, p2}
  NoPin = NoPin
PROPERTIES VerifiedPinIsKept
CHECK_DEADLOCK FALSE
