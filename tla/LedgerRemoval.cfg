SPECIFICATION Spec
CONSTANTS
  Months = {m1}
  Kinds = {advance, penalty}
  Handlers = {h1}
  MaxAmount = 1
  MaxStamp = 3
PROPERTY RemovalTakesEffect
