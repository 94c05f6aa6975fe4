SPECIFICATION FairSpec
CONSTANTS
  Callers = {c1, c2}
  Keys = {k1}
  Events = {}
  LastMonth = 1
  Limits = {1, None}
  MaxQuantity = 1
  MaxCalls = 1
  None = None
PROPERTY EventuallyAnswered
