SPECIFICATION Spec
CONSTANTS
  Callers = {c1, c2}
  Keys = {k1}
  Events = {e1}
  LastMonth = 0
  Limits = {1, 2}
  MaxQuantity = 2
  MaxCalls = 2
  None = None
INVARIANTS IngestedOnce
PROPERTY ImplementsLedger
