SPECIFICATION Spec
CONSTANTS
  e1 = e1
  e2 = e2
  tn1 = tn1
  tn2 = tn2
  None = None
  Events = {e1, e2}
  Tenants = {tn1, tn2}
  TenantOf <- TwoTenantOf
  Tokens = {k1, k2}
  Dispatchers = {d1}
  Workers = {w1, w2}
  MaxAttempts = 2
  Lease = 2
  ConsumerTimeout = 1
  EnqueueRetry = 1
  RetryDelay <- ShortBackoff
  HintMax = 0
  Window = 0
  BatchSize = 2
  PerTenantLimit = 1
  MaxTries = 1
  Markers = FALSE
  Redelivery = FALSE
  LostAcks = FALSE
  MaxReplays = 0
  Outcomes = {"ok","other"}
SYMMETRY Sym
CHECK_DEADLOCK FALSE
INVARIANTS
  NoOverlap
  ClaimHeldOnce
PROPERTIES
  PurgeIsFinal
