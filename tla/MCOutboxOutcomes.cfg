SPECIFICATION Spec
CONSTANTS
  e1 = e1
  e2 = e2
  tn1 = tn1
  tn2 = tn2
  None = None
  Events = {e1}
  Tenants = {tn1}
  TenantOf <- OneTenantOf
  Tokens = {k1, k2, k3}
  Dispatchers = {d1, d2}
  Workers = {w1}
  MaxAttempts = 2
  Lease = 2
  ConsumerTimeout = 1
  EnqueueRetry = 1
  RetryDelay <- Backoff
  HintMax = 2
  Window = 3
  BatchSize = 1
  PerTenantLimit = 1
  MaxTries = 1
  Markers = TRUE
  Redelivery = TRUE
  LostAcks = FALSE
  MaxReplays = 1
  Outcomes = {"ok", "ambiguous", "at_least_once", "permanent", "attested", "not_sent", "other", "retry_within", "deferred"}
SYMMETRY Sym
CHECK_DEADLOCK FALSE
INVARIANTS
  MarkerBelongsToClaim
PROPERTIES
  RetriedInsideWindow
