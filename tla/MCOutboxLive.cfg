SPECIFICATION FairSpec
CONSTANTS
  e1 = e1
  e2 = e2
  tn1 = tn1
  tn2 = tn2
  None = None
  Events = {e1}
  Tenants = {tn1}
  TenantOf <- OneTenantOf
  Tokens = {k1, k2, k3}
  Dispatchers = {d1}
  Workers = {w1}
  MaxAttempts = 2
  Lease = 2
  ConsumerTimeout = 1
  EnqueueRetry = 1
  RetryDelay <- ShortBackoff
  HintMax = 0
  Window = 0
  BatchSize = 1
  PerTenantLimit = 1
  MaxTries = 1
  Markers = TRUE
  Redelivery = FALSE
  LostAcks = FALSE
  MaxReplays = 0
  Outcomes = {"ok", "other"}
CHECK_DEADLOCK FALSE
PROPERTIES
  EventuallySettled
