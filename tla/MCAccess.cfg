SPECIFICATION MCSpec
CONSTANTS
    ann = ann
    bob = bob
    cid = cid
    People = {ann, bob, cid}
    Permissions = {"manage", "deactivate", "reactivate"}
    Manage = "manage"
    Deactivate = "deactivate"
    Reactivate = "reactivate"
    System = System
    Transactions = {x1, x2}
    FirstStates <- MCFirst
    MaxChanges = 2
    Setups <- MCSetups
    Browsers = {1, 2}
    Visits = {1, 2}
    Documents = {"good", "foreign"}
    TokenFaults = {"expired"}
    MaxLogins = 2
    Lifetime = 1
    LastMinute = 1
INVARIANTS
    CredentialsEndWithTheirOwner
    ErasureIsComplete
    GateLimitsAndRecords
    OneLoginOneUser
PROPERTIES
    AuthorityKept
    TreeAndAdministratorsKept
    JoiningEndsOnce
    AuthorizedWhenCommitted
    PlatformRoutesGuarded
CHECK_DEADLOCK FALSE
