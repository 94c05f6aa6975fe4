----------------------------- MODULE Authorization -----------------------------
(***************************************************************************)
(* can() (core/rbac/authorization.py) evaluated inside the transaction of  *)
(* the operation it authorizes, and the operations of core/rbac/service.py *)
(* that give, take away and lend authority.                                *)
(*                                                                         *)
(* A transaction runs the decision one query at a time and keeps every row *)
(* it relied on locked FOR SHARE until it ends.  Other transactions commit *)
(* between its queries.  Its own change and its commit are one step, which *)
(* waits for the share locks others hold on the rows it writes.  One role  *)
(* per tenant stands for the roles; a row of a role, a delegation, a deny  *)
(* names a principal, the tenant it belongs to and its scope.              *)
(***************************************************************************)
EXTENDS Integers, FiniteSets

CONSTANTS
    Users, Accounts,    \* principals: people and service accounts
    Tenants, NoTenant,
    Txns,               \* database connections
    Scenarios,          \* database contents to start from, and the operations
                        \* callers then ask for, once each
    NoUser

VARIABLES
    rows,       \* the committed rows
    work,       \* what each connection is doing
    shared,     \* the rows each connection holds FOR SHARE
    pending     \* the operations not yet started

authorizationVars == <<rows, work, shared, pending>>

Principals == Users \cup Accounts
TenantPermissions == {"data", "authority"}
Accessible == {"active"}
Closed == {"deleted", "purging"}
TenantStatuses == Accessible \cup Closed \cup {"suspended"}

\* Operations that authorize through can(), and what they ask it for. "act" is
\* any protected operation on the tenant's own data.
Needs(a) == IF a.op = "act" THEN "data" ELSE "authority"

\* Requesting support access needs no permission, nor do the operations of
\* the platform operator and the purge, which authorize elsewhere.
Unguarded == {"request_support", "transition", "move", "deactivate", "purge_support",
              "purge_authorization"}

\* Operations that may pass on only what the caller holds by membership.
Conveying == {"assign_role", "assign_account_role", "delegate", "delegate_account",
              "grant_permission"}

-----------------------------------------------------------------------------
(* The decision.                                                           *)

Above(d, t) == IF d.parent[t] = NoTenant THEN {} ELSE {d.parent[t]}
Reaching(d, t, g) == \/ g.tenant = t
                     \/ g.scope = "subtree" /\ g.tenant \in Above(d, t)

Member(d, p, t) == IF p \in Users THEN d.member[p][t] ELSE "active"

\* _tenant_grants_permission and its service-account counterpart.
RoleGrants(d, p, t, perm, scopes) ==
    /\ Member(d, p, t) = "active"
    /\ d.status[t] \in Accessible
    /\ perm \in d.carries[t]
    /\ \E g \in d.roles : g.who = p /\ g.tenant = t /\ g.scope \in scopes

\* _tenant_grants_permission_via_delegation: a delegate who is no member is fine.
DelegationGrants(d, p, t, perm, scopes, valid) ==
    /\ Member(d, p, t) \in {"none", "active"}
    /\ d.status[t] \in Accessible
    /\ \E g \in d.delegations : /\ g.who = p /\ g.tenant = t /\ g.perm = perm
                                /\ g.scope \in scopes /\ g.state \in valid

\* _actor_is_denied: at the target in either scope, at an ancestor by SUBTREE.
Denied(d, p, t, perm) ==
    \E g \in d.denies : g.who = p /\ g.perm = perm /\ Reaching(d, t, g)

\* _tenant_grants_support_access: never for a permission that changes authority.
SupportGrants(d, p, t, perm, scopes, valid) ==
    /\ perm = "data"
    /\ p \in Users
    /\ d.status[t] \notin Closed
    /\ LET s == d.support[p]
       IN  /\ s.tenant = t /\ s.scope \in scopes
           /\ s.approver # NoUser /\ s.denier = NoUser /\ ~s.revoked /\ s.window \in valid

Scopes(t, candidate) == IF candidate = t THEN {"self", "subtree"} ELSE {"subtree"}

\* The answer of can() at one instant.
Can(d, p, t, perm, valid) ==
    /\ d.status[t] \notin Closed
    /\ p \in d.active
    /\ ~Denied(d, p, t, perm)
    /\ \E c \in {t} \cup Above(d, t) :
          \/ /\ d.status[t] \in Accessible
             /\ \/ RoleGrants(d, p, c, perm, Scopes(t, c))
                \/ DelegationGrants(d, p, c, perm, Scopes(t, c), valid)
          \/ SupportGrants(d, p, c, perm, Scopes(t, c), valid)

\* _actor_reaches_tenant_at_scope: by membership alone.
ReachScopes(scope) == IF scope = "self" THEN {"self", "subtree"} ELSE {"subtree"}
Reaches(d, p, t, perm, scope) ==
    \/ RoleGrants(d, p, t, perm, ReachScopes(scope))
    \/ \E c \in Above(d, t) : RoleGrants(d, p, c, perm, {"subtree"})

\* What a conveying operation would pass on.
Conveyed(d, a) ==
    IF a.op \in {"assign_role", "assign_account_role"} THEN d.carries[a.at] ELSE {a.perm}
ConveyedScope(a) == IF a.op = "grant_permission" THEN "self" ELSE a.scope

-----------------------------------------------------------------------------
(* Locks. *)

TenantRow(t) == <<"tenant", t>>
PrincipalRow(p) == <<"principal", p>>
MemberRow(p, t) == <<"member", p, t>>
RoleRow(p, t) == <<"role", p, t>>
CarriesRow(t, perm) == <<"carries", t, perm>>
DelegationRow(p, t) == <<"delegation", p, t>>
SupportRow(p) == <<"support", p>>

\* The rows a candidate's queries share-lock: its membership, if there is one to
\* lock, the tenant, and the rows that grant.
CandidateRows(d, p, c) ==
    {TenantRow(c)} \cup (IF Member(d, p, c) = "none" THEN {} ELSE {MemberRow(p, c)})

\* The subtree rows move_tenant locks are the moved tenant's own: the
\* modelled hierarchy is two levels deep.
WritesWithoutPrincipal(d, a) ==
    CASE a.op = "transition"        -> {TenantRow(a.at)}
      [] a.op = "move"              -> {TenantRow(a.at)}
      [] a.op = "deactivate"        -> {PrincipalRow(a.who)}
      [] a.op = "disable_account"   -> {PrincipalRow(a.who)}
      [] a.op = "end_membership"    -> {MemberRow(a.who, a.at)}
      [] a.op \in {"remove_role", "remove_account_role"} -> {RoleRow(a.who, a.at)}
      [] a.op = "revoke_permission" -> {CarriesRow(a.at, a.perm)}
      [] a.op = "revoke_delegation" -> {DelegationRow(a.who, a.at)}
      [] a.op \in {"approve_support", "deny_support", "revoke_support"} -> {SupportRow(a.who)}
      [] a.op = "purge_support"     -> {SupportRow(u) : u \in Users}
      [] a.op = "purge_authorization" ->
            {CarriesRow(a.at, perm) : perm \in TenantPermissions}
            \cup {RoleRow(p, a.at) : p \in Principals} \cup {DelegationRow(p, a.at) : p \in Principals}
      [] OTHER                      -> {}

\* A deny is an insert: it locks the denied principal's row instead.
Writes(d, a) ==
    IF a.op \in {"deny", "deny_account"} THEN {PrincipalRow(a.who)}
                                         ELSE WritesWithoutPrincipal(d, a)

Free(c, locked) == \A o \in Txns \ {c} : shared[o] \cap locked = {}

-----------------------------------------------------------------------------
(* What the operations change.                                             *)

RowFor(a) == [who |-> a.who, tenant |-> a.at, scope |-> a.scope]
OfPrincipal(S, a) == {g \in S : g.who = a.who /\ g.tenant = a.at}

AssignRole(d, a) ==
    IF OfPrincipal(d.roles, a) # {} \/ Member(d, a.who, a.at) = "none" THEN d
    ELSE [d EXCEPT !.roles = @ \cup {RowFor(a)}]
AssignServiceAccountRole(d, a) == AssignRole(d, a)
RemoveRole(d, a) == [d EXCEPT !.roles = @ \ OfPrincipal(@, a)]
RemoveServiceAccountRole(d, a) == RemoveRole(d, a)

GrantPermission(d, a) == [d EXCEPT !.carries[a.at] = @ \cup {a.perm}]
RevokePermission(d, a) == [d EXCEPT !.carries[a.at] = @ \ {a.perm}]

\* One live delegation of a permission to a delegate in a scope.
CreateDelegation(d, a) ==
    LET row == [who |-> a.who, tenant |-> a.at, scope |-> a.scope, perm |-> a.perm,
                by |-> a.by, state |-> "valid"]
    IN  IF \E g \in OfPrincipal(d.delegations, a) :
               g.perm = a.perm /\ g.scope = a.scope /\ g.state # "revoked"
        THEN d ELSE [d EXCEPT !.delegations = @ \cup {row}]
CreateDelegationToServiceAccount(d, a) == CreateDelegation(d, a)
RevokeDelegation(d, a) ==
    [d EXCEPT !.delegations = {IF g \in OfPrincipal(@, a) THEN [g EXCEPT !.state = "revoked"]
                                                          ELSE g : g \in @}]

CreateDeny(d, a) ==
    [d EXCEPT !.denies = @ \cup {[who |-> a.who, tenant |-> a.at, scope |-> a.scope,
                                  perm |-> a.perm]}]
CreateDenyForServiceAccount(d, a) == CreateDeny(d, a)
RevokeDeny(d, a) == [d EXCEPT !.denies = @ \ OfPrincipal(@, a)]

AddMembership(d, a) ==
    IF d.member[a.who][a.at] = "none" THEN [d EXCEPT !.member[a.who][a.at] = "active"] ELSE d
EndMembership(d, a) ==
    IF d.member[a.who][a.at] = "active" THEN [d EXCEPT !.member[a.who][a.at] = "suspended"] ELSE d
DeactivateMember(d, a) == [d EXCEPT !.active = @ \ {a.who}]
DisableServiceAccount(d, a) == [d EXCEPT !.active = @ \ {a.who}]

TenantSteps == [active |-> {"suspended", "deleted"}, suspended |-> {"active", "deleted"},
                deleted |-> {"purging"}, purging |-> {}]
TransitionTenant(d, a) ==
    IF a.to \in TenantSteps[d.status[a.at]] THEN [d EXCEPT !.status[a.at] = a.to] ELSE d
MoveTenant(d, a) == [d EXCEPT !.parent[a.at] = a.to]

\* One live request of a requester.
Undecided(s) == s.approver = NoUser /\ s.denier = NoUser
RequestSupport(d, a) ==
    LET s == d.support[a.by]
    IN  IF s.tenant # NoTenant /\ s.denier = NoUser /\ ~s.revoked THEN d
        ELSE [d EXCEPT !.support[a.by] =
                 [tenant |-> a.at, scope |-> a.scope, approver |-> NoUser, denier |-> NoUser,
                  revoked |-> FALSE, window |-> "open"]]

ApproveUnchecked(d, a) == [d EXCEPT !.support[a.who].approver = a.by]

\* The row is read again, locked, before it is decided.
ApproveSupportAccess(d, a) ==
    IF Undecided(d.support[a.who]) THEN [d EXCEPT !.support[a.who].approver = a.by] ELSE d
DenySupportAccess(d, a) ==
    IF Undecided(d.support[a.who]) THEN [d EXCEPT !.support[a.who].denier = a.by] ELSE d
RevokeSupportAccess(d, a) ==
    IF d.support[a.who].approver # NoUser
    THEN [d EXCEPT !.support[a.who].revoked = TRUE] ELSE d

Live(s, t) == s.tenant = t /\ s.approver # NoUser /\ s.denier = NoUser /\ ~s.revoked
RevokeTenantSelfAccess(d, a) ==
    [d EXCEPT !.support = [u \in Users |-> IF Live(@[u], a.at) /\ @[u].scope = "self"
                                           THEN [@[u] EXCEPT !.revoked = TRUE] ELSE @[u]],
              !.swept = @ \cup {a.at}]
RevokeTenantSupportAccess(d, a) ==
    [d EXCEPT !.support = [u \in Users |-> IF Live(@[u], a.at)
                                           THEN [@[u] EXCEPT !.revoked = TRUE] ELSE @[u]],
              !.swept = @ \cup {a.at}]

\* Which delegations of the tenant stay: those its audit entries name (d.cited).
Cited(d, a) == {g \in d.delegations : g.tenant = a.at /\ g.who \in d.cited}

PurgeWithoutRevoking(d, a) ==
    LET other(S) == {g \in S : g.tenant # a.at}
    IN  [d EXCEPT !.roles = other(@), !.carries[a.at] = {}, !.denies = other(@),
                  !.delegations = other(@) \cup Cited(d, a), !.cleared = @ \cup {a.at}]

\* Roles, what they carry and denies go; every delegation is revoked, and then
\* deleted unless an audit entry names it.
PurgeTenantAuthorization(d, a) ==
    LET other(S) == {g \in S : g.tenant # a.at}
    IN  [d EXCEPT !.roles = other(@), !.carries[a.at] = {}, !.denies = other(@),
                  !.delegations = other(@) \cup {[g EXCEPT !.state = "revoked"] : g \in Cited(d, a)},
                  !.cleared = @ \cup {a.at}]

Effect(d, a) ==
    CASE a.op = "act"                 -> d
      [] a.op = "assign_role"         -> AssignRole(d, a)
      [] a.op = "assign_account_role" -> AssignServiceAccountRole(d, a)
      [] a.op = "remove_role"         -> RemoveRole(d, a)
      [] a.op = "remove_account_role" -> RemoveServiceAccountRole(d, a)
      [] a.op = "grant_permission"    -> GrantPermission(d, a)
      [] a.op = "revoke_permission"   -> RevokePermission(d, a)
      [] a.op = "delegate"            -> CreateDelegation(d, a)
      [] a.op = "delegate_account"    -> CreateDelegationToServiceAccount(d, a)
      [] a.op = "revoke_delegation"   -> RevokeDelegation(d, a)
      [] a.op = "deny"                -> CreateDeny(d, a)
      [] a.op = "deny_account"        -> CreateDenyForServiceAccount(d, a)
      [] a.op = "revoke_deny"         -> RevokeDeny(d, a)
      [] a.op = "add_membership"      -> AddMembership(d, a)
      [] a.op = "end_membership"      -> EndMembership(d, a)
      [] a.op = "deactivate"          -> DeactivateMember(d, a)
      [] a.op = "disable_account"     -> DisableServiceAccount(d, a)
      [] a.op = "transition"          -> TransitionTenant(d, a)
      [] a.op = "move"                -> MoveTenant(d, a)
      [] a.op = "request_support"     -> RequestSupport(d, a)
      [] a.op = "approve_support"     -> ApproveSupportAccess(d, a)
      [] a.op = "deny_support"        -> DenySupportAccess(d, a)
      [] a.op = "revoke_support"      -> RevokeSupportAccess(d, a)
      [] a.op = "purge_support"       -> RevokeTenantSupportAccess(d, a)
      [] a.op = "purge_authorization" -> PurgeTenantAuthorization(d, a)

-----------------------------------------------------------------------------
(* A transaction.                                                          *)

\* The unlocked checks an operation makes before it opens its transaction.
OpensOpenTenant == Conveying \cup {"deny", "deny_account", "request_support", "approve_support"}
MayStart(d, a) ==
    /\ a.op \in OpensOpenTenant => d.status[a.at] \notin Closed
    /\ a.op \in {"purge_support", "purge_authorization"} => d.status[a.at] = "purging"
    /\ a.op \in {"approve_support", "deny_support"} =>
          d.support[a.who].tenant = a.at /\ Undecided(d.support[a.who])
    /\ a.op = "approve_support" => a.by # a.who
    /\ a.op = "revoke_support" =>
          d.support[a.who].tenant = a.at /\ d.support[a.who].approver # NoUser

\* The delegator revokes a delegation without asking can().
OwnDelegation(d, a) ==
    /\ a.op = "revoke_delegation"
    /\ \A g \in OfPrincipal(d.delegations, a) : g.by = a.by

NoWork == [step |-> "idle"]
AtStep(c, step) == work[c].step = step
Ask(c) == work[c].ask
Go(c, step) == work' = [work EXCEPT ![c].step = step]
Share(c, locked) == shared' = [shared EXCEPT ![c] = @ \cup locked]
End(c) == /\ work' = [work EXCEPT ![c] = NoWork]
          /\ shared' = [shared EXCEPT ![c] = {}]
          /\ UNCHANGED rows

\* _decide begins with the target tenant's row. Any idle connection will do.
LockTarget(c, a) ==
    /\ rows.status[a.at] \notin Closed
    /\ work' = [work EXCEPT ![c] =
          [step |-> "principal", ask |-> a, left |-> {}, passes |-> {}, guarded |-> TRUE,
           stranger |-> FALSE,
           admits |-> rows.status[a.at] \in Accessible]]
    /\ Share(c, {TenantRow(a.at)})

Open(c, a) ==
    /\ work[c].step \in {"idle", "done"}
    /\ c = CHOOSE o \in Txns : work[o].step \in {"idle", "done"}
    /\ a \in pending
    /\ MayStart(rows, a)
    /\ pending' = pending \ {a}
    /\ \/ /\ a.op \in Unguarded \/ OwnDelegation(rows, a)
          /\ work' = [work EXCEPT ![c] = [step |-> "change", ask |-> a, guarded |-> FALSE]]
          /\ UNCHANGED shared
       \/ ~(a.op \in Unguarded \/ OwnDelegation(rows, a)) /\ LockTarget(c, a)
    /\ UNCHANGED rows

LockPrincipal(c) ==
    /\ AtStep(c, "principal")
    /\ UNCHANGED pending
    /\ IF Ask(c).by \notin rows.active THEN End(c)
       ELSE Go(c, "deny") /\ Share(c, {PrincipalRow(Ask(c).by)}) /\ UNCHANGED rows

\* The deny queries, and the walk up the ancestors that follows them.
CheckDenied(c) ==
    /\ AtStep(c, "deny")
    /\ UNCHANGED pending
    /\ IF Denied(rows, Ask(c).by, Ask(c).at, Needs(Ask(c))) THEN End(c)
       ELSE /\ work' = [work EXCEPT ![c].step = IF work[c].admits THEN "grants" ELSE "support",
                                    ![c].left = {Ask(c).at} \cup Above(rows, Ask(c).at)]
            /\ UNCHANGED <<rows, shared>>

\* A granted decision goes on to the rule that nothing is passed on that the
\* caller does not hold.
Granted(c) == IF Ask(c).op \in Conveying THEN "reach" ELSE "change"

\* The target before its ancestors.
NextCandidate(c, k) == k \in work[c].left /\ (Ask(c).at \in work[c].left => k = Ask(c).at)

\* Role and delegation at one candidate.
TryCandidate(c, k) ==
    LET a == Ask(c)
        scopes == Scopes(a.at, k)
        base == CandidateRows(rows, a.by, k)
        last == work[c].left = {k}
    IN  /\ AtStep(c, "grants")
        /\ NextCandidate(c, k)
        /\ \/ /\ RoleGrants(rows, a.by, k, Needs(a), scopes)
              /\ Share(c, base \cup {RoleRow(a.by, k), CarriesRow(k, Needs(a))})
              /\ Go(c, Granted(c))
           \/ /\ ~RoleGrants(rows, a.by, k, Needs(a), scopes)
              /\ DelegationGrants(rows, a.by, k, Needs(a), scopes, {"valid"})
              /\ Share(c, base \cup {DelegationRow(a.by, k)})
              /\ work' = [work EXCEPT ![c].step = Granted(c),
                                      ![c].stranger = Member(rows, a.by, k) = "none"]
           \/ /\ ~RoleGrants(rows, a.by, k, Needs(a), scopes)
              /\ ~DelegationGrants(rows, a.by, k, Needs(a), scopes, {"valid"})
              /\ Share(c, base)
              /\ work' = [work EXCEPT ![c].left = IF last THEN {a.at} \cup Above(rows, a.at)
                                                          ELSE @ \ {k},
                                      ![c].step = IF last THEN "support" ELSE @]
        /\ UNCHANGED <<rows, pending>>

\* Support access, checked last.
TrySupport(c, k) ==
    LET a == Ask(c)
        grants == SupportGrants(rows, a.by, k, Needs(a), Scopes(a.at, k), {"open"})
    IN  /\ AtStep(c, "support")
        /\ NextCandidate(c, k)
        /\ UNCHANGED pending
        /\ \/ grants /\ Go(c, Granted(c)) /\ Share(c, {TenantRow(k), SupportRow(a.by)})
              /\ UNCHANGED rows
           \/ ~grants /\ work[c].left = {k} /\ End(c)
           \/ /\ ~grants /\ work[c].left # {k}
              /\ work' = [work EXCEPT ![c].left = @ \ {k}]
              /\ UNCHANGED <<rows, shared>>

Reached(a) ==
    /\ a.by \in Users
    /\ \A perm \in Conveyed(rows, a) : Reaches(rows, a.by, a.at, perm, ConveyedScope(a))

RequireReachUnlocked(c) ==
    /\ AtStep(c, "reach")
    /\ UNCHANGED pending
    /\ IF ~Reached(Ask(c)) THEN End(c)
       ELSE /\ work' = [work EXCEPT ![c].step = "change", ![c].passes = Conveyed(rows, Ask(c))]
            /\ UNCHANGED <<rows, shared>>

\* _require_no_amplification, and the same rule in assign_role and create_delegation.
RequireReach(c) ==
    LET a == Ask(c)
        perms == Conveyed(rows, a)
        candidates == {a.at} \cup Above(rows, a.at)
    IN  /\ AtStep(c, "reach")
        /\ UNCHANGED pending
        /\ IF ~Reached(a) THEN End(c)
           ELSE /\ work' = [work EXCEPT ![c].step = "change", ![c].passes = perms]
                /\ Share(c, UNION {CandidateRows(rows, a.by, k) : k \in candidates}
                             \cup {RoleRow(a.by, k) : k \in candidates}
                             \cup {CarriesRow(k, perm) : k \in candidates, perm \in perms})
                /\ UNCHANGED rows

Commit(c) ==
    /\ AtStep(c, "change")
    /\ Free(c, Writes(rows, Ask(c)))
    /\ rows' = Effect(rows, Ask(c))
    /\ work' = [work EXCEPT ![c] = [step |-> "done"]]
    /\ shared' = [shared EXCEPT ![c] = {}]
    /\ UNCHANGED pending

\* Any error, a broken deadlock included.
RollBack(c) ==
    /\ work[c].step \notin {"idle", "done"}
    /\ End(c)
    /\ UNCHANGED pending

\* The end of a delegation's or a support grant's time.
Lapse ==
    /\ rows' \in {[rows EXCEPT !.delegations = {IF g = h THEN [g EXCEPT !.state = "expired"]
                                                       ELSE h : h \in @}]
                     : g \in {h \in rows.delegations : h.state = "valid"}}
              \cup {[rows EXCEPT !.support[u].window = "over"]
                     : u \in {v \in Users : rows.support[v].window = "open"}}
    /\ UNCHANGED <<work, shared, pending>>

AuthorizationInit ==
    /\ \E s \in Scenarios : rows = s.rows /\ pending = s.asks
    /\ work = [c \in Txns |-> NoWork]
    /\ shared = [c \in Txns |-> {}]

AuthorizationNext ==
    \/ \E c \in Txns, a \in pending : Open(c, a)
    \/ \E c \in Txns : LockPrincipal(c)
    \/ \E c \in Txns : CheckDenied(c)
    \/ \E c \in Txns, k \in Tenants : TryCandidate(c, k)
    \/ \E c \in Txns, k \in Tenants : TrySupport(c, k)
    \/ \E c \in Txns : RequireReach(c)
    \/ \E c \in Txns : Commit(c)
    \/ \E c \in Txns : RollBack(c)
    \/ Lapse

AuthorizationSpec == AuthorizationInit /\ [][AuthorizationNext]_authorizationVars

-----------------------------------------------------------------------------
(* Properties. *)

AnyTime == {"valid", "expired", "open", "over"}
Commits(c) == work[c].step = "change" /\ work'[c].step = "done" /\ work[c].guarded

StillAuthorized(a) == Can(rows, a.by, a.at, Needs(a), AnyTime)

AuthorizedUntilCommitStep ==
    \A c \in Txns : Commits(c) /\ ~work[c].stranger
                       => StillAuthorized(work[c].ask)

\* When an authorized operation commits, can() would still say yes on the committed
\* rows, leaving aside time that ran out since. A delegate who was no member when
\* the decision was made is excepted: there was no membership to lock.
AuthorizedUntilCommit == [][AuthorizedUntilCommitStep]_authorizationVars

\* The docstring of can(): a revocation never commits between a decision and the
\* operation it authorizes, whoever the caller is.
NoRevocationBetween ==
    [][\A c \in Txns : Commits(c) => StillAuthorized(work[c].ask)]_authorizationVars

ConveysWhatIsHeldStep ==
    \A c \in Txns : Commits(c) /\ work[c].ask.op \in Conveying =>
       LET a == work[c].ask
       IN  \A perm \in work[c].passes :
              Reaches(rows, a.by, a.at, perm, ConveyedScope(a))

\* What a conveying operation passes on, its caller still holds by membership at
\* the commit (_actor_reaches_tenant_at_scope).
ConveysWhatIsHeld == [][ConveysWhatIsHeldStep]_authorizationVars

SupportDecisionStandsStep ==
    \A u \in Users :
       LET s == rows.support[u]  n == rows'.support[u]
       IN  ~Undecided(s) /\ n.tenant = s.tenant /\ ~Undecided(n) =>
              n.approver = s.approver /\ n.denier = s.denier

\* The first decision on a support request stands: nobody approves what was
\* denied, and a second approver does not replace the first.
SupportDecisionStands == [][SupportDecisionStandsStep]_authorizationVars

\* After the purge revoked a tenant's support grants, none of them is live again.
NoSupportAfterPurge ==
    \A t \in rows.swept, u \in Users : ~Live(rows.support[u], t)

\* Once purge_tenant_authorization ran, the tenant has no role and no deny, and
\* what delegation is kept for the audit log is revoked: no operation that was
\* authorized before the tenant closed adds one afterwards.
PurgedConfersNothing ==
    \A t \in rows.cleared :
        /\ rows.carries[t] = {}
        /\ \A g \in rows.roles \cup rows.denies : g.tenant # t
        /\ \A g \in rows.delegations : g.tenant = t => g.state = "revoked"
================================================================================
