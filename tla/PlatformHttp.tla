----------------------------- MODULE PlatformHttp -----------------------------
(***************************************************************************)
(* A platform operator's HTTP request: the gate of the route (enabled,      *)
(* session, rate limit, operator, multi-factor, freshness, permission), the *)
(* core operation behind it, which authorises again in its own transaction, *)
(* and the answer.  Every step of the gate reads in a transaction of its    *)
(* own; the session, the operator and their grants may change in between.   *)
(*                                                                         *)
(* Before any request there is the startup check: the product mounts its    *)
(* routers, and the application is served only if every route declares one  *)
(* policy (api/route_policy.py).                                           *)
(***************************************************************************)
EXTENDS Integers, FiniteSets, Sequences

CONSTANTS Worlds,      \* what a request may meet (see World)
          MaxUpsets,   \* how often that changes while the request runs
          Registrations, \* the routes a product may mount (see Registration)
          MaxMounted     \* how many it mounts

VARIABLES world,       \* the session, the operator and the tenant as they are now
          visit,       \* the request: its route, how far it got, the answer
          seen,        \* what the gate read of the session
          record,      \* the audit rows it left
          upsets,      \* changes made meanwhile
          mounted,     \* the routes mounted, in the order of their registration
          startup      \* "assembling", then "serving" or "refused"

visitVars == <<world, visit, seen, record, upsets, mounted, startup>>

\* The operator and the session behind a request, and the tenant it names.
World(enabled, production, multiFactorRequired, session, multiFactor, age, operator, granted, steward, tenant) ==
    [enabled |-> enabled, production |-> production, multiFactorRequired |-> multiFactorRequired, session |-> session,
     multiFactor |-> multiFactor, age |-> age, operator |-> operator, granted |-> granted,
     steward |-> steward, tenant |-> tenant]

-----------------------------------------------------------------------------
(* The operations and the permission each requires. *)

\* Operations gated by a permission that gates no other operation, called by the operation's name.
OwnPermission ==
    {"tenant.read", "user.read", "operator.read", "audit.read", "billing.read", "feature_flag.read",
     "tenant.suspend", "tenant.reactivate", "tenant.move", "tenant.delete",
     "user.deactivate", "user.reactivate", "session.revoke", "api_key.revoke",
     "feature_flag.define", "feature_flag.override", "ai_config.read", "ai_usage.read",
     "outbox.replay", "webhook_secret.reencrypt", "permission_grant.apply",
     "ai_provider.configure", "ai_endpoint_trust.configure", "ai_policy.configure"}

TenantCreation == {"tenant.create_root", "tenant.create_child", "tenant.activate"}

RetentionReport ==
    {"ledger.retention_report", "ledger.expired_delete", "ledger.deletion_read",
     "ledger.deletion_request", "ledger.deletion_approve", "ledger.deletion_execution_authorize", "ledger.approver_enrol",
     "ledger.approver_revoke_by_representative"}

RetentionHold ==
    {"ledger.hold_place", "ledger.hold_release", "ledger.hold_read", "ledger.representative_confirm",
     "ledger.representative_revoke_by_security", "ledger.approver_revoke_by_security"}

RegisterReads == {"ledger.approver_register_read", "ledger.approver_eligibility_read"}

AuthorityManaged ==
    {"operator.enroll", "operator.suspend", "operator.reactivate", "operator.revoke",
     "grant.create", "grant.revoke", "ledger.representative_propose",
     "ledger.representative_revoke_by_owner"}

PermissionOf(op) ==
    CASE op \in OwnPermission -> op
      [] op \in TenantCreation -> "tenant.create"
      [] op \in RetentionReport -> "retention.report"
      [] op \in RetentionHold -> "retention_hold.manage"
      [] op \in RegisterReads -> "audit.read"
      [] op \in AuthorityManaged -> "authority.manage"

-----------------------------------------------------------------------------
(* PLATFORM_ROUTES: every route with its permission, operation and freshness. *)

Route(path, permission, op, fresh) == [path |-> path, permission |-> permission, op |-> op, fresh |-> fresh]

ReadRoutes ==
    {Route("GET tenants", "tenant.read", "tenant.read", FALSE),
     Route("GET tenants/id", "tenant.read", "tenant.read", FALSE),
     Route("GET users/id", "user.read", "user.read", FALSE),
     Route("POST users/resolve", "user.read", "user.read", FALSE),
     Route("GET operators", "operator.read", "operator.read", FALSE),
     Route("GET grants", "operator.read", "operator.read", FALSE),
     Route("GET audit", "audit.read", "audit.read", FALSE),
     Route("GET billing", "billing.read", "billing.read", FALSE),
     Route("GET flags", "feature_flag.read", "feature_flag.read", FALSE),
     Route("GET tenants/id/flags", "feature_flag.read", "feature_flag.read", FALSE)}

ChangeRoutes ==
    {Route("POST tenants", "tenant.create", "tenant.create_root", FALSE),
     Route("POST tenants/id/activate", "tenant.create", "tenant.activate", FALSE),
     Route("POST tenants/id/suspend", "tenant.suspend", "tenant.suspend", FALSE),
     Route("POST tenants/id/reactivate", "tenant.reactivate", "tenant.reactivate", FALSE),
     Route("POST users/id/deactivate", "user.deactivate", "user.deactivate", FALSE),
     Route("POST users/id/reactivate", "user.reactivate", "user.reactivate", FALSE),
     Route("POST users/id/sessions/revoke", "session.revoke", "session.revoke", FALSE),
     Route("POST users/id/api-keys/revoke", "api_key.revoke", "api_key.revoke", FALSE),
     Route("POST flags", "feature_flag.define", "feature_flag.define", FALSE),
     Route("PUT tenants/id/flags/key", "feature_flag.override", "feature_flag.override", FALSE),
     Route("DELETE tenants/id/flags/key", "feature_flag.override", "feature_flag.override", FALSE)}

AuthorityRoutes ==
    {Route("POST operators", "authority.manage", "operator.enroll", TRUE),
     Route("POST operators/id/suspend", "authority.manage", "operator.suspend", TRUE),
     Route("POST operators/id/reactivate", "authority.manage", "operator.reactivate", TRUE),
     Route("POST operators/id/revoke", "authority.manage", "operator.revoke", TRUE),
     Route("POST operators/id/grants", "authority.manage", "grant.create", TRUE),
     Route("POST operators/id/grants/revoke", "authority.manage", "grant.revoke", TRUE)}

LedgerRoutes ==
    {Route("POST report", "retention.report", "ledger.retention_report", FALSE),
     Route("GET holds", "retention_hold.manage", "ledger.hold_read", FALSE),
     Route("POST holds", "retention_hold.manage", "ledger.hold_place", FALSE),
     Route("POST holds/id/release", "retention_hold.manage", "ledger.hold_release", TRUE),
     Route("POST requests", "retention.report", "ledger.deletion_request", FALSE),
     Route("GET requests", "retention.report", "ledger.deletion_read", FALSE),
     Route("GET requests/id", "retention.report", "ledger.deletion_read", FALSE),
     Route("POST requests/id/approve", "retention.report", "ledger.deletion_approve", TRUE),
     Route("POST requests/id/authorize", "retention.report", "ledger.deletion_execution_authorize", TRUE)}

RegisterRoutesStale ==
    {Route("GET register", "audit.read", "ledger.approver_register_read", FALSE),
     Route("GET eligibility", "audit.read", "ledger.approver_eligibility_read", FALSE),
     Route("POST representatives/proposals", "authority.manage", "ledger.representative_propose", FALSE)}

RegisterRoutes ==
    {Route("GET register", "audit.read", "ledger.approver_register_read", FALSE),
     Route("GET eligibility", "audit.read", "ledger.approver_eligibility_read", FALSE),
     Route("POST representatives/proposals", "authority.manage", "ledger.representative_propose", TRUE),
     Route("POST proposals/confirm", "retention_hold.manage", "ledger.representative_confirm", TRUE),
     Route("POST designations/revoke", "authority.manage", "ledger.representative_revoke_by_owner", TRUE),
     Route("POST designations/security-revoke", "retention_hold.manage",
           "ledger.representative_revoke_by_security", TRUE),
     Route("POST enrolments", "retention.report", "ledger.approver_enrol", TRUE),
     Route("POST enrolments/revoke", "retention.report", "ledger.approver_revoke_by_representative", TRUE),
     Route("POST enrolments/security-revoke", "retention_hold.manage",
           "ledger.approver_revoke_by_security", TRUE)}

Routes == ReadRoutes \cup ChangeRoutes \cup AuthorityRoutes \cup LedgerRoutes \cup RegisterRoutes

-----------------------------------------------------------------------------
(* What the core operation behind a route may refuse with, once authorised. *)

Pages == {"InvalidRequest", "ReadTimeout", "OperationTimeout"}
Tenants == {"InvalidRequest", "TenantNotFound", "OperationTimeout"}

TenantRefusals(op) ==
    CASE op \in {"tenant.create_root", "tenant.create_child"} ->
            Tenants \cup {"TenantParentRule", "TenantClosed", "HierarchyDepthExceeded"}
      [] op \in {"tenant.activate", "tenant.reactivate"} -> Tenants \cup {"InvalidTransition"}
      [] op = "tenant.suspend" -> Tenants \cup {"InvalidTransition", "LastTenantAdministrator"}

UserRefusals(op) ==
    {"InvalidRequest", "SubjectNotFound", "OperationTimeout"} \cup
    CASE op = "user.deactivate" -> {"InvalidUserState", "LastTenantAdministrator", "LastPlatformOwner",
                                    "SelfTarget", "ScanLimit", "DeactivationRetry"}
      [] op = "user.reactivate" -> {"InvalidUserState"}
      [] op \in {"session.revoke", "api_key.revoke"} -> {}

FlagRefusals(op) ==
    CASE op = "feature_flag.define" -> {"InvalidFlagKey", "DuplicateFlagKey", "OperationTimeout"}
      [] op = "feature_flag.override" -> Tenants \cup {"FlagNotFound", "TenantClosed", "TransactionConflict"}

OperatorRefusals(op) ==
    {"InvalidRequest", "SelfAuthorityChange", "OperationTimeout"} \cup
    CASE op = "operator.enroll" -> {"SubjectNotFound", "SubjectNotLinked", "InactiveSubject", "AlreadyEnrolled"}
      [] op \in {"operator.suspend", "operator.revoke"} ->
            {"OperatorNotFound", "InvalidOperatorState", "LastPlatformOwner"}
      [] op = "operator.reactivate" -> {"OperatorNotFound", "InvalidOperatorState", "InactiveSubject", "SubjectNotLinked"}
      [] op = "grant.create" -> {"OperatorNotFound", "InvalidOperatorState", "DuplicateGrant", "Amplification"}
      [] op = "grant.revoke" -> {"OperatorNotFound", "GrantNotFound", "LastPlatformOwner"}

HoldRefusals(op) ==
    {"LedgerInvalid", "InvalidRequest", "OperationTimeout"} \cup
    CASE op = "ledger.hold_place" -> {"HoldTenantNotFound", "HoldAlreadyActive"}
      [] op = "ledger.hold_release" -> {"HoldNotFound", "HoldAlreadyReleased"}
      [] op = "ledger.hold_read" -> {"ReadTimeout"}
      [] op = "ledger.retention_report" -> {}

DeletionRefusals(op) ==
    {"LedgerInvalid", "InvalidRequest", "OperationTimeout", "RecordNotFound"} \cup
    (IF op = "ledger.deletion_read" THEN {"ReadTimeout"} ELSE {"ConfirmationMismatch", "ApprovalRefused"})

RegisterRefusals(op) ==
    {"LedgerInvalid", "InvalidRequest", "OperationTimeout", "RecordNotFound"} \cup
    (IF op \in RegisterReads THEN {"ReadTimeout"} ELSE {"ApprovalRefused"})

Reads == {"tenant.read", "user.read", "operator.read", "audit.read", "billing.read", "feature_flag.read"}

ReadRefusals(op) ==
    Pages \cup CASE op \in {"tenant.read", "feature_flag.read"} -> {"TenantNotFound"}
                 [] op = "user.read" -> {"UserNotResolved"}
                 [] OTHER -> {}

Refusals(op) ==
    CASE op \in Reads -> ReadRefusals(op)
      [] op \in TenantCreation \cup {"tenant.suspend", "tenant.reactivate"} -> TenantRefusals(op)
      [] op \in {"user.deactivate", "user.reactivate", "session.revoke", "api_key.revoke"} -> UserRefusals(op)
      [] op \in {"feature_flag.define", "feature_flag.override"} -> FlagRefusals(op)
      [] op \in {"operator.enroll", "operator.suspend", "operator.reactivate", "operator.revoke",
                 "grant.create", "grant.revoke"} -> OperatorRefusals(op)
      [] op \in {"ledger.retention_report", "ledger.hold_read", "ledger.hold_place", "ledger.hold_release"} ->
            HoldRefusals(op)
      [] op \in {"ledger.deletion_request", "ledger.deletion_read", "ledger.deletion_approve",
                 "ledger.deletion_execution_authorize"} -> DeletionRefusals(op)
      [] OTHER -> RegisterRefusals(op)

\* Subclasses of PlatformRefusalError (besides "not authorised") and of the ledger's own
\* error: the core records a refusal row for these.
AuthorityRefusal ==
    {"TenantParentRule", "SelfAuthorityChange", "SubjectNotLinked", "Amplification", "LastPlatformOwner",
     "SelfTarget", "ScanLimit"}

LedgerRefusal ==
    {"LedgerInvalid", "HoldTenantNotFound", "HoldAlreadyActive", "HoldNotFound", "HoldAlreadyReleased",
     "RecordNotFound", "ConfirmationMismatch", "ApprovalRefused"}

-----------------------------------------------------------------------------
(* _translated: the answer for a refusal; anything else is an internal error. *)

\* RETENTION_STATUS and _retention_response.
RetentionStatus(error) ==
    CASE error = "LedgerInvalid" -> 400
      [] error \in {"HoldTenantNotFound", "HoldNotFound", "RecordNotFound"} -> 404
      [] error \in {"HoldAlreadyActive", "HoldAlreadyReleased", "ConfirmationMismatch", "ApprovalRefused"} -> 409

NotFound == {"TenantNotFound", "SubjectNotFound", "UserNotResolved", "OperatorNotFound", "GrantNotFound", "FlagNotFound"}

Conflicts ==
    {"InvalidTransition", "TenantClosed", "HierarchyDepthExceeded", "InvalidUserState", "LastTenantAdministrator",
     "AlreadyEnrolled", "InvalidOperatorState", "InactiveSubject", "DuplicateGrant", "DuplicateFlagKey"}

RetryLater == {"ReadTimeout", "OperationTimeout", "DeactivationRetry", "TransactionConflict"}

TranslatedWithoutRetry(error) ==
    CASE error = "NotAuthorized" -> 403
      [] error \in AuthorityRefusal -> 409
      [] error \in {"InvalidRequest", "InvalidFlagKey"} -> 400
      [] error \in LedgerRefusal -> RetentionStatus(error)
      [] error \in RetryLater \ {"DeactivationRetry"} -> 503
      [] error \in NotFound -> 404
      [] error \in Conflicts -> 409
      [] OTHER -> 500

Translated(error) ==
    CASE error = "NotAuthorized" -> 403
      [] error \in AuthorityRefusal -> 409
      [] error \in {"InvalidRequest", "InvalidFlagKey"} -> 400
      [] error \in LedgerRefusal -> RetentionStatus(error)
      [] error \in RetryLater -> 503
      [] error \in NotFound -> 404
      [] error \in Conflicts -> 409
      [] OTHER -> 500

-----------------------------------------------------------------------------
(* The startup check.  A route is registered with the policies its resolved dependencies
   declare; the label is its methods and path. *)

Policy(kind, detail, fresh) == [kind |-> kind, detail |-> detail, fresh |-> fresh]

Registration(label, unsafe, type, markers) ==
    [label |-> label, unsafe |-> unsafe, type |-> type, markers |-> markers]

Marked(markers, kind) == {p \in markers : p.kind = kind}

\* route_policy_for without its conflicts: the strongest marker decides.
ResolvedByPrecedence(markers) ==
    LET strongest == {k \in {"platform", "permission", "authenticated", "public"} : Marked(markers, k) # {}}
    IN IF strongest = {} THEN {}
       ELSE {CHOOSE p \in markers : p.kind = CHOOSE k \in strongest :
                 \/ k = "platform" \/ (k = "permission" /\ "platform" \notin strongest)
                 \/ (k = "authenticated" /\ strongest \cap {"platform", "permission"} = {}) \/ strongest = {k}}

\* route_policy_for: the one policy of a route, or none when its markers conflict.
Resolved(markers) ==
    LET publics == Marked(markers, "public")
        permissions == Marked(markers, "permission")
        platform == Marked(markers, "platform")
        authenticated == Marked(markers, "authenticated")
    IN CASE publics # {} /\ permissions \cup authenticated \cup platform # {} -> {}
         [] platform # {} /\ permissions # {} -> {}
         [] platform # {} -> IF Cardinality(platform) = 1 THEN platform ELSE {}
         [] permissions # {} -> IF Cardinality(permissions) = 1 THEN permissions ELSE {}
         [] authenticated # {} -> {Policy("authenticated", "", FALSE)}
         [] OTHER -> IF Cardinality(publics) = 1 THEN {p \in publics : p.detail # ""} ELSE {}

TwiceDifferentNever(i) == FALSE

\* The label was registered before, last with another policy, and one of the two is platform.
TwiceDifferent(i) ==
    LET p == Resolved(mounted[i].markers)
        earlier == {j \in 1 .. i - 1 : mounted[j].label = mounted[i].label /\ Resolved(mounted[j].markers) # {}}
        last == Resolved(mounted[CHOOSE j \in earlier : \A k \in earlier : k <= j].markers)
    IN earlier # {} /\ p # {} /\ last # p /\ \E q \in last \cup p : q.kind = "platform"

\* assert_route_policies: API routes have a policy; documentation routes are for development.
PolicyDeclared(i) ==
    CASE mounted[i].type = "api" -> Resolved(mounted[i].markers) # {} /\ ~TwiceDifferent(i)
      [] mounted[i].type = "documentation" -> ~world.production
      [] OTHER -> FALSE

\* What the check returns: for each label the policy of its last registration.
LastPolicy(label) ==
    LET those == {i \in DOMAIN mounted : mounted[i].label = label /\ mounted[i].type = "api"}
    IN [unsafe |-> \E i \in those : mounted[i].unsafe,
        policy |-> UNION {Resolved(mounted[i].markers) : i \in {j \in those : \A k \in those : k <= j}}]

\* assert_platform_route_rules, over what the first check returned.
PlatformRule(p, unsafe) ==
    p.kind = "platform" =>
        world.enabled /\ (p.detail = "authority.manage" /\ unsafe => p.fresh)

PlatformRulesHold ==
    \A i \in DOMAIN mounted : \A p \in LastPolicy(mounted[i].label).policy :
        PlatformRule(p, LastPolicy(mounted[i].label).unsafe)

\* include_router, before the application starts.
Mount ==
    /\ startup = "assembling" /\ Len(mounted) < MaxMounted
    /\ \E route \in Registrations : mounted' = Append(mounted, route)
    /\ UNCHANGED <<world, visit, seen, record, upsets, startup>>

\* _platform_lifespan: both checks first, then the credentials and the configuration, which
\* may refuse as well.
StartUp ==
    /\ startup = "assembling"
    /\ \/ startup' = "serving" /\ (\A i \in DOMAIN mounted : PolicyDeclared(i)) /\ PlatformRulesHold
       \/ startup' = "refused"
    /\ UNCHANGED <<world, visit, seen, record, upsets, mounted>>

-----------------------------------------------------------------------------
(* The request. *)

Go(pc) == visit' = [visit EXCEPT !.pc = pc]

Answer(status) == visit' = [visit EXCEPT !.pc = "answered", !.status = status]

NoRecord == UNCHANGED record

\* record_platform_refusal: a row in a transaction of its own, on a best-effort basis.
Refused ==
    \/ record' = [record EXCEPT !.refusals = @ + 1]
    \/ record' = [record EXCEPT !.lost = @ + 1]

\* require_platform_permission: a disabled surface is not there; then the session.
Enter ==
    /\ visit.pc = "new"
    /\ IF ~world.enabled THEN Answer(404) /\ UNCHANGED seen
       ELSE IF world.session # "live" THEN Answer(401) /\ UNCHANGED seen
       ELSE Go("authenticated") /\ seen' = [seen EXCEPT !.multiFactor = world.multiFactor]
    /\ NoRecord /\ UNCHANGED <<world, upsets, mounted, startup>>

\* _enforce_platform_rate_limit
RateLimit ==
    /\ visit.pc = "authenticated"
    /\ \/ Go("admitted")
       \/ Answer(429)
       \/ Answer(503)
    /\ NoRecord /\ UNCHANGED <<world, seen, upsets, mounted, startup>>

IsActiveOperatorAlways == TRUE

\* is_active_platform_operator
IsActiveOperator == world.operator = "active"

\* Whoever is no active operator, or cannot be told to be one in time, finds no such route.
CheckOperator ==
    /\ visit.pc = "admitted"
    /\ IF IsActiveOperator THEN Go("operator") \/ Answer(404) ELSE Answer(404)
    /\ NoRecord /\ UNCHANGED <<world, seen, upsets, mounted, startup>>

CheckSessionUnrecorded ==
    /\ visit.pc = "operator"
    /\ seen' = [seen EXCEPT !.age = world.age]
    /\ IF world.multiFactorRequired /\ ~seen.multiFactor THEN Answer(401) /\ Refused
       ELSE IF visit.route.fresh /\ world.age = "old" THEN Answer(401) /\ NoRecord
       ELSE Go("fresh") /\ NoRecord
    /\ UNCHANGED <<world, upsets, mounted, startup>>

\* Multi-factor, then the age of the session where the route asks for a fresh one.
CheckSession ==
    /\ visit.pc = "operator"
    /\ seen' = [seen EXCEPT !.age = world.age]
    /\ IF world.multiFactorRequired /\ ~seen.multiFactor THEN Answer(401) /\ Refused
       ELSE IF visit.route.fresh /\ world.age = "old" THEN Answer(401) /\ Refused
       ELSE Go("fresh") /\ NoRecord
    /\ UNCHANGED <<world, upsets, mounted, startup>>

\* platform_can: an active operator with a live grant of the permission.
PlatformCan(permission) == world.operator = "active" /\ permission \in world.granted

CheckPermission ==
    /\ visit.pc = "fresh"
    /\ \/ IF PlatformCan(visit.route.permission) THEN Go("gated") /\ NoRecord ELSE Answer(403) /\ Refused
       \/ Answer(503) /\ NoRecord
    /\ UNCHANGED <<world, seen, upsets, mounted, startup>>

-----------------------------------------------------------------------------
(* The core operation. *)

Transitions == {"tenant.activate", "tenant.suspend", "tenant.reactivate"}

\* _transition_operation: the edge from the tenant's status selects the operation.
EdgeOperation(target) ==
    CASE target = "active" /\ world.tenant = "pending" -> "tenant.activate"
      [] target = "active" /\ world.tenant = "suspended" -> "tenant.reactivate"
      [] target = "suspended" /\ world.tenant = "active" -> "tenant.suspend"
      [] OTHER -> "none"

Target == IF visit.route.op = "tenant.suspend" THEN "suspended" ELSE "active"

Performed(op) == [visit EXCEPT !.pc = "answered", !.status = 200, !.performed = op]

AsExpectedAlways(op) == op # "none"

\* expected_operation: the route's own operation, or the transition is refused.
AsExpected(op) == op = visit.route.op

\* _authorize_transition: the permission, or, to suspend it, authority in the tenant itself.
AuthorizedTransition(op) ==
    PlatformCan(PermissionOf(op)) \/ (op = "tenant.suspend" /\ world.steward)

\* transition_tenant_status under the tenant's row lock.
Transition ==
    /\ visit.pc = "gated" /\ visit.route.op \in Transitions
    /\ \/ /\ ~AuthorizedTransition(visit.route.op)
          /\ Answer(403) /\ Refused /\ UNCHANGED world
       \/ /\ AuthorizedTransition(visit.route.op)
          /\ LET op == EdgeOperation(Target) IN
             IF ~AsExpected(op) THEN Answer(Translated("InvalidTransition")) /\ NoRecord /\ UNCHANGED world
             ELSE /\ visit' = Performed(op)
                  /\ world' = [world EXCEPT !.tenant = Target]
                  /\ record' = IF PlatformCan(PermissionOf(op)) THEN [record EXCEPT !.changes = @ + 1]
                               ELSE [record EXCEPT !.own = @ + 1]
       \/ /\ AuthorizedTransition(visit.route.op)
          /\ \E error \in Refusals(visit.route.op) : Answer(Translated(error))
          /\ NoRecord /\ UNCHANGED world
    /\ UNCHANGED <<seen, upsets, mounted, startup>>

\* Operations given the session as evidence, and those that want it multi-factor.
WithEvidence ==
    {"ledger.hold_place", "ledger.hold_release", "ledger.deletion_request"} \cup
    {"ledger.deletion_approve", "ledger.deletion_execution_authorize", "ledger.representative_propose",
     "ledger.representative_confirm", "ledger.representative_revoke_by_owner",
     "ledger.representative_revoke_by_security", "ledger.approver_enrol",
     "ledger.approver_revoke_by_representative", "ledger.approver_revoke_by_security"}

WithMultiFactor == WithEvidence \ {"ledger.hold_place", "ledger.hold_release", "ledger.deletion_request"}

VerifiedSessionAlways(op) == TRUE

\* verify_session: the session the request came with is still live, and multi-factor.
VerifiedSession(op) ==
    op \in WithEvidence => /\ world.session = "live"
                           /\ op \in WithMultiFactor => world.multiFactorRequired /\ world.multiFactor

\* create_tenant creates a root or a child; every other route has one operation.
CoreOperations ==
    IF visit.route.op = "tenant.create_root" THEN {"tenant.create_root", "tenant.create_child"}
    ELSE {visit.route.op}

\* authorize_platform_caller in the operation's own transaction.
AuthorizedUnchecked(op) == TRUE

Authorized(op) == PlatformCan(PermissionOf(op))

\* The other operations: authorised again, evidence verified, refused or done.  A failed read
\* of the billing overview is recorded as well; how reads are recorded is module Oversight's.
Operate ==
    /\ visit.pc = "gated" /\ visit.route.op \notin Transitions
    /\ \E op \in CoreOperations :
          \/ ~Authorized(op) /\ Answer(Translated("NotAuthorized")) /\ Refused
          \/ /\ Authorized(op) /\ ~VerifiedSession(op)
             /\ Answer(Translated("ApprovalRefused")) /\ Refused
          \/ /\ Authorized(op) /\ VerifiedSession(op)
             /\ \E error \in Refusals(op) :
                   /\ Answer(Translated(error))
                   /\ \/ (error \in AuthorityRefusal \cup LedgerRefusal \/ op = "billing.read") /\ Refused
                      \/ error \notin AuthorityRefusal \cup LedgerRefusal /\ NoRecord
          \/ /\ Authorized(op) /\ VerifiedSession(op)
             /\ visit' = Performed(op)
             /\ record' = [record EXCEPT !.changes = @ + 1]
    /\ UNCHANGED <<world, seen, upsets, mounted, startup>>

-----------------------------------------------------------------------------
(* What changes meanwhile. *)

Upset(w) == upsets < MaxUpsets /\ visit.pc \notin {"none", "answered"} /\ world' = w /\ upsets' = upsets + 1
            /\ UNCHANGED <<visit, seen, record, mounted, startup>>

LoseSession == world.session = "live" /\ Upset([world EXCEPT !.session = "revoked"])
GrowOld == world.age = "fresh" /\ Upset([world EXCEPT !.age = "old"])
SuspendOperator == world.operator = "active" /\ Upset([world EXCEPT !.operator = "suspended"])
\* A grant that none of the route's operations asks for is not read again.
Asks == {visit.route.permission}
        \cup {PermissionOf(op) : op \in IF visit.route.op \in Transitions THEN Transitions ELSE CoreOperations}
LoseGrant ==
    /\ visit.pc # "none"
    /\ \E p \in world.granted \cap Asks : Upset([world EXCEPT !.granted = @ \ {p}])
MoveTenant == \E s \in {"active", "suspended"} : s # world.tenant /\ Upset([world EXCEPT !.tenant = s])

-----------------------------------------------------------------------------
\* A behaviour is about a startup, or about a request to the application as it ships.
HttpInit ==
    /\ world \in Worlds /\ mounted = <<>>
    /\ \/ /\ startup = "serving"
          /\ visit \in [route : Routes, pc : {"new"}, status : {0}, performed : {"none"}]
          /\ world.tenant = "pending" \/ visit.route.op \in Transitions
       \/ /\ startup = "assembling"
          /\ visit = [route |-> Route("", "", "", FALSE), pc |-> "none", status |-> 0, performed |-> "none"]
    /\ seen = [multiFactor |-> FALSE, age |-> "unread"]
    /\ record = [changes |-> 0, own |-> 0, refusals |-> 0, lost |-> 0] /\ upsets = 0

HttpNext ==
    \/ Enter \/ RateLimit \/ CheckOperator \/ CheckSession \/ CheckPermission \/ Transition \/ Operate
    \/ Mount \/ StartUp
    \/ LoseSession \/ GrowOld \/ SuspendOperator \/ LoseGrant \/ MoveTenant

HttpSpec == HttpInit /\ [][HttpNext]_visitVars

-----------------------------------------------------------------------------
\* The variables have their shapes.
HttpTypeOK ==
    /\ visit.pc \in {"none", "new", "authenticated", "admitted", "operator", "fresh", "gated", "answered"}
    /\ visit.status \in {0, 200, 400, 401, 403, 404, 409, 429, 500, 503}

\* Whatever the core refuses with has an answer of its own; no route turns a refusal into an
\* internal error (_translated).
EveryRefusalHasAnAnswer == visit.status # 500

PerformedWithAuthorityStep ==
    visit'.performed # visit.performed =>
       /\ \/ PlatformCan(PermissionOf(visit'.performed))
          \/ visit'.performed = "tenant.suspend" /\ world.steward
       /\ visit'.performed \in WithEvidence => world.session = "live"

\* An operation behind a route takes effect only while the caller is an active operator with
\* a live grant of the permission of the operation performed, whatever the gate read earlier;
\* an operation given the session as evidence, only while that session is live.
PerformedWithAuthority == [][PerformedWithAuthorityStep]_visitVars

\* A transition route performs its own operation only: activating never reactivates a tenant
\* that was suspended while the request ran, though both lead to the same status.
RouteRunsItsOperation ==
    visit.performed # "none" =>
        visit.performed = visit.route.op \/ (visit.route.op = "tenant.create_root" /\ visit.performed = "tenant.create_child")

\* Who is no active operator learns nothing of the surface: not from the answer, not from rows.
OutsiderSeesNothing ==
    (world.operator = "none" /\ visit.pc = "answered") =>
        visit.status \in {401, 404, 429, 503} /\ record = [changes |-> 0, own |-> 0, refusals |-> 0, lost |-> 0]
        /\ (visit.status = 401 => world.session # "live")

\* Every request that was refused for want of authority, freshness or a second factor left
\* one refusal row (or its loss was logged), one that succeeded one change row, no request both.
OneTrace ==
    visit.pc = "answered" =>
        /\ record.changes + record.own = (IF visit.status = 200 THEN 1 ELSE 0)
        /\ visit.status = 403 => record.refusals + record.lost = 1
        /\ (visit.status = 401 /\ seen.age # "unread") => record.refusals + record.lost = 1
        /\ visit.status = 200 => record.refusals + record.lost = 0

\* Nobody's authority changes on a session that was too old when the gate looked at it.
AuthorityOnFreshSession ==
    visit.performed \in AuthorityManaged => seen.age = "fresh"

\* Every platform route of an application that serves obeys the platform rules, also one whose
\* path was registered a second time: the router serves the first registration and the check
\* sees the last.
PlatformRoutesKeepTheRules ==
    startup = "serving" => \A i \in DOMAIN mounted : \A p \in Resolved(mounted[i].markers) :
        mounted[i].type = "api" => PlatformRule(p, mounted[i].unsafe)

\* An application that serves has no route that asks for two different authorities, that is both
\* public and guarded, or that says nothing.
OneAuthorityPerRoute ==
    startup = "serving" => \A i \in DOMAIN mounted :
        LET kinds == {p.kind : p \in mounted[i].markers} IN
        mounted[i].type = "api" =>
            /\ mounted[i].markers # {} /\ ("public" \in kinds => kinds = {"public"})
            /\ Cardinality({p \in mounted[i].markers : p.kind \in {"platform", "permission"}}) <= 1
=============================================================================
