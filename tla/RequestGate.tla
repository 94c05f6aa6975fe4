------------------------------ MODULE RequestGate ------------------------------
(***************************************************************************)
(* A tenant's HTTP requests: authentication by session or API key, tenant   *)
(* resolution, rate limit, permission, entitlement and quota, then the      *)
(* handler, whose core operation authorises again.  Requests presenting one *)
(* credential overlap; each step reads on its own, and the credential, the  *)
(* membership, the permission and the tenant may change in between.  The    *)
(* provider's event endpoint, which has no credential, is here as well.     *)
(***************************************************************************)
EXTENDS Integers, FiniteSets

CONSTANTS Situations,    \* how the principal and the tenant stand, and the requests made
          FailureLimit,  \* refusals of a credential in a window before it is not looked up
          MaxTurns       \* changes of the situation while requests run

VARIABLES standing,      \* the situation as it is now
          inbound,       \* the requests
          refused,       \* lookups of the credential that refused it
          failures,      \* the counter of those refusals
          peak,          \* the most requests in flight at once
          denials,       \* audit rows of denied access
          used,          \* quota consumed
          turns

gateVars == <<standing, inbound, refused, failures, peak, denials, used, turns>>

\* How a request presents itself: its credential, method and origin, and the route's gates.
Shape(means, unsafe, origin, route) == [means |-> means, unsafe |-> unsafe, origin |-> origin, route |-> route]

Situation(credential, keyTenant, tenant, member, permitted, entitled, quota, store, shapes) ==
    [credential |-> credential, keyTenant |-> keyTenant, tenant |-> tenant, member |-> member,
     permitted |-> permitted, entitled |-> entitled, quota |-> quota, store |-> store, shapes |-> shapes]

-----------------------------------------------------------------------------
(* Routes: the operation, whether a key is accepted, and the gates beyond permission. *)

\* A product's own routes are any combination of these under the operation "product".
GatedRoute(op, key, entitlement, quota) == [op |-> op, key |-> key, entitlement |-> entitlement, quota |-> quota]

MemberRoutes == {GatedRoute(op, FALSE, FALSE, FALSE) : op \in
    {"members.list", "members.suspend", "members.reactivate", "members.revoke"}}

InvitationRoutes == {GatedRoute(op, FALSE, FALSE, FALSE) : op \in
    {"invitations.create", "invitations.list", "invitations.revoke"}}

ApiKeyRoutes == {GatedRoute(op, FALSE, FALSE, FALSE) : op \in {"keys.create", "keys.list", "keys.rotate", "keys.revoke"}}

BillingRoutes == {GatedRoute(op, FALSE, FALSE, FALSE) : op \in
    {"billing.entitlements", "billing.plans", "billing.subscribe", "billing.cancel", "billing.payment_page",
     "billing.payer_list", "billing.payer_read"}}

TenantRoutes == {GatedRoute(op, FALSE, FALSE, FALSE) : op \in {"tenant.status", "tenant.suspend", "tenant.usage"}}

-----------------------------------------------------------------------------
(* The request's progress. *)

InFlight == {r \in DOMAIN inbound : inbound[r].pc \notin {"waiting", "answered"}}

At(r, pc) == inbound[r].pc = pc

To(r, pc) == inbound' = [inbound EXCEPT ![r].pc = pc]

Respond(r, status, why) == inbound' = [inbound EXCEPT ![r].pc = "answered", ![r].status = status, ![r].why = why]

\* TenantStatus that admits principals.
Accessible == standing.tenant = "active"
Open == standing.tenant # "deleted"

\* _enforce_same_origin_for_cookie_mutation
ForeignMutation(shape) == shape.means = "cookie" /\ shape.unsafe /\ shape.origin # "same"

\* The dependencies up to the credential.  A key beside another credential, a missing or a
\* malformed one is refused before any lookup; a cookie mutation from elsewhere, before that.
Arrive(r) ==
    LET shape == inbound[r].shape IN
    /\ At(r, "waiting")
    /\ peak' = IF Cardinality(InFlight) + 1 > peak THEN Cardinality(InFlight) + 1 ELSE peak
    /\ IF shape.means \in {"key", "key and cookie"} /\ shape.route.key
       THEN IF shape.means = "key" THEN To(r, "presented") ELSE Respond(r, 401, "credentials")
       ELSE IF ForeignMutation(shape) THEN Respond(r, 403, "origin")
       ELSE IF shape.means \in {"none", "malformed", "key"} THEN Respond(r, 401, "credentials")
       ELSE To(r, "presented")
    /\ UNCHANGED <<standing, refused, failures, denials, used, turns>>

FailingOneMore == failures > FailureLimit

\* peek_rate_limit of the credential's fingerprint.
Failing == failures >= FailureLimit

\* _refuse_failing_credential fails open when the store cannot be read.
Peek(r) ==
    /\ At(r, "presented")
    /\ IF standing.store /\ Failing THEN Respond(r, 429, "failing") ELSE To(r, "unfailing")
    /\ UNCHANGED <<standing, refused, failures, peak, denials, used, turns>>

\* validate_session or validate_api_key, which also refuses a key of a tenant that is closed.
Valid(r) == standing.credential = "live" /\ (inbound[r].shape.means = "key" => Accessible)

CountsAnyRefusal(r) == ~Valid(r) \/ standing.keyTenant = "other"

\* Only a refusal of the credential is counted: a key presented to another tenant is not one.
Counts(r) == ~Valid(r)

\* The lookup; its refusal is counted in a later step.
Authenticate(r) ==
    /\ At(r, "unfailing")
    /\ IF Counts(r) THEN To(r, "refused") /\ refused' = refused + 1
       ELSE To(r, "authenticated") /\ UNCHANGED refused
    /\ UNCHANGED <<standing, failures, peak, denials, used, turns>>

\* _count_credential_failure
CountFailure(r) ==
    /\ At(r, "refused")
    /\ failures' = IF standing.store THEN failures + 1 ELSE failures
    /\ Respond(r, 401, "credentials")
    /\ UNCHANGED <<standing, refused, peak, denials, used, turns>>

\* get_tenant_context, or the key's tenant and its owner's membership: all the same 404.
Resolve(r) ==
    /\ At(r, "authenticated")
    /\ IF (inbound[r].shape.means = "key" => standing.keyTenant = "own") /\ Accessible /\ standing.member
       THEN To(r, "resolved") ELSE Respond(r, 404, "tenant")
    /\ UNCHANGED <<standing, refused, failures, peak, denials, used, turns>>

\* Rate limits of the tenant's path and of the key, fail closed.
RateLimited(r) ==
    /\ At(r, "resolved")
    /\ \/ To(r, "admitted")
       \/ Respond(r, 429, "rate")
       \/ Respond(r, 503, "store")
    /\ UNCHANGED <<standing, refused, failures, peak, denials, used, turns>>

\* rbac's can(), under a lock of the accessible tenant.
Can == standing.permitted /\ standing.member /\ Accessible

\* require_permission: a denial is recorded and answered 403.
Permit(r) ==
    /\ At(r, "admitted")
    /\ IF Can THEN To(r, "permitted") /\ UNCHANGED denials
       ELSE Respond(r, 403, "permission") /\ denials' = denials + 1
    /\ UNCHANGED <<standing, refused, failures, peak, used, turns>>

EntitleUnrecorded(r) ==
    /\ At(r, "permitted")
    /\ IF inbound[r].shape.route.entitlement /\ ~standing.entitled THEN Respond(r, 403, "entitlement") ELSE To(r, "entitled")
    /\ UNCHANGED <<standing, refused, failures, peak, denials, used, turns>>

\* require_entitlement_and_quota: the entitlement, its denial recorded likewise.
Entitle(r) ==
    /\ At(r, "permitted")
    /\ IF inbound[r].shape.route.entitlement /\ ~standing.entitled
       THEN Respond(r, 403, "entitlement") /\ denials' = denials + 1
       ELSE To(r, "entitled") /\ UNCHANGED denials
    /\ UNCHANGED <<standing, refused, failures, peak, used, turns>>

WithinQuotaOneMore == used <= standing.quota

\* Nothing is consumed beyond the quota.
WithinQuota == used < standing.quota

ConsumeQuotaFirst(r) ==
    /\ At(r, "permitted")
    /\ IF ~inbound[r].shape.route.quota THEN To(r, "entitled") /\ UNCHANGED used
       ELSE IF WithinQuota THEN To(r, "entitled") /\ used' = used + 1
       ELSE Respond(r, 429, "quota") /\ UNCHANGED used
    /\ UNCHANGED <<standing, refused, failures, peak, denials, turns>>

EntitleLast(r) ==
    /\ At(r, "entitled")
    /\ IF inbound[r].shape.route.entitlement /\ ~standing.entitled
       THEN Respond(r, 403, "entitlement") /\ denials' = denials + 1
       ELSE To(r, "gated") /\ UNCHANGED denials
    /\ UNCHANGED <<standing, refused, failures, peak, used, turns>>

\* consume_quota decides and consumes in one transaction (module Quota); a denial has no effect.
\* It raises for a tenant deleted since, which nothing here answers.
ConsumeQuota(r) ==
    /\ At(r, "entitled")
    /\ IF ~inbound[r].shape.route.quota THEN To(r, "gated") /\ UNCHANGED used
       ELSE IF ~Open THEN Respond(r, 500, "closed") /\ UNCHANGED used
       ELSE IF WithinQuota THEN To(r, "gated") /\ used' = used + 1
       ELSE Respond(r, 429, "quota") /\ UNCHANGED used
    /\ UNCHANGED <<standing, refused, failures, peak, denials, turns>>

QuotaThenEntitlement(r) == ConsumeQuotaFirst(r) \/ EntitleLast(r)

EntitlementThenQuota(r) == Entitle(r) \/ ConsumeQuota(r)

-----------------------------------------------------------------------------
(* The handlers.  "denied" and "closed" are what the core raises when the permission went or *)
(* the tenant closed after the gate; the other refusals are the operation's own.            *)

\* build_billing_router
BillingAnswer(op, error) ==
    CASE error = "denied" -> IF op \in {"billing.plans", "billing.entitlements"} THEN 500 ELSE 403
      [] error = "closed" -> IF op \in {"billing.entitlements", "billing.payer_list", "billing.payer_read"} THEN 500 ELSE 404
      [] error \in {"plan", "account", "subscription"} -> 404
      [] error \in {"live exists", "not possible", "key reused", "in progress", "nothing due"} -> 409
      [] error = "key missing" -> 400
      [] error = "provider" -> 503

BillingRefusals(op) ==
    CASE op = "billing.subscribe" -> {"plan", "account", "live exists", "not possible", "key reused", "in progress",
                                      "key missing", "provider"}
      [] op = "billing.cancel" -> {"subscription", "not possible", "provider"}
      [] op = "billing.payment_page" -> {"subscription", "nothing due", "not possible", "provider"}
      [] op = "billing.payer_read" -> {"subscription"}
      [] OTHER -> {}

ApiKeyAnswerUnlisted(op, error) ==
    CASE error = "denied" -> 403
      [] error = "closed" -> IF op = "keys.create" THEN 404 ELSE 500
      [] error = "key" -> 404
      [] error \in {"limit", "revoked key"} -> 409
      [] error = "name" -> 400

\* The api_keys router; _own_key looks the key up before the operation does.
ApiKeyAnswer(op, error) ==
    CASE error = "denied" -> 403
      [] error = "closed" -> IF op \in {"keys.create", "keys.rotate"} THEN 404 ELSE 500
      [] error = "key" -> 404
      [] error \in {"limit", "revoked key"} -> 409
      [] error = "name" -> 400

ApiKeyRefusals(op) ==
    CASE op = "keys.create" -> {"limit", "name"}
      [] op = "keys.rotate" -> {"key", "revoked key"}
      [] op = "keys.revoke" -> {"key"}
      [] op = "keys.list" -> {}

\* The members, invitations, tenant status, suspension and usage routers.
MemberAnswer(error) ==
    CASE error = "denied" -> 403
      [] error \in {"closed", "membership"} -> 404
      [] error \in {"last administrator", "transition"} -> 409

InvitationAnswer(op, error) ==
    CASE error = "denied" -> 403
      [] error = "closed" -> IF op = "invitations.create" THEN 404 ELSE 500
      [] error = "invitation" -> 404
      [] error \in {"duplicate", "accepted"} -> 409
      [] error = "email" -> 400

TenantAnswer(op, error) ==
    CASE error = "denied" -> IF op = "tenant.status" THEN 500 ELSE 403
      [] error = "closed" -> IF op = "tenant.status" THEN 500 ELSE 404
      [] error = "invalid" -> 400
      [] error \in {"transition", "last administrator"} -> 409
      [] error = "timeout" -> 503

\* Operations whose core authorises the caller again, and those that lock the tenant as well.
Rechecked == {"members.suspend", "members.reactivate", "members.revoke", "invitations.create", "invitations.revoke",
              "keys.create", "keys.rotate", "keys.revoke", "billing.subscribe", "billing.cancel",
              "billing.payment_page", "billing.payer_list", "billing.payer_read", "tenant.suspend", "tenant.usage"}

LocksTenant == {"billing.plans", "members.suspend", "members.reactivate", "members.revoke", "invitations.create", "keys.create",
                "keys.rotate", "billing.subscribe", "billing.cancel", "tenant.suspend"}

MemberRefusals == {"membership", "last administrator", "transition"}
InvitationRefusals(op) == IF op = "invitations.create" THEN {"duplicate", "email"}
                          ELSE IF op = "invitations.revoke" THEN {"invitation", "accepted"} ELSE {}
TenantRefusalsOf(op) == IF op = "tenant.suspend" THEN {"invalid", "transition", "last administrator", "timeout"}
                        ELSE IF op = "tenant.usage" THEN {"invalid"} ELSE {}

OpsOf(routes) == {route.op : route \in routes}

HandlerRefusals(op) ==
    CASE op \in OpsOf(BillingRoutes) -> BillingRefusals(op)
      [] op \in OpsOf(ApiKeyRoutes) -> ApiKeyRefusals(op)
      [] op \in OpsOf(MemberRoutes) -> IF op = "members.list" THEN {} ELSE MemberRefusals
      [] op \in OpsOf(InvitationRoutes) -> InvitationRefusals(op)
      [] op \in OpsOf(TenantRoutes) -> TenantRefusalsOf(op)
      [] OTHER -> {}

HandlerAnswer(op, error) ==
    CASE op \in OpsOf(BillingRoutes) -> BillingAnswer(op, error)
      [] op \in OpsOf(ApiKeyRoutes) -> ApiKeyAnswer(op, error)
      [] op \in OpsOf(MemberRoutes) -> MemberAnswer(error)
      [] op \in OpsOf(InvitationRoutes) -> InvitationAnswer(op, error)
      [] op \in OpsOf(TenantRoutes) -> TenantAnswer(op, error)

\* What the core raises now.
CoreErrors(op) ==
    LET lost == {e \in {"closed", "denied"} : IF e = "closed" THEN op \in LocksTenant /\ ~Accessible
                                             ELSE op \in Rechecked /\ ~Can}
    IN IF lost # {} THEN lost ELSE HandlerRefusals(op)

Handle(r) ==
    LET op == inbound[r].shape.route.op IN
    /\ At(r, "gated")
    /\ \/ \E error \in CoreErrors(op) : Respond(r, HandlerAnswer(op, error), "handler")
       \/ (op \in Rechecked => Can) /\ (op \in LocksTenant => Open) /\ Respond(r, 200, "done")
    /\ UNCHANGED <<standing, refused, failures, peak, denials, used, turns>>

-----------------------------------------------------------------------------
(* receive_stripe_event: what the provider is told of an event. *)

EventAnswer(outcome) ==
    CASE outcome = "processed" -> 200
      [] outcome = "failed" -> 503
      [] outcome \in {"bad signature", "bad event"} -> 400
      [] outcome = "too large" -> 413
      [] outcome = "limited" -> 429

EventOutcomes == {"processed", "failed", "bad signature", "bad event", "too large", "limited"}

ReceiveEvent(r) ==
    /\ At(r, "waiting") /\ inbound[r].shape.means = "signature"
    /\ \E outcome \in EventOutcomes : Respond(r, EventAnswer(outcome), outcome)
    /\ UNCHANGED <<standing, refused, failures, peak, denials, used, turns>>

-----------------------------------------------------------------------------
(* What changes meanwhile. *)

Turn(now) == turns < MaxTurns /\ InFlight # {} /\ standing' = now /\ turns' = turns + 1
             /\ UNCHANGED <<inbound, refused, failures, peak, denials, used>>

RevokeCredential == standing.credential = "live" /\ Turn([standing EXCEPT !.credential = "revoked"])
CloseTenant == /\ standing.tenant = "active"
               /\ \E status \in {"suspended", "deleted"} : Turn([standing EXCEPT !.tenant = status])
LoseMembership == standing.member /\ Turn([standing EXCEPT !.member = FALSE])
LosePermission == standing.permitted /\ Turn([standing EXCEPT !.permitted = FALSE])

GateInit ==
    /\ standing \in Situations
    /\ inbound = [r \in DOMAIN standing.shapes |->
                     [shape |-> standing.shapes[r], pc |-> "waiting", status |-> 0, why |-> "none"]]
    /\ refused = 0 /\ failures = 0 /\ peak = 0 /\ denials = 0 /\ used = 0 /\ turns = 0

GateNext ==
    \/ \E r \in DOMAIN inbound :
          \/ inbound[r].shape.means # "signature" /\ Arrive(r)
          \/ Peek(r) \/ Authenticate(r) \/ CountFailure(r) \/ Resolve(r) \/ RateLimited(r)
          \/ Permit(r) \/ EntitlementThenQuota(r) \/ Handle(r) \/ ReceiveEvent(r)
    \/ RevokeCredential \/ CloseTenant \/ LoseMembership \/ LosePermission

GateSpec == GateInit /\ [][GateNext]_gateVars

-----------------------------------------------------------------------------
Answered == {r \in DOMAIN inbound : At(r, "answered")}

\* The variables have their shapes.
GateTypeOK == /\ refused \in Nat /\ failures \in 0..refused /\ used \in 0..standing.quota
              /\ \A r \in DOMAIN inbound : inbound[r].status \in {0, 200, 400, 401, 403, 404, 409, 413, 429, 500, 503}

\* A refused credential is looked up at most FailureLimit times in a window, overshot by no
\* more than the requests in flight at once (the failed-credential limit), while the store can be read.
ReplayBounded == standing.store => refused <= FailureLimit + (IF peak > 0 THEN peak - 1 ELSE 0)

\* A credential that is valid throughout is never answered as a failing one, whatever tenants
\* its requests name (_count_credential_failure counts refusals of the credential only).
ValidNeverFailing ==
    (standing.credential = "live" /\ standing.tenant = "active") =>
        \A r \in DOMAIN inbound : inbound[r].why # "failing"

\* Quota is consumed by the requests that reached their handler and by no other: a request
\* denied by permission, entitlement or a limit consumed none.
QuotaForAdmitted ==
    used = Cardinality({r \in DOMAIN inbound : inbound[r].shape.route.quota
                          /\ (At(r, "gated") \/ (At(r, "answered") /\ inbound[r].why \in {"handler", "done"}))})

\* Every denial by permission or entitlement left one audit row; no other answer did.
DenialsRecorded == denials = Cardinality({r \in Answered : inbound[r].why \in {"permission", "entitlement"}})

\* When the permission goes or the tenant closes between the gate and the core operation, the
\* answer is the one the gate would have given, not an internal error.
RaceAnsweredAsGate == \A r \in Answered : inbound[r].why = "handler" => inbound[r].status # 500
=============================================================================
