--------------------------- MODULE LedgerDeletion ---------------------------
(***************************************************************************)
(* Deleting expired permission grant ledger rows: legal holds              *)
(* (core/permission_grants/retention.py), the request, the approval and    *)
(* the execution authorisation (approvals.py), the authorised deletion     *)
(* (expiry.py) and the register revocations that invalidate approvals      *)
(* (register.py).                                                          *)
(*                                                                         *)
(* Each operation is one transaction in two steps: Verify takes its locks, *)
(* reads and checks; Commit makes its writes visible and drops the locks.  *)
(* Register lock: shared for approve, authorise and execute, exclusive for *)
(* a revocation.  Tenant rows are locked by all but the revocation.  The   *)
(* shipped code refuses the applying execution (_DELETION_ENABLED); the    *)
(* model is of the code behind that switch.                                *)
(***************************************************************************)
EXTENDS Integers, Sequences, FiniteSets

CONSTANTS
    Tenants,        \* purged tenants that have ledger rows
    ExpiresAt,      \* tenant -> when its retention period ends
    Scopes,         \* the tenant sets requests name
    Reporters,      \* users who hold platform.security_retention:report
    Authority,      \* users who hold platform.authority:manage
    Security,       \* users who may hold platform.security_retention_hold:manage
    Requesters,     \* the reporters who ask for deletions
    Wavering,       \* users whose hold permission is granted and taken back
    Register,       \* the approver register a behaviour starts from
    RequestTTL, ApprovalTTL, AuthorizationTTL,
    Conns,          \* database connections
    MaxTime, MaxRequests, MaxAuthorizations, MaxHolds, MaxRevocations  \* bounds

VARIABLES
    reg,            \* the approver register
    clock,
    ledger,         \* tenants whose ledger rows still exist
    holds,          \* sequence of [tenant, by]: by is who released it, or "none"
    managers,       \* users who hold platform.security_retention_hold:manage now
    requests,       \* sequence of deletion requests with their approval
    auths,          \* sequence of execution authorisations
    conn            \* what each connection has verified and not yet committed

vars == <<reg, clock, ledger, holds, managers, requests, auths, conn>>
tables == <<reg, ledger, holds, managers, requests, auths>>

R == INSTANCE LedgerRegister WITH
        Owners <- Authority, Linked <- {}, ProposalTTL <- 1, Delay <- 0, MaxValidity <- 1,
        Writers <- Conns, Acts <- {}, Registers <- {Register}, MaxEntries <- 0,
        writer <- conn

-----------------------------------------------------------------------------
(* What a transaction checks.                                              *)

ActiveHold(t) == \E h \in DOMAIN holds : holds[h].tenant = t /\ holds[h].by = "none"
Releasers(scope) == {holds[h].by : h \in {k \in DOMAIN holds : holds[k].tenant \in scope}} \ {"none"}

RetentionEligible(t, at) == ~ActiveHold(t) /\ ExpiresAt[t] <= at

\* scope_state: every tenant eligible, each with its rows still there.
ScopeEligible(scope, at) == \A t \in scope : RetentionEligible(t, at) /\ t \in ledger

RequestState(r, at) ==
    CASE r.approver = "none"         -> IF at < r.expires THEN "pending" ELSE "expired"
      [] r.outcome # "none"          -> r.outcome
      [] at < r.approvalExpires      -> "approved"
      [] OTHER                       -> "expired"

LiveRequests(scope, at) ==
    {i \in DOMAIN requests :
        /\ requests[i].scope \cap scope # {}
        /\ RequestState(requests[i], at) \in {"pending", "approved"}}

LiveAuthorizations(i, at) ==
    {a \in DOMAIN auths : auths[a].request = i /\ auths[a].outcome = "none" /\ at < auths[a].expires}

Eligible(u, at) == R!EligibleEntries(reg, u, at) # {}
PersonOf(u, at) == reg[R!ApproverEligibility(reg, u, at)].person

ApproverChainNow(r, u, at) ==
    /\ {r.by, u} \cap Authority = {}
    /\ u # r.by
    /\ Eligible(u, at)
    /\ u \notin managers
    /\ ScopeEligible(r.scope, at)

\* verify_deletion_chain, without and with an authoriser.
ApproverChain(r, u, at) ==
    /\ {r.by, u} \cap Authority = {}
    /\ u # r.by
    /\ Eligible(u, at)
    /\ u \notin Releasers(r.scope)
    /\ u \notin managers
    /\ ScopeEligible(r.scope, at)

DeletionChain(r, u, v, at) ==
    /\ ApproverChain(r, u, at)
    /\ u \in Reporters
    /\ v # u
    /\ v \notin Authority
    /\ Eligible(v, at)
    /\ PersonOf(v, at) # PersonOf(u, at)
    /\ v \notin Releasers(r.scope)
    /\ v \notin managers

-----------------------------------------------------------------------------
(* The operations: the locks each needs, its checks, its writes.           *)

Operations ==
    [kind : {"place"}, by : Security, arg : Tenants]
    \cup [kind : {"release"}, by : Security, arg : 1 .. MaxHolds]
    \cup [kind : {"request"}, by : Requesters, arg : Scopes]
    \cup [kind : {"approve", "authorize"}, by : Reporters, arg : 1 .. MaxRequests]
    \cup [kind : {"execute"}, by : {"runner"}, arg : 1 .. MaxAuthorizations]
    \cup [kind : {"revoke"}, by : Security, arg : DOMAIN Register]

NoOperation == [kind |-> "none", by |-> "none", arg |-> 0]

TenantsOfChain(o) ==
    CASE o.kind = "request"                  -> o.arg
      [] o.kind \in {"approve", "authorize"} -> requests[o.arg].scope
      [] o.kind = "execute"                  -> requests[auths[o.arg].request].scope
      [] OTHER                               -> {}

TenantsOf(o) ==
    CASE o.kind = "place"                  -> {o.arg}
      [] o.kind = "release"                -> {holds[o.arg].tenant}
      [] o.kind = "request"                -> o.arg
      [] o.kind \in {"approve", "authorize"} -> requests[o.arg].scope
      [] o.kind = "execute"                -> requests[auths[o.arg].request].scope
      [] OTHER                             -> {}

\* SELECT ... FOR UPDATE on the tenant rows.
TenantRowsFree(c, o) ==
    \A d \in Conns \ {c} : conn[d].pc = "verified" => TenantsOf(conn[d].act) \cap TenantsOf(o) = {}

RegisterLock(o) ==
    CASE o.kind = "revoke"                              -> "exclusive"
      [] o.kind \in {"approve", "authorize", "execute"} -> "shared"
      [] OTHER                                          -> "none"

RegisterLockFree(c, o) ==
    RegisterLock(o) # "none" =>
        \A d \in Conns \ {c} : conn[d].pc = "verified" =>
            \/ RegisterLock(conn[d].act) = "none"
            \/ RegisterLock(conn[d].act) = "shared" /\ RegisterLock(o) = "shared"

PlaceHold(o, at) == o.by \in managers /\ Len(holds) < MaxHolds

ReleaseHold(o, at) == o.by \in managers /\ o.arg \in DOMAIN holds /\ holds[o.arg].by = "none"

RequestDeletion(o, at) ==
    /\ Len(requests) < MaxRequests
    /\ o.by \notin Authority
    /\ LiveRequests(o.arg, at) = {}
    /\ ScopeEligible(o.arg, at)

ApproveWheneverUnapproved(o, at) ==
    /\ o.arg \in DOMAIN requests
    /\ requests[o.arg].approver = "none"
    /\ ApproverChain(requests[o.arg], o.by, at)

ApproveDeletion(o, at) ==
    /\ o.arg \in DOMAIN requests
    /\ requests[o.arg].approver = "none"
    /\ at < requests[o.arg].expires
    /\ ApproverChain(requests[o.arg], o.by, at)

AuthorizeExecution(o, at) ==
    /\ o.arg \in DOMAIN requests
    /\ Len(auths) < MaxAuthorizations
    /\ RequestState(requests[o.arg], at) = "approved"
    /\ DeletionChain(requests[o.arg], requests[o.arg].approver, o.by, at)
    /\ LiveAuthorizations(o.arg, at) = {}

ExecuteDeletion(o, at) ==
    /\ o.arg \in DOMAIN auths
    /\ o.arg \in LiveAuthorizations(auths[o.arg].request, at)
    /\ RequestState(requests[auths[o.arg].request], at) = "approved"
    /\ auths[o.arg].by \in Reporters
    /\ LET r == requests[auths[o.arg].request]
       IN  DeletionChain(r, r.approver, auths[o.arg].by, at)

RevokeRegisterEntry(o, at) ==
    /\ o.by \in managers
    /\ Len(reg) < Len(Register) + MaxRevocations
    /\ R!MayRevoke(reg, [by |-> o.by, subject |-> reg[o.arg].subject, entry |-> o.arg], at)

Checked(o, at) ==
    CASE o.kind = "place"     -> PlaceHold(o, at)
      [] o.kind = "release"   -> ReleaseHold(o, at)
      [] o.kind = "request"   -> RequestDeletion(o, at)
      [] o.kind = "approve"   -> ApproveDeletion(o, at)
      [] o.kind = "authorize" -> AuthorizeExecution(o, at)
      [] o.kind = "execute"   -> ExecuteDeletion(o, at)
      [] o.kind = "revoke"    -> RevokeRegisterEntry(o, at)

InvalidateNothing(rs, users, at) == rs

\* _invalidate, on the approvals and on the authorisations.
Invalidate(rs, users, at) ==
    [i \in DOMAIN rs |->
        IF rs[i].approver \in users /\ rs[i].outcome = "none" /\ at < rs[i].approvalExpires
        THEN [rs[i] EXCEPT !.outcome = "invalidated"] ELSE rs[i]]

InvalidateAuthorizations(as, users, at) ==
    [a \in DOMAIN as |->
        IF as[a].by \in users /\ as[a].outcome = "none" /\ at < as[a].expires
        THEN [as[a] EXCEPT !.outcome = "invalidated"] ELSE as[a]]

\* `seen` is history: how long the register was when the record was made.
Written(o, at) ==
    CASE o.kind = "place" ->
           /\ holds' = Append(holds, [tenant |-> o.arg, by |-> "none"])
           /\ UNCHANGED <<reg, ledger, requests, auths>>
      [] o.kind = "release" ->
           /\ holds' = [holds EXCEPT ![o.arg].by = o.by]
           /\ UNCHANGED <<reg, ledger, requests, auths>>
      [] o.kind = "request" ->
           /\ requests' = Append(requests,
                 [scope |-> o.arg, by |-> o.by, expires |-> at + RequestTTL, approver |-> "none",
                  approvalExpires |-> 0, outcome |-> "none", seen |-> 0])
           /\ UNCHANGED <<reg, ledger, holds, auths>>
      [] o.kind = "approve" ->
           /\ requests' = [requests EXCEPT ![o.arg].approver = o.by,
                                           ![o.arg].approvalExpires = at + ApprovalTTL,
                                           ![o.arg].seen = Len(reg)]
           /\ UNCHANGED <<reg, ledger, holds, auths>>
      [] o.kind = "authorize" ->
           /\ auths' = Append(auths,
                 [request |-> o.arg, by |-> o.by, outcome |-> "none", seen |-> Len(reg),
                  expires |-> IF at + AuthorizationTTL < requests[o.arg].approvalExpires
                              THEN at + AuthorizationTTL ELSE requests[o.arg].approvalExpires])
           /\ UNCHANGED <<reg, ledger, holds, requests>>
      [] o.kind = "execute" ->
           /\ ledger' = ledger \ requests[auths[o.arg].request].scope
           /\ requests' = [requests EXCEPT ![auths[o.arg].request].outcome = "consumed"]
           /\ auths' = [auths EXCEPT ![o.arg].outcome = "consumed"]
           /\ UNCHANGED <<reg, holds>>
      [] o.kind = "revoke" ->
           LET a == [by |-> o.by, subject |-> reg[o.arg].subject, entry |-> o.arg]
               users == R!Affected(reg, a, at)
           IN  /\ reg' = Append(reg, R!RevokeEntry(reg, a))
               /\ requests' = Invalidate(requests, users, at)
               /\ auths' = InvalidateAuthorizations(auths, users, at)
               /\ UNCHANGED <<ledger, holds>>

-----------------------------------------------------------------------------
IdleConn == [pc |-> "idle", act |-> NoOperation, at |-> 0]

Verify(c, o) ==
    /\ conn[c].pc = "idle"
    /\ Checked(o, clock)
    /\ RegisterLockFree(c, o)
    /\ TenantRowsFree(c, o)
    /\ conn' = [conn EXCEPT ![c] = [pc |-> "verified", act |-> o, at |-> clock]]
    /\ UNCHANGED <<tables, clock>>

Commit(c) ==
    /\ conn[c].pc = "verified"
    /\ Written(conn[c].act, conn[c].at)
    /\ conn' = [conn EXCEPT ![c] = IdleConn]
    /\ UNCHANGED <<clock, managers>>

Rollback(c) ==
    /\ conn[c].pc = "verified"
    /\ conn' = [conn EXCEPT ![c] = IdleConn]
    /\ UNCHANGED <<tables, clock>>

\* Platform authority grants or takes back the hold permission, at any time.
ChangeManagers(u) ==
    /\ managers' = IF u \in managers THEN managers \ {u} ELSE managers \cup {u}
    /\ UNCHANGED <<reg, ledger, holds, requests, auths, conn, clock>>

Tick ==
    /\ clock < MaxTime
    /\ clock' = clock + 1
    /\ UNCHANGED <<tables, conn>>

Init ==
    /\ reg = Register
    /\ clock = 0
    /\ ledger = Tenants
    /\ holds = <<>>
    /\ managers = Security \ Reporters
    /\ requests = <<>>
    /\ auths = <<>>
    /\ conn = [c \in Conns |-> IdleConn]

Next ==
    \/ \E c \in Conns : Commit(c) \/ Rollback(c)
    \/ \E c \in Conns, o \in Operations : Verify(c, o)
    \/ \E u \in Wavering : ChangeManagers(u)
    \/ Tick

Spec == Init /\ [][Next]_vars

-----------------------------------------------------------------------------
HeldIsKeptStep ==
    \A t \in ledger \ ledger' : ~ActiveHold(t)

\* No ledger row of a tenant is deleted while a legal hold on it is in force, however a
\* placement interleaves with the execution.
HeldIsKept == [][HeldIsKeptStep]_vars

\* At no time are two requests naming one tenant live: an expired request is never
\* approved back to life beside its successor.
OneLiveRequest ==
    \A i, j \in DOMAIN requests :
        /\ i # j
        /\ requests[i].scope \cap requests[j].scope # {}
        => ~(/\ RequestState(requests[i], clock) \in {"pending", "approved"}
             /\ RequestState(requests[j], clock) \in {"pending", "approved"})

RevokedSince(u, n) ==
    \E j \in n + 1 .. Len(reg) :
        /\ reg[j].type = "revocation"
        /\ reg[reg[j].revokes].type = "enrolment" => reg[reg[j].revokes].subject = u
        /\ reg[reg[j].revokes].type = "designation" =>
              \E i \in R!Enrolments(reg, u) : reg[i].authorised = reg[j].revokes

RevokedWordIsVoidStep ==
    \A a \in DOMAIN auths :
       auths[a].outcome # "consumed" /\ auths'[a].outcome = "consumed" =>
          LET r == requests[auths[a].request]
          IN  ~RevokedSince(r.approver, r.seen) /\ ~RevokedSince(auths[a].by, auths[a].seen)

\* Nothing is deleted on the word of someone whose enrolment, or whose representative,
\* was revoked after they approved or authorised, even if another enrolment of theirs
\* still stands.
RevokedWordIsVoid == [][RevokedWordIsVoidStep]_vars

ReleaserNeverDeletesStep ==
    \A a \in DOMAIN auths, h \in DOMAIN holds :
       /\ auths[a].outcome # "consumed" /\ auths'[a].outcome = "consumed"
       /\ holds[h].tenant \in requests[auths[a].request].scope
       => holds[h].by \notin {requests[auths[a].request].approver, auths[a].by}

\* Whoever released a hold on a tenant neither approved nor authorised the deletion of its
\* rows, whatever permissions came and went in between.
ReleaserNeverDeletes == [][ReleaserNeverDeletesStep]_vars
=============================================================================
