------------------------- MODULE PlatformAuthority -------------------------
(***************************************************************************)
(* Who holds authority over the installation: core/platform_authority      *)
(* (operators, their grants, bootstrap and recovery) with the two changes  *)
(* to users that can take it away, deactivation and erasure                *)
(* (core/identity/user_authority.py).                                      *)
(*                                                                         *)
(* Every such change is one transaction whose first statement is the       *)
(* platform-owners advisory lock; it then authorizes its caller, checks    *)
(* the rows, writes, and rechecks the owners on what it wrote.  Decide is  *)
(* everything up to the commit, Commit makes the effect visible to the     *)
(* others: what keeps two transactions from deciding on the same rows is   *)
(* the lock, nothing in the shape of the model.                            *)
(*                                                                         *)
(* A person has at most one operator row that is not revoked and a new     *)
(* enrolment starts without grants, so one status and one set of live      *)
(* grants for each person stand for the rows.  Reasons, audit rows and     *)
(* statement timeouts (an Abandon) are left out.                           *)
(***************************************************************************)
EXTENDS Naturals

CONSTANTS
    People,         \* users of the installation
    Permissions,    \* the platform permissions
    Manage,         \* platform.authority:manage, the owner permission
    Deactivate,     \* platform.user:deactivate
    Reactivate,     \* platform.user:reactivate
    System,         \* SystemCaller(SystemAuthority.PLATFORM_BOOTSTRAP)
    Transactions,   \* database transactions that may be open at once
    FirstStates,    \* the contents of the tables to start from
    MaxChanges      \* bound: committed changes

ASSUME PermissionsAssumption == {Manage, Deactivate, Reactivate} \subseteq Permissions
ASSUME SystemAssumption == System \notin People

VARIABLES
    db,         \* the tables: users, external identities, operators, grants
    tx,         \* the open transactions
    changes     \* committed changes so far

authorityVars == <<db, tx, changes>>

(* models.py: OperatorStatus, and "none" for a person who never had a row. *)
Statuses == {"none", "active", "suspended", "revoked"}

Tables == [active : SUBSET People, linked : SUBSET People,
           status : [People -> Statuses],
           grants : [People -> SUBSET Permissions]]

(* What a transaction asks for: the operation, the caller, the person it   *)
(* is about, the permissions it names and, for a recovery that enrolls,    *)
(* the operator it suspends as well.  A recovery that only suspends is     *)
(* "recover_suspend", about that operator.                                 *)
Operations == {"enroll", "suspend", "reactivate", "revoke", "grant",
               "revoke_grant", "deactivate_user", "reactivate_user",
               "bootstrap", "recover", "recover_suspend", "erase_links"}

(* The operations that name permissions. *)
Naming == {"grant", "revoke_grant", "bootstrap", "recover"}

Requests ==
    [op : Operations \ Naming, by : People \cup {System}, who : People,
     perms : {{}}, suspend : {{}}]
    \cup [op : Naming, by : People \cup {System}, who : People,
          perms : SUBSET Permissions, suspend : {{}}]
    \cup [op : {"recover"}, by : People \cup {System}, who : People,
          perms : SUBSET Permissions, suspend : {{u} : u \in People}]

Idle == [at |-> "idle"]
Decided(r) == [at |-> "decided", req |-> r]

(***************************************************************************)
(* Deciding                                                                *)
(***************************************************************************)

(* platform_can: an active user, an active operator, a live grant. *)
PlatformCanAnyStatus(d, u, p) == u \in d.active /\ p \in d.grants[u]

PlatformCan(d, u, p) ==
    u \in d.active /\ d.status[u] = "active" /\ p \in d.grants[u]

(* PLATFORM_OPERATIONS: the permission each operation asks for. *)
PermissionFor(op) ==
    CASE op = "deactivate_user" -> Deactivate
      [] op = "reactivate_user" -> Reactivate
      [] OTHER                  -> Manage

(* authorize_platform_caller: a person needs the operation's permission,   *)
(* and the bootstrap and recovery purpose is accepted where the operation  *)
(* lists it; the two composites require it.  Erasure is asked for by an    *)
(* existing user and needs no platform permission.                         *)
Authorized(d, r) ==
    CASE r.op = "erase_links" -> r.by # System
      [] r.op \in {"bootstrap", "recover", "recover_suspend"} -> r.by = System
      [] OTHER -> IF r.by = System THEN r.op \in {"enroll", "suspend", "grant"}
                  ELSE PlatformCan(d, r.by, PermissionFor(r.op))

(* unrevoked_operator_exists *)
EnrolledActiveOnly(d, u) == d.status[u] = "active"

Enrolled(d, u) == d.status[u] \in {"active", "suspended"}

(* enroll_in_transaction: an active person with a linked identity who is   *)
(* not enrolled.                                                           *)
MayEnroll(d, u) == u \in d.active /\ u \in d.linked /\ ~Enrolled(d, u)

(* Mutant of MayRecover: an operator who is reused need not be linked. *)
MayRecoverUnlinked(d, r) ==
    /\ MayEnroll(d, r.who) \/ d.status[r.who] = "active"
    /\ r.perms \subseteq d.grants[r.who] \/ r.who \in d.active
    /\ \A u \in r.suspend : Enrolled(d, u)

(* _recover with a person to enroll: somebody new is enrolled, an active   *)
(* operator must be linked (one may be left whom nobody can log in as,     *)
(* from before enrolment looked), and a suspended one is refused; new      *)
(* grants need an active user.  Suspending a suspended operator changes    *)
(* nothing and a revoked one is refused.                                   *)
MayRecover(d, r) ==
    /\ \/ MayEnroll(d, r.who)
       \/ d.status[r.who] = "active" /\ r.who \in d.linked
    /\ r.perms \subseteq d.grants[r.who] \/ r.who \in d.active
    /\ \A u \in r.suspend : Enrolled(d, u)

(* _recover with nobody to enroll. *)
MayRecoverSuspend(d, r) == Enrolled(d, r.who)

(* _refuse_self: nobody changes their own authority. *)
Other(r) == r.by # r.who

(* suspend_operator and reactivate_operator: _set_status refuses any other *)
(* status than the one it starts from.                                     *)
MaySuspend(d, r) == Other(r) /\ d.status[r.who] = "active"
MayReactivate(d, r) == Other(r) /\ d.status[r.who] = "suspended"

(* revoke_operator *)
MayRevoke(d, r) == Other(r) /\ Enrolled(d, r.who)

(* grant_in_transaction: a permission the subject, an active user, does    *)
(* not have and the caller, if it is a person, has.                        *)
MayGrant(d, r) ==
    /\ Other(r) /\ Enrolled(d, r.who) /\ r.who \in d.active
    /\ \E p \in Permissions : /\ r.perms = {p}
                              /\ r.by = System \/ PlatformCan(d, r.by, p)
                              /\ p \notin d.grants[r.who]

(* revoke_platform_permission *)
MayRevokeGrant(d, r) == Other(r) /\ \E p \in d.grants[r.who] : r.perms = {p}

(* _deactivate_in_transaction and reactivate_user: a user who is already   *)
(* in that state is answered without a change.                             *)
MayDeactivateUser(d, r) == Other(r) /\ r.who \in d.active
MayReactivateUser(d, r) == r.who \notin d.active

(* bootstrap_platform_owner: only before there was ever an operator. *)
MayBootstrap(d, r) ==
    /\ \A u \in People : d.status[u] = "none"
    /\ MayEnroll(d, r.who)
    /\ Manage \in r.perms

(* remove_identity_links_unless_enrolled_operator *)
MayEraseLinks(d, r) == ~Enrolled(d, r.who)

Permitted(d, r) ==
    CASE r.op = "enroll"          -> Other(r) /\ MayEnroll(d, r.who)
      [] r.op = "suspend"         -> MaySuspend(d, r)
      [] r.op = "reactivate"      -> MayReactivate(d, r)
      [] r.op = "revoke"          -> MayRevoke(d, r)
      [] r.op = "grant"           -> MayGrant(d, r)
      [] r.op = "revoke_grant"    -> MayRevokeGrant(d, r)
      [] r.op = "deactivate_user" -> MayDeactivateUser(d, r)
      [] r.op = "reactivate_user" -> MayReactivateUser(d, r)
      [] r.op = "bootstrap"       -> MayBootstrap(d, r)
      [] r.op = "recover"         -> MayRecover(d, r)
      [] r.op = "recover_suspend" -> MayRecoverSuspend(d, r)
      [] r.op = "erase_links"     -> MayEraseLinks(d, r)

(* The program starts from a freshly migrated database, an older one or a  *)
(* restored one.                                                           *)
ASSUME FirstStatesAssumption == FirstStates \subseteq Tables

(***************************************************************************)
(* The effect of each operation                                            *)
(***************************************************************************)

(* _recover: enroll, grant what is missing, suspend the other operator. *)
Recover(d, r) ==
    [d EXCEPT !.grants[r.who] = (IF Enrolled(d, r.who) THEN @ ELSE {}) \cup r.perms,
              !.status = [u \in People |-> IF u \in r.suspend THEN "suspended"
                                           ELSE IF u = r.who THEN "active" ELSE d.status[u]]]

Apply(d, r) ==
    CASE r.op = "enroll"          -> [d EXCEPT !.status[r.who] = "active",
                                               !.grants[r.who] = {}]
      [] r.op = "suspend"         -> [d EXCEPT !.status[r.who] = "suspended"]
      [] r.op = "reactivate"      -> [d EXCEPT !.status[r.who] = "active"]
      [] r.op = "revoke"          -> [d EXCEPT !.status[r.who] = "revoked",
                                               !.grants[r.who] = {}]
      [] r.op = "grant"           -> [d EXCEPT !.grants[r.who] = @ \cup r.perms]
      [] r.op = "revoke_grant"    -> [d EXCEPT !.grants[r.who] = @ \ r.perms]
      [] r.op = "deactivate_user" -> [d EXCEPT !.active = @ \ {r.who}]
      [] r.op = "reactivate_user" -> [d EXCEPT !.active = @ \cup {r.who}]
      [] r.op = "bootstrap"       -> [d EXCEPT !.status[r.who] = "active",
                                               !.grants[r.who] = r.perms]
      [] r.op = "recover"         -> Recover(d, r)
      [] r.op = "recover_suspend" -> [d EXCEPT !.status[r.who] = "suspended"]
      [] r.op = "erase_links"     -> [d EXCEPT !.linked = @ \ {r.who}]

(* platform_owner_exists *)
PlatformOwnerExistsAnyUser(d) ==
    \E u \in People : d.status[u] = "active" /\ Manage \in d.grants[u]

PlatformOwnerExists(d) ==
    \E u \in People :
        u \in d.active /\ d.status[u] = "active" /\ Manage \in d.grants[u]

(* The recheck on the flushed state (authority_transaction and             *)
(* _deactivate_in_transaction): LastPlatformOwnerError.                    *)
OwnersKept(d, r) ==
    PlatformOwnerExists(d) => PlatformOwnerExists(Apply(d, r))

(***************************************************************************)
(* The transactions                                                        *)
(***************************************************************************)

(* lock_platform_owners: no other transaction is past the lock. *)
LockFreeAlways == TRUE

LockFree == \A x \in Transactions : tx[x].at = "idle"

Decide(x, r) ==
    /\ changes < MaxChanges
    /\ tx[x].at = "idle"
    /\ LockFree
    /\ Authorized(db, r)
    /\ Permitted(db, r)
    /\ OwnersKept(db, r)
    /\ tx' = [tx EXCEPT ![x] = Decided(r)]
    /\ UNCHANGED <<db, changes>>

Commit(x) ==
    /\ tx[x].at = "decided"
    /\ db' = Apply(db, tx[x].req)
    /\ tx' = [tx EXCEPT ![x] = Idle]
    /\ changes' = changes + 1

(* A timeout, a failed statement or a lost connection rolls it back. *)
Abandon(x) ==
    /\ tx[x].at = "decided"
    /\ tx' = [tx EXCEPT ![x] = Idle]
    /\ UNCHANGED <<db, changes>>

(* link_external_identity, at a first login: not under the lock. *)
LinkIdentity(u) ==
    /\ u \notin db.linked
    /\ db' = [db EXCEPT !.linked = @ \cup {u}]
    /\ UNCHANGED <<tx, changes>>

AuthorityInit ==
    /\ db \in FirstStates
    /\ tx = [x \in Transactions |-> Idle]
    /\ changes = 0

AuthorityNext ==
    \/ \E x \in Transactions : \/ \E r \in Requests : Decide(x, r)
                               \/ Commit(x)
                               \/ Abandon(x)
    \/ \E u \in People : LinkIdentity(u)

AuthoritySpec == AuthorityInit /\ [][AuthorityNext]_authorityVars

(***************************************************************************)
(* Properties                                                              *)
(***************************************************************************)

AuthorityTypeOK ==
    /\ db \in Tables
    /\ tx \in [Transactions -> {Idle} \cup [at : {"decided"}, req : Requests]]
    /\ changes \in Nat

(* Who can manage platform authority, said without the code's query. *)
Owners(d) == {u \in d.active : d.status[u] = "active" /\ Manage \in d.grants[u]}

(* core/platform_authority/owners.py: "After every supported change, a     *)
(* deployment that had a platform owner still has one", whatever changes   *)
(* run at once: two owners suspending each other, an owner revoked while   *)
(* the other is deactivated, a recovery that suspends the last one.        *)
OwnerKept == [][Owners(db) # {} => Owners(db') # {}]_authorityVars

(* The operators nobody can log in as. *)
Unusable(d) == {u \in People : Enrolled(d, u)} \ d.linked

(* remove_identity_links_unless_enrolled_operator: "no operator is left    *)
(* that nobody can log in as", though erasure and enrolment may run at     *)
(* once.  An operator enrolled before enrolment looked at the identity may *)
(* be there from the start: no change adds one, and no recovery            *)
(* (bootstrap.py) relies on one.                                           *)
OperatorsStayUsable ==
    [][/\ Unusable(db') \subseteq Unusable(db)
       /\ \A x \in Transactions :
             (/\ tx[x].at = "decided" /\ tx[x].req.op \in {"bootstrap", "recover"}
              /\ tx'[x].at = "idle" /\ changes' # changes)
             => tx[x].req.who \in db'.linked]_authorityVars

(* authority_transaction: whoever changes somebody's authority still holds *)
(* the authority to do so when the change takes effect: an active user, an *)
(* active enrolment, the permission of the operation and, for a grant, the *)
(* permission that is granted.                                             *)
ActsWithAuthority ==
    [][\A x \in Transactions :
          (/\ tx[x].at = "decided" /\ tx[x].req.by \in People
           /\ tx[x].req.op # "erase_links"
           /\ tx'[x].at = "idle" /\ changes' # changes)
          => LET r == tx[x].req IN
             /\ r.by \in db.active /\ db.status[r.by] = "active"
             /\ PermissionFor(r.op) \in db.grants[r.by]
             /\ r.op = "grant" => r.perms \subseteq db.grants[r.by]]_authorityVars

(* What core/platform_authority promises of concurrent changes: the tables *)
(* stay well formed, no operator becomes one nobody can log in as, an      *)
(* owner is left (owners.py), and who changes somebody's authority still   *)
(* has theirs when the change takes effect (authorization.py).             *)
AuthorityKept ==
    /\ []AuthorityTypeOK
    /\ OperatorsStayUsable
    /\ OwnerKept
    /\ ActsWithAuthority
=============================================================================
