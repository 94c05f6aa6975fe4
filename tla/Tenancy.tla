------------------------------- MODULE Tenancy -------------------------------
(***************************************************************************)
(* The tenant hierarchy (core/tenancy/service.py: create_tenant,           *)
(* move_tenant, transition_tenant_status) together with the rule that a    *)
(* tenant keeps an administrator (core/rbac/administrators.py) and the     *)
(* mutations of core/rbac and core/identity that the rule guards.          *)
(*                                                                         *)
(* A guarded mutation is one transaction in four parts: it takes the       *)
(* administrator locks of the tenants it can reach, it records which of    *)
(* them have an administrator, it changes its rows and asks again, and it  *)
(* commits.  Other transactions run between the parts and do not see the   *)
(* change before the commit.  The row locks      *)
(* that can() takes on the rows of one decision are not modelled: they     *)
(* only remove interleavings.  The caller is taken to be authorized.       *)
(***************************************************************************)
EXTENDS Integers, FiniteSets, Sequences, SequencesExt

CONSTANTS
    Tenants,    \* tenant ids, positive integers so that they have the id order
    Users,
    Txns,       \* database connections
    MaxDepth,   \* max_hierarchy_depth
    MaxOps,     \* bound: operations started in one behaviour
    Seeds       \* database contents to start from, and what callers ask for then

None == 0

Accessible == {"pending", "active"}
Closed == {"deleted", "purging", "purged"}
Statuses == Accessible \cup Closed \cup {"suspended", "absent"}

VARIABLES
    tree,   \* the committed rows
    txn,    \* what each connection has locked, read and still has to do
    asks,   \* the operations callers ask for
    left    \* operations that may still be started

vars == <<tree, txn, asks, left>>

-----------------------------------------------------------------------------
(* The hierarchy. ancestry is core.tenant_ancestry: <<tenant, ancestor, depth>>,
   the tenant itself included at depth 0.                                  *)

RowsOf(d, t) == {r \in d.ancestry : r[1] = t}
RowsTo(d, t) == {r \in d.ancestry : r[2] = t}
Ancestors(d, t) == {r[2] : r \in RowsOf(d, t)}
Subtree(d, t) == {r[1] : r \in RowsTo(d, t)}
Descendants(d, t) == Subtree(d, t) \ {t}

LockOrderById(d, S) == SetToSortSeq(S, LAMBDA a, b : a > b)

\* Nearest the root first, then by id.
LockOrder(d, S) ==
    LET depth(t) == Cardinality(RowsOf(d, t))
    IN  SetToSortSeq(S, LAMBDA a, b : \/ depth(a) < depth(b)
                                      \/ depth(a) = depth(b) /\ a < b)

AllowedTransitions ==
    [pending |-> {"active", "deleted"}, active |-> {"suspended", "deleted"},
     suspended |-> {"active", "deleted"}, deleted |-> {"purging"},
     purging |-> {"purged"}, purged |-> {}, absent |-> {}]

\* _apply_parent_rule, and move_tenant's own test: nobody attaches a child to a suspended or a
\* closed tenant, provisioning (the user "system", which may only create) to a pending one only.
ParentRule(d, r) == d.status[r.to] \in IF r.user = "system" THEN {"pending"} ELSE Accessible

TooDeepForRoot(d, t, p) == \E a \in RowsOf(d, p) : a[3] + 1 > MaxDepth

\* The depth guardrail, for t's subtree hung below p.
TooDeep(d, t, p) ==
    \E n \in RowsTo(d, t) :
        \/ n[3] > MaxDepth
        \/ \E a \in RowsOf(d, p) : a[3] + 1 + n[3] > MaxDepth

\* Hang the subtree rows n below p: a row to every ancestor of p.
Bridges(d, rows, p) == {<<n[1], a[2], a[3] + 1 + n[3]>> : n \in rows, a \in RowsOf(d, p)}

CreateTenant(d, r) ==
    LET self == <<r.tenant, r.tenant, 0>>
    IN  [d EXCEPT !.parent[r.tenant] = r.to,
                  !.status[r.tenant] = "pending",
                  !.ancestry = @ \cup {self} \cup Bridges(d, {self}, r.to)]

MoveTenantOnlyRoot(d, r) ==
    LET t == r.tenant
    IN  [d EXCEPT !.parent[t] = r.to,
                  !.ancestry = {w \in @ : ~(w[1] = t /\ w[2] # t)}
                                  \cup Bridges(d, {<<t, t, 0>>}, r.to)]

MoveTenant(d, r) ==
    LET sub == Subtree(d, r.tenant)
    IN  [d EXCEPT !.parent[r.tenant] = r.to,
                  !.ancestry = {w \in @ : ~(w[1] \in sub /\ w[2] \notin sub)}
                                  \cup Bridges(d, RowsTo(d, r.tenant), r.to)]

TransitionStatus(d, r) == [d EXCEPT !.status[r.tenant] = r.to]

-----------------------------------------------------------------------------
(* Who administers a tenant: an active member, active as a user, not denied,
   with a role or an unexpiring delegation that reaches it.                *)

Reaches(d, g, t) ==
    \/ g.tenant = t
    \/ g.scope = "subtree" /\ g.tenant \in Ancestors(d, t)

Denied(d, u, t) == \E g \in d.deny : g.user = u /\ Reaches(d, g, t)

\* _tenant_grants_permission, and its counterpart for delegations.
Grants(d, g, u) ==
    /\ g.user = u
    /\ d.status[g.tenant] \in Accessible
    /\ \/ g.kind = "role" /\ d.member[u][g.tenant] = "active" /\ g.tenant \in d.perm
       \/ g.kind = "delegation" /\ d.member[u][g.tenant] \in {"none", "active"}

\* Pairs of an administrator of t and a row they owe that to.
Authority(d, t) ==
    {<<u, g>> \in Users \X d.grant :
        /\ d.member[u][t] = "active"
        /\ d.status[t] \in Accessible
        /\ u \notin d.inactive
        /\ ~Denied(d, u, t)
        /\ Grants(d, g, u)
        /\ Reaches(d, g, t)}

HasAdministrator(d, t) == Authority(d, t) # {}

-----------------------------------------------------------------------------
(* What the mutations change. A request names an operation, a tenant, a user
   and what is asked for (a scope, a status, a parent).                    *)

RowFor(r, kind) == [kind |-> kind, user |-> r.user, tenant |-> r.tenant, scope |-> r.to]
Held(d, r, kind) == {g \in d.grant : g.kind = kind /\ g.user = r.user /\ g.tenant = r.tenant}

RemoveRole(d, r) == [d EXCEPT !.grant = @ \ Held(d, r, "role")]
RevokePermission(d, r) == [d EXCEPT !.perm = @ \ {r.tenant}]
RevokeDelegation(d, r) == [d EXCEPT !.grant = @ \ Held(d, r, "delegation")]
CreateDeny(d, r) == [d EXCEPT !.deny = @ \cup {RowFor(r, "deny")}]
EndMembership(d, r) == [d EXCEPT !.member[r.user][r.tenant] = r.to]
DeactivateUser(d, r) == [d EXCEPT !.inactive = @ \cup {r.user}]

AssignRole(d, r) == [d EXCEPT !.grant = @ \cup {RowFor(r, "role")}]
GrantPermission(d, r) == [d EXCEPT !.perm = @ \cup {r.tenant}]
CreateDelegation(d, r) == [d EXCEPT !.grant = @ \cup {RowFor(r, "delegation")}]
RevokeDeny(d, r) == [d EXCEPT !.deny = {g \in @ : ~(g.user = r.user /\ g.tenant = r.tenant)}]
AddMembership(d, r) == [d EXCEPT !.member[r.user][r.tenant] = "active"]
ReactivateUser(d, r) == [d EXCEPT !.inactive = @ \ {r.user}]

\* Is there something to do, or does the call return or raise first?
Applies(d, r) ==
    CASE r.op = "remove_role"           -> Held(d, r, "role") # {}
      [] r.op = "revoke_permission"     -> r.tenant \in d.perm
      [] r.op = "revoke_delegation"     -> Held(d, r, "delegation") # {}
      [] r.op = "create_deny"           -> d.status[r.tenant] \notin Closed \cup {"absent"}
      [] r.op = "end_membership"        -> \/ d.member[r.user][r.tenant] = "active"
                                           \/ /\ d.member[r.user][r.tenant] = "suspended"
                                              /\ r.to = "revoked"
      [] r.op = "assign_role"           -> /\ Held(d, r, "role") = {}
                                           /\ d.member[r.user][r.tenant] # "none"
      [] r.op = "grant_permission"      -> r.tenant \notin d.perm
      [] r.op = "create_delegation"     -> Held(d, r, "delegation") = {}
      [] r.op = "revoke_deny"           -> RevokeDeny(d, r) # d
      [] r.op = "add_membership"        -> d.member[r.user][r.tenant] = "none"
      [] r.op = "reactivate_membership" -> d.member[r.user][r.tenant] = "suspended"
      [] r.op = "reactivate_user"       -> r.user \in d.inactive
      [] OTHER                          -> TRUE

Effect(d, r) ==
    CASE r.op = "remove_role"       -> RemoveRole(d, r)
      [] r.op = "revoke_permission" -> RevokePermission(d, r)
      [] r.op = "revoke_delegation" -> RevokeDelegation(d, r)
      [] r.op = "create_deny"       -> CreateDeny(d, r)
      [] r.op = "end_membership"    -> EndMembership(d, r)
      [] r.op = "deactivate_user"   -> DeactivateUser(d, r)
      [] r.op = "transition"        -> TransitionStatus(d, r)
      [] r.op = "move"              -> MoveTenant(d, r)
      [] r.op = "create"            -> CreateTenant(d, r)
      [] r.op = "assign_role"       -> AssignRole(d, r)
      [] r.op = "grant_permission"  -> GrantPermission(d, r)
      [] r.op = "create_delegation" -> CreateDelegation(d, r)
      [] r.op = "revoke_deny"       -> RevokeDeny(d, r)
      [] r.op = "reactivate_user"   -> ReactivateUser(d, r)
      [] r.op \in {"add_membership", "reactivate_membership"} -> AddMembership(d, r)

Narrowing == {"remove_role", "revoke_permission", "revoke_delegation", "create_deny",
              "end_membership"}
Widening == {"assign_role", "grant_permission", "create_delegation", "revoke_deny",
             "add_membership", "reactivate_membership", "reactivate_user"}

\* The users whose authority a narrowing mutation takes away.
AffectedUsers(d, r) ==
    IF r.op = "revoke_permission"
    THEN {g.user : g \in {h \in d.grant : h.kind = "role" /\ h.tenant = r.tenant}}
    ELSE {r.user}

ActiveMemberships(d, u) ==
    {t \in Tenants : d.member[u][t] = "active" /\ d.status[t] # "purged"}

\* guard_last_administrator: the tenant, and the descendants where an affected
\* user is an active member.
Reach(d, r) ==
    {r.tenant} \cup {t \in Descendants(d, r.tenant) :
                        \E u \in AffectedUsers(d, r) : d.member[u][t] = "active"}

-----------------------------------------------------------------------------
(* Transactions. held: administrator locks; rows and own: tenant rows locked
   FOR SHARE and FOR UPDATE; hier: the hierarchy-wide lock; grown and shifted are history: the tenants
   that gained authority or lost it to a transaction without their lock, and
   whether the tree changed, since the transaction read what it can reach.  *)

NoRequest == [op |-> "none", tenant |-> None, user |-> "none", to |-> "none"]

Idle == [pc |-> "idle", op |-> NoRequest, todo |-> <<>>, held |-> {}, guarded |-> {},
         had |-> {}, rows |-> {}, own |-> {}, hier |-> FALSE, grown |-> {}, shifted |-> FALSE]

Others(x) == Txns \ {x}

LockFreeAlways(x, t) == TRUE

LockFree(x, t) == \A y \in Others(x) : t \notin txn[y].held

RowFreeAlways(x, t) == TRUE

RowFree(x, t) == \A y \in Others(x) : t \notin txn[y].rows \cup txn[y].own
ShareFree(x, t) == \A y \in Others(x) : t \notin txn[y].own

HierarchyFree(x) == \A y \in Others(x) : ~txn[y].hier

Grown(d) == {t \in Tenants : ~(Authority(d, t) \subseteq Authority(tree, t))}
Shrunk(d) == {t \in Tenants : ~(Authority(tree, t) \subseteq Authority(d, t))}

\* Another transaction, holding the administrator locks of L, committed d.
Noticed(y, d, L) ==
    IF txn[y].pc = "idle" THEN txn[y]
    ELSE [txn[y] EXCEPT !.grown = @ \cup Grown(d) \cup (Shrunk(d) \ L),
                        !.shifted = @ \/ d.ancestry # tree.ancestry]

Commit(x, d) ==
    /\ tree' = d
    /\ txn' = [y \in Txns |-> IF y = x THEN Idle ELSE Noticed(y, d, txn[x].held)]
    /\ UNCHANGED <<asks, left>>

Start(x, r) == txn[x].pc = "idle" /\ left > 0 /\ r \in asks

Open(x, r, own, guarded, hier) ==
    /\ \A t \in own : LockFree(x, t)
    /\ hier => HierarchyFree(x)
    /\ txn' = [txn EXCEPT ![x] = [Idle EXCEPT !.pc = "locking", !.op = r, !.held = own,
                                              !.todo = LockOrder(tree, guarded \ own),
                                              !.guarded = guarded, !.hier = hier]]
    /\ left' = left - 1
    /\ UNCHANGED <<tree, asks>>

\* suspend/revoke membership, remove_role, revoke_permission, revoke_delegation,
\* create_deny: own lock first, then the rows, then whom the change can reach.
BeginNarrowing(x, r) ==
    /\ Start(x, r)
    /\ r.op \in Narrowing
    /\ Applies(tree, r)
    /\ Open(x, r, {r.tenant}, Reach(tree, r), FALSE)

\* The tenant itself is locked but exempt: losing access is what the transition is for.
BeginTransition(x, r) ==
    /\ Start(x, r)
    /\ r.op = "transition"
    /\ IF r.to \in Accessible
       THEN Open(x, r, {}, {}, FALSE)
       ELSE Open(x, r, {r.tenant}, Descendants(tree, r.tenant), FALSE)

\* The first scan of the registry.
BeginDeactivate(x, r) ==
    /\ Start(x, r)
    /\ r.op = "deactivate_user"
    /\ Open(x, r, {}, ActiveMemberships(tree, r.user), FALSE)

BeginMove(x, r) ==
    /\ Start(x, r)
    /\ r.op = "move"
    /\ Open(x, r, {}, Subtree(tree, r.tenant), TRUE)

\* A root needs no hierarchy lock; a child reads its parent's status under a row lock.
BeginCreate(x, r) ==
    /\ Start(x, r)
    /\ r.op = "create"
    /\ tree.status[r.tenant] = "absent"
    /\ \A y \in Txns : txn[y].op.op = "create" => txn[y].op.tenant # r.tenant
    /\ r.to # None => /\ HierarchyFree(x)
                      /\ ShareFree(x, r.to)
                      /\ ParentRule(tree, r)
    /\ txn' = [txn EXCEPT ![x] = [Idle EXCEPT !.pc = "ready", !.op = r,
                                              !.rows = {r.to} \ {None},
                                              !.hier = r.to # None]]
    /\ left' = left - 1
    /\ UNCHANGED <<tree, asks>>

LockNext(x) ==
    /\ txn[x].pc = "locking"
    /\ txn[x].todo # <<>>
    /\ LockFree(x, Head(txn[x].todo))
    /\ txn' = [txn EXCEPT ![x].held = @ \cup {Head(txn[x].todo)}, ![x].todo = Tail(@)]
    /\ UNCHANGED <<tree, asks, left>>

\* move_tenant reads both tenants under FOR SHARE before it records administrators.
MayMove(d, r) ==
    /\ d.status[r.tenant] \notin Closed \cup {"absent"}
    /\ d.parent[r.tenant] # r.to
    /\ r.to # None => /\ ParentRule(d, r)
                      /\ r.to \notin Subtree(d, r.tenant)

Guard(x) ==
    LET r == txn[x].op IN
    /\ txn[x].pc = "locking"
    /\ txn[x].todo = <<>>
    /\ r.op = "move" => /\ \A t \in {r.tenant, r.to} : ShareFree(x, t)
                        /\ MayMove(tree, r)
    /\ txn' = [txn EXCEPT ![x].pc = "ready",
                          ![x].had = {t \in txn[x].guarded : HasAdministrator(tree, t)},
                          ![x].rows = IF r.op = "move" THEN {r.tenant, r.to} \ {None} ELSE {}]
    /\ UNCHANGED <<tree, asks, left>>

\* Conditions tested after the guard, under the exclusive row locks.
MayTransition(x, r) == RowFree(x, r.tenant) /\ r.to \in AllowedTransitions[tree.status[r.tenant]]

MayDeactivate(x, r) ==
    /\ r.user \notin tree.inactive
    /\ ActiveMemberships(tree, r.user) \subseteq txn[x].guarded

MayWrite(x, r) ==
    /\ r.op = "transition" => MayTransition(x, r)
    /\ r.op = "deactivate_user" => MayDeactivate(x, r)
    /\ r.op = "move" => /\ \A t \in Subtree(tree, r.tenant) : RowFree(x, t)
                        /\ ~TooDeep(tree, r.tenant, r.to)
    /\ r.op = "create" => \A a \in RowsOf(tree, r.to) : a[3] + 1 <= MaxDepth

\* The rows a mutation locks for itself before it changes them.
OwnRows(d, r) ==
    CASE r.op = "transition" -> {r.tenant}
      [] r.op = "move"       -> Subtree(d, r.tenant)
      [] OTHER               -> {}

\* The change and, with it in place, the second look at the administrators.
Verify(x) ==
    LET r == txn[x].op IN
    /\ txn[x].pc = "ready"
    /\ MayWrite(x, r)
    /\ \A t \in txn[x].had : HasAdministrator(Effect(tree, r), t)
    /\ txn' = [txn EXCEPT ![x].pc = "verified", ![x].own = OwnRows(tree, r)]
    /\ UNCHANGED <<tree, asks, left>>

Finish(x) ==
    /\ txn[x].pc = "verified"
    /\ Commit(x, Effect(tree, txn[x].op))

\* An early return, a refusal, LastTenantAdministratorError, a deadlock victim.
Rollback(x) ==
    /\ txn[x].pc # "idle"
    /\ txn' = [txn EXCEPT ![x] = Idle]
    /\ UNCHANGED <<tree, asks, left>>

\* Mutations that give authority are not guarded; reactivate_membership takes the
\* administrator lock all the same.
Widen(r) ==
    /\ left > 0
    /\ r \in asks
    /\ r.op \in Widening
    /\ r.op # "reactivate_user" => tree.status[r.tenant] \notin Closed \cup {"absent"}
    /\ Applies(tree, r)
    /\ r.op = "reactivate_membership" => \A y \in Txns : r.tenant \notin txn[y].held
    /\ tree' = Effect(tree, r)
    /\ txn' = [y \in Txns |-> Noticed(y, Effect(tree, r), {})]
    /\ left' = left - 1
    /\ UNCHANGED asks

Init ==
    /\ \E seed \in Seeds : tree = seed.rows /\ asks = seed.asks
    /\ txn = [x \in Txns |-> Idle]
    /\ left = MaxOps

Next ==
    \/ \E x \in Txns, r \in asks :
          \/ BeginNarrowing(x, r)
          \/ BeginTransition(x, r)
          \/ BeginDeactivate(x, r)
          \/ BeginMove(x, r)
          \/ BeginCreate(x, r)
    \/ \E x \in Txns : LockNext(x) \/ Guard(x) \/ Verify(x) \/ Finish(x) \/ Rollback(x)
    \/ \E r \in asks : Widen(r)

Spec == Init /\ [][Next]_vars

-----------------------------------------------------------------------------
Present(d) == {t \in Tenants : d.status[t] # "absent"}

\* core.tenant_ancestry is exactly the closure of parent_id, with distances:
\* a tenant's rows are its own and its parent's, one step further away.
AncestryIsClosure ==
    \A t \in Tenants :
        RowsOf(tree, t) =
            IF t \in Present(tree)
            THEN {<<t, t, 0>>} \cup {<<t, a[2], a[3] + 1>> : a \in RowsOf(tree, tree.parent[t])}
            ELSE {}

\* No tenant is ever deeper below its root than the configured guardrail, whatever
\* moves and creations ran side by side.
DepthBounded == \A w \in tree.ancestry : w[3] <= MaxDepth

AttachedToOpenStep ==
    \A x \in Txns, t \in Tenants :
       /\ tree'.parent[t] \notin {tree.parent[t], None}
       /\ txn[x].pc = "verified" /\ txn'[x].pc = "idle"
       => tree.status[tree'.parent[t]] \in IF txn[x].op.user = "system" THEN {"pending"} ELSE Accessible

\* A tenant is attached, by a creation or by a move, only to a parent that is not
\* suspended or closed at the moment the attachment commits, and by provisioning only
\* to one that is still pending then.
AttachedToOpen == [][AttachedToOpenStep]_vars

AdministratorKeptStep ==
    \A x \in Txns : txn[x].pc = "verified" /\ txn'[x].pc = "idle" =>
       \A t \in Tenants : HasAdministrator(tree, t) /\ ~HasAdministrator(tree', t) =>
           \/ txn[x].op.op = "transition" /\ txn[x].op.tenant = t
           \/ /\ t \in txn[x].grown
              /\ txn[x].op.op = "deactivate_user" => t \in txn[x].guarded

\* A committed step takes a tenant's last administrator away only if the step closes
\* or suspends that very tenant, or if the authority appeared in the tenant, or was
\* taken by a mutation that had not foreseen the tenant, after the step's transaction
\* read whom it can reach.  A deactivation is not excused by a
\* membership that appeared: its second scan refuses.
AdministratorKept == [][AdministratorKeptStep]_vars

\* What the docstring of core/rbac/administrators.py promises: no supported mutation
\* takes the last administrator of a tenant away, its own suspension or closure apart.
NeverWithoutAdministrator ==
    [][\A t \in Tenants : HasAdministrator(tree, t) /\ ~HasAdministrator(tree', t) =>
          \E x \in Txns : txn[x].op.op = "transition" /\ txn[x].op.tenant = t]_vars

WaitsFor(x, y) ==
    /\ txn[x].pc = "locking"
    /\ txn[x].todo # <<>>
    /\ Head(txn[x].todo) \in txn[y].held

\* Two mutations never wait for each other's administrator locks, unless the tree
\* changed after one of them had fixed the order of its locks.
NoLockCycle ==
    \A x, y \in Txns :
        x # y /\ WaitsFor(x, y) /\ WaitsFor(y, x) => txn[x].shifted \/ txn[y].shifted
=============================================================================
