---------------------- MODULE PlatformAuthorityProofs ----------------------
(***************************************************************************)
(* For every set of people, permissions and transactions, and however many *)
(* changes are made, from whatever tables: an installation that has an     *)
(* owner keeps one, no operator becomes one nobody can log in as, and      *)
(* nobody changes authority after losing their own.                        *)
(*                                                                         *)
(* The inductive invariant says what the platform-owners lock is for: at   *)
(* most one transaction is between its checks and its commit, and what it  *)
(* checked still holds.  Only a first login writes without the lock, and   *)
(* it adds an identity, which no check forbids.                            *)
(***************************************************************************)
EXTENDS PlatformAuthority, TLAPS

(* What a transaction that has decided still relies on. *)
Holding(d, r) ==
    /\ r \in Requests
    /\ r.by \in People /\ r.op # "erase_links" =>
          /\ r.by \in d.active /\ d.status[r.by] = "active"
          /\ PermissionFor(r.op) \in d.grants[r.by]
          /\ r.op = "grant" => r.perms \subseteq d.grants[r.by]
    /\ r.op \in {"enroll", "bootstrap", "recover"} => r.who \in d.linked
    /\ r.op = "recover" => \A u \in r.suspend : Enrolled(d, u)
    /\ r.op \in {"suspend", "reactivate", "recover_suspend"} => Enrolled(d, r.who)
    /\ r.op = "erase_links" => ~Enrolled(d, r.who)
    /\ OwnersKept(d, r)

AuthorityInv ==
    /\ db \in Tables
    /\ tx \in [Transactions -> {Idle} \cup [at : {"decided"}, req : Requests]]
    /\ \A x \in Transactions : tx[x].at = "decided" => Holding(db, tx[x].req)
    /\ \A x, y \in Transactions :
          tx[x].at = "decided" /\ tx[y].at = "decided" => x = y

(* What a recovery leaves in the tables (_recover). *)
LEMMA Recovered ==
    ASSUME NEW d \in Tables, NEW r \in Requests
    PROVE  /\ Recover(d, r) \in Tables
           /\ Recover(d, r).active = d.active /\ Recover(d, r).linked = d.linked
           /\ Recover(d, r).status =
                 [u \in People |-> IF u \in r.suspend THEN "suspended"
                                   ELSE IF u = r.who THEN "active" ELSE d.status[u]]
           /\ Recover(d, r).grants =
                 [d.grants EXCEPT ![r.who] =
                    (IF Enrolled(d, r.who) THEN d.grants[r.who] ELSE {}) \cup r.perms]
<1> DEFINE st == [u \in People |-> IF u \in r.suspend THEN "suspended"
                                   ELSE IF u = r.who THEN "active" ELSE d.status[u]]
           new == (IF Enrolled(d, r.who) THEN d.grants[r.who] ELSE {}) \cup r.perms
           gr == [d.grants EXCEPT ![r.who] = new]
<1>1. st \in [People -> Statuses]
  BY DEF Tables, Statuses
<1>2. new \in SUBSET Permissions
  BY DEF Tables, Requests, Naming
<1>3. Recover(d, r) = [d EXCEPT !.grants = gr, !.status = st]
  BY Zenon DEF Recover, Tables
<1> HIDE DEF st, new
<1>4. gr \in [People -> SUBSET Permissions]
  BY <1>2 DEF Tables
<1> HIDE DEF gr
<1>5. [d EXCEPT !.grants = gr, !.status = st] \in Tables
  BY Zenon, <1>1, <1>4 DEF Tables
<1>6. /\ [d EXCEPT !.grants = gr, !.status = st].active = d.active
      /\ [d EXCEPT !.grants = gr, !.status = st].linked = d.linked
      /\ [d EXCEPT !.grants = gr, !.status = st].status = st
      /\ [d EXCEPT !.grants = gr, !.status = st].grants = gr
  BY Zenon DEF Tables
<1> QED BY Zenon, <1>3, <1>5, <1>6 DEF st, gr, new

(* Apply leaves the tables well formed. *)
LEMMA ApplyType ==
    ASSUME NEW d \in Tables, NEW r \in Requests
    PROVE  Apply(d, r) \in Tables
<1> USE DEF Tables, Requests, Naming, Statuses
<1>1. CASE r.op \in {"enroll", "suspend", "reactivate", "revoke", "bootstrap",
                     "recover_suspend"}
  BY Zenon, <1>1 DEF Apply
<1>2. CASE r.op \in {"grant", "revoke_grant"}
  BY Zenon, <1>2 DEF Apply
<1>3. CASE r.op \in {"deactivate_user", "reactivate_user", "erase_links"}
  BY Zenon, <1>3 DEF Apply
<1>4. CASE r.op = "recover"
  BY Zenon, <1>4, Recovered DEF Apply
<1> QED BY <1>1, <1>2, <1>3, <1>4 DEF Operations

(* An identity linked meanwhile changes nobody's authority: the recheck of *)
(* the owners (authority_transaction) comes out the same.                  *)
LEMMA LinkKeepsOwners ==
    ASSUME NEW d \in Tables, NEW r \in Requests, NEW u \in People,
           OwnersKept(d, r)
    PROVE  OwnersKept([d EXCEPT !.linked = @ \cup {u}], r)
<1> DEFINE e == [d EXCEPT !.linked = @ \cup {u}]
<1>1. /\ e.active = d.active /\ e.status = d.status /\ e.grants = d.grants
      /\ e \in Tables
  BY DEF Tables
<1> HIDE DEF e
<1>r. /\ Recover(e, r).active = Recover(d, r).active
      /\ Recover(e, r).status = Recover(d, r).status
      /\ Recover(e, r).grants = Recover(d, r).grants
  <2>1. Enrolled(e, r.who) <=> Enrolled(d, r.who)
    BY <1>1 DEF Enrolled
  <2>2. /\ Recover(d, r).active = d.active
        /\ Recover(d, r).status =
              [v \in People |-> IF v \in r.suspend THEN "suspended"
                                ELSE IF v = r.who THEN "active" ELSE d.status[v]]
        /\ Recover(d, r).grants =
              [d.grants EXCEPT ![r.who] =
                 (IF Enrolled(d, r.who) THEN d.grants[r.who] ELSE {}) \cup r.perms]
    BY Zenon, Recovered
  <2>3. /\ Recover(e, r).active = e.active
        /\ Recover(e, r).status =
              [v \in People |-> IF v \in r.suspend THEN "suspended"
                                ELSE IF v = r.who THEN "active" ELSE e.status[v]]
        /\ Recover(e, r).grants =
              [e.grants EXCEPT ![r.who] =
                 (IF Enrolled(e, r.who) THEN e.grants[r.who] ELSE {}) \cup r.perms]
    BY Zenon, <1>1, Recovered
  <2>4. Recover(e, r).status = Recover(d, r).status
    BY <1>1, <2>2, <2>3
  <2>5. Recover(e, r).grants = Recover(d, r).grants
    BY <1>1, <2>1, <2>2, <2>3
  <2> QED BY Zenon, <1>1, <2>2, <2>3, <2>4, <2>5
<1>2. /\ Apply(e, r).active = Apply(d, r).active
      /\ Apply(e, r).status = Apply(d, r).status
      /\ Apply(e, r).grants = Apply(d, r).grants
  <2> USE DEF Tables, Requests, Naming
  <2>1. CASE r.op \in {"enroll", "suspend", "reactivate", "revoke", "bootstrap",
                     "recover_suspend"}
    BY <1>1, <2>1 DEF Apply
  <2>2. CASE r.op \in {"grant", "revoke_grant"}
    BY <1>1, <2>2 DEF Apply
  <2>3. CASE r.op \in {"deactivate_user", "reactivate_user", "erase_links"}
    BY <1>1, <2>3 DEF Apply
  <2>4. CASE r.op = "recover"
    <3>1. Apply(e, r) = Recover(e, r) /\ Apply(d, r) = Recover(d, r)
      BY Zenon, <2>4 DEF Apply
    <3> QED BY Zenon, <1>r, <3>1
  <2> QED BY <2>1, <2>2, <2>3, <2>4 DEF Operations
<1>3. OwnersKept(e, r)
  BY <1>1, <1>2 DEF OwnersKept, PlatformOwnerExists
<1> QED BY <1>3 DEF e

(* A change that relied on Holding makes no operator one nobody can log in *)
(* as (enroll_in_transaction and the erasure of links).                    *)
LEMMA ApplyKeepsLinks ==
    ASSUME NEW d \in Tables, NEW r \in Requests, Holding(d, r)
    PROVE  Unusable(Apply(d, r)) \subseteq Unusable(d)
<1> SUFFICES ASSUME NEW u \in People, Enrolled(Apply(d, r), u), u \notin Apply(d, r).linked
             PROVE  Enrolled(d, u) /\ u \notin d.linked
  BY DEF Unusable
<1>r. /\ Recover(d, r).linked = d.linked
      /\ Recover(d, r).status[u] = IF u \in r.suspend THEN "suspended"
                                   ELSE IF u = r.who THEN "active" ELSE d.status[u]
  <2>1. /\ Recover(d, r).linked = d.linked
        /\ Recover(d, r).status =
              [v \in People |-> IF v \in r.suspend THEN "suspended"
                                ELSE IF v = r.who THEN "active" ELSE d.status[v]]
    BY Zenon, Recovered
  <2> QED BY <2>1
<1> USE DEF Tables, Requests, Naming, Enrolled, Holding
<1>1. CASE r.op \in {"enroll", "suspend", "reactivate", "revoke", "bootstrap",
                     "recover_suspend"}
  BY <1>1 DEF Apply
<1>2. CASE r.op \in {"grant", "revoke_grant", "deactivate_user",
                     "reactivate_user", "erase_links"}
  BY <1>2 DEF Apply
<1>3. CASE r.op = "recover"
  <2>1. Apply(d, r) = Recover(d, r)
    BY Zenon, <1>3 DEF Apply
  <2>2. /\ Apply(d, r).linked = d.linked
        /\ Apply(d, r).status[u] = IF u \in r.suspend THEN "suspended"
                                    ELSE IF u = r.who THEN "active" ELSE d.status[u]
    BY Zenon, <2>1, <1>r
  <2> QED BY <1>3, <2>2
<1> QED BY <1>1, <1>2, <1>3 DEF Operations

(* What Decide checks under the lock is what Holding needs. *)
LEMMA DecideHolds ==
    ASSUME NEW d \in Tables, NEW r \in Requests,
           Authorized(d, r), Permitted(d, r), OwnersKept(d, r)
    PROVE  Holding(d, r)
<1>1. ASSUME r.by \in People, r.op # "erase_links"
      PROVE  /\ r.by \in d.active /\ d.status[r.by] = "active"
             /\ PermissionFor(r.op) \in d.grants[r.by]
             /\ r.op = "grant" => r.perms \subseteq d.grants[r.by]
  <2>1. PlatformCan(d, r.by, PermissionFor(r.op)) /\ r.by # System
    BY <1>1, SystemAssumption DEF Authorized
  <2>2. ASSUME r.op = "grant" PROVE r.perms \subseteq d.grants[r.by]
    <3>1. MayGrant(d, r)
      BY <2>2 DEF Permitted
    <3> QED BY <2>1, <3>1 DEF MayGrant, PlatformCan
  <2> QED BY <2>1, <2>2 DEF PlatformCan
<1>2. r.op \in {"enroll", "bootstrap", "recover"} => r.who \in d.linked
  <2>1. CASE r.op = "enroll"
    BY <2>1 DEF Permitted, MayEnroll
  <2>2. CASE r.op = "bootstrap"
    BY <2>2 DEF Permitted, MayBootstrap, MayEnroll
  <2>3. CASE r.op = "recover"
    BY <2>3 DEF Permitted, MayRecover, MayEnroll
  <2> QED BY <2>1, <2>2, <2>3
<1>3. r.op = "recover" => \A u \in r.suspend : Enrolled(d, u)
  BY DEF Permitted, MayRecover
<1>4. r.op \in {"suspend", "reactivate", "recover_suspend"} => Enrolled(d, r.who)
  BY Zenon DEF Permitted, MaySuspend, MayReactivate, MayRecoverSuspend, Enrolled
<1>5. r.op = "erase_links" => ~Enrolled(d, r.who)
  BY DEF Permitted, MayEraseLinks
<1> QED BY <1>1, <1>2, <1>3, <1>4, <1>5 DEF Holding

(* Every step preserves the inductive invariant. *)
LEMMA AuthorityInvStep ==
    ASSUME AuthorityInv, [AuthorityNext]_authorityVars
    PROVE  AuthorityInv'
<1> USE DEF AuthorityInv
<1>1. ASSUME NEW x \in Transactions, NEW r \in Requests, Decide(x, r)
      PROVE  AuthorityInv'
  <2>1. /\ db' = db /\ tx' = [tx EXCEPT ![x] = Decided(r)]
        /\ \A y \in Transactions : tx[y].at = "idle"
    BY <1>1 DEF Decide, LockFree
  <2>2. Holding(db, r)
    BY <1>1, DecideHolds DEF Decide
  <2>3. tx'[x] = Decided(r) /\ \A y \in Transactions \ {x} : tx'[y].at = "idle"
    BY <2>1
  <2>4. tx' \in [Transactions -> {Idle} \cup [at : {"decided"}, req : Requests]]
    BY <2>1 DEF Decided
  <2>5. \A y \in Transactions : tx'[y].at = "decided" => Holding(db', tx'[y].req)
    BY <2>1, <2>2, <2>3 DEF Decided
  <2>6. \A y, z \in Transactions :
           tx'[y].at = "decided" /\ tx'[z].at = "decided" => y = z
    BY <2>3
  <2> QED BY <2>1, <2>4, <2>5, <2>6
<1>2. ASSUME NEW x \in Transactions, Commit(x)
      PROVE  AuthorityInv'
  <2>1. /\ tx[x].at = "decided" /\ db' = Apply(db, tx[x].req)
        /\ tx' = [tx EXCEPT ![x] = Idle]
    BY <1>2 DEF Commit
  <2>2. Holding(db, tx[x].req) /\ tx[x].req \in Requests
    BY <2>1 DEF Holding
  <2>3. db' \in Tables
    BY <2>1, <2>2, ApplyType
  <2>4. \A y \in Transactions : tx'[y].at = "idle"
    <3> SUFFICES ASSUME NEW y \in Transactions PROVE tx'[y].at = "idle"
      OBVIOUS
    <3>1. CASE y = x
      BY <2>1, <3>1 DEF Idle
    <3>2. CASE y # x
      <4>1. tx[y].at # "decided" /\ tx'[y] = tx[y]
        BY <2>1, <3>2
      <4>2. tx[y] \in {Idle} \cup [at : {"decided"}, req : Requests]
        OBVIOUS
      <4> QED BY <4>1, <4>2 DEF Idle
    <3> QED BY <3>1, <3>2
  <2>5. tx' \in [Transactions -> {Idle} \cup [at : {"decided"}, req : Requests]]
    BY <2>1
  <2> QED BY <2>3, <2>4, <2>5
<1>3. ASSUME NEW x \in Transactions, Abandon(x)
      PROVE  AuthorityInv'
  <2>1. db' = db /\ tx' = [tx EXCEPT ![x] = Idle]
    BY <1>3 DEF Abandon
  <2>2. \A y \in Transactions : tx'[y] = tx[y] \/ tx'[y] = Idle
    BY <2>1
  <2>3. tx' \in [Transactions -> {Idle} \cup [at : {"decided"}, req : Requests]]
    BY <2>1
  <2>4. \A y \in Transactions : tx'[y].at = "decided" => tx'[y] = tx[y]
    BY <2>2 DEF Idle
  <2>6. \A y \in Transactions : tx'[y].at = "decided" => Holding(db', tx'[y].req)
    BY <2>1, <2>4
  <2>7. \A y, z \in Transactions :
           tx'[y].at = "decided" /\ tx'[z].at = "decided" => y = z
    BY <2>4
  <2> QED BY <2>1, <2>3, <2>6, <2>7
<1>4. ASSUME NEW u \in People, LinkIdentity(u)
      PROVE  AuthorityInv'
  <2>1. db' = [db EXCEPT !.linked = @ \cup {u}] /\ tx' = tx
    BY <1>4 DEF LinkIdentity
  <2>2. db' \in Tables
    BY <2>1 DEF Tables
  <2>4. \A x \in Transactions : tx'[x].at = "decided" => Holding(db', tx'[x].req)
    <3> SUFFICES ASSUME NEW x \in Transactions, tx[x].at = "decided"
                 PROVE  Holding(db', tx[x].req)
      BY Zenon, <2>1
    <3>1. Holding(db, tx[x].req)
      OBVIOUS
    <3>2. OwnersKept(db', tx[x].req)
      BY <2>1, <3>1, LinkKeepsOwners DEF Holding
    <3>3. /\ db'.active = db.active /\ db'.status = db.status /\ db'.grants = db.grants
          /\ db'.linked = db.linked \cup {u}
      BY <2>1 DEF Tables
    <3> QED BY <3>1, <3>2, <3>3 DEF Holding, Enrolled
  <2> QED BY Zenon, <2>1, <2>2, <2>4
<1>5. CASE UNCHANGED authorityVars
  BY <1>5 DEF authorityVars
<1> QED BY <1>1, <1>2, <1>3, <1>4, <1>5 DEF AuthorityNext

(* The invariant holds in the first states, of whatever installation. *)
LEMMA AuthorityInvInit == AuthorityInit => AuthorityInv
<1> SUFFICES ASSUME AuthorityInit PROVE AuthorityInv
  OBVIOUS
<1>1. db \in Tables
  BY FirstStatesAssumption DEF AuthorityInit
<1>2. \A x \in Transactions : tx[x] = Idle
  BY DEF AuthorityInit
<1>3. tx \in [Transactions -> {Idle} \cup [at : {"decided"}, req : Requests]]
  BY DEF AuthorityInit
<1>4. \A x \in Transactions : tx[x].at # "decided"
  BY <1>2 DEF Idle
<1> QED BY <1>1, <1>3, <1>4 DEF AuthorityInv

(* The inductive invariant is an invariant: what a transaction checked     *)
(* under the platform-owners lock holds until it commits.                  *)
THEOREM AuthorityInvariant == AuthoritySpec => []AuthorityInv
<1> QED BY AuthorityInvInit, AuthorityInvStep, PTL DEF AuthoritySpec

(* However many people, transactions and changes there are, no change      *)
(* makes an operator one nobody can log in as, and bootstrap and recovery  *)
(* rely on none (enroll_in_transaction, _recover,                          *)
(* remove_identity_links_unless_enrolled_operator).                        *)
THEOREM OperatorsAreUsable == AuthoritySpec => OperatorsStayUsable
<1> DEFINE Usable ==
      /\ Unusable(db') \subseteq Unusable(db)
      /\ \A x \in Transactions :
            (/\ tx[x].at = "decided" /\ tx[x].req.op \in {"bootstrap", "recover"}
             /\ tx'[x].at = "idle" /\ changes' # changes)
            => tx[x].req.who \in db'.linked
<1>1. ASSUME AuthorityInv, [AuthorityNext]_authorityVars
      PROVE  [Usable]_authorityVars
  <2>1. \/ db' = db /\ changes' = changes
        \/ \E u \in People : LinkIdentity(u)
        \/ \E x \in Transactions : Commit(x)
    BY <1>1 DEF AuthorityNext, authorityVars, Decide, Abandon
  <2>2. CASE db' = db /\ changes' = changes
    BY <2>2
  <2>3. ASSUME NEW u \in People, LinkIdentity(u) PROVE Usable
    <3>1. /\ db'.status = db.status /\ db'.linked = db.linked \cup {u}
          /\ changes' = changes
      BY <1>1, <2>3 DEF LinkIdentity, AuthorityInv, Tables
    <3> QED BY <3>1 DEF Unusable, Enrolled
  <2>4. ASSUME NEW x \in Transactions, Commit(x) PROVE Usable
    <3>1. /\ db' = Apply(db, tx[x].req) /\ Holding(db, tx[x].req) /\ tx[x].at = "decided"
          /\ tx' = [tx EXCEPT ![x] = Idle] /\ db \in Tables /\ tx[x].req \in Requests
      BY <1>1, <2>4 DEF Commit, AuthorityInv, Holding
    <3>2. Unusable(db') \subseteq Unusable(db)
      BY <3>1, ApplyKeepsLinks
    <3>3. \A y \in Transactions : tx[y].at = "decided" => y = x
      BY <1>1, <3>1 DEF AuthorityInv
    <3>4. ASSUME tx[x].req.op \in {"bootstrap", "recover"}
          PROVE  tx[x].req.who \in db'.linked
      <4> DEFINE r == tx[x].req
      <4>1. r.who \in db.linked /\ r.op # "erase_links"
        BY <3>1, <3>4 DEF Holding
      <4>2. CASE r.op = "bootstrap"
        BY Zenon, <3>1, <4>1, <4>2 DEF Apply, Tables
      <4>3. CASE r.op = "recover"
        BY Zenon, <3>1, <4>1, <4>3, Recovered DEF Apply
      <4> QED BY <3>4, <4>2, <4>3
    <3> QED BY <3>2, <3>3, <3>4
  <2> QED BY <2>1, <2>2, <2>3, <2>4
<1> QED BY <1>1, AuthorityInvariant, PTL DEF AuthoritySpec, OperatorsStayUsable

(* Once an installation has an owner, no change and no pair of concurrent  *)
(* changes leaves it without one (LastPlatformOwnerError).                 *)
THEOREM OwnerNeverLost == AuthoritySpec => OwnerKept
<1>1. ASSUME AuthorityInv, [AuthorityNext]_authorityVars
      PROVE  [Owners(db) # {} => Owners(db') # {}]_authorityVars
  <2>1. \/ db' = db
        \/ \E u \in People : LinkIdentity(u)
        \/ \E x \in Transactions : Commit(x)
    BY <1>1 DEF AuthorityNext, authorityVars, Decide, Abandon
  <2>2. CASE db' = db
    BY <2>2
  <2>3. ASSUME NEW u \in People, LinkIdentity(u)
        PROVE  Owners(db) # {} => Owners(db') # {}
    <3>1. db'.active = db.active /\ db'.status = db.status /\ db'.grants = db.grants
      BY <1>1, <2>3 DEF LinkIdentity, AuthorityInv, Tables
    <3> QED BY <3>1 DEF Owners
  <2>4. ASSUME NEW x \in Transactions, Commit(x)
        PROVE  Owners(db) # {} => Owners(db') # {}
    <3>1. /\ db' = Apply(db, tx[x].req) /\ Holding(db, tx[x].req)
          /\ db \in Tables
      BY <1>1, <2>4 DEF Commit, AuthorityInv
    <3>2. PlatformOwnerExists(db) => PlatformOwnerExists(db')
      BY <3>1 DEF Holding, OwnersKept
    <3>3. db' \in Tables
      BY <3>1, ApplyType DEF Holding
    <3> QED BY <3>1, <3>2, <3>3 DEF Owners, PlatformOwnerExists, Tables
  <2> QED BY <2>1, <2>2, <2>3, <2>4
<1> QED BY <1>1, AuthorityInvariant, PTL DEF AuthoritySpec, OwnerKept

(* A change takes effect only while the operator who asked for it still    *)
(* has an active enrolment, an active user, the permission the operation   *)
(* asks for and whatever they grant (authority_transaction,                *)
(* grant_in_transaction).                                                  *)
THEOREM ChangesAreAuthorized == AuthoritySpec => ActsWithAuthority
<1> DEFINE StillHolds ==
      \A x \in Transactions :
          (/\ tx[x].at = "decided" /\ tx[x].req.by \in People
           /\ tx[x].req.op # "erase_links"
           /\ tx'[x].at = "idle" /\ changes' # changes)
          => LET r == tx[x].req IN
             /\ r.by \in db.active /\ db.status[r.by] = "active"
             /\ PermissionFor(r.op) \in db.grants[r.by]
             /\ r.op = "grant" => r.perms \subseteq db.grants[r.by]
<1>1. AuthorityInv => StillHolds
  BY DEF AuthorityInv, Holding
<1>2. AuthorityInv /\ [AuthorityNext]_authorityVars => [StillHolds]_authorityVars
  BY <1>1
<1> QED BY <1>2, AuthorityInvariant, PTL DEF AuthoritySpec, ActsWithAuthority

(* The four promises together, for any number of people, transactions and  *)
(* changes, and from whatever tables: enroll, suspend, reactivate, revoke, *)
(* grant, bootstrap, recover and erase in any interleaving.                *)
THEOREM AuthorityIsKept == AuthoritySpec => AuthorityKept
<1>1. AuthorityInit => changes \in Nat
  BY DEF AuthorityInit
<1>2. changes \in Nat /\ [AuthorityNext]_authorityVars => (changes \in Nat)'
  BY DEF AuthorityNext, Decide, Commit, Abandon, LinkIdentity, authorityVars
<1>3. AuthorityInv /\ changes \in Nat => AuthorityTypeOK
  BY DEF AuthorityInv, AuthorityTypeOK
<1> QED
  BY <1>1, <1>2, <1>3, AuthorityInvariant, OwnerNeverLost, OperatorsAreUsable,
     ChangesAreAuthorized, PTL
     DEF AuthoritySpec, AuthorityKept
=============================================================================
