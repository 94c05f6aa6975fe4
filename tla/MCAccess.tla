------------------------------- MODULE MCAccess -------------------------------
(***************************************************************************)
(* Identity and access on small instances: platform authority, tenants,    *)
(* credentials, invitations, authorization, erasure, the platform routes,  *)
(* the request gate, login and service accounts.  A behaviour is one of    *)
(* one component (part); the variables of the others rest at 0, those of   *)
(* platform authority and of login in an initial state.                    *)
(***************************************************************************)
EXTENDS PlatformAuthority, Login, Sequences

VARIABLES part,
    tree, txn, asks, left,
    userActive, linked, member, keys, sessions, erasure, call,
    tenant, invitation, membership, accepted, inviting,
    rows, work, shared, pending,
    circumstance, person, eraser, tally,
    world, visit, seen, record, upsets, mounted, startup,
    standing, inbound, refused, failures, peak, denials, used, turns,
    business, hour, home, purged, account, cited, machineKeys, change, check, witnessed

-----------------------------------------------------------------------------
(* Platform authority: before the first operator, with two owners, and     *)
(* with an operator from before enrolment looked at identities.            *)

CONSTANTS ann, bob, cid

NobodyEnrolled ==
    [active |-> People, linked |-> People \ {cid}, status |-> [u \in People |-> "none"],
     grants |-> [u \in People |-> {}]]

TwoOwners ==
    [active |-> People, linked |-> People,
     status |-> [u \in People |-> IF u = cid THEN "suspended" ELSE "active"],
     grants |-> [u \in People |-> IF u = cid THEN {Manage}
                                  ELSE IF u = bob THEN {Manage, Reactivate} ELSE Permissions]]

OldOperator ==
    [active |-> People, linked |-> People \ {bob},
     status |-> [u \in People |-> IF u = cid THEN "none" ELSE "active"],
     grants |-> [u \in People |-> IF u = ann THEN {Manage} ELSE {}]]

MCFirst == {NobodyEnrolled, TwoOwners, OldOperator}

-----------------------------------------------------------------------------
(* Tenancy: four trees, and what is asked of them.                         *)

Req(op, t, u, to) == [op |-> op, tenant |-> t, user |-> u, to |-> to]
Role(u, t, scope) == [kind |-> "role", user |-> u, tenant |-> t, scope |-> scope]

\* The rows of a tree given by its parents.
RowsFor(parent, absent) ==
    LET up2(t) == IF parent[t] = 0 THEN 0 ELSE parent[parent[t]]
        there == 1 .. 4 \ absent
    IN  {<<t, t, 0>> : t \in there}
            \cup {<<t, parent[t], 1>> : t \in {s \in there : parent[s] # 0}}
            \cup {<<t, up2(t), 2>> : t \in {s \in there : up2(s) # 0}}

Seed(parent, absent, members, grant) ==
    [parent   |-> parent,
     status   |-> [t \in 1 .. 4 |-> IF t \in absent THEN "absent" ELSE "active"],
     ancestry |-> RowsFor(parent, absent),
     member   |-> [u \in {"u", "v"} |-> [t \in 1 .. 4 |->
                      IF <<u, t>> \in members THEN "active" ELSE "none"]],
     grant    |-> grant, perm |-> 1 .. 4, deny |-> {}, inactive |-> {}]

\* A chain administered from its root and from its leaf.
Chain == Seed(<<0, 1, 2, 0>>, {4}, {<<"u", 1>>, <<"u", 2>>, <<"u", 3>>, <<"v", 3>>},
              {Role("u", 1, "subtree"), Role("v", 3, "self")})
\* Two trees that share a member's administration.
TwoTrees == Seed(<<0, 0, 1, 0>>, {4}, {<<"u", 1>>, <<"u", 3>>, <<"v", 2>>, <<"v", 3>>},
                 {Role("u", 1, "subtree"), Role("v", 2, "subtree")})
\* A tree that is still growing.
Growing == Seed(<<0, 1, 0, 0>>, {3, 4}, {<<"u", 1>>, <<"v", 2>>}, {Role("u", 1, "subtree")})
\* Two trees that can be hung below each other.
Pair == Seed(<<0, 1, 0, 3>>, {}, {<<"v", 3>>, <<"v", 4>>}, {Role("v", 3, "subtree")})

TreeCase(rows0, requests) == [rows |-> rows0, asks |-> requests]

MCSeeds ==
    {TreeCase(Chain, {Req("remove_role", 1, "u", "none"), Req("remove_role", 3, "v", "none"),
                      Req("end_membership", 3, "v", "revoked"), Req("move", 3, "none", 1),
                      Req("move", 2, "none", 0), Req("transition", 2, "none", "suspended"),
                      Req("transition", 2, "none", "active")}),
     TreeCase(Chain, {Req("end_membership", 3, "u", "suspended"),
                      Req("reactivate_membership", 3, "u", "none"),
                      Req("deactivate_user", 0, "u", "none"), Req("reactivate_user", 3, "u", "none"),
                      Req("deactivate_user", 0, "v", "none")}),
     TreeCase(Chain, {Req("revoke_permission", 1, "u", "none"), Req("grant_permission", 1, "u", "none"),
                      Req("create_deny", 1, "u", "subtree"), Req("revoke_deny", 1, "u", "none"),
                      Req("remove_role", 3, "v", "none")}),
     TreeCase(TwoTrees, {Req("create_delegation", 1, "v", "subtree"),
                         Req("revoke_delegation", 1, "v", "none"), Req("remove_role", 1, "u", "none"),
                         Req("assign_role", 2, "v", "subtree"), Req("move", 3, "none", 2),
                         Req("transition", 3, "none", "deleted")}),
     TreeCase(Growing, {Req("create", 3, "none", 2), Req("create", 3, "none", 0),
                        Req("move", 3, "none", 2), Req("add_membership", 3, "u", "none"),
                        Req("transition", 2, "none", "suspended"), Req("move", 2, "none", 3)}),
     TreeCase(Growing, {Req("create", 3, "system", 0), Req("transition", 3, "none", "active"),
                        Req("create", 4, "system", 3), Req("create", 4, "none", 3)}),
     TreeCase(Pair, {Req("move", 2, "none", 4), Req("move", 3, "none", 2), Req("move", 1, "none", 2),
                     Req("move", 2, "none", 3), Req("transition", 2, "none", "suspended"),
                     Req("move", 3, "none", 0)})}

T == INSTANCE Tenancy WITH Tenants <- 1 .. 4, Users <- {"u", "v"}, Txns <- {"x", "y"},
        MaxDepth <- 2, MaxOps <- 3, Seeds <- MCSeeds

-----------------------------------------------------------------------------
(* Credentials and invitations: two calls at once.                         *)

C == INSTANCE Credentials WITH Calls <- {"x", "y"}, Keys <- {"k1", "k2", "k3"}, Sessions <- {"s1"},
        MaxPerUser <- 2, NoKey <- "none"

I == INSTANCE Invitations WITH Calls <- {"x", "y"}, Users <- {"u", "v"}, Rows <- {"r"},
        NoRow <- "none", NoUser <- "nobody", call <- inviting

-----------------------------------------------------------------------------
(* Authorization: u1 is a member with a role, or a delegate, or a          *)
(* supporter; a1 has a role; u2 administers both tenants from t1.          *)

Do(op, by, at, who) == [op |-> op, by |-> by, at |-> at, who |-> who, scope |-> "self",
                        perm |-> "data", to |-> "deleted"]
Wide(r) == [r EXCEPT !.scope = "subtree"]

NoSupport == [tenant |-> "none", scope |-> "self", approver |-> "nobody", denier |-> "nobody",
              revoked |-> FALSE, window |-> "open"]
Held(who, t, scope) == [who |-> who, tenant |-> t, scope |-> scope]

Base ==
    [status |-> [t \in {"t1", "t2"} |-> "active"],
     parent |-> [t \in {"t1", "t2"} |-> IF t = "t2" THEN "t1" ELSE "none"],
     active |-> {"u1", "u2", "u3", "a1"},
     member |-> [u \in {"u1", "u2", "u3"} |->
                    [t \in {"t1", "t2"} |-> IF u = "u2" THEN "active" ELSE "none"]],
     roles |-> {Held("u2", "t1", "subtree"), Held("a1", "t2", "self")},
     carries |-> [t \in {"t1", "t2"} |-> {"data", "authority"}],
     delegations |-> {}, denies |-> {}, support |-> [u \in {"u1", "u2", "u3"} |-> NoSupport],
     swept |-> {}, cited |-> {"u1"}, cleared |-> {}]

AsMember == [Base EXCEPT !.member["u1"]["t2"] = "active", !.roles = @ \cup {Held("u1", "t2", "self")}]
AsDelegate ==
    [Base EXCEPT !.delegations = {[who |-> "u1", tenant |-> "t2", scope |-> "self", perm |-> "data",
                                   by |-> "u2", state |-> "valid"]}]
AsRoot ==
    [AsMember EXCEPT !.parent["t2"] = "none",
        !.denies = {[who |-> "u1", tenant |-> "t1", scope |-> "subtree", perm |-> "data"]}]
Requested == [Base EXCEPT !.support["u1"] = [NoSupport EXCEPT !.tenant = "t2", !.scope = "subtree"]]
Supporter == [Requested EXCEPT !.support["u1"].approver = "u2"]

Against(rows0, acts, others) == {[rows |-> rows0, asks |-> {act, other}] : act \in acts, other \in others}

Acting(who) == {Do("act", who, "t2", who)}
ByU2(ops, who) == {Do(op, "u2", "t2", who) : op \in ops}
To(s) == [Do("transition", "u2", "t2", "u1") EXCEPT !.to = s]

Revoking == ByU2({"deny", "revoke_deny", "deactivate"}, "u1")
            \cup {To("suspended"), Wide(Do("deny", "u2", "t1", "u1"))}
Lender == {Do(op, "u2", "t1", "u2") : op \in {"remove_role", "revoke_permission", "end_membership"}}
Purging(rows0, others) == [rows |-> rows0, asks |-> others \cup {To("deleted"), To("purging")}]

MCScenarios ==
    Against(AsMember, Acting("u1"),
            Revoking \cup ByU2({"remove_role", "end_membership", "revoke_permission"}, "u1"))
    \cup Against(AsMember, Acting("a1"),
                 ByU2({"remove_account_role", "disable_account", "deny_account"}, "a1"))
    \cup Against(AsDelegate, Acting("u1"), Revoking \cup ByU2({"revoke_delegation"}, "u1"))
    \cup Against(AsRoot, Acting("u1"), {[Do("move", "u2", "t2", "u1") EXCEPT !.to = "t1"], To("deleted")})
    \cup Against(Base, ByU2({"grant_permission", "delegate", "assign_role"}, "u1")
                       \cup ByU2({"delegate_account", "assign_account_role"}, "a1"), Lender)
    \cup Against(Supporter, Acting("u1"), Revoking \cup ByU2({"revoke_support"}, "u1") \cup {To("deleted")})
    \cup {[rows |-> AsDelegate, asks |-> Acting("u1") \cup ByU2({"add_membership", "end_membership"}, "u1")],
          [rows |-> Base, asks |-> {Wide(Do("request_support", "u1", "t2", "u1"))}
                                   \cup ByU2({"approve_support", "deny_support"}, "u1")],
          [rows |-> [Requested EXCEPT !.roles = @ \cup {Held("u3", "t2", "self")},
                                      !.member["u3"]["t2"] = "active"],
           asks |-> ByU2({"deny_support", "revoke_support"}, "u1")
                    \cup {Do("approve_support", "u3", "t2", "u1")}],
          [rows |-> Requested, asks |-> {Do("approve_support", "u1", "t2", "u1")}],
          Purging(Requested, ByU2({"approve_support", "purge_support"}, "u1")),
          Purging(AsDelegate, ByU2({"purge_authorization", "delegate"}, "u1")),
          Purging(AsDelegate, ByU2({"purge_authorization", "deny"}, "u1"))}

Z == INSTANCE Authorization WITH Users <- {"u1", "u2", "u3"}, Accounts <- {"a1"},
        Tenants <- {"t1", "t2"}, NoTenant <- "none", NoUser <- "nobody", Txns <- {"x", "y"},
        Scenarios <- MCScenarios

-----------------------------------------------------------------------------
(* Erasure: of a member, by one or two erasers, and what others do          *)
(* meanwhile.                                                              *)

Invite(state, to) == [state |-> state, to |-> to]

Subject ==
    [links |-> TRUE, sessions |-> TRUE, member |-> 1, roles |-> TRUE,
     leaves |-> {"api_keys", "notifications", "notification_events"},
     invites |-> <<Invite("accepted", "x"), Invite("pending", "v"), Invite("pending", "x")>>,
     events |-> <<"user", "none">>]

Plainly ==
    [person |-> Subject, declared |-> "valid", operator |-> FALSE, overlap |-> TRUE, deaths |-> FALSE,
     others |-> {}]

MCCircumstances ==
    {Plainly, [Plainly EXCEPT !.deaths = TRUE], [Plainly EXCEPT !.operator = TRUE],
     [Plainly EXCEPT !.declared = "invalid"],
     [Plainly EXCEPT !.declared = "none", !.overlap = FALSE, !.deaths = TRUE,
                     !.person.invites[1] = Invite("pending", "a")],
     [Plainly EXCEPT !.overlap = FALSE, !.deaths = TRUE, !.person.invites[1] = Invite("pending", "a")],
     [Plainly EXCEPT !.person.member = 0, !.person.roles = FALSE, !.person.leaves = {}, !.deaths = TRUE],
     [Plainly EXCEPT !.others = {"append", "accept"}, !.overlap = FALSE, !.deaths = TRUE]}
    \cup {[Plainly EXCEPT !.others = {o}] : o \in {"accept", "append", "assign", "leaf"}}

E == INSTANCE Erasure WITH Circumstances <- MCCircumstances, Erasers <- {1, 2}, Invites <- {1, 2, 3},
        Events <- {1, 2}

-----------------------------------------------------------------------------
(* The platform routes: what the session, the operator and the tenant are  *)
(* like, and the routes an application mounts.                             *)

Good ==
    [enabled |-> TRUE, production |-> TRUE, multiFactorRequired |-> TRUE, session |-> "live",
     multiFactor |-> TRUE, age |-> "fresh", operator |-> "active", steward |-> FALSE, tenant |-> "pending",
     granted |-> {"tenant.create", "tenant.suspend", "tenant.reactivate", "authority.manage",
                  "retention_hold.manage", "user.deactivate"}]

Others ==
    {"tenant.read", "user.read", "operator.read", "audit.read", "billing.read", "feature_flag.read",
     "tenant.move", "tenant.delete", "user.reactivate", "session.revoke", "api_key.revoke",
     "feature_flag.define", "feature_flag.override", "ai_config.read", "ai_usage.read",
     "outbox.replay", "webhook_secret.reencrypt", "permission_grant.apply", "retention.report",
     "ai_provider.configure", "ai_endpoint_trust.configure", "ai_policy.configure"}

MCWorlds ==
    {Good, [Good EXCEPT !.enabled = FALSE], [Good EXCEPT !.production = FALSE],
     [Good EXCEPT !.multiFactorRequired = FALSE, !.multiFactor = FALSE], [Good EXCEPT !.multiFactor = FALSE],
     [Good EXCEPT !.session = "revoked"], [Good EXCEPT !.age = "old"],
     [Good EXCEPT !.operator = "none", !.granted = {}],
     [Good EXCEPT !.operator = "none", !.granted = {}, !.multiFactor = FALSE],
     [Good EXCEPT !.granted = {}], [Good EXCEPT !.steward = TRUE, !.tenant = "active"],
     [Good EXCEPT !.tenant = "active"], [Good EXCEPT !.tenant = "suspended"],
     [Good EXCEPT !.granted = @ \cup Others]}

Marker(kind, detail, fresh) == [kind |-> kind, detail |-> detail, fresh |-> fresh]
Owning(fresh) == Marker("platform", "authority.manage", fresh)
SignedIn == Marker("authenticated", "", FALSE)
Needing == Marker("permission", "x", FALSE)
Open(why) == Marker("public", why, FALSE)

Mounting(label, unsafe, type, markers) ==
    [label |-> label, unsafe |-> unsafe, type |-> type, markers |-> markers]

MCRegistrations ==
    {Mounting("POST a", TRUE, "api", m) :
        m \in {{Owning(TRUE), SignedIn}, {Owning(FALSE), SignedIn}, {Needing, SignedIn}, {Open("")}}}
    \cup {Mounting("GET b", FALSE, "api", m) :
        m \in {{Owning(FALSE), SignedIn}, {Owning(FALSE), Needing}, {Open("why"), SignedIn}, {}}}
    \cup {Mounting("docs", FALSE, "documentation", {})}

H == INSTANCE PlatformHttp WITH Worlds <- MCWorlds, MaxUpsets <- 1, Registrations <- MCRegistrations,
        MaxMounted <- 2

-----------------------------------------------------------------------------
(* The request gate: one to three requests with one credential.            *)

ToRoute(op, key, entitlement, quota) ==
    [op |-> op, key |-> key, entitlement |-> entitlement, quota |-> quota]
Product(entitlement, quota) == ToRoute("product", TRUE, entitlement, quota)
PlainProduct == Product(FALSE, FALSE)
Handlers ==
    {ToRoute(op, FALSE, FALSE, FALSE) : op \in
        {"members.list", "members.suspend", "members.reactivate", "members.revoke",
         "invitations.create", "invitations.list", "invitations.revoke",
         "keys.create", "keys.list", "keys.rotate", "keys.revoke",
         "billing.entitlements", "billing.plans", "billing.subscribe", "billing.cancel",
         "billing.payment_page", "billing.payer_list", "billing.payer_read",
         "tenant.status", "tenant.suspend", "tenant.usage"}}

By(means, unsafe, origin, route) == [means |-> means, unsafe |-> unsafe, origin |-> origin, route |-> route]
Bearer(route) == By("bearer", TRUE, "none", route)
ApiKey(route) == By("key", TRUE, "none", route)

Quiet ==
    [credential |-> "live", keyTenant |-> "own", tenant |-> "active", member |-> TRUE, permitted |-> TRUE,
     entitled |-> TRUE, quota |-> 1, store |-> TRUE, shapes |-> <<>>]
Asked(s, shapes) == [s EXCEPT !.shapes = shapes]

MCGateSituations ==
    {Asked(Quiet, <<Bearer(route)>>) : route \in Handlers}
    \cup {Asked(Quiet, <<By(means, unsafe, origin, PlainProduct)>>) :
            means \in {"cookie", "none", "malformed", "key and cookie", "signature"},
            unsafe \in BOOLEAN, origin \in {"same", "other"}}
    \cup {Asked(Quiet, <<ApiKey(ToRoute("members.list", FALSE, FALSE, FALSE))>>),
          Asked([Quiet EXCEPT !.keyTenant = "other"], [r \in 1 .. 3 |-> ApiKey(PlainProduct)])}
    \cup {Asked([Quiet EXCEPT !.credential = c, !.store = s, !.tenant = "suspended"],
                [r \in 1 .. 3 |-> Bearer(PlainProduct)]) : c \in {"live", "revoked"}, s \in BOOLEAN}
    \cup {Asked([Quiet EXCEPT !.entitled = e],
                <<ApiKey(Product(TRUE, TRUE)), Bearer(Product(FALSE, TRUE))>>) : e \in BOOLEAN}
    \cup {Asked(s, <<ApiKey(PlainProduct), Bearer(Product(TRUE, TRUE))>>) :
            s \in {[Quiet EXCEPT !.member = FALSE], [Quiet EXCEPT !.permitted = FALSE]}}

G == INSTANCE RequestGate WITH Situations <- MCGateSituations, FailureLimit <- 1, MaxTurns <- 1

-----------------------------------------------------------------------------
(* Login: how the deployment is set up; two browsers, two callbacks.       *)

Deployed ==
    [public |-> TRUE, origin |-> [scheme |-> "https", site |-> "app", shape |-> "origin"],
     redirect |-> {}, production |-> TRUE, secure |-> TRUE, path |-> "same-origin"]
Callback(scheme, site) == [scheme |-> scheme, site |-> site, path |-> "callback"]

MCSetups ==
    {Deployed, [Deployed EXCEPT !.redirect = {Callback("https", "other")}],
     [Deployed EXCEPT !.public = FALSE],
     [Deployed EXCEPT !.public = FALSE, !.redirect = {Callback("http", "app")}],
     [Deployed EXCEPT !.origin.scheme = "http"], [Deployed EXCEPT !.origin.shape = "path"],
     [Deployed EXCEPT !.secure = FALSE], [Deployed EXCEPT !.path = "elsewhere"]}

-----------------------------------------------------------------------------
(* Service accounts: what is done to an account and its keys.              *)

Business(ops, checks, first) == [ops |-> ops, checks |-> checks, first |-> first]

MCBusinesses ==
    {Business({"create_key", "rotate", "revoke"}, FALSE, "active"),
     Business({"create_key", "revoke"}, TRUE, "active"), Business({"create_key", "disable"}, TRUE, "active"),
     Business({"create_account", "create_key", "enable", "purge_keys", "purge_accounts"}, FALSE, "none"),
     Business({"create_key", "enable", "revoke_own", "purge_keys", "purge_accounts"}, FALSE, "disabled"),
     Business({"create_key", "purge_keys", "purge_accounts"}, TRUE, "active")}

S == INSTANCE ServiceAccounts WITH Changers <- {1, 2}, MachineKeys <- {1, 2}, Never <- 9, MaxHour <- 1,
        Businesses <- MCBusinesses

-----------------------------------------------------------------------------
treeVars == <<tree, txn, asks, left>>
credentialVars == <<userActive, linked, member, keys, sessions, erasure, call>>
invitationVars == <<tenant, invitation, membership, accepted, inviting>>
authorizationVars == <<rows, work, shared, pending>>
erasureVars == <<circumstance, person, eraser, tally>>
httpVars == <<world, visit, seen, record, upsets, mounted, startup>>
gateVars == <<standing, inbound, refused, failures, peak, denials, used, turns>>
accountVars == <<business, hour, home, purged, account, cited, machineKeys, change, check, witnessed>>

mcVars == <<part, authorityVars, treeVars, credentialVars, invitationVars, authorizationVars, erasureVars,
            httpVars, gateVars, loginVars, accountVars>>

AuthorityRests == db = TwoOwners /\ tx = [x \in Transactions |-> Idle] /\ changes = 0
TreeRests == tree = 0 /\ txn = 0 /\ asks = 0 /\ left = 0
CredentialsRest ==
    userActive = 0 /\ linked = 0 /\ member = 0 /\ keys = 0 /\ sessions = 0 /\ erasure = 0 /\ call = 0
InvitationsRest == tenant = 0 /\ invitation = 0 /\ membership = 0 /\ accepted = 0 /\ inviting = 0
AuthorizationRests == rows = 0 /\ work = 0 /\ shared = 0 /\ pending = 0
ErasureRests == circumstance = 0 /\ person = 0 /\ eraser = 0 /\ tally = 0
HttpRests == world = 0 /\ visit = 0 /\ seen = 0 /\ record = 0 /\ upsets = 0 /\ mounted = 0 /\ startup = 0
GateRests ==
    /\ standing = 0 /\ inbound = 0 /\ refused = 0 /\ failures = 0 /\ peak = 0 /\ denials = 0 /\ used = 0
    /\ turns = 0
LoginRests == LoginInit /\ setup = Deployed
AccountsRest ==
    /\ business = 0 /\ hour = 0 /\ home = 0 /\ purged = 0 /\ account = 0 /\ cited = 0 /\ machineKeys = 0
    /\ change = 0 /\ check = 0 /\ witnessed = 0

MCInit ==
    /\ part \in {"authority", "tenancy", "credentials", "invitations", "authorization", "erasure",
                 "http", "gate", "login", "accounts"}
    /\ IF part = "authority" THEN AuthorityInit ELSE AuthorityRests
    /\ IF part = "tenancy" THEN T!Init ELSE TreeRests
    /\ IF part = "credentials" THEN C!CredentialInit ELSE CredentialsRest
    /\ IF part = "invitations" THEN I!InvitationInit ELSE InvitationsRest
    /\ IF part = "authorization" THEN Z!AuthorizationInit ELSE AuthorizationRests
    /\ IF part = "erasure" THEN E!ErasureInit ELSE ErasureRests
    /\ IF part = "http" THEN H!HttpInit ELSE HttpRests
    /\ IF part = "gate" THEN G!GateInit ELSE GateRests
    /\ IF part = "login" THEN LoginInit ELSE LoginRests
    /\ IF part = "accounts" THEN S!AccountInit ELSE AccountsRest

MCNext ==
    /\ UNCHANGED part
    /\ \/ /\ part = "authority" /\ AuthorityNext
          /\ UNCHANGED <<treeVars, credentialVars, invitationVars, authorizationVars, erasureVars,
                        httpVars, gateVars, loginVars, accountVars>>
       \/ /\ part = "tenancy" /\ T!Next
          /\ UNCHANGED <<authorityVars, credentialVars, invitationVars, authorizationVars, erasureVars,
                        httpVars, gateVars, loginVars, accountVars>>
       \/ /\ part = "credentials" /\ C!CredentialNext
          /\ UNCHANGED <<authorityVars, treeVars, invitationVars, authorizationVars, erasureVars,
                        httpVars, gateVars, loginVars, accountVars>>
       \/ /\ part = "invitations" /\ I!InvitationNext
          /\ UNCHANGED <<authorityVars, treeVars, credentialVars, authorizationVars, erasureVars,
                        httpVars, gateVars, loginVars, accountVars>>
       \/ /\ part = "authorization" /\ Z!AuthorizationNext
          /\ UNCHANGED <<authorityVars, treeVars, credentialVars, invitationVars, erasureVars,
                        httpVars, gateVars, loginVars, accountVars>>
       \/ /\ part = "erasure" /\ E!ErasureNext
          /\ UNCHANGED <<authorityVars, treeVars, credentialVars, invitationVars, authorizationVars,
                        httpVars, gateVars, loginVars, accountVars>>
       \/ /\ part = "http" /\ H!HttpNext
          /\ UNCHANGED <<authorityVars, treeVars, credentialVars, invitationVars, authorizationVars,
                        erasureVars, gateVars, loginVars, accountVars>>
       \/ /\ part = "gate" /\ G!GateNext
          /\ UNCHANGED <<authorityVars, treeVars, credentialVars, invitationVars, authorizationVars,
                        erasureVars, httpVars, loginVars, accountVars>>
       \/ /\ part = "login" /\ LoginNext
          /\ UNCHANGED <<authorityVars, treeVars, credentialVars, invitationVars, authorizationVars,
                        erasureVars, httpVars, gateVars, accountVars>>
       \/ /\ part = "accounts" /\ S!AccountNext
          /\ UNCHANGED <<authorityVars, treeVars, credentialVars, invitationVars, authorizationVars,
                        erasureVars, httpVars, gateVars, loginVars>>

MCSpec == MCInit /\ [][MCNext]_mcVars

-----------------------------------------------------------------------------
\* Tenancy. The tenant tree and its administrators survive whatever mutations run side by side.
\*   AncestryIsClosure: core.tenant_ancestry is exactly the closure of parent_id, with distances:
\*     a tenant's rows are its own and its parent's, one step further away.
\*   DepthBounded: No tenant is ever deeper below its root than the configured guardrail,
\*     whatever moves and creations ran side by side.
\*   NoLockCycle: Two mutations never wait for each other's administrator locks, unless the tree
\*     changed after one of them had fixed the order of its locks.
\*   AttachedToOpen: A tenant is attached, by a creation or by a move, only to a parent that is
\*     not suspended or closed at the moment the attachment commits, and by provisioning only to
\*     one that is still pending then.
\*   AdministratorKept: A committed step takes a tenant's last administrator away only if the
\*     step closes or suspends that very tenant, or if the authority appeared in the tenant, or
\*     was taken by a mutation that had not foreseen the tenant, after the step's transaction
\*     read whom it can reach. A deactivation is not excused by a membership that appeared: its
\*     second scan refuses.
TreeAndAdministratorsKept ==
    /\ [](part = "tenancy" => T!AncestryIsClosure /\ T!DepthBounded /\ T!NoLockCycle)
    /\ [][part = "tenancy" => T!AttachedToOpenStep /\ T!AdministratorKeptStep]_mcVars

\* Credentials and ServiceAccounts. No credential of a person or of a service account survives
\* what should have ended it.
\*   InactiveHasNoCredential: _deactivate_in_transaction: a deactivated user has no credential
\*     left, though logins, new keys and rotations may be under way when it commits.
\*   KeyLimitKept: create_api_key: "at most max_per_user" unrevoked keys, however many are
\*     created at once and rotated meanwhile.
\*   RotatedOnce: rotate_api_key: a key has one successor; of two rotations at once the second is
\*     refused (RevokedApiKeyError).
\*   ErasedHasNoKey: erase_user_identity: once the membership is gone no key of the person is
\*     left in the tenant, whatever was created or rotated while it ran.
\*   AcceptedWasGood: validate_api_key reads three rows in three transactions: a key is only
\*     accepted when, at some moment of the call, it was live and unexpired, at some moment its
\*     tenant admitted principals and at some moment its account was active; a rotation, a
\*     revocation or a disabling that committed before the call began is never missed.
\*   PurgedHasNoCredential: purge_tenant: a purged tenant has no key and no active account,
\*     though keys were being created and rotated and the account enabled when it was deleted.
\*   RevokedHasNoSuccessor: rotate_api_key: "a rotation must not turn a revoked key back into a
\*     live credential", also when the two run at once.
\*   NeverOutlives: rotate_api_key: a new key never outlives the one it replaces, so an expired
\*     key is not renewed by rotating it.
\*   CitedIsKept: purge_tenant_service_accounts keeps the account an audit row names: its own
\*     last revocation, made while the tenant was being closed, or a validation refused at any
\*     moment. A record written between the reading of the references and the deletion makes the
\*     deletion fail.
CredentialsEndWithTheirOwner ==
    /\ part = "credentials" => /\ C!CredentialTypeOK /\ C!InactiveHasNoCredential
                               /\ C!KeyLimitKept /\ C!RotatedOnce /\ C!ErasedHasNoKey
    /\ part = "accounts" => /\ S!AccountTypeOK /\ S!AcceptedWasGood /\ S!PurgedHasNoCredential
                            /\ S!RevokedHasNoSuccessor /\ S!NeverOutlives /\ S!CitedIsKept

\* Invitations. An invitation and the membership it leads to end once and stay ended.
\*   AcceptedOnce: accept_invitation: a token is redeemed once, though two people may present it
\*     at the same time.
\*   InvitationEndsOnce: core/identity/models.py, Invitation: accepted and revoked are terminal,
\*     though a revocation may have read the row before it was redeemed.
\*   RevokedIsFinal: _transition_membership_status: a revoked membership comes back neither by a
\*     reactivation that had read "suspended" nor by an invitation.
\*   JoinsOpenTenant: _consume_locked_invitation: nobody joins a tenant that has closed by
\*     redeeming a token.
JoiningEndsOnce ==
    /\ [](part = "invitations" => I!InvitationTypeOK /\ I!AcceptedOnce)
    /\ [][part = "invitations" => /\ I!InvitationEndsOnceStep /\ I!RevokedIsFinalStep
                                  /\ I!JoinsOpenTenantStep]_mcVars

\* Authorization. What is written under an authorization is still authorized when it commits.
\*   NoSupportAfterPurge: After the purge revoked a tenant's support grants, none of them is live
\*     again.
\*   PurgedConfersNothing: Once purge_tenant_authorization ran, the tenant has no role and no
\*     deny, and what delegation is kept for the audit log is revoked: no operation that was
\*     authorized before the tenant closed adds one afterwards.
\*   AuthorizedUntilCommit: When an authorized operation commits, can() would still say yes on
\*     the committed rows, leaving aside time that ran out since. A delegate who was no member
\*     when the decision was made is excepted: there was no membership to lock.
\*   ConveysWhatIsHeld: What a conveying operation passes on, its caller still holds by
\*     membership at the commit (_actor_reaches_tenant_at_scope).
\*   SupportDecisionStands: The first decision on a support request stands: nobody approves what
\*     was denied, and a second approver does not replace the first.
AuthorizedWhenCommitted ==
    /\ [](part = "authorization" => Z!NoSupportAfterPurge /\ Z!PurgedConfersNothing)
    /\ [][part = "authorization" => /\ Z!AuthorizedUntilCommitStep /\ Z!ConveysWhatIsHeldStep
                                    /\ Z!SupportDecisionStandsStep]_mcVars

\* Erasure. Erasing a person, in many transactions and with crashes, leaves nothing and counts
\* what it did.
\*   InvitationCountExact: The invitations the audit rows count are those that were deleted:
\*     overlapping calls neither lose nor repeat one, whichever dies.
\*   InitiatorCountExact: As long as no call died or failed, the initiators counted are those
\*     that were replaced, also where another call removed the membership in between.
\*   CompletedLeavesNothing: A call that ran to its end, however many died before it, leaves
\*     nothing that names the person, invitations to an address it had no way to know excepted,
\*     unless somebody added it meanwhile.
ErasureIsComplete ==
    /\ part = "erasure" => /\ E!ErasureTypeOK /\ E!InvitationCountExact /\ E!InitiatorCountExact
                           /\ E!CompletedLeavesNothing

\* PlatformHttp. A platform route performs what it names, for who may, and leaves the trace it
\* owes.
\*   EveryRefusalHasAnAnswer: Whatever the core refuses with has an answer of its own; no route
\*     turns a refusal into an internal error (_translated).
\*   RouteRunsItsOperation: A transition route performs its own operation only: activating never
\*     reactivates a tenant that was suspended while the request ran, though both lead to the
\*     same status.
\*   OutsiderSeesNothing: Who is no active operator learns nothing of the surface: not from the
\*     answer, not from rows.
\*   OneTrace: Every request that was refused for want of authority, freshness or a second factor
\*     left one refusal row (or its loss was logged), one that succeeded one change row, no
\*     request both.
\*   AuthorityOnFreshSession: Nobody's authority changes on a session that was too old when the
\*     gate looked at it.
\*   PlatformRoutesKeepTheRules: Every platform route of an application that serves obeys the
\*     platform rules, also one whose path was registered a second time: the router serves the
\*     first registration and the check sees the last.
\*   OneAuthorityPerRoute: An application that serves has no route that asks for two different
\*     authorities, that is both public and guarded, or that says nothing.
\*   PerformedWithAuthority: An operation behind a route takes effect only while the caller is an
\*     active operator with a live grant of the permission of the operation performed, whatever
\*     the gate read earlier; an operation given the session as evidence, only while that session
\*     is live.
PlatformRoutesGuarded ==
    /\ [](part = "http" => /\ H!HttpTypeOK /\ H!EveryRefusalHasAnAnswer /\ H!RouteRunsItsOperation
                           /\ H!OutsiderSeesNothing /\ H!OneTrace /\ H!AuthorityOnFreshSession
                           /\ H!PlatformRoutesKeepTheRules /\ H!OneAuthorityPerRoute)
    /\ [][part = "http" => H!PerformedWithAuthorityStep]_mcVars

\* RequestGate. The gate of a tenant request limits, charges, records and answers consistently
\* under races.
\*   ReplayBounded: A refused credential is looked up at most FailureLimit times in a window,
\*     overshot by no more than the requests in flight at once (the failed-credential limit),
\*     while the store can be read.
\*   ValidNeverFailing: A credential that is valid throughout is never answered as a failing one,
\*     whatever tenants its requests name (_count_credential_failure counts refusals of the
\*     credential only).
\*   QuotaForAdmitted: Quota is consumed by the requests that reached their handler and by no
\*     other: a request denied by permission, entitlement or a limit consumed none.
\*   DenialsRecorded: Every denial by permission or entitlement left one audit row; no other
\*     answer did.
\*   RaceAnsweredAsGate: When the permission goes or the tenant closes between the gate and the
\*     core operation, the answer is the one the gate would have given, not an internal error.
GateLimitsAndRecords ==
    /\ part = "gate" => /\ G!GateTypeOK /\ G!ReplayBounded /\ G!ValidNeverFailing
                        /\ G!QuotaForAdmitted /\ G!DenialsRecorded /\ G!RaceAnsweredAsGate
=============================================================================
