----------------------------- MODULE Bootstrap -----------------------------
(***************************************************************************)
(* The commands that prepare a deployment and may be run again after they  *)
(* failed: the first-tenant bootstrap (api/tenant_bootstrap.py), the local *)
(* identity bootstrap, which registers the application with ZITADEL        *)
(* (infra/local_identity/zitadel_bootstrap.py), and the bootstrap and      *)
(* recovery of platform authority (api/platform_bootstrap.py).             *)
(*                                                                         *)
(* The first has no transaction across its steps: each step finds or       *)
(* creates in a transaction of its own, and the process may die between    *)
(* two steps.  A tenant is one of the tenants that carry the requested     *)
(* name; an owner stands for the issuer and subject of an identity.  The   *)
(* owner role has one permission (FIRST_TENANT_OWNER_PERMISSIONS).         *)
(*                                                                         *)
(* The second lists before it creates, and repeats a call whose answer it  *)
(* did not get.  The third validates its arguments and then does all of    *)
(* its work in one transaction under the platform-owners lock.             *)
(* A situation says which command a behaviour is about.                    *)
(***************************************************************************)
EXTENDS Naturals, FiniteSets, Sequences

CONSTANTS
    Situations,     \* where a behaviour starts and what may happen in it
    Runs,           \* runs of a command
    MaxTenants,     \* tenants of the requested name
    PageSize,       \* _LIST_PAGE_SIZE
    MaxPages,       \* _MAX_LIST_PAGES
    Retries         \* _RETRIES

Tenants == 1 .. MaxTenants
Ids == 1 .. 2 * Retries * Cardinality(Runs)
None == 0

VARIABLES
    situation,      \* the situation of this behaviour
    registry,       \* the tenants of that name, with role, members, assignments
    identities,     \* owners with an external identity and a user
    run,            \* the runs
    console,        \* the projects and applications ZITADEL holds
    printed,        \* client ids the runs printed
    platform        \* the platform operators, their grants, and who bootstrap enrolled

bootstrapVars == <<situation, registry, identities, run, console, printed, platform>>

NoTenant == [status |-> "absent", role |-> FALSE, granted |-> FALSE, members |-> {}, owners |-> {}]
NewTenant == [NoTenant EXCEPT !.status = "pending"]

\* The arguments of the platform command; a person is an issuer and a subject.
Nobody == <<"none", "none">>
NoRequest == [kind |-> "none", who |-> Nobody, grants |-> <<>>, suspend |-> Nobody, reason |-> "given"]

NoConfig == [login |-> "none", userinfo |-> FALSE]

NoRun == [pc |-> "none", owner |-> "none", tenant |-> None, saw |-> "absent", did |-> {},
          plan |-> {}, project |-> None, app |-> None, tries |-> 0,
          listed |-> NoConfig, asked |-> NoRequest]

Open(t) == registry[t].status \in {"pending", "active", "suspended"}

\* find_tenants_by_name
FoundTenantsActive == {t \in Tenants : registry[t].status = "active"}
FoundTenants == {t \in Tenants : registry[t].status # "absent"}

At(r, pc) == run[r].pc = pc
Running(r) == run[r].pc \notin {"none", "usage", "done", "refused", "failed", "crashed"}
Goto(r, pc) == run' = [run EXCEPT ![r].pc = pc]
Fail(r) == Goto(r, "failed")
Did(r, step, pc) == run' = [run EXCEPT ![r].did = @ \cup {step}, ![r].pc = pc]

---------------------------------------------------------------------------
\* The tenant-name rule: resume a tenant without members or with this owner among them.
ResumableByAnyone(t, owner) == registry[t].status \in {"pending", "active"}
Resumable(t, owner) ==
    /\ registry[t].status \in {"pending", "active"}
    /\ \/ registry[t].members = {}
       \/ owner \in identities /\ owner \in registry[t].members

\* assess_bootstrap: what the dry run says a run would perform, or that it would be refused.
PlanSteps == {"activation", "owner_user", "owner_role", "owner_membership"}

MissingWhenPending(t, owner) ==
    IF registry[t].status = "active" THEN {} ELSE PlanSteps \ (IF owner \in identities THEN {"owner_user"} ELSE {})
Missing(t, owner) ==
    {step \in PlanSteps : CASE step = "activation" -> registry[t].status # "active"
                            [] step = "owner_user" -> owner \notin identities
                            [] step = "owner_role" -> ~registry[t].role
                            [] OTHER               -> owner \notin registry[t].members}

Plan(owner) ==
    IF FoundTenants = {}
    THEN {"tenant"} \cup (PlanSteps \ (IF owner \in identities THEN {"owner_user"} ELSE {}))
    ELSE LET t == CHOOSE x \in FoundTenants : TRUE
         IN IF Cardinality(FoundTenants) = 1 /\ Resumable(t, owner) THEN Missing(t, owner)
            ELSE {"refused"}

\* In production a run, but not a dry run, asks for --confirm-production.
Confirmed == situation.production => situation.confirm

\* main: a dry run first, then the run.  A situation without overlap runs them one at a time.
Start(r, owner) ==
    /\ situation.command = "tenant"
    /\ r <= situation.runs /\ At(r, "none") /\ \A q \in Runs : q < r => ~At(q, "none")
    /\ situation.overlap \/ \A q \in Runs : ~Running(q)
    /\ run' = [run EXCEPT ![r] = [NoRun EXCEPT !.pc = IF Confirmed THEN "resolve" ELSE "usage",
                                               !.owner = owner, !.plan = Plan(owner)]]
    /\ UNCHANGED <<situation, registry, identities, console, printed, platform>>

\* _resolve_tenant
Resolve(r) ==
    /\ At(r, "resolve")
    /\ CASE FoundTenants = {} -> Goto(r, "create")
         [] Cardinality(FoundTenants) > 1 -> Goto(r, "refused")
         [] OTHER ->
              LET t == CHOOSE x \in FoundTenants : TRUE
              IN run' = [run EXCEPT ![r].pc = IF Resumable(t, run[r].owner) THEN "activate"
                                              ELSE "refused",
                                    ![r].tenant = t, ![r].saw = registry[t].status]
    /\ UNCHANGED <<situation, registry, identities, console, printed, platform>>

CreateTenant(r) == \E t \in Tenants :
    /\ At(r, "create")
    /\ registry[t].status = "absent" /\ \A x \in Tenants : x < t => registry[x].status # "absent"
    /\ registry' = [registry EXCEPT ![t] = NewTenant]
    /\ run' = [run EXCEPT ![r].pc = "activate", ![r].tenant = t, ![r].saw = "pending",
                          ![r].did = @ \cup {"tenant"}]
    /\ UNCHANGED <<situation, identities, console, printed, platform>>

\* transition_tenant_status: pending -> active is the only edge provisioning may take; the edge
\* is chosen, and authorized, from the status read under the lock.
ActivatableIfAllowed(t) == registry[t].status \in {"pending", "suspended"}
Activatable(t) == registry[t].status = "pending"

EnsureActive(r) == LET t == run[r].tenant IN
    /\ At(r, "activate")
    /\ IF run[r].saw = "active" THEN Goto(r, "user") /\ UNCHANGED registry
       ELSE IF Activatable(t)
            THEN /\ registry' = [registry EXCEPT ![t].status = "active"]
                 /\ Did(r, "activation", "user")
            ELSE Fail(r) /\ UNCHANGED registry
    /\ UNCHANGED <<situation, identities, console, printed, platform>>

EnsureUser(r) ==
    /\ At(r, "user")
    /\ identities' = identities \cup {run[r].owner}
    /\ IF run[r].owner \in identities THEN Goto(r, "role") ELSE Did(r, "owner_user", "role")
    /\ UNCHANGED <<situation, registry, console, printed, platform>>

\* The find-or-create steps: what exists is kept, a closed tenant takes nothing new.
EnsureOwnerRole(r) == LET t == run[r].tenant IN
    /\ At(r, "role")
    /\ IF registry[t].role THEN Goto(r, "grants") /\ UNCHANGED registry
       ELSE IF Open(t) THEN /\ registry' = [registry EXCEPT ![t].role = TRUE]
                            /\ Did(r, "owner_role", "grants")
            ELSE Fail(r) /\ UNCHANGED registry
    /\ UNCHANGED <<situation, identities, console, printed, platform>>

EnsurePermissionGrants(r) == LET t == run[r].tenant IN
    /\ At(r, "grants")
    /\ IF registry[t].granted THEN Goto(r, "membership") /\ UNCHANGED registry
       ELSE IF Open(t) THEN /\ registry' = [registry EXCEPT ![t].granted = TRUE]
                            /\ Did(r, "permission_grants", "membership")
            ELSE Fail(r) /\ UNCHANGED registry
    /\ UNCHANGED <<situation, identities, console, printed, platform>>

EnsureMembership(r) == LET t == run[r].tenant  o == run[r].owner IN
    /\ At(r, "membership")
    /\ IF o \in registry[t].members THEN Goto(r, "assignment") /\ UNCHANGED registry
       ELSE IF Open(t) THEN /\ registry' = [registry EXCEPT ![t].members = @ \cup {o}]
                            /\ Did(r, "owner_membership", "assignment")
            ELSE Fail(r) /\ UNCHANGED registry
    /\ UNCHANGED <<situation, identities, console, printed, platform>>

\* assign_first_role_for_new_tenant, the only step that confers authority.
EnsureRoleAssignment(r) == LET t == run[r].tenant  o == run[r].owner IN
    /\ At(r, "assignment")
    /\ IF o \in registry[t].owners THEN Goto(r, "verify") /\ UNCHANGED registry
       ELSE IF Open(t) THEN /\ registry' = [registry EXCEPT ![t].owners = @ \cup {o}]
                            /\ Did(r, "role_assignment", "verify")
            ELSE Fail(r) /\ UNCHANGED registry
    /\ UNCHANGED <<situation, identities, console, printed, platform>>

Can(t, o) == /\ registry[t].status = "active" /\ registry[t].granted
             /\ o \in registry[t].members \cap registry[t].owners

VerifyOwnerAuthority(r) ==
    /\ At(r, "verify")
    /\ IF Can(run[r].tenant, run[r].owner) THEN Goto(r, "done") ELSE Fail(r)
    /\ UNCHANGED <<situation, registry, identities, console, printed, platform>>

\* The process dies between two transactions.
Crash(r) ==
    /\ Running(r)
    /\ Goto(r, "crashed")
    /\ UNCHANGED <<situation, registry, identities, console, printed, platform>>

\* Platform operators move the tenant meanwhile.
Operate(t, from, to) ==
    /\ situation.command = "tenant" /\ situation.operators
    /\ registry[t].status = from
    /\ registry' = [registry EXCEPT ![t].status = to]
    /\ UNCHANGED <<situation, identities, run, console, printed, platform>>

TenantStep(r) == \/ \E o \in situation.owners : Start(r, o)
                 \/ Resolve(r) \/ CreateTenant(r) \/ EnsureActive(r) \/ EnsureUser(r)
                 \/ EnsureOwnerRole(r) \/ EnsurePermissionGrants(r) \/ EnsureMembership(r)
                 \/ EnsureRoleAssignment(r) \/ VerifyOwnerAuthority(r) \/ Crash(r)

---------------------------------------------------------------------------
\* list_all: pages from the offset reached, until the total, a short page or an empty one.
Page(offset, n) == LET left == n - offset
                       full == IF situation.cap < PageSize THEN situation.cap ELSE PageSize
                   IN IF left < full THEN left ELSE full

Reached(n) == LET at[k \in 0 .. MaxPages] == IF k = 0 THEN 0 ELSE at[k - 1] + Page(at[k - 1], n)
              IN at

LastPage(offset, n) == IF situation.total THEN offset + Page(offset, n) >= n
                       ELSE Page(offset, n) < PageSize

\* How many items the listing returns; none when it is refused as incomplete.
ListsFirstPage(n) == {Page(0, n)}
Lists(n) == LET ends == {k \in 1 .. MaxPages : LastPage(Reached(n)[k - 1], n)}
            IN IF ends = {} THEN {}
               ELSE {Reached(n)[CHOOSE k \in ends : \A j \in ends : k <= j]}

\* Projects, and the applications of a project, are listed in the order they were made, after
\* those of other names.  What a listing finds, and the first of it.
Found(S, listed) == {x \in S : situation.others + Cardinality({y \in S : y < x}) < listed}
First(S) == CHOOSE x \in S : \A y \in S : x <= y
AppsOf(p) == {a \in console.apps : console.project[a] = p}
Table(r) == IF run[r].project = None THEN console.projects ELSE AppsOf(run[r].project)

StartIdentity(r) ==
    /\ situation.command = "identity"
    /\ r <= situation.runs /\ At(r, "none") /\ \A q \in Runs : (q < r => ~At(q, "none")) /\ ~Running(q)
    /\ Goto(r, "list")
    /\ UNCHANGED <<situation, registry, identities, console, printed, platform>>

\* The listing of find_or_create_project, then that of find_or_create_application.
List(r) == LET all == situation.others + Cardinality(Table(r)) IN
    /\ At(r, "list")
    /\ IF Lists(all) = {} THEN Fail(r)
       ELSE LET found == Found(Table(r), CHOOSE n \in Lists(all) : TRUE)
            IN IF found = {} THEN Goto(r, "post")
               ELSE IF run[r].project = None
                    THEN run' = [run EXCEPT ![r].project = First(found)]
                    ELSE run' = [run EXCEPT ![r].app = First(found), ![r].pc = "login",
                                            ![r].listed = console.config[First(found)]]
    /\ UNCHANGED <<situation, registry, identities, console, printed, platform>>

\* _call of CreateProject or CreateApplication.  The answer may be lost, whether or not ZITADEL
\* did it, and the call is then repeated.  Where names are unique ZITADEL refuses a second one.
Created(r, x) ==
    IF run[r].project = None
    THEN console' = [console EXCEPT !.projects = @ \cup {x}]
    ELSE console' = [console EXCEPT !.apps = @ \cup {x}, !.project[x] = run[r].project,
                                    !.config[x] = [login |-> situation.login, userinfo |-> TRUE]]

NewId == CHOOSE x \in Ids : x \notin console.projects \cup console.apps

Refused(r) == situation.unique /\ Table(r) # {}

AgainOnceMore(r) == run' = [run EXCEPT ![r].tries = @ + 1,
                                       ![r].pc = IF run[r].tries + 1 <= Retries THEN "post" ELSE "failed"]

Again(r) == run' = [run EXCEPT ![r].tries = @ + 1,
                               ![r].pc = IF run[r].tries + 1 < Retries THEN "post" ELSE "failed"]

Post(r) ==
    /\ At(r, "post")
    /\ \/ /\ ~Refused(r)
          /\ Created(r, NewId)
          /\ \/ IF run[r].project = None
                THEN run' = [run EXCEPT ![r].project = NewId, ![r].pc = "list", ![r].tries = 0]
                ELSE run' = [run EXCEPT ![r].app = NewId, ![r].pc = "print"]
             \/ situation.lossy /\ Again(r)
       \/ (Refused(r) \/ situation.lossy) /\ Again(r) /\ UNCHANGED console
    /\ UNCHANGED <<situation, registry, identities, printed, platform>>

\* The two updates of an application that exists.  Each is built from the application as it was
\* listed and names only what it changes; ZITADEL keeps what a request does not name.
UserinfoUpdateWhole(r) == [run[r].listed EXCEPT !.userinfo = TRUE]
UserinfoUpdate(r) == [console.config[run[r].app] EXCEPT !.userinfo = TRUE]
LoginUpdate(r) == [console.config[run[r].app] EXCEPT !.login = situation.login]

UpdateLogin(r) ==
    /\ At(r, "login")
    /\ IF situation.login # "none" /\ run[r].listed.login # situation.login
       THEN console' = [console EXCEPT !.config[run[r].app] = LoginUpdate(r)]
       ELSE UNCHANGED console
    /\ Goto(r, "userinfo")
    /\ UNCHANGED <<situation, registry, identities, printed, platform>>

UpdateUserinfo(r) ==
    /\ At(r, "userinfo")
    /\ IF ~run[r].listed.userinfo
       THEN console' = [console EXCEPT !.config[run[r].app] = UserinfoUpdate(r)]
       ELSE UNCHANGED console
    /\ Goto(r, "print")
    /\ UNCHANGED <<situation, registry, identities, printed, platform>>

PrintClientId(r) ==
    /\ At(r, "print")
    /\ printed' = printed \cup {run[r].app}
    /\ Goto(r, "done")
    /\ UNCHANGED <<situation, registry, identities, console, platform>>

IdentityStep(r) == \/ StartIdentity(r) \/ List(r) \/ Post(r)
                   \/ UpdateLogin(r) \/ UpdateUserinfo(r) \/ PrintClientId(r)

---------------------------------------------------------------------------
\* The literals of the platform bootstrap: what the first owner gets and what is withheld.
BootstrapPermissions == {"read", "manage"}
NotGrantedAtBootstrap == {"hold"}

\* validate_bootstrap_list: the two literals partition the vocabulary.
ListsFitIfKnown == BootstrapPermissions \cup NotGrantedAtBootstrap \subseteq situation.vocabulary
ListsFit ==
    /\ BootstrapPermissions \cap NotGrantedAtBootstrap = {}
    /\ BootstrapPermissions \cup NotGrantedAtBootstrap = situation.vocabulary
    /\ "manage" \in BootstrapPermissions

\* rstrip("/"), applied to the issuer given and to the one configured.
Stripped(issuer) == IF issuer = "ours/" THEN "ours" ELSE issuer

\* validate_identity; an argument that is malformed is "bad".
ValidIdentity(who) == "bad" \notin {who[1], who[2]} /\ "none" \notin {who[1], who[2]}

\* parse_permissions: members of the vocabulary, none twice.
ValidGrants(grants) ==
    \A i \in DOMAIN grants : /\ grants[i] \in situation.vocabulary
                             /\ \A j \in DOMAIN grants : grants[i] = grants[j] => i = j

\* What main accepts of the arguments of either command.
ValidArguments(q) ==
    /\ IF q.kind = "bootstrap" THEN ValidIdentity(q.who)
       ELSE /\ q.who = Nobody \/ ValidIdentity(q.who)
            /\ ValidGrants(q.grants) /\ "bad" \notin {q.suspend[1], q.suspend[2]}
            /\ q.who = Nobody => q.suspend # Nobody /\ q.grants = <<>>
    /\ q.reason = "given"

\* main, up to the command itself.
StartPlatform(r, q) ==
    /\ situation.command = "platform"
    /\ r <= situation.runs /\ At(r, "none") /\ \A x \in Runs : x < r => ~At(x, "none")
    /\ run' = [run EXCEPT ![r].pc = IF ValidArguments(q) /\ Confirmed THEN "prepare" ELSE "usage",
                          ![r].asked = [q EXCEPT !.who = <<Stripped(q.who[1]), q.who[2]>>]]
    /\ UNCHANGED <<situation, registry, identities, console, printed, platform>>

\* _require_configured_issuer: what the configuration says, or that it says nothing.
ConfiguredIssuerIfAny(who) == situation.issuer # "none"
ConfiguredIssuer(who) == Stripped(situation.issuer) = who[1]

\* bootstrap_owner and recover, before they call Core: the lists, the role, the issuer.
Prepare(r) == LET q == run[r].asked IN
    /\ At(r, "prepare")
    /\ Goto(r, CASE q.kind = "bootstrap" /\ ~ListsFit -> "failed"
                 [] ~situation.restricted -> "failed"
                 [] q.who # Nobody /\ situation.issuer = "none" -> "failed"
                 [] q.who # Nobody /\ ~ConfiguredIssuer(q.who) -> "usage"
                 [] OTHER -> "core")
    /\ UNCHANGED <<situation, registry, identities, console, printed, platform>>

\* The rows of core.platform_operators, in whatever status.
OperatorRowsActive == {p \in DOMAIN platform.status : platform.status[p] = "active"}
OperatorRows == {p \in DOMAIN platform.status : platform.status[p] # "none"}

\* enroll_in_transaction: an active user who has no operator row that is not revoked; a
\* person never seen before gets a user here.
Enrollable(p) == p \notin situation.inactive /\ platform.status[p] \in {"none", "revoked"}

\* An identical second run finds exactly what the first one made.
IdenticalNever(p) == FALSE
Identical(p) ==
    /\ OperatorRows = {p} /\ platform.past = {} /\ platform.status[p] = "active"
    /\ platform.grants[p] = BootstrapPermissions

\* bootstrap_platform_owner: one transaction under the platform-owners lock.
BootstrapOwner(r) == LET p == run[r].asked.who IN
    /\ At(r, "core") /\ run[r].asked.kind = "bootstrap"
    /\ IF OperatorRows # {}
       THEN Goto(r, IF Identical(p) THEN "committed" ELSE "refused") /\ UNCHANGED platform
       ELSE IF ~Enrollable(p) THEN Goto(r, "refused") /\ UNCHANGED platform
       ELSE /\ platform' = [platform EXCEPT !.status[p] = "active", !.grants[p] = BootstrapPermissions,
                                            !.first = @ \cup {p}]
            /\ Goto(r, "committed")
    /\ UNCHANGED <<situation, registry, identities, console, printed>>

\* _recover: enroll or reuse, grant what is not held, suspend.
Recovered(q) ==
    LET p == q.who
        kept == [platform EXCEPT !.past = @ \cup {x \in {p} : x # Nobody /\ platform.status[x] = "revoked"}]
        enrolled == IF p = Nobody THEN platform
                    ELSE [kept EXCEPT !.status[p] = "active",
                                      !.grants[p] = (IF platform.status[p] = "active" THEN @ ELSE {})
                                                    \cup {q.grants[i] : i \in DOMAIN q.grants}]
    IN IF q.suspend = Nobody THEN enrolled ELSE [enrolled EXCEPT !.status[q.suspend] = "suspended"]

Recoverable(q) ==
    /\ \/ q.who = Nobody \/ Enrollable(q.who)
       \/ /\ platform.status[q.who] = "active"
          /\ q.who \in situation.inactive => \A i \in DOMAIN q.grants : q.grants[i] \in platform.grants[q.who]
    /\ q.suspend = Nobody \/ platform.status[q.suspend] \in {"active", "suspended"}

\* platform_owner_exists: authority_transaction refuses to lose the last owner.
OwnerExists(t) == \E p \in DOMAIN t.status : /\ t.status[p] = "active" /\ "manage" \in t.grants[p]
                                             /\ p \notin situation.inactive

RecoverAuthority(r) == LET q == run[r].asked IN
    /\ At(r, "core") /\ q.kind = "recover"
    /\ IF Recoverable(q) /\ (OwnerExists(platform) => OwnerExists(Recovered(q)))
       THEN platform' = Recovered(q) /\ Goto(r, "committed")
       ELSE Goto(r, "refused") /\ UNCHANGED platform
    /\ UNCHANGED <<situation, registry, identities, console, printed>>

Report(r) ==
    /\ At(r, "committed")
    /\ Goto(r, "done")
    /\ UNCHANGED <<situation, registry, identities, console, printed, platform>>

PlatformStep(r) == \/ \E q \in situation.requests : StartPlatform(r, q)
                   \/ Prepare(r) \/ BootstrapOwner(r) \/ RecoverAuthority(r) \/ Report(r)

---------------------------------------------------------------------------
BootstrapInit ==
    /\ situation \in Situations
    /\ registry = [t \in Tenants |-> IF t \in DOMAIN situation.tenants THEN situation.tenants[t]
                                     ELSE NoTenant]
    /\ identities = situation.known
    /\ run = [r \in Runs |-> NoRun]
    /\ console = situation.console
    /\ printed = {}
    /\ platform = [status |-> situation.staff, grants |-> [p \in DOMAIN situation.staff |->
                       IF situation.staff[p] \in {"active", "suspended"} THEN BootstrapPermissions ELSE {}],
                   past |-> {}, first |-> {}]

BootstrapNext ==
    \/ \E r \in Runs : TenantStep(r) \/ IdentityStep(r) \/ PlatformStep(r)
    \/ \E t \in Tenants : \/ Operate(t, "pending", "active") \/ Operate(t, "active", "suspended")
                          \/ Operate(t, "active", "deleted")

BootstrapSpec == BootstrapInit /\ [][BootstrapNext]_bootstrapVars

BootstrapTypeOK ==
    /\ \A t \in Tenants : registry[t].owners \subseteq registry[t].members
    /\ \A r \in Runs : run[r].tenant \in Tenants \cup {None} /\ run[r].tries \in 0 .. Retries
    /\ console.apps \subseteq Ids /\ printed \subseteq Ids

---------------------------------------------------------------------------
\* Runs that do not overlap: there is never a second tenant of the name, and a run that dies,
\* wherever and however often, is completed by the next one for the same owner, which is
\* neither refused nor fails while no other owner and no operator interferes.
CrashedIsCompleted ==
    ~situation.overlap =>
        /\ Cardinality({t \in Tenants : registry[t].status # "absent"}) <= 1
        /\ ~situation.operators => \A q, r \in Runs :
              /\ q < r /\ run[q].did # {}
              /\ \A x \in Runs : run[x].owner \in {run[r].owner, "none"}
              => ~At(r, "refused") /\ ~At(r, "failed")

\* Runs that do not overlap, for whatever owners: a tenant that has a member is never claimed
\* for another identity.
NeverClaimsAnothers == ~situation.overlap => \A t \in Tenants : Cardinality(registry[t].members) <= 1

NeverResurrectsStep ==
    \A t \in Tenants : registry'[t].status = "active" /\ registry[t].status # "active"
                         => registry[t].status = "pending"

\* A tenant that was suspended or deleted after the run read it as pending is not made active by
\* the run.
NeverResurrects == [][NeverResurrectsStep]_bootstrapVars

\* The dry run is honest: with nobody else about, the run that follows it is refused when the
\* dry run was, and otherwise performs the steps it named and no other.
PlanIsHonest ==
    situation.command = "tenant" /\ ~situation.overlap /\ ~situation.operators => \A r \in Runs :
        /\ At(r, "refused") <=> run[r].plan = {"refused"} /\ run[r].pc \notin {"usage", "resolve", "crashed"}
        /\ At(r, "done") => run[r].did \ {"permission_grants", "role_assignment"} = run[r].plan

\* Every run of the identity bootstrap prints the same client id, however many other projects
\* and applications there are, if ZITADEL refuses a second project or application of a name
\* or no answer is lost: a repeated CreateProject is not recognised by _call itself.
OneClientId == situation.unique \/ ~situation.lossy => Cardinality(printed) <= 1

\* A run that printed a client id left its application with the login and the claims asked for:
\* the second update does not take the first one back.
UpdatesCompose ==
    \A r \in Runs : At(r, "done") /\ situation.command = "identity" =>
        /\ console.config[run[r].app].userinfo
        /\ situation.login # "none" => console.config[run[r].app].login = situation.login

\* Bootstrap enrolls one first owner, and only where no operator of any status is on record,
\* however many runs overlap.
FirstOwnerOnce ==
    /\ Cardinality(platform.first) <= 1
    /\ platform.first # {} => \A p \in DOMAIN situation.staff : situation.staff[p] = "none"

\* A bootstrap that was interrupted after its transaction is completed by the same command:
\* the identical run is never refused.
RerunCompletes ==
    Cardinality(situation.requests) = 1 /\ platform.first # {} => \A r \in Runs : ~At(r, "refused")

\* The command enrolls nobody who could not log in: an operator's issuer is the one this
\* deployment authenticates, however either was written.
EnrolledCanLogIn ==
    \A p \in DOMAIN platform.status :
        platform.status[p] # situation.staff[p] /\ platform.status[p] = "active" => p[1] = Stripped(situation.issuer)

\* Once there is a first owner, every permission of the vocabulary is theirs to grant or was
\* withheld on purpose; one added later cannot be left where nobody can grant it.
NothingLeftUngrantable ==
    \A p \in platform.first : situation.vocabulary \subseteq BootstrapPermissions \cup NotGrantedAtBootstrap
=============================================================================
