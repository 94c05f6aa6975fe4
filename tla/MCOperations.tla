----------------------------- MODULE MCOperations -----------------------------
(***************************************************************************)
(* Operating a deployment, on small instances: what a consumer's failure   *)
(* decides, the approver register, the deletion of permission grant        *)
(* records, the grant migrations, backups, the updater, the audit trail    *)
(* and its digests, oversight reads, paged reads, the shared store, tenant *)
(* settings and the bootstrap commands.  A behaviour is one of one         *)
(* component (part); the variables of the others rest at 0, those of the   *)
(* outbox's failure handling in their initial state.                       *)
(***************************************************************************)
EXTENDS OutboxFailure, Sequences

VARIABLES part,
    reg, clock, writer,
    ledger, holds, managers, requests, auths, conn,
    open, roles, granted, rows, run, started, completed, changes,
    setup, staging, offsite, job, pruner, restore, databases,
    outing, tree, headCommit, ref, command,
    agenda, dbClock, openRows, trail, cursor, lines, lost, touches, crashes, digester,
    auditCall, auditRow,
    today, mayRead, links, erased, auditRows, seen, returned, oversight, eraser,
    listing, table, now, mayList, walk, standing, onRecord, faults,
    errand, tick, counter, admitted, peeked, scopes, leases, letters, pushed, queued, tries, lastError,
    wrapper,
    intent, site, override, hooks, resealed, operator, results, dial, replays, taken,
    situation, registry, identities, commands, console, printed, platform

-----------------------------------------------------------------------------
(* What escapes a consumer: every pair of exceptions with at most          *)
(* MaxLeaves leaves, over one leaf of each combination of classes the      *)
(* code's error types allow and a second one of the two that can be        *)
(* retried after a marker.                                                 *)

Leaf(i, kinds, policy) == [id |-> i, kinds |-> kinds, policy |-> policy]

AllLeaves ==
    {Leaf(1, {"ambiguous"}, p) : p \in Policies}
    \cup {Leaf(2, {"ambiguous"}, "at_least_once"), Leaf(1, {"ambiguous", "timeout"}, "at_least_once")}
    \cup {Leaf(1, k, "none") : k \in {{}, {"permanent"}, {"retry_after"}, {"not_sent"}, {"timeout"},
                                      {"not_sent", "timeout"}, {"not_sent", "retry_after"},
                                      {"not_sent", "permanent"}, {"retry_after", "timeout"}}}
    \cup {Leaf(2, {"not_sent"}, "none")}

-----------------------------------------------------------------------------
(* The register: a representative is designated; in one register another   *)
(* is proposed, in the other ann is enrolled and the representative        *)
(* proposed again.                                                         *)

Act(op, by, subject, entry, person, until) ==
    [op |-> op, by |-> by, subject |-> subject, entry |-> entry, person |-> person,
     verification |-> "v1", until |-> until]

MCActs ==
    {Act("propose", "own", "ann", 0, "none", 3),
     Act("confirm", "sec", "ann", 3, "none", 0), Act("confirm", "sec", "rep", 4, "none", 0),
     Act("enrol", "rep", "ann", 0, "A", 3), Act("enrol", "rep", "ann", 3, "A", 4),
     Act("enrol", "rep", "bob", 0, "A", 3),
     Act("revoke", "sec", "rep", 2, "none", 0), Act("revoke", "sec", "ann", 3, "none", 0)}

Entry(type, subject, by, until) ==
    [type |-> type, subject |-> subject, by |-> by, person |-> "none", verification |-> "none",
     until |-> until, from |-> 0, expires |-> 0, proposal |-> 0, authorised |-> 0, revokes |-> 0,
     renews |-> 0]

Proposal(subject) == [Entry("proposal", subject, "own", 3) EXCEPT !.expires = 2]
Enrolment(subject, person, until, authorised) ==
    [Entry("enrolment", subject, "rep", until) EXCEPT !.person = person, !.verification = "v1",
                                                      !.authorised = authorised]

Designated == <<Proposal("rep"), [Entry("designation", "rep", "sec", 3) EXCEPT !.proposal = 1]>>

MCRegisters ==
    {Append(Designated, Proposal("ann")),
     Designated \o <<[Enrolment("ann", "A", 2, 2) EXCEPT !.from = 1], Proposal("rep")>>}

R == INSTANCE LedgerRegister WITH Owners <- {"own"}, Security <- {"sec"}, Reporters <- {"rep"},
        Linked <- {}, ProposalTTL <- 2, Delay <- 1, MaxValidity <- 5, Writers <- {1, 2}, Acts <- MCActs,
        Registers <- MCRegisters, MaxTime <- 2, MaxEntries <- 5

-----------------------------------------------------------------------------
(* The deletion chain: ann is enrolled and has renewed, bob is enrolled.   *)

MCApprovers ==
    <<Entry("designation", "rep", "sec", 9), Enrolment("ann", "A", 9, 1),
      [Enrolment("ann", "A", 9, 1) EXCEPT !.renews = 2], Enrolment("bob", "B", 9, 1)>>

D == INSTANCE LedgerDeletion WITH Tenants <- {"t1"}, ExpiresAt <- [t \in {"t1"} |-> 0],
        Scopes <- {{"t1"}}, Reporters <- {"ann", "bob"}, Authority <- {}, Security <- {"sec", "ann"},
        Requesters <- {"bob"}, Wavering <- {"ann"}, Register <- MCApprovers, RequestTTL <- 1,
        ApprovalTTL <- 2, AuthorizationTTL <- 1, Conns <- {1, 2}, MaxTime <- 1, MaxRequests <- 2,
        MaxAuthorizations <- 1, MaxHolds <- 1, MaxRevocations <- 1

-----------------------------------------------------------------------------
(* The grant migrations: one is edited between two declarations.           *)

Migration(id, digest, permission) == [id |-> id, digest |-> digest, permission |-> permission]

M == INSTANCE GrantMigrations WITH Tenants <- {1, 2}, Runs <- {"r1", "r2"}, MaxChanges <- 1,
        Declarations <- {{Migration("m1", "v1", "p"), Migration("m2", "v1", "p")},
                         {Migration("m1", "v2", "q")}}

-----------------------------------------------------------------------------
(* Backups: with and without an off-site destination and an encryption     *)
(* recipient; three runs that may die, or damage, pruning and restores.    *)

Deployment(destination, recipient, runs, events) ==
    [destination |-> destination, recipient |-> recipient, runs |-> runs, events |-> events]

MCBackupSetups ==
    {Deployment(TRUE, "valid", {1, 2, 3}, {"crash"}),
     Deployment(TRUE, "none", {1}, {}), Deployment(TRUE, "malformed", {1}, {}),
     Deployment(FALSE, "none", {1, 2}, {"damage", "crash", "prune"}),
     Deployment(FALSE, "valid", {1}, {"damage", "crash", "restore", "prune"})}

K == INSTANCE Backup WITH Runs <- {1, 2, 3}, Restorers <- {"q1", "q2"}, Targets <- {"live", "fresh"},
        KeepLast <- 1, Setups <- MCBackupSetups

-----------------------------------------------------------------------------
(* The updater: two commands at once, or one while developers edit.        *)

Trip(running, ready, edits) == [running |-> running, ready |-> ready, edits |-> edits]

U == INSTANCE Updater WITH Commands <- {"u1", "u2"}, Revisions <- 1 .. 4,
        Ahead <- {<<1, 2>>, <<1, 3>>, <<2, 3>>}, Automatic <- {<<1, 2>>, <<4, 2>>},
        Outings <- {Trip({"u1", "u2"}, TRUE, {"kill"}), Trip({"u1"}, FALSE, {}),
                    Trip({"u1"}, TRUE, {"text", "commit", "ref"}),
                    Trip({"u1"}, TRUE, {"pin", "commit", "other"})}

-----------------------------------------------------------------------------
(* The audit digest: two workers and a crash, rows touched and the cursor  *)
(* deleted, or a line lost.                                                *)

Row(scope, at) == [scope |-> scope, at |-> at, body |-> 0]
Agenda(planned, workers, touched, losable, dying) ==
    [rows |-> planned, workers |-> workers, touches |-> touched, lost |-> losable, crashes |-> dying]

A == INSTANCE AuditDigest WITH Scopes <- {"t", "platform"}, Digesters <- {"w1", "w2"}, Width <- 2,
        Settle <- 1, Longest <- 1, MaxWindows <- 2, MaxTime <- 5,
        Agendas <- {Agenda({Row("t", 1), Row("platform", 2)}, {"w1", "w2"}, 0, 0, 1),
                    Agenda({Row("t", 0), Row("platform", 3)}, {"w1"}, 2, 0, 0),
                    Agenda({Row("t", 0)}, {"w1"}, 0, 1, 1)}

-----------------------------------------------------------------------------
(* Audit entries: every entry point with one metadata item, with every     *)
(* caller's attribution, and with every initiator and correlation.         *)

Terms == INSTANCE AuditEntry WITH AuditCalls <- {}

Component == [kind |-> "known", name |-> "component"]

MCInitiators ==
    LET by(type) == [Terms!NoInitiator EXCEPT !.type = type]
        recorded(type) == [by("system") EXCEPT !.actor = Component, !.record_type = type,
                                               !.record_id = "opaque"]
    IN  {[by(type) EXCEPT !.principal = "uuid"] : type \in {"user", "service_account"}}
        \cup {[by("system") EXCEPT !.actor = Component], recorded("record"), recorded("principal")}

MCValues ==
    {Terms!NoValue, Terms!Unavailable, Terms!Dict, Terms!Scalar("text"),
     [Terms!Dict EXCEPT !.type = "other"],
     [Terms!Dict EXCEPT !.kind = "known", !.name = "component"],
     [Terms!Dict EXCEPT !.kind = "known", !.name = "id"],
     [Terms!Dict EXCEPT !.arq_job_id = "opaque"], [Terms!Dict EXCEPT !.request_id = "principal"],
     [Terms!Dict EXCEPT !.outbox_event_id = "uuid", !.extra = TRUE]}
    \cup UNION {{Terms!AsMetadata(i), [Terms!AsMetadata(i) EXCEPT !.plain = FALSE],
                 [Terms!AsMetadata(i) EXCEPT !.extra = TRUE]} : i \in MCInitiators}

MCItems ==
    {Terms!Item(depth, key, exact, v) : depth \in {"top", "nested"},
        key \in {"initiated_by", "correlation", "system_actor"}, exact \in BOOLEAN, v \in MCValues}
    \cup {Terms!Item(depth, key, exact, Terms!Scalar("claimed")) : depth \in {"top", "nested"},
        key \in {"system_authority", "forbidden", "other"}, exact \in BOOLEAN}

MCMetadata ==
    {Terms!NoMetadata} \cup {[given |-> TRUE, items |-> {i}, size |-> z] : i \in MCItems, z \in {"ok", "large"}}

EntryPoints == {"in_transaction", "system_action", "job"}
Maybe(S) == {{}} \cup {{x} : x \in S}

BySystem(fn) ==
    [Terms!NoAuditCall EXCEPT !.actor_type = "system", !.user = "-", !.authority = "provisioning",
                              !.actor = {Component}, !.fn = fn]

MCAuditCalls ==
    {[c EXCEPT !.meta = x] : c \in {Terms!NoAuditCall} \cup {BySystem(f) : f \in EntryPoints}, x \in MCMetadata}
    \cup {[Terms!NoAuditCall EXCEPT !.actor_type = type, !.user = u, !.account = a, !.grant = g,
                                    !.support = s, !.outcome = o, !.text = t] :
            type \in {"user", "system", "service_account"}, u \in {"-", "u", "unknown"}, a \in {"-", "a", "foreign"},
            g, s \in BOOLEAN, o \in {"success", "denied", "other"}, t \in {"ok", "control"}}
    \cup {[BySystem(f) EXCEPT !.initiated = i, !.correlation = k, !.actor = a] :
            f \in EntryPoints, i \in Maybe(MCInitiators),
            k \in Maybe({[Terms!NoCorrelation EXCEPT !.arq_job_id = j, !.request_id = q] :
                            j, q \in {"-", "opaque", "principal"}}),
            a \in Maybe({Component, [kind |-> "known", name |-> "id"]})}
    \cup {[Terms!NoAuditCall EXCEPT !.fn = "in_transaction", !.initiated = i] : i \in Maybe(MCInitiators)}

N == INSTANCE AuditEntry WITH AuditCalls <- MCAuditCalls

-----------------------------------------------------------------------------
(* Oversight reads of two operators, and an erasure; paged reads of one    *)
(* listing of each kind.  A page of the audit table takes two ids, for the *)
(* rows its own call writes: five ids are a full page and the one after.   *)

O == INSTANCE Oversight WITH Overseers <- {"c1", "c2"}, MaxDay <- 2, HeldDays <- {2}

MCRowIds == [id |-> 1 .. 3, time |-> 1 .. 5]
MCFirstRows == [id |-> SUBSET (1 .. 3), time |-> {{}, {3}, {2, 4}}]

Pages == INSTANCE PagedReads WITH Listings <- {}, Ids <- MCRowIds, FirstRows <- MCFirstRows,
            MaxPage <- 2, MaxNow <- 2, MaxFaults <- 1

MCListings ==
    {Pages!ReadTenantFlagOverrides, Pages!ReadFlagCatalog, Pages!ListPlatformAudit, Pages!ListLedgerHolds,
     Pages!RetentionReport}

P == INSTANCE PagedReads WITH Listings <- MCListings, Ids <- MCRowIds, FirstRows <- MCFirstRows,
        MaxPage <- 2, MaxNow <- 2, MaxFaults <- 1

-----------------------------------------------------------------------------
(* The shared store: requests, leases of two scopes, or jobs that fail and *)
(* their dead letters.                                                     *)

Want(id, names, ttl) == [id |-> id, scopes |-> names, ttl |-> ttl]
Run(asked, wanted, jobs, endings, dying, purges, until) ==
    [requests |-> asked, wanted |-> wanted, jobs |-> jobs, endings |-> endings, crashes |-> dying,
     purges |-> purges, until |-> until]

MCErrands ==
    {Run(4, {}, {}, {}, 0, {}, 4),
     Run(0, {Want(1, {"tenant", "all"}, 3), Want(2, {"all"}, 1), Want(3, {"tenant", "all"}, 2)}, {}, {}, 1,
         {}, 4),
     Run(0, {}, {1, 2}, {"ok", "error", "timeout"}, 1, {"a"}, 0),
     Run(0, {}, {1, 2}, {"error", "not_retriable", "contract"}, 1, {"b", "rewrite"}, 0)}

S == INSTANCE SharedStore WITH Requesters <- {"q1", "q2"}, JobIds <- {1, 2}, JobTenant <- <<"a", "b">>,
        Errands <- MCErrands, RateLimit <- 1, RateWindow <- 2,
        LeaseLimit <- [s \in {"tenant", "all"} |-> IF s = "tenant" THEN 1 ELSE 2],
        MaxJobTries <- 2, MaxDeadLetters <- 1

-----------------------------------------------------------------------------
(* Tenant settings: overrides set and removed at once, secrets re-encrypted *)
(* while subscriptions change, deliveries of events.                        *)

Task(op, arg) == [op |-> op, arg |-> arg]
Wish(row, subs, ops, closing, outages, arriving, keep, until) ==
    [row |-> row, subs |-> subs, ops |-> ops, closing |-> closing, outages |-> outages,
     arriving |-> arriving, keep |-> keep, until |-> until]

MCIntents ==
    {Wish("none", <<"unused", "unused">>, {Task("set", "on"), Task("set", "off")}, TRUE, FALSE, {}, 2, 0),
     Wish("on", <<"unused", "unused">>, {Task("set", "off"), Task("remove", "none"), Task("set", "on")},
          TRUE, FALSE, {}, 2, 0),
     Wish("none", <<"plain", "plain">>,
          {Task("reencrypt", "none"), Task("reencrypt", "again"), Task("unsubscribe", "none")},
          TRUE, TRUE, {}, 2, 0),
     Wish("none", <<"plain", "unused">>,
          {Task("subscribe", "none"), Task("unsubscribe", "none"), Task("reencrypt", "none")},
          TRUE, FALSE, {}, 2, 0)}
    \cup
    {Wish("none", <<"sealed", "unused">>, {}, FALSE, FALSE,
          {[id |-> 1, stamp |-> 1], [id |-> 2, stamp |-> 0], [id |-> 3, stamp |-> 4]}, keep, 7) : keep \in {1, 2}}

T == INSTANCE TenantSettings WITH Operators <- {"a", "b", "c"}, Intents <- MCIntents, Tolerance <- 1

-----------------------------------------------------------------------------
(* The bootstrap commands: what the deployment and the identity provider   *)
(* already hold, and what is asked of the platform command.                *)

NothingYet == [login |-> "none", userinfo |-> FALSE]
NewConsole ==
    [projects |-> {}, apps |-> {}, project |-> [x \in 1 .. 12 |-> 0], config |-> [x \in 1 .. 12 |-> NothingYet]]
OldConsole(login) ==
    [NewConsole EXCEPT !.projects = {1}, !.apps = {2}, !.project[2] = 1, !.config[2].login = login]

Plain ==
    [command |-> "tenant", runs |-> 2, overlap |-> FALSE, operators |-> FALSE, owners |-> {"o"}, tenants |-> <<>>,
     known |-> {}, others |-> 0, cap |-> 2, total |-> TRUE, unique |-> TRUE, lossy |-> FALSE,
     login |-> "none", console |-> NewConsole, production |-> TRUE, confirm |-> TRUE, requests |-> {},
     staff |-> <<>>, inactive |-> {}, vocabulary |-> {"read", "manage", "hold"}, issuer |-> "ours/",
     restricted |-> TRUE]
Existing(status, members) ==
    [status |-> status, role |-> FALSE, granted |-> FALSE, members |-> members, owners |-> {}]

TenantSituations ==
    {[Plain EXCEPT !.runs = 3], [Plain EXCEPT !.confirm = FALSE], [Plain EXCEPT !.owners = {"o", "p"}],
     [Plain EXCEPT !.overlap = TRUE, !.operators = TRUE], [Plain EXCEPT !.operators = TRUE],
     [Plain EXCEPT !.tenants = <<Existing("active", {"x"})>>, !.known = {"o"}],
     [Plain EXCEPT !.tenants = <<Existing("pending", {}), Existing("active", {})>>, !.overlap = TRUE],
     [Plain EXCEPT !.tenants = <<Existing("suspended", {})>>]}

Identity == [Plain EXCEPT !.command = "identity"]
Crowded == [Identity EXCEPT !.others = 2, !.unique = FALSE]
IdentitySituations ==
    {[Identity EXCEPT !.lossy = TRUE], [Identity EXCEPT !.lossy = TRUE, !.unique = FALSE], Crowded,
     [Crowded EXCEPT !.total = FALSE],
     [Crowded EXCEPT !.others = 3, !.cap = 1], [Crowded EXCEPT !.cap = 1], [Identity EXCEPT !.others = 9]}
    \cup {[Identity EXCEPT !.login = "v2", !.console = OldConsole(login)] : login \in {"none", "v2"}}

Nobody == <<"none", "none">>
Ann == <<"ours", "ann">>
Bob == <<"ours", "bob">>
Eve == <<"other", "eve">>
Ask(kind, who, grants, suspend) ==
    [kind |-> kind, who |-> who, grants |-> grants, suspend |-> suspend, reason |-> "given"]
First(who) == Ask("bootstrap", who, <<>>, Nobody)
Recover(who, grants, suspend) == Ask("recover", who, grants, suspend)
Asking(requested) ==
    [Plain EXCEPT !.command = "platform", !.staff = [p \in {Ann, Bob, Eve} |-> "none"],
                  !.requests = requested]

Misused ==
    {[First(Ann) EXCEPT !.reason = "blank"], First(<<"bad", "ann">>), Recover(<<"ours", "none">>, <<>>, Nobody),
     Recover(Ann, <<"all">>, Nobody), Recover(Ann, <<"read", "read">>, Nobody), Recover(Nobody, <<>>, Nobody),
     Recover(Nobody, <<"read">>, Ann), Recover(Nobody, <<>>, <<"bad", "bad">>)}

PlatformSituations ==
    {Asking({First(<<"ours/", "ann">>)}), Asking({First(Ann), First(Bob), First(Eve)}), Asking(Misused),
     [Asking({First(Ann)}) EXCEPT !.inactive = {Ann}],
     [Asking({First(Ann)}) EXCEPT !.vocabulary = @ \cup {"new"}],
     [Asking({First(Ann)}) EXCEPT !.restricted = FALSE],
     [Asking({First(Ann), Recover(Nobody, <<>>, Ann)}) EXCEPT !.issuer = "none"],
     [Asking({First(Bob), Recover(Bob, <<"manage">>, Ann), Recover(Eve, <<"manage">>, Ann),
              Recover(Bob, <<"read">>, Ann)}) EXCEPT !.staff[Ann] = "active"],
     [Asking({First(Bob), Recover(Ann, <<>>, Nobody), Recover(Bob, <<"hold">>, Bob)})
        EXCEPT !.staff[Ann] = "suspended"],
     [Asking({Recover(Ann, <<"hold">>, Nobody), Recover(Ann, <<"read">>, Nobody)})
        EXCEPT !.staff[Ann] = "active", !.inactive = {Ann}],
     [Asking({First(Ann), Recover(Ann, <<"manage", "hold">>, Nobody)}) EXCEPT !.staff[Ann] = "revoked"]}

B == INSTANCE Bootstrap WITH
        Situations <- TenantSituations \cup IdentitySituations \cup PlatformSituations, Runs <- {1, 2, 3},
        MaxTenants <- 2, PageSize <- 2, MaxPages <- 3, Retries <- 2, run <- commands

-----------------------------------------------------------------------------
registerRows == <<reg, clock, writer>>
deletionRows == <<ledger, holds, managers, requests, auths, conn>>
migrationVars == <<open, roles, granted, rows, run, started, completed, changes>>
backupVars == <<setup, staging, offsite, job, pruner, restore, databases>>
updaterVars == <<outing, tree, headCommit, ref, command>>
digestVars == <<agenda, dbClock, openRows, trail, cursor, lines, lost, touches, crashes, digester>>
auditVars == <<auditCall, auditRow>>
oversightVars == <<today, mayRead, links, erased, auditRows, seen, returned, oversight, eraser>>
pagedVars == <<listing, table, now, mayList, walk, standing, onRecord, faults>>
storeVars == <<errand, tick, counter, admitted, peeked, scopes, leases, letters, pushed, queued,
               tries, lastError, wrapper>>
settingVars == <<intent, site, override, hooks, resealed, operator, results, dial, replays, taken>>
bootstrapVars == <<situation, registry, identities, commands, console, printed, platform>>

mcVars == <<part, fvars, registerRows, deletionRows, migrationVars, backupVars, updaterVars, digestVars,
           auditVars, oversightVars, pagedVars, storeVars, settingVars, bootstrapVars>>

RegisterRowsRest == reg = 0 /\ clock = 0 /\ writer = 0
DeletionRowsRest == ledger = 0 /\ holds = 0 /\ managers = 0 /\ requests = 0 /\ auths = 0 /\ conn = 0
MigrationRest ==
    /\ open = 0 /\ roles = 0 /\ granted = 0 /\ rows = 0 /\ run = 0 /\ started = 0 /\ completed = 0
    /\ changes = 0
BackupRest ==
    /\ setup = 0 /\ staging = 0 /\ offsite = 0 /\ job = 0 /\ pruner = 0 /\ restore = 0
    /\ databases = 0
UpdaterRest == outing = 0 /\ tree = 0 /\ headCommit = 0 /\ ref = 0 /\ command = 0
DigestRest ==
    /\ agenda = 0 /\ dbClock = 0 /\ openRows = 0 /\ trail = 0 /\ cursor = 0 /\ lines = 0
    /\ lost = 0 /\ touches = 0 /\ crashes = 0 /\ digester = 0
AuditRest == auditCall = 0 /\ auditRow = 0
OversightRest ==
    /\ today = 0 /\ mayRead = 0 /\ links = 0 /\ erased = 0 /\ auditRows = 0 /\ seen = 0
    /\ returned = 0 /\ oversight = 0 /\ eraser = 0
PagedRest ==
    /\ listing = 0 /\ table = 0 /\ now = 0 /\ mayList = 0 /\ walk = 0 /\ standing = 0
    /\ onRecord = 0 /\ faults = 0
StoreRest ==
    /\ errand = 0 /\ tick = 0 /\ counter = 0 /\ admitted = 0 /\ peeked = 0 /\ scopes = 0
    /\ leases = 0 /\ letters = 0 /\ pushed = 0 /\ queued = 0 /\ tries = 0 /\ lastError = 0
    /\ wrapper = 0
SettingRest ==
    /\ intent = 0 /\ site = 0 /\ override = 0 /\ hooks = 0 /\ resealed = 0 /\ operator = 0
    /\ results = 0 /\ dial = 0 /\ replays = 0 /\ taken = 0
BootstrapRest ==
    /\ situation = 0 /\ registry = 0 /\ identities = 0 /\ commands = 0 /\ console = 0
    /\ printed = 0 /\ platform = 0

MCInit ==
    /\ part \in {"failure", "register", "deletion", "migrations", "backup", "updater", "digest",
                 "audit", "oversight", "pages", "store", "settings", "bootstrap"}
    /\ FailureInit
    /\ IF part = "register" THEN R!Init
       ELSE IF part = "deletion" THEN D!Init /\ writer = 0
       ELSE RegisterRowsRest
    /\ part # "deletion" => DeletionRowsRest
    /\ IF part = "migrations" THEN M!Init /\ roles = {1} ELSE MigrationRest
    /\ IF part = "backup" THEN K!BackupInit ELSE BackupRest
    /\ IF part = "updater" THEN U!UpdaterInit ELSE UpdaterRest
    /\ IF part = "digest" THEN A!DigestInit ELSE DigestRest
    /\ IF part = "audit" THEN N!AuditEntryInit ELSE AuditRest
    /\ IF part = "oversight" THEN O!OversightInit ELSE OversightRest
    /\ IF part = "pages" THEN P!PagedInit ELSE PagedRest
    /\ IF part = "store" THEN S!StoreInit ELSE StoreRest
    /\ IF part = "settings" THEN T!SettingsInit ELSE SettingRest
    /\ IF part = "bootstrap" THEN B!BootstrapInit ELSE BootstrapRest

MCNext ==
    /\ UNCHANGED part
    /\ \/ /\ part = "failure" /\ FailureNext
          /\ UNCHANGED <<registerRows, deletionRows, migrationVars, backupVars, updaterVars,
                         digestVars, auditVars, oversightVars, pagedVars, storeVars, settingVars,
                         bootstrapVars>>
       \/ /\ part = "register" /\ R!Next
          /\ UNCHANGED <<fvars, deletionRows, migrationVars, backupVars, updaterVars, digestVars,
                         auditVars, oversightVars, pagedVars, storeVars, settingVars,
                         bootstrapVars>>
       \/ /\ part = "deletion" /\ D!Next
          /\ UNCHANGED <<fvars, writer, migrationVars, backupVars, updaterVars, digestVars,
                         auditVars, oversightVars, pagedVars, storeVars, settingVars,
                         bootstrapVars>>
       \/ /\ part = "migrations" /\ M!Next
          /\ UNCHANGED <<fvars, registerRows, deletionRows, backupVars, updaterVars, digestVars,
                         auditVars, oversightVars, pagedVars, storeVars, settingVars,
                         bootstrapVars>>
       \/ /\ part = "backup" /\ K!BackupNext
          /\ UNCHANGED <<fvars, registerRows, deletionRows, migrationVars, updaterVars,
                         digestVars, auditVars, oversightVars, pagedVars, storeVars, settingVars,
                         bootstrapVars>>
       \/ /\ part = "updater" /\ U!UpdaterNext
          /\ UNCHANGED <<fvars, registerRows, deletionRows, migrationVars, backupVars, digestVars,
                         auditVars, oversightVars, pagedVars, storeVars, settingVars,
                         bootstrapVars>>
       \/ /\ part = "digest" /\ A!DigestNext
          /\ UNCHANGED <<fvars, registerRows, deletionRows, migrationVars, backupVars,
                         updaterVars, auditVars, oversightVars, pagedVars, storeVars, settingVars,
                         bootstrapVars>>
       \/ /\ part = "audit" /\ N!AuditEntryNext
          /\ UNCHANGED <<fvars, registerRows, deletionRows, migrationVars, backupVars,
                         updaterVars, digestVars, oversightVars, pagedVars, storeVars,
                         settingVars, bootstrapVars>>
       \/ /\ part = "oversight" /\ O!OversightNext
          /\ UNCHANGED <<fvars, registerRows, deletionRows, migrationVars, backupVars,
                         updaterVars, digestVars, auditVars, pagedVars, storeVars, settingVars,
                         bootstrapVars>>
       \/ /\ part = "pages" /\ P!PagedNext
          /\ UNCHANGED <<fvars, registerRows, deletionRows, migrationVars, backupVars,
                         updaterVars, digestVars, auditVars, oversightVars, storeVars,
                         settingVars, bootstrapVars>>
       \/ /\ part = "store" /\ S!StoreNext
          /\ UNCHANGED <<fvars, registerRows, deletionRows, migrationVars, backupVars,
                         updaterVars, digestVars, auditVars, oversightVars, pagedVars,
                         settingVars, bootstrapVars>>
       \/ /\ part = "settings" /\ T!SettingsNext
          /\ UNCHANGED <<fvars, registerRows, deletionRows, migrationVars, backupVars,
                         updaterVars, digestVars, auditVars, oversightVars, pagedVars, storeVars,
                         bootstrapVars>>
       \/ /\ part = "bootstrap" /\ B!BootstrapNext
          /\ UNCHANGED <<fvars, registerRows, deletionRows, migrationVars, backupVars,
                         updaterVars, digestVars, auditVars, oversightVars, pagedVars, storeVars,
                         settingVars>>

MCSpec == MCInit /\ [][MCNext]_mcVars

-----------------------------------------------------------------------------
\* LedgerRegister and LedgerDeletion. Grant records are deleted only on the word of people who
\* are still entitled to give it.
\*   OnePersonOneEnrolment: At no time do two active enrolments share an account or a natural
\*     person, unless one renews the other: one person never counts as two approvers.
\*   RepresentativeIsNoApprover: At no time is an active representative also an enrolled
\*     approver: propose, confirm and enrol each refuse the other role, whatever their order.
\*   NoRevival: An enrolment that is revoked, expired or suspended never becomes usable again: no
\*     later designation revives it.
\*   OneLiveRequest: At no time are two requests naming one tenant live: an expired request is
\*     never approved back to life beside its successor.
\*   HeldIsKept: No ledger row of a tenant is deleted while a legal hold on it is in force,
\*     however a placement interleaves with the execution.
\*   RevokedWordIsVoid: Nothing is deleted on the word of someone whose enrolment, or whose
\*     representative, was revoked after they approved or authorised, even if another enrolment
\*     of theirs still stands.
\*   ReleaserNeverDeletes: Whoever released a hold on a tenant neither approved nor authorised
\*     the deletion of its rows, whatever permissions came and went in between.
DeletedOnStandingWord ==
    /\ [](part = "register" => R!OnePersonOneEnrolment /\ R!RepresentativeIsNoApprover)
    /\ [][part = "register" => R!NoRevivalStep]_mcVars
    /\ [](part = "deletion" => D!OneLiveRequest)
    /\ [][part = "deletion" => /\ D!HeldIsKeptStep /\ D!RevokedWordIsVoidStep
                               /\ D!ReleaserNeverDeletesStep]_mcVars

\* GrantMigrations. A grant migration is applied once per tenant, whatever dies, overlaps or is
\* taken back.
\*   RowsNameAStartedRun: A ledger row names a run whose started row exists, however the run
\*     ends: a crash never leaves grants that no platform row explains.
\*   CompletedMeansApplied: A completed run that reports no failure left its migrations recorded,
\*     unedited, in every tenant it set out for that is still open.
\*   TakenBackStays: A migration grants a permission only in the step that first records it in
\*     the tenant: what an administrator took back afterwards stays taken back, whatever runs
\*     follow or race.
\*   ClosedIsUntouched: A closed tenant's grants and ledger never change: closing waits for the
\*     run inside the tenant, and the run skips the closed.
GrantsAppliedOnce ==
    /\ [](part = "migrations" => M!RowsNameAStartedRun /\ M!CompletedMeansApplied)
    /\ [][part = "migrations" => M!TakenBackStaysStep /\ M!ClosedIsUntouchedStep]_mcVars

\* Backup. There is always something whole to restore, it left encrypted, and a restore destroys
\* nothing.
\*   OffSiteIsCiphertext: An off-site destination holds nothing but ciphertext: no run, whatever
\*     its recipient and whichever step fails, hands it the archive itself.
\*   ListedIsWhole: A backup that is listed holds a dump pg_dump finished, though runs die while
\*     dumping.
\*   RestoredIsWhole: A restored database holds a whole dump: an archive that rotted, or that was
\*     decrypted from one that had, is never loaded.
\*   RecoveryPointStays: Retention never takes the last recovery point: once a complete object is
\*     off site one always is, although a newer copy may be cut short and a run may die between
\*     its upload and its deletes.
\*   NeverRestoredOver: A restore only fills a database it created: what another command restored
\*     and what production holds is never written over.
RecoveryIsPossible ==
    /\ [](part = "backup" => /\ K!BackupTypeOK /\ K!OffSiteIsCiphertext /\ K!ListedIsWhole
                             /\ K!RestoredIsWhole)
    /\ [][part = "backup" => K!RecoveryPointStaysStep /\ K!NeverRestoredOverStep]_mcVars

\* Updater. The updater leaves the pin as it was or changed, analyzed and validated.
\*   WritesOnlyWhatWasSafe: The revision a command writes was found safe for the pin it replaces:
\*     the bytes it rewrites hold the revision its analysis started from, and the candidate
\*     descends from it and changes no path that needs review.
\*   EndsUnchangedUnlessApplied: A command that ends without applying, and whose rollback did not
\*     fail, leaves the pin it found: no early return and no failed check leaves the candidate in
\*     the file.
\*   AcceptedWasValidated: An accepted update was validated: its checks passed, the pin it wrote
\*     was read back, and no tracked file besides the pin file differs.
PinChangesValidated ==
    /\ [](part = "updater" => U!UpdaterTypeOK /\ U!WritesOnlyWhatWasSafe)
    /\ [][part = "updater" => U!EndsUnchangedUnlessAppliedStep /\ U!AcceptedWasValidatedStep]_mcVars

\* AuditDigest and AuditEntry. The audit trail says who acted, takes every row it should, and
\* shows when it was changed.
\*   HonestTrailVerifies: As long as nobody has touched the tables and no line was lost, an
\*     export verifies: whatever workers run at once, overtake one another or crash between
\*     logging and storing, the verifier reports nothing but settled windows not digested yet.
\*   ChangeIsReported: Every window whose record reached the store and whose rows are now others
\*     is reported, also when the cursor was deleted so that the job recomputed and logged the
\*     altered window as if it were the original.
\*   StoredWasLogged: The log line is the evidence: a record in core.audit_digests was logged, so
\*     that a crash between the two steps never leaves a window the next run skips without a
\*     line.
\*   NoUserInitiator: Owner decision D2: no row names a user as an initiator, at any depth of its
\*     metadata and under any spelling of the key; what it does say there is a recorded shape
\*     that parses.
\*   AttributionIsTheCallers: The row of a system action says once who acted, for whom and in
\*     which execution, and it is what the call said: nothing in the caller's own metadata can
\*     stand beside it.
\*   InitiatorReadsBack: The initiator a row records parses back to the initiator the call gave.
\*   TableTakesWhatPasses: Whatever the functions accept passes the table's checks: the insert
\*     inside the caller's transaction fails, and takes the caller's change with it, only when
\*     the actor it names is not the tenant's or does not exist.
\*   JobRowIsWritten: A job whose own actor and metadata are fine always gets its row: a job id
\*     or request id that is no valid correlation is dropped instead of failing the handler.
TrailTellsTheTruth ==
    /\ part = "digest" => /\ A!DigestTypeOK /\ A!HonestTrailVerifies /\ A!ChangeIsReported
                          /\ A!StoredWasLogged
    /\ part = "audit" => /\ N!AuditEntryTypeOK /\ N!NoUserInitiator /\ N!AttributionIsTheCallers
                         /\ N!InitiatorReadsBack /\ N!TableTakesWhatPasses /\ N!JobRowIsWritten

\* Oversight and PagedReads. What an operator reads across tenants is theirs to read, on record,
\* and read completely.
\*   SeenIsOnRecord: Whatever fails or crashes, the data is looked at only after the attempt row
\*     of that read is committed.
\*   ReturnedIsOnRecord: A value is handed to the operator only once the completion row of the
\*     read is committed.
\*   ErasedIsUnlinked: Once the erasure marker is committed no reference outside a legal hold
\*     leads to the user, although audit rows about the user were being written while the erasure
\*     ran.
\*   OneReferencePerDay: Two writers of one day never leave two live references of the user.
\*   ReturnsWhatMayBeRead: A value is handed over in a transaction in which the operator's grant
\*     still stands: neither a revocation between the two transactions nor one during the second
\*     slips through.
\*   StandingRowsReturned: A finished walk has returned every row that was listed from its first
\*     page to its last, whatever was inserted, hidden, shown again or committed behind the
\*     cursor meanwhile: a full last page and a row that shares its created_at with the cursor's
\*     lose none.
\*   WalkedInOrder: The pages of one walk follow the listing's order: no row comes twice, also
\*     after a timeout and when a row leaves the listing and comes back.
\*   CountedIsHandedOut: The committed completion rows count exactly the rows that were handed
\*     out; the row read ahead is not one of them.
ReadsAreOnRecord ==
    /\ [](part = "oversight" => /\ O!OversightTypeOK /\ O!SeenIsOnRecord /\ O!ReturnedIsOnRecord
                                /\ O!ErasedIsUnlinked /\ O!OneReferencePerDay)
    /\ [][part = "oversight" => O!ReturnsWhatMayBeReadStep]_mcVars
    /\ [](part = "pages" => /\ P!PagedTypeOK /\ P!StandingRowsReturned /\ P!WalkedInOrder
                            /\ P!CountedIsHandedOut)

\* SharedStore. The limits, leases, jobs and dead letters kept in the shared store hold under
\* expiry and crashes.
\*   AdmissionBounded: A fixed window admits at most twice the limit in any span as long as the
\*     window: the end of one window and the start of the next, and never more.
\*   LeasesBounded: In no scope do more leases live at a time than its limit, whatever their
\*     times to live, the crashes of their holders and the order of acquisitions and releases.
\*   HeldInAllOrNone: A lease is held in all its scopes or in none: a refused acquisition leaves
\*     nothing behind that would keep a slot from others.
\*   UnsafeNotRepeated: An attempt that ran out of time, or whose outcome must not be repeated,
\*     is never followed by another attempt: only a failure that may be repeated, or a crash, is.
\*   LettersKept: An entry leaves the dead-letter list only when its tenant is purged or when as
\*     many newer ones are there as the list may hold: purges, appends and trims in any order
\*     lose no other.
StoreLimitsHold ==
    /\ [](part = "store" => /\ S!StoreTypeOK /\ S!AdmissionBounded /\ S!LeasesBounded
                            /\ S!HeldInAllOrNone)
    /\ [][part = "store" => S!UnsafeNotRepeatedStep /\ S!LettersKeptStep]_mcVars

\* TenantSettings. Settings of a tenant and its webhooks are what was recorded, and freeze when
\* it closes.
\*   ResealedIsCounted: The number a re-encryption reports is the number of plaintext secrets
\*     it sealed, whatever is re-encrypted or unsubscribed at the same time
\*     (reencrypt_legacy_signing_secrets).
\*   ConcurrentSetsSucceed: A set that lost a race to another set is made good by its second
\*     attempt: without a removal at the same time no set ends in a conflict.
\*   EventAcceptedOnce: A webhook event is accepted once, however often it arrives, when its
\*     replay record is kept for both sides of the tolerance; kept for the tolerance only, an
\*     event is accepted again only if its timestamp was ahead of the clock the first time.
\*   SettingsFrozen: Once the tenant is closed no override is set and no subscription appears or
\*     changes: what was allowed while it was open does not commit later.
SettingsMatchEvidence ==
    /\ [](part = "settings" => /\ T!SettingsTypeOK /\ T!ConcurrentSetsSucceed
                               /\ T!EventAcceptedOnce)
    /\ [][part = "settings" => T!SettingsFrozenStep /\ T!ResealedIsCountedStep]_mcVars

\* Bootstrap. A bootstrap command can die anywhere and be run again, and claims nothing of
\* anybody else.
\*   CrashedIsCompleted: Runs that do not overlap: there is never a second tenant of the name,
\*     and a run that dies is completed by the next one for the same owner, which is neither
\*     refused nor fails while no other owner and no operator interferes.
\*   NeverClaimsAnothers: Runs that do not overlap, for whatever owners: a tenant that has a
\*     member is never claimed for another identity.
\*   PlanIsHonest: The dry run is honest: with nobody else about, the run that follows it is
\*     refused when the dry run was, and otherwise performs the steps it named and no other.
\*   OneClientId: Every run of the identity bootstrap prints the same client id, however many
\*     other projects and applications there are, if ZITADEL refuses a second project or
\*     application of a name or no answer is lost.
\*   UpdatesCompose: A run that printed a client id left its application with the login and the
\*     claims asked for: the second update does not take the first one back.
\*   FirstOwnerOnce: Bootstrap enrolls one first owner, and only where no operator of any status
\*     is on record, however many runs overlap.
\*   RerunCompletes: A bootstrap that was interrupted after its transaction is completed by the
\*     same command: the identical run is never refused.
\*   EnrolledCanLogIn: The command enrolls nobody who could not log in: an operator's issuer is
\*     the one this deployment authenticates, however either was written.
\*   NothingLeftUngrantable: Once there is a first owner, every permission of the vocabulary is
\*     theirs to grant or was withheld on purpose; one added later cannot be left where nobody
\*     can grant it.
\*   NeverResurrects: A tenant that was suspended or deleted after the run read it as pending is
\*     not made active by the run.
BootstrapRepeatable ==
    /\ [](part = "bootstrap" => /\ B!BootstrapTypeOK /\ B!CrashedIsCompleted
                                /\ B!NeverClaimsAnothers /\ B!PlanIsHonest /\ B!OneClientId
                                /\ B!UpdatesCompose /\ B!FirstOwnerOnce /\ B!RerunCompletes
                                /\ B!EnrolledCanLogIn /\ B!NothingLeftUngrantable)
    /\ [][part = "bootstrap" => B!NeverResurrectsStep]_mcVars
=============================================================================
