# TLA+ models of saas-os

saas-os is a multi-tenant SaaS platform in Python: a core of tenant-owned
services over PostgreSQL (row-level security, one transaction per
`tenant_session_scope()`), background jobs over Redis (ARQ), a control plane for
inference and learning, and an HTTP API.  This directory holds TLA+ models of its
stateful parts, TLC runs that check them on small instances, and TLAPS proofs for
every instance.

## 1. Inventory

The unit of atomicity everywhere is the database transaction: `session_scope()`
and `tenant_session_scope()` (`saas_os/infra/db/session.py`) commit or roll back as
a whole, row locks are held to the commit, and nothing is locked between two
transactions of one operation.  The queue delivers a job at least once and may
deliver it again after a crash; an external request can never be taken back.

| Part | State | Operations | What makes it hard |
|---|---|---|---|
| Outbox (`core/outbox`, `api/outbox_dispatcher.py`) | event rows: status, attempts, claim token, due time, started marker, retry deadline | append, claim, hand off, begin, mark, complete, fail, release, replay, purge | leases that expire under a running consumer, crashes between request and commit, redelivered jobs, lost acknowledgements, outcomes of lost claims |
| Jobs (`infra/jobs`) | queue, tries left, dead-letter list | enqueue, run, retry, dead-letter, purge | at-least-once delivery, a list trimmed and filtered concurrently |
| Consumers (webhooks, notifications, usage, billing projections) | delivered flags, consumption records, usage events, projections | deliver, send, ingest, project | at-least-once execution, reordered events |
| Idempotency (`core/idempotency`) | operation records | run, begin, finalize, purge | an external call between two transactions, abandoned reservations, concurrent retries |
| Usage and quota (`core/usage`) | usage events, limits | ingest, consume, report | check and consume under an advisory lock |
| Tenancy (`core/tenancy`) | status, parent, tenant-owned rows | create, move, transition, purge | a hierarchy moved concurrently, rows created while a tenant closes, a purge of many steps |
| Identity (`core/identity`) | users, sessions, invitations, login transactions | log in, refresh, revoke, invite, accept, erase | one-time tokens used twice, sessions that outlive their user |
| RBAC (`core/rbac`) | roles, assignments, delegations, support grants | assign, revoke, delegate, decide | authority read in one transaction and used in another, the last administrator |
| API keys (`core/api_keys`) | keys, rotation | create, rotate, revoke, authenticate | overlap of two valid keys, limits |
| Permission-grant ledger (`core/permission_grants`) | proposals, approvals, applied grants, expiries | propose, approve, apply, expire, retain | four-eyes rules across transactions |
| Platform authority (`core/platform_authority`) | owners, operators, change requests | bootstrap, grant, revoke, oversee | the last owner, bootstrap twice |
| Billing (`core/billing`) | subscriptions, provider events, catalog, projections | subscribe, change, cancel, ingest provider events, project | reordered and duplicated provider events |
| Audit log and digest (`core/audit_log`, `core/audit_digest`) | append-only entries, published digests | record, erase subject, digest | digests over a log that is still written |
| Feature flags, configuration, crypto, email | flags, keys, provider settings | set, evaluate, rotate, send | precedence of overrides, key rotation during use |
| Rate limits (`infra/ratelimit`) | buckets, leases, circuit | acquire, release, trip, probe | leases of dead holders, a half-open probe |
| Control plane (`control_plane`) | approvals, runs, experiments, adaptations, inference attempts | request, approve, run, roll back, admit, account | one-time approvals, budget reserved and settled around a provider call |
| Backup and update (`infra/db/backup`, `infra/update`) | archive, lock, installed version | back up, prune, restore, update, roll back | a step of several failing, two runs at once |
| API (`api`) | request context | authenticate, authorize, bootstrap | stateless over the parts above |

## 2. Modules and runs

A module models one component; its header names the source files and its `map` entry in
`PROJECT.json` the lines of every definition.  (A helper whose lines lie inside those of the definition that uses it
has no entry of its own.)  Proofs are in modules of their own: `OutboxProofs`,
`OutboxExecProofs` and `OutboxClaimProofs`, `QuotaProofs`, `SubscribeProofs`,
`PlatformAuthorityProofs`, `LoginProofs`, and `OutcomeProofs` for mail and for the dispatcher's
classification of failures.

Two kinds of runs:

- The outbox, quota and subscription runs each check one specification on an instance
  chosen for one question (sections 3 to 5).
- `access`, `operations` and `business` each check a group of components
  (sections 6 to 8).  The MC module instantiates every component of the group and has a
  variable `part`, chosen in the initial state: a behaviour is a behaviour of ONE
  component, whose variables move while the variables of the others rest at 0.  A
  component that has proofs is extended instead of instantiated, so that TLC evaluates its
  assumptions, and its variables rest in an initial state.  The run's
  state space is the sum of the components', not their product, and a property
  of a component is stated as `part = "..." => ...` (for an action property, of the steps
  taken while `part` is that component).  Components that interact are
  composed inside a module, not by the group: `Tenancy` is the hierarchy with
  the administrator rule, `Delivery` the handlers with the purge, `Credentials` sessions
  and keys with deactivation and erasure, `PlatformHttp` and `RequestGate` the gates with
  the operations behind them, `Mail` the providers with the outbox's retries.
  The components end, once their bounded calls are used up, so these runs do not check for deadlock.

  A group's run checks one *promise* a component, or a pair of components of one
  subsystem: the conjunction of its type invariant, its state invariants and its action
  properties.  In the tables of sections 6 to 8 the promise comes first and its conjuncts
  after it; the comment above the promise in the MC module says each of them in words and
  names the code it is about.  TLC checks the conjuncts one by one.

Most operations of the code are one transaction.  Where another transaction can run
between its reads and its commit, and be seen or be waited for, the model has a step for
each half (`Open`/`Commit`, `Verify`/`Commit`, `Decide`/`Commit`): the first takes the locks
the code takes, reads and checks, the second writes and releases them.  The locks are
explicit, so a forgotten lock is a mutant of the model, and most of the mutants are
exactly that.  Where an operation consists of several transactions, each is a step, and
a process may die between any two of them.

## 3. The outbox

`Outbox` is one module for `core/outbox/dispatch.py`, `service.py`, `replay.py`, the
dispatch cycle and the run job.  A row is a record with the columns the transitions
read; each row transition of `dispatch.py` is an operator on that record (`ClaimRow`,
`FailEvent`, `RecordConfirmedNotSent`, `RecordAmbiguousOutcome`, `ReleaseClaim`,
`CompleteEvent`, `ReplayRow`), and each transaction is an action that applies it under
the ownership test `Owned` (`_locked_claimed_row()`).  `cycle[d]` is a dispatcher between
the transactions of one cycle, `jobs` the queue, `exec[w]` a worker inside the run job:
before the consumer's `external_effect()` block, inside it, after it, and between the
consumer's end and the commit of its outcome.  `hist` is history the code does not keep:
requests sent and runs begun since the event was recorded or replayed.

Time is relative to now: `due`, `window` and `ttl` are what is left of
`next_attempt_at`, `created_at + retry_within` and the consumer's deadline, and `Tick`
lets a unit pass for all of them, as the one database clock does.

Crashes (`DispatcherCrash`, `WorkerCrash`), redelivery to a second worker
(`Redeliver`), an error of any database call (`BeginRaises`, `CompleteRaises`,
`OutcomeUnrecorded`, `EnterEffectAckLost`) and a lost enqueue reply (`LostAcks`) can
happen at every point between two transactions.

`OutboxFailure` holds the dispatcher's decision which kind of outcome an exception
(possibly a nested group) reports, and runs it on every pair of
"what left the block" and "what escaped the consumer", for exceptions of at most two leaves
of every combination of classes (in the run `operations`): a retry of a marked event is one
the code can vouch for (`MarkedRetryIsSafe`), an attestation counts only from inside the
block (`AttestedLeftTheBlock`), a group is judged by its worst member
(`GroupIsConservative`), and an ambiguous send is never simply retried
(`AmbiguityNeverRetried`).  Together they are `RetriesOnlyWhatIsSafe`.  An attempt without a
marker that ends in any other exception is retried, and nothing is claimed of it: the code does
not take a database error or a `ConnectionError` for ambiguous (`api/outbox_dispatcher.py:582`).

| Run | Instance | Shows |
|---|---|---|
| `outbox_redelivery` | 1 event, 2 workers, 2 attempts, redelivery, one operator replay | types, `NoSilentRepeat`, `RunsBounded`, `PublishedMeansReturned`, `TerminalStays` |
| `outbox_outcomes` | 1 event, 2 dispatchers, every outcome, a window of some ticks, three kinds of delay | `MarkerBelongsToClaim`, `RetriedInsideWindow` |
| `outbox_lease` | 2 events of 2 tenants, batches of 2, 2 workers, no redelivery | `NoOverlap`, `ClaimHeldOnce`, `PurgeIsFinal` |
| `outbox_live` | 1 dispatcher, fair schedule | `EventuallySettled` |
| `outbox_lost_ack` | a lost enqueue reply | violated: see Findings |

`RunsBounded` counts what the attempt counter is there to bound: the claims of an event that
began a run (at most `MaxAttempts`, although `release_claim()` gives attempts back) and the starts
under each of them (at most `MaxTries`, although the queue delivers a job again when its worker
dies, is superseded or raises).  `PublishedMeansReturned` asks for a consumer that returned
since the last replay, so neither an execution that began before the replay nor one whose
outcome is unknown accounts for it.  `PurgeIsFinal` is about what comes late: a completion, a hand-off
given back, a dispatcher's stale list of tenants, a producer, after the purge of the tenant or the
erasure of the event.  `NoSilentRepeat` is checked and proved for a queue whose acknowledgements
arrive; `outbox_lost_ack` shows what becomes of a lost one.

Bounds: two attempts are enough for "an earlier attempt and its retry", two workers for
an old execution beside a new one, two or three tokens because a token is reused only
when nothing carries it any more (a `uuid4()` never is).  A lease of 2 and a deadline of 1
keep the order the configuration enforces (`MIN_LEASE_SECONDS`).

Fairness (`outbox_live` only): time passes, the scheduled cycle keeps running (weak
fairness of listing, strong fairness of claiming and handing off because a crash can
interrupt a cycle), and the asyncio deadline fires.  Nothing is assumed of workers: an
event whose job never runs is settled by its leases and its attempt budget.

### Proofs

For all constants that satisfy `OutboxAssumption`.  `OutboxProofs`:

- `TypeCorrect`, `MarkerCorrect`: `TypeOK` and `MarkerBelongsToClaim` are invariants;
- `TerminalRows`: `TerminalStays`, no step but an operator's replay or a purge changes the status of
  a published or dead row.  Every action either leaves a row's status, or changes it under
  the ownership test or from `pending`; `StatusChange` states this once for all actions;
- `PurgesAreFinal`: `PurgeIsFinal`, no step writes the row of a purged tenant or of an erased
  event again or starts a consumer for it.  Together with the types it needs only that every write
  of a worker or dispatcher is conditional on a pending row with its token, and an insert or
  replay on an open tenant.

`OutboxExecProofs`:

- `PublishedRan`: `PublishedMeansReturned`, a published event's consumer returned since the last replay.  The
  invariants are `ReturnInv` (what an execution about to report success did) and
  `PublishInv`;
- `SendsAtMostOnce`: with markers on and no lost enqueue reply, `NoSilentRepeat` is an
  invariant.  It is not inductive; the proof strengthens it to `IInv`:
  - `HandOffInv`: the token of a claim still in a dispatcher's hands is carried by no job,
    execution or marker, so that giving it back cannot clear the marker of a run;
  - `ExecInv`: what the control state of an execution implies about its marker and
    result, and that an execution older than the last replay does not own the row;
  - `SendInv`: once a request may have left, or an execution has marked the event, the
    event is *fenced*: its row is not pending, or carries the marker of its current claim,
    or its tenant is closed and no execution holds the claim; and at most one execution of
    the current history has marked it.

`OutboxClaimProofs`:

- `OneConsumer` (`NoOverlap`) and `HeldOnce` (`ClaimHeldOnce`): two consumers inside their
  deadlines never run the same event, and the current claim of an event is in one place.  The
  invariant `ClaimInv` adds to `HandOffInv` that a token past its dispatcher is in one job or
  one execution (`UniqueInv`), and that a running consumer owns its event for longer than its
  own deadline (`LeaseInv`), which is where `ConsumerTimeout < Lease` of
  `OutboxAssumption` (`MIN_LEASE_SECONDS`) is used;
- `AttemptsBoundRuns` (`RunsBounded`), `RetriedInWindow` (`RetriedInsideWindow`) and
  `ReleaseIsRight` (`ReleasedNeverRan`): the attempt counter bounds the claims that run although
  `release_claim()` turns it back, and `max_tries` the starts of each, a retry after an unknown outcome starts inside the
  consumer's window, and a claim that is given back never ran.  The invariant `AttemptInv` says
  that a claim in a dispatcher's hands has begun no run (`FreshInv`), that a pending event
  has been run under at most `attempts` claims, and fewer while its current claim has not
  begun (`RunInv`), that the job of a claim, or the execution that may be retried, is alone in
  holding its token (`TriesInv`) and its starts and the tries left stay within `MaxTries`
  (`BudgetInv`), and that an event once retried within its window keeps its deadline
  (`WindowInv`).  `begin_event_execution()` looks at the deadline only when
  `attempts > 1`; `RunInv` is why that is enough.

The hypotheses are the ones under which the claims are true.  Without `~LostAcks` a claim
whose job was taken is released: `outbox_lost_ack` is the counterexample to `ReleasedNeverRan`, and
a released run is not counted, may overlap the next, and escapes the deadline.  `~Redelivery`, for
`NoOverlap` and `ClaimHeldOnce` only, is "a job runs on one live worker at a time".

`OutcomeProofs` proves `ClassificationIsSafe` (`RetriesOnlyWhatIsSafe`) for leaf exceptions of any
classes and groups of any size.  The invariant `FailureInv` is that a result is the
classification of what escaped; the work is in the lemmas about the operators: which exceptions
exist, and what `Classify` does when a group gains a member.

Liveness (`EventuallySettled`) is model-checked only.

## 4. Usage and quota

`Quota` models one tenant and one metric.  A call of `consume_quota()` or
`consume_quota_idempotent()` is taken statement by statement: the month window (`Call`),
the tenant and the limit (`ReadLimit`), the reservation of the key (`Reserve`), the advisory
lock (`LockMetric`), the sum (`SumUsage`), and the end of the transaction (`Exceed`,
`Commit`, `Abort`).  A reservation `INSERT` waits for an uncommitted one of the same key and
conflicts with a committed one, which `Resolve` then reads in a second transaction.
`IngestUsage` is the outbox consumer: fence, claim and usage row in one transaction,
executed at least once.  Plans change, months turn, records expire and are purged, and the
tenant is closed and purged while calls are under way.  `counted`, `charged` and `ceiling`
are history the code does not keep.  Windows given by the caller (`since`, `until`) and
jobs without an event identity are left out.

`QuotaLedger` is the promise: a consumption is one step that stays within a limit that was
in force, and a key pays once as long as its record is kept.

| Run | Instance | Shows |
|---|---|---|
| `quota` | 2 callers with 2 calls each, 1 key, 1 event, limits 1 and 2, one month | `IngestedOnce`, `ImplementsLedger` |
| `quota_live` | 2 callers, 1 key, a limit and none, two months, fair | `EventuallyAnswered` |
| `quota_rollover` | 2 callers without keys, limit 1, two months | violated: `WithinLimit`, see Findings |

Two callers give every pairwise race for the key and for the lock; the second call of a
caller is the retry after an answer, a failure or a purge.  Quantities 1 and 2 against
limits 1 and 2 reach the limit exactly, pass it by one, and reuse a key with another
fingerprint.

Fairness (`quota_live`): weak fairness of a call's next statement.  PostgreSQL executes the
statements of an open transaction and grants a free lock to a waiter; with two callers and
a bounded number of calls no waiter can be overtaken for ever.  `Abort` is not assumed to
happen.

`QuotaProofs` proves `QuotaImplementsLedger`: with `LastMonth = 0`, every behaviour of
`Quota` is one of `QuotaLedger`, for any callers, keys, events and limits that satisfy
`QuotaAssumption`.  The assumption on the month is needed: across a change of month the
claim is false (`quota_rollover`).  The inductive invariant `QInv` adds to the types that the
one call between its sum and its insert holds the lock (`LockInv`), that what a call has
read still bounds what is recorded (`ReadInv`), and that an uncommitted reservation
excludes a record and a second reservation of its key (`KeyInv`).  `QuotaTypes` is the type
invariant alone, without the assumption on the month, and `CountsOnce` proves `IngestedOnce`:
the invariant `CountedInv` adds that, while the tenant is open, an event that was counted has
its consumption record.  `EventuallyAnswered` is model-checked only.

## 5. Idempotent subscription

`Subscribe` models one tenant and one idempotency key.  Each transaction of
`begin_idempotent_operation()` is a step (`InsertRecord`, `ReadRecord`, `ResetRecord`), as
are the parts of `subscribe()` between which it can crash (`CheckPlan`,
`ProviderCreates`/`ProviderRaises`, `WriteRow`, `RecordAudit`) and the final transaction
(`Finalize`).  The provider may create the subscription and still raise.  Time passes, the
record expires and is purged, plans are withdrawn and the tenant closes between any two
steps.  A transaction is atomic here: the read and the update of one row by `ResetRecord`
and `Finalize` are not separated.  `created` and `excused` are history.

| Run | Instance | Shows |
|---|---|---|
| `business` (part `subscribe`) | 2 callers, 3 calls in all, 2 plans, TTL and retention 1, 3 instants | `RetriesAreSafe`: `TypeOK`, `AnswerIsReal`, `SuccessIsReal`, `SubscribedOnce` |
| `subscribe_concurrent` | 2 callers, 1 plan, no time passes | violated: `NoConcurrentCalls`, see Findings |

Three calls of two callers are enough for an attempt that is superseded, the attempt that
supersedes it, and a replay; three instants separate the start of a call, the expiry of the
reservation and the purge of its record.  The calls may all end, so the runs do not check
for deadlock.

`SubscribeProofs` proves `SubscribeReal` (`SuccessIsReal`), `SubscribeOnce`
(`SubscribedOnce`) and `AnswersAreReal` (`AnswerIsReal`), and `SubscribeSafe` (all of
`RetriesAreSafe`), for any callers, plans, times and numbers of calls.  The inductive invariant `RealInv` says of every call that the record it
holds has its own plan (`RealAt`): record ids are never reused, so a late `Finalize` finds
either the record of its own fingerprint or none.  `OnceInv` says that until the first
excuse one call at most works under the reservation, and that nothing was created before
that call is past the provider.

## 6. Identity and access (run `access`)

| Module | What a state and a step are | Instance | Shows |
|---|---|---|---|
| `PlatformAuthority` | operators, grants, active and linked people; `Decide` under the platform-owners lock, `Commit` | 3 people, 2 transactions, 2 changes, from nobody enrolled, from two owners, and with an old operator nobody can log in as | `AuthorityKept`: `OperatorsStayUsable`, `OwnerKept`, `ActsWithAuthority` |
| `Tenancy` | parents, `tenant_ancestry`, statuses, roles; a guarded mutation locks, records the administrators, changes and verifies, commits | 4 tenants, 2 users, 2 transactions, from several trees | `TreeAndAdministratorsKept`: `AncestryIsClosure`, `DepthBounded`, `AttachedToOpen`, `AdministratorKept`, `NoLockCycle` |
| `Credentials` | one person's sessions and keys; `Open`, `Commit` | 2 calls, 3 keys, 1 session | `CredentialsEndWithTheirOwner`: `InactiveHasNoCredential`, `KeyLimitKept`, `RotatedOnce`, `ErasedHasNoKey` |
| `Invitations` | invitations of one address and the memberships they lead to | 2 calls, 2 people, 1 row | `JoiningEndsOnce`: `AcceptedOnce`, `InvitationEndsOnce`, `RevokedIsFinal`, `JoinsOpenTenant` |
| `Authorization` | `can()` query by query with the rows it holds `FOR SHARE`; the operations of `core/rbac/service.py` | 3 users, 1 service account, a parent and a child tenant, scenarios that pair an operation with what can undercut it | `AuthorizedWhenCommitted`: `AuthorizedUntilCommit`, `ConveysWhatIsHeld`, `SupportDecisionStands`, `NoSupportAfterPurge`, `PurgedConfersNothing` |
| `Erasure` | `erase_user_identity()` as its sequence of transactions | 2 overlapping calls, 3 invitations, a person who still acts | `ErasureIsComplete`: `CompletedLeavesNothing`, `InvitationCountExact`, `InitiatorCountExact` |
| `PlatformHttp` | the gate of a platform route step by step, the operation behind it, the answer; the startup check of the routes | every route kind, one upset between any two reads | `PlatformRoutesGuarded`: `PerformedWithAuthority`, `AuthorityOnFreshSession`, `OutsiderSeesNothing`, `OneTrace`, `RouteRunsItsOperation`, `EveryRefusalHasAnAnswer`, `PlatformRoutesKeepTheRules`, `OneAuthorityPerRoute` |
| `RequestGate` | the gate of a tenant's route, overlapping requests of one credential, the provider's event endpoint | a failure limit of 1, one window turn | `GateLimitsAndRecords`: `ReplayBounded`, `ValidNeverFailing`, `QuotaForAdmitted`, `DenialsRecorded`, `RaceAnsweredAsGate` |
| `Login` | login rows, browsers with a cookie, visits to `/auth/login`, `/auth/callback`, `/auth/logout` | 2 browsers, 2 concurrent visits | `OneLoginOneUser`: `OneAttemptPerLogin`, `ExchangesOwnCode`, `OneUserPerIdentity`, `ReturnsToOrigin` |
| `ServiceAccounts` | an account, its keys, the tenant's lifecycle; `validate_api_key()` in its three transactions | 2 changers, 2 keys | `CredentialsEndWithTheirOwner`: `AcceptedWasGood`, `PurgedHasNoCredential`, `RevokedHasNoSuccessor`, `NeverOutlives`, `CitedIsKept` |

Two concurrent transactions are enough for the properties of this group: each is about
a check made by one transaction and undone by another, and a third can only do what the
second could have done.  Where a third actor matters (the person erased who still acts,
the operator whose grant is revoked during a request) it is an action of its own.

`OperatorsStayUsable` is about changes, not about a state: enrolment has not always looked for a
linked identity, so an operator nobody can log in as may be in the tables from the start.  No
change adds one, and neither bootstrap nor recovery puts its trust in one.  In `Tenancy` nobody attaches
a child to a suspended or a closed tenant; provisioning, which acts as the system, builds beneath
a pending one only.  `Erasure` finds invitations by the addresses the
operator declares and those the person verified or accepted here; `CompletedLeavesNothing`
therefore excepts an invitation to any other address.  `ServiceAccounts` records every refusal of a
known key in a transaction of its own, and the audit rows cite the account: the purge reads the
references before it locks the rows, and what keeps a citation that commits in between is the
foreign key (`CitedIsKept`).

`AdministratorKept`, `AuthorizedUntilCommit` and `NoLockCycle` carry the exceptions the code
has: authority that appears in a tenant after a mutation fixed which tenants it can reach,
a delegate without a membership row to lock, and a tree that changed after a lock order was
fixed.  Section 9 says where the comments promise more.

`PlatformAuthorityProofs` proves `OperatorsAreUsable` (`OperatorsStayUsable`), `OwnerNeverLost`
(`OwnerKept`) and `ChangesAreAuthorized` (`ActsWithAuthority`), and `AuthorityIsKept` (all of
`AuthorityKept`), for any people, permissions and transactions.  The inductive invariant `AuthorityInv` says what the platform-owners lock is
for: at most one transaction is between its checks and its commit, and everything that
transaction checked still holds (`Holding`), including that its effect keeps an owner.

`LoginProofs` proves `LoginIsSound` (all of `OneLoginOneUser`) for any number of browsers,
logins and callbacks.  `LoginAssumption` says that the bounds are naturals and that
finitely many callbacks are under way.  The inductive invariant `LoginInv` has a part for each of
the four claims: the callback that holds a login's row has counted its own attempt and is
the only holder, and a row that waits unlocked has had none (`RowInv`); a callback past the
consumption of its login carries that login's code (`CodeInv`); who goes on to a session has the
linked user, also after losing the race for the link (`UserInv`); and a login was begun
only under settings that agree (`SetupInv`).

The other properties of the group are model-checked only.  For some no
proof is within reach here: `InitiatorCountExact` is about a sum over the calls under way, and
`AncestryIsClosure` and `DepthBounded` are about paths of a tree, which need induction over
data.  For the others none is written.

## 7. Operating a deployment (run `operations`)

| Module | What a state and a step are | Instance | Shows |
|---|---|---|---|
| `OutboxFailure` | one exception through the dispatcher's classification | at most 2 leaves of every combination of classes | see section 3 |
| `LedgerRegister` | the append-only approver register; a transaction's time is its start | sequences of acts with two writers | `DeletedOnStandingWord`: `OnePersonOneEnrolment`, `RepresentativeIsNoApprover`, `NoRevival` |
| `LedgerDeletion` | holds, requests, approvals, authorisation, deletion; `Verify`, `Commit` | 1 tenant, 2 transactions | `DeletedOnStandingWord`: `HeldIsKept`, `OneLiveRequest`, `RevokedWordIsVoid`, `ReleaserNeverDeletes` |
| `GrantMigrations` | runs of the grant migrations beside administrators | 2 tenants, 2 runs, crashes | `GrantsAppliedOnce`: `RowsNameAStartedRun`, `TakenBackStays`, `ClosedIsUntouched`, `CompletedMeansApplied` |
| `Backup` | local files, metadata, off-site objects, the lock, databases | 3 runs, 2 restores, any step may die, plaintext half written, one dump may rot | `RecoveryIsPossible`: `ListedIsWhole`, `RestoredIsWhole`, `OffSiteIsCiphertext`, `RecoveryPointStays`, `NeverRestoredOver` |
| `Updater` | pin, working tree, candidate; each read of a command is a step | 2 commands, 4 revisions, developers | `PinChangesValidated`: `WritesOnlyWhatWasSafe`, `EndsUnchangedUnlessApplied`, `AcceptedWasValidated` |
| `AuditDigest` | rows with start and commit times, log lines, stored records | 2 workers, 2 scopes, windows of 2 | `TrailTellsTheTruth`: `HonestTrailVerifies`, `ChangeIsReported`, `StoredWasLogged` |
| `AuditEntry` | one call and the row it writes | metadata nested two deep with every reserved spelling, actors of every kind | `TrailTellsTheTruth`: `NoUserInitiator`, `AttributionIsTheCallers`, `InitiatorReadsBack`, `TableTakesWhatPasses`, `JobRowIsWritten` |
| `Oversight` | attempt, read and completion in two transactions; daily references and their erasure | 2 operators, 2 days, one day under hold | `ReadsAreOnRecord`: `SeenIsOnRecord`, `ReturnedIsOnRecord`, `ReturnsWhatMayBeRead`, `ErasedIsUnlinked`, `OneReferencePerDay` |
| `PagedReads` | a table and a walk through it | 3 ids, 5 times of audit rows, pages of 1 and 2, every kind of listing | `ReadsAreOnRecord`: `StandingRowsReturned`, `WalkedInOrder`, `CountedIsHandedOut` |
| `SharedStore` | Redis: counters, leases, dead letters | 2 requesters, 2 jobs | `StoreLimitsHold`: `AdmissionBounded`, `LeasesBounded`, `HeldInAllOrNone`, `UnsafeNotRepeated`, `LettersKept` |
| `TenantSettings` | flag override, webhook subscriptions and secrets, replay ledger | 3 operators | `SettingsMatchEvidence`: `ResealedIsCounted`, `SettingsFrozen`, `ConcurrentSetsSucceed`, `EventAcceptedOnce` |
| `Bootstrap` | the three bootstrap commands, run again after dying anywhere | up to 3 runs, tenants of one name, lost answers of the identity provider | `BootstrapRepeatable`: `CrashedIsCompleted`, `NeverClaimsAnothers`, `NeverResurrects`, `PlanIsHonest`, `OneClientId`, `UpdatesCompose`, `FirstOwnerOnce`, `RerunCompletes`, `EnrolledCanLogIn`, `NothingLeftUngrantable` |

`Backup`: a decryption writes the plaintext dump as it goes; a failure removes it, a timeout
leaves it truncated, and `pg_restore` loads nothing of a truncated archive.
`OffSiteIsCiphertext` rests on
the steps of one run, which no interleaving can disturb; it is kept because it says what leaves
the machine.  `AuditEntry` includes the table's checks and the foreign keys
of an actor; the metadata column is `JSON` (`core/audit_log/models.py:268`, migration `2e7cb8c64903`), which
keeps the text it is given, so what the functions measured is what the table measures.
`SharedStore` leaves out the repair of a counter without an expiry (`ttl = -1`) and a
dead letter whose own write fails, and takes a worker's crash as the last error of its job.
`EventAcceptedOnce` distinguishes how long replay records are kept, `CrashedIsCompleted` says
that the next run of the same owner is neither refused nor fails, and `OneClientId` holds where
ZITADEL refuses a second project or application of a name, or loses no answer: a repeated
`CreateProject` is not recognised by the code itself.

The judgements of `Learning` (section 8), `AuditEntry` and `OutboxFailure` are pure decisions: a
state is one input and one result, and the run enumerates the inputs.

## 8. What tenants buy and are told (run `business`)

| Module | What a state and a step are | Instance | Shows |
|---|---|---|---|
| `Subscribe` | see section 5 | | |
| `Commerce` | one commercial subscription between database and provider; the provider's events reordered, repeated and lost | 2 callers, 2 provider keys, markets that change during a call, a provider that cannot tell | `SoldUnderContext`: `CanceledIsFinal`, `ActiveIsConfirmed`, `InsertedUnderContext`, `ReferenceBeforeRow`, `ProcessedCancellationArrived`, `InheritsOrPays` |
| `Projections` | the copies of a subscription under its seller and its payer | 2 workers, 2 versions, purges | `ConsumedOnceUntilPurged`: `CopyNeverGoesBack`, `ConsumedIsProjected`, `NoCopyAfterPurge` |
| `Delivery` | overlapping executions of one event, cut off anywhere, beside erasure and the tenant purge | 2 jobs, 2 executions, 2 purgers | `ConsumedOnceUntilPurged`: `OneNotification`, `NotSentIsTrue`, `FencedTablesShrink`, `TombstoneIsEmpty`, `CompletedOnce` |
| `Mail` | one notification's e-mail: configuration, SMTP conversation or HTTP exchange, outcome, retry | 3 attempts, every configuration, two senders, lost answers anywhere | `MailedTruthfully`: `MailedOnce`, `NotSentIsNotSent`, `TakenIsNotFailed`, `PublishedWasTaken`, `OneRequestPerAttempt`, `ClearOnlyByChoice` |
| `Learning` | adaptations of one lineage, experiments, canaries; thresholds and recurrence as pure decisions (part `judgement`) | 2 learners, scenarios of 3 versions; 2 metrics, 2 values | `LearnsOnEvidence`: `OneActiveKept`, `ActivatedOnPass`, `CanaryMovesWithAdaptation`, `ClosedLearnsNothing`, `PassIsWithinLimits`, `RepeatAddsNothing` |
| `DecisionChain` | one tier 1 request, decided and executed; decisions as objects, the audit records behind them | 2 officers, 2 approvers; 2 tenants, 4 decisions | `ActsOnRecordedApproval`: `EffectWasApproved`, `DecidedByAnother`, `ExecutingIsHeld`, `RestsOnRecord`, `GateReadsStoredApproval`, `ProposalRestsOnRecord` |
| `Inference` | one call from authorization to settlement, the exchange with the provider and what the protocol's adapter makes of it, beside the administration of providers, models, aliases, endpoint trust and policies | 2 requests, 3 providers of 3 protocols, every kind of exchange, up to 5 changes during a call | `InferenceIsGoverned`: `AcceptedAtMostOnce`, `AcceptanceIsRecorded`, `SecretToConfirmedOrigin`, `UsageOncePerSuccess`, `SentUnderSlotStep`, `StartsOnFreshPolicyStep`, `SentWhereGrantedStep`, `SettledOnceStep` |

`Mail` assumes of Resend what the code relies on: a key is answered from its first use for
24 hours.  The retry window is 23 hours (`RESEND_IDEMPOTENT_RETRY_WINDOW`), and an attempt
begun inside it ends before the key is forgotten: `HourPasses` lets at most one unit pass
inside an attempt, and the run has a window of 2 and a retention of 3 (`KeyRetention`).
`MailedOnce` is stated for a deployment that keeps its provider; section 9 says why.
`Delivery` takes the outcomes of a send as given, `Mail` computes them.

`OutcomeProofs` proves `MailIsTruthful` (all of `MailedTruthfully`) for every set of
configurations, any number of attempts and any window shorter than Resend's memory: `MailAssumption`
has `Window < KeyRetention`, which is the relation of the 23 to the 24 hours.  The
inductive invariant `MailInv` adds to the claims: where an execution is says how far the message
went, down to the commands of the SMTP conversation that are left (`AttemptInv`); the row is
pending while it is executed, the provider has taken no more messages than there were attempts,
and an execution inside the window ends at most one unit after it (`RowInv`); and once the
provider has the message, either the event is settled or about to be, or Resend still knows
the key and the row has its window (`OnceInv`).  `MailedOnce` alone is not inductive: that the key
is still known when the retry begins follows from the last two together.

`DecisionChain`: the last write of an execution takes no lock and looks at no status
(section 9).  `ExecutingIsHeld` says nothing of a request once a process stopped.  The 4
decisions are enough for one chain of data, learning, evaluation and gate in one tenant, beside the
objects of the other tenant that are refused in it.  An evaluation may also rest on decisions of two
tenants; a chain long enough for one that passes is beyond the instance.

In `Inference` the lease of a slot can expire while its call is alive.  `SentUnderSlotStep` holds
because the lease outlives the call's deadline by `LEASE_MARGIN_SECONDS` and an exchange that
starts after the deadline sends nothing; a transaction between two exchanges may outlast both.

Apart from mail and the subscription (section 5) the group is model-checked only.

`Inference` keeps apart what happened to an exchange (`MayBeProcessed`) and what the adapter
says of it (`CompleteOpenAI`, `CompleteAnthropic`, `CompleteGemini`): `AcceptedAtMostOnce` and
`AcceptanceIsRecorded` are about the former, the call decides on the latter.  Of a
provider it assumes what the adapters rely on: what is answered with 4xx, or with the
provider's own overload status (529, 503), was not processed.

## 9. Findings

Three runs show where the code does something else than it says:

- `outbox_lost_ack`: `dispatch_outbox_once()` treats every
  exception of `enqueue_job()` as "not handed over".  If Redis took the job and only the
  reply was lost, the worker can begin, mark and send before `release_claim()` runs;
  the release refunds the attempt and clears the marker, and the next claim sends again.

- `quota_rollover`: `consume_quota()` computes the month at its start and dates the row when
  it inserts it.  A call that waits for the lock over the turn of the month is checked
  against the old month and counted in the new one, which can then pass its limit.

- `subscribe_concurrent`: `begin_idempotent_operation()` decides to retry
  on a record read in one transaction and resets it to `pending` in another without looking
  at its status again.  Two concurrent retries of a failed key both reach the provider.

Smaller disagreements met while modelling.  The model reproduces them, the property named
is stated so that it holds, and no run is kept for them:

- `list_backups()` promises that a metadata file that fails to verify "is skipped, not
  raised" (`infra/db/backup/__init__.py:608`), but catches `BackupError` only, and a checksum
  mismatch is a `RestoreError`: one damaged dump makes listing and pruning raise.
- `digest_settled_windows()`: "every record is logged at least twice ... one line lost on its
  way to the store is not a gap" (`core/audit_digest/service.py:434`).  The second line is
  written by the next run that digests a window, so the newest record has one line only, and
  losing it is a gap until then.  `HonestTrailVerifies` assumes no lost line.
- `provider_events.py:30`: "every processing run converges on what the provider says now".
  Two runs that ask the provider before either locks the row can apply the answers in the
  other order; the row then keeps the older one until the next event.  Only a cancellation is final
  (`CanceledIsFinal`, `ProcessedCancellationArrived`).
- `execute_approved()` (`control_plane/approvals/service.py:245`): approve and reject read and
  write in two transactions without a condition, so a late approval or rejection overwrites
  `executing`.  A second execution can then begin, or a tool have its effect after a rejection
  was written.  `EffectWasApproved` holds.
- `cancel_canary()` checks the canary's status in one transaction and writes it in another:
  a canary started in between is cancelled while its adaptation stays active.  A rollback
  reactivates the version before the rolled-back one, which need not be the one its activation
  replaced.
- `autonomous_improvement/service.py:92` calls `evaluation_outcome` "never mutated", but a second
  evaluation of a candidate overwrites it; `ActivatedOnPass` therefore speaks of the outcome on the row.
- `purge_tenant()`: "no new tenant-owned row can appear once `PURGING` is reached"
  (`core/tenancy/service.py:1720`).  The consumption record of a delivery under way is
  not fenced and does appear; the next pass deletes it.  `FencedTablesShrink` names the tables
  the fence covers.
- `can()`: "a revocation can therefore never commit between this decision and the mutation it
  authorizes".  A delegate who was no member has no membership row to lock, so one
  that is created and suspended afterwards does not wait (`AuthorizedUntilCommit` excepts them).
- `core/rbac/administrators.py`: a tenant that gains its only administrator after a mutation
  fixed which tenants it can reach may lose them in that mutation (`AdministratorKept`).
- `docs/AUTO-UPDATE-CLI.md:83`: "Local work is never stashed, reset or overwritten".  A pin file
  saved between the updater's last read and its write is replaced.
- `unsubscribe()` records a removal twice when two calls delete the same row.
- `validate_api_key()` reads key, tenant and account in three transactions: it can accept
  although the three were never valid at one moment.  `AcceptedWasGood` says what holds.
- `tenant_bootstrap.py:72`: "never a silent second tenant, never a claim on someone else's".  Two runs
  that overlap can both find nothing and both create; the properties are
  about runs that do not overlap.
- Changing `EMAIL_PROVIDER` from `resend` to `smtp` between an attempt whose outcome is unknown
  and its retry sends a second time: SMTP does not know Resend's key.
- The request gate catches `QuotaExceededError` of `consume_quota()` only
  (`api/dependencies.py:755`): a tenant that closes between the gate's steps ends the request with an
  uncaught `TenantClosedError`.
- `purge_expired_replay_records()`: a record older than the tolerance "has already lost all
  protective value" (`core/webhooks/service.py:633`).  The tolerance is symmetric
  (`core/webhooks/service.py:534`): a delivery whose timestamp was ahead of the clock is still inside
  it when its record is that old.  `EventAcceptedOnce` asks for records kept for both sides.
- `core/billing/inheritance.py:11`: "Every *mutation* fails closed" for a tenant that inherits
  billing.  `reconcile_legacy_subscription()` does not ask.  `InheritsOrPays` names the two
  operations that create a subscription.
- `mark_external_effect_started()`: "an older claim's marker may legitimately remain after a
  reclaim" (`core/outbox/dispatch.py:797`, also `docs/architecture/OUTBOX-STARTED-MARKER.md:63` and a test that
  writes such a row with SQL).  No transition of this code leaves one on a pending row of an open
  tenant: `MarkerBelongsToClaim` holds and `MarkerCorrect` proves it.  The provision is for rows
  written by hand or by a release that does not know the marker.
- `purge_expired_login_transactions()` has no caller; `Login` therefore has no purge.

## 10. Not modelled

- Row-level security policies, connection pools, statement timeouts: the transactions are
  modelled by the rows they may see and the locks they hold; an error of any statement is an
  abort.
- Cryptography, hashing, token entropy and password checks: secrets are fresh values, digests
  are collision free, an envelope is the key it was sealed with.
- Generated migrations, which run once and in sequence; triggers and constraints the
  code relies on are part of the actions that meet them.
- Adapters to external services (Stripe, S3): the services are nondeterminate answers, lost or
  late.  Of the inference adapters, how requests are written and which fields of an answer are read:
  an answer is one the protocol understands or not.
- Rendering, parsing, templates, command lines, logging, health and metrics: they change
  no state.  What a parser refuses is an input that is refused.
- Row-by-row SQL of read-only reports (usage reports, oversight projections) apart from how
  they are paged and recorded.
- Prices, taxes and terms of the catalogue beyond what decides whether a subscription may be
  created; the permission catalogue; feature-flag evaluation order.
- Isolation anomalies below one statement: PostgreSQL is taken to execute a statement
  atomically on the rows it locks.

Hazards that are modelled, or named, and have no property:

- `core/idempotency/service.py:318`: the reset of a record to `pending` looks at a status read in an
  earlier transaction; `subscribe_concurrent` shows it for a failed record.
- A process that stops between the claim of an approved request and the write that ends it
  (`control_plane/approvals/service.py:270`), inside the rewriting of a backup's metadata
  (`infra/db/backup/orchestrator.py:213`) or between an update's pin and its validation
  (`infra/update/engine.py:419`): the request stays `executing`, the archive is no longer listed, the
  next update reports that all is up to date.  The code has no recovery from them that a
  property could be about.
- An edit of the pin file between the updater's read and its replacement
  (`infra/update/pins.py:162`): there is no lock a developer would have to take.
- A transaction open for longer than the settle time of the audit digest
  (`core/audit_digest/service.py:381`), which ADR-0053 accepts.
- The dead letter of a purged tenant's last job (`infra/jobs/queue.py:292`): nothing orders worker and purge.
- The audit row of a bootstrap that dies before it (`api/tenant_bootstrap.py:307`): the command's own
  rows are not modelled.
- The monthly token limit passed by concurrent calls (`control_plane/inference/accounting.py:183`), which is
  documented as soft.
- Lists paged by offset (`core/api_keys/service.py:545`), which promise nothing about rows
  that come and go.

Liveness is checked for the outbox and for quota calls only.  The other components have no
scheduler of their own: an operation that dies is repeated when its caller, a job or an operator
repeats it, which the models allow and nothing guarantees.
