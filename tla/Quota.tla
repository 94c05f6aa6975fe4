------------------------------- MODULE Quota -------------------------------
(***************************************************************************)
(* Metered usage of one tenant and one metric: consume_quota(),            *)
(* consume_quota_idempotent() on top of run_idempotent(), and the usage    *)
(* ingestion job of the outbox (core/usage/service.py,                     *)
(* core/idempotency/service.py, core/outbox/consumption.py).               *)
(*                                                                         *)
(* A call is modelled statement by statement, with the locks its           *)
(* transaction holds: the unique-index entry of an uncommitted reservation *)
(* and the transaction-scoped advisory lock of (tenant, metric).           *)
(***************************************************************************)
EXTENDS Integers, FiniteSets

CONSTANTS Callers,     \* requests that run concurrently
          Keys,        \* idempotency keys
          Events,      \* outbox events of type usage.ingestion
          LastMonth,   \* bound: months 0..LastMonth are modelled
          Limits,      \* the limits a plan may set for the metric, None for no limit
          MaxQuantity, \* bound on the quantity of one call
          MaxCalls,    \* bound on the calls one caller makes
          None         \* no key, no lock holder, no limit, no record

ASSUME QuotaAssumption == /\ LastMonth \in Nat
                          /\ Limits \subseteq Nat \cup {None}
                          /\ MaxQuantity \in Nat \ {0}
                          /\ MaxCalls \in Nat
                          /\ None \notin Keys \cup Callers \cup Nat
                          /\ None \notin [quantity : Nat, expired : BOOLEAN]

Months     == 0..LastMonth
Quantities == 1..MaxQuantity

VARIABLES month,      \* the current UTC calendar month
          limit,      \* the metric's limit in the tenant's entitlements now
          tenant,     \* the tenant's lifecycle: "open", "closed" or "purging"
          consumed,   \* per month, the quantities recorded by consumption ...
          ingested,   \* ... and by ingestion
          record,     \* record[k]: the committed idempotency record of key k
          consumption,\* events with a committed consumption record
          counted,    \* history: how often each event was added to the usage
          charged,    \* history: what was charged to key k since its record was deleted
          holder,     \* holder of the advisory lock of (tenant, metric)
          call,       \* the state of every caller
          ceiling     \* history: the largest limit that was in force

vars == <<month, limit, tenant, consumed, ingested, record, consumption, counted,
          charged, holder, call, ceiling>>

Phases  == {"idle", "windowed", "ready", "reserved", "locked", "summed", "conflict"}
Answers == {None, "consumed", "exceeded", "replayed", "reused", "failed", "refused"}

\* Committed records are always SUCCEEDED: run_idempotent() commits the reservation
\* together with its result.
Record == [quantity : Quantities, expired : BOOLEAN]

CallState == [phase : Phases, key : Keys \cup {None}, quantity : Quantities,
              month : Months, limit : Limits \cup {None}, used : Nat,
              answer : Answers, left : 0..MaxCalls]

Idle(left) == [phase |-> "idle", key |-> None, quantity |-> 1, month |-> 0,
               limit |-> None, used |-> 0, answer |-> None, left |-> left]

\* Between two calls a caller keeps only its answer and how many calls it has left.
Answer(c, answer) == [Idle(call[c].left) EXCEPT !.answer = answer]

Used(m) == consumed[m] + ingested[m]

Top(a, b) == IF a = None \/ b = None THEN None ELSE IF a > b THEN a ELSE b

TypeOK == /\ month \in Months
          /\ limit \in Limits
          /\ tenant \in {"open", "closed", "purging"}
          /\ consumed \in [Months -> Nat] /\ ingested \in [Months -> Nat]
          /\ record \in [Keys -> Record \cup {None}]
          /\ consumption \subseteq Events
          /\ counted \in [Events -> Nat]
          /\ charged \in [Keys -> Nat]
          /\ holder \in Callers \cup {None}
          /\ call \in [Callers -> CallState]
          /\ ceiling \in Limits

Init == /\ month = 0
        /\ limit \in Limits
        /\ tenant = "open"
        /\ consumed = [m \in Months |-> 0] /\ ingested = [m \in Months |-> 0]
        /\ record = [k \in Keys |-> None]
        /\ consumption = {}
        /\ counted = [e \in Events |-> 0]
        /\ charged = [k \in Keys |-> 0]
        /\ holder = None
        /\ call = [c \in Callers |-> Idle(MaxCalls)]
        /\ ceiling = limit

-----------------------------------------------------------------------------
(* Consumption *)

\* consume_quota() and consume_quota_idempotent(): the window is computed first.
Call(c, k, q) ==
    /\ call[c].phase = "idle" /\ call[c].left > 0
    /\ call' = [call EXCEPT ![c] = [Idle(@.left - 1) EXCEPT !.phase = "windowed",
                                        !.key = k, !.quantity = q, !.month = month]]
    /\ UNCHANGED <<month, limit, tenant, consumed, ingested, record, consumption,
                   counted, charged, holder, ceiling>>

\* require_open_tenant() and get_entitlements(), each in a transaction of its own: neither
\* is read again before the consumption commits.  consume_quota() checks the tenant first,
\* run_idempotent() after the limit was read.  One step stands for both reads: they read
\* independent variables, and a plan change commutes with the closing of the tenant.
ReadLimit(c) ==
    /\ call[c].phase = "windowed"
    /\ call' = [call EXCEPT ![c] = IF tenant = "open"
                                   THEN [@ EXCEPT !.phase = "ready", !.limit = limit]
                                   ELSE Answer(c, "refused")]
    /\ UNCHANGED <<month, limit, tenant, consumed, ingested, record, consumption,
                   counted, charged, holder, ceiling>>

\* The reservation INSERT waits for another transaction that inserted the same key.
Reserving(k) == {c \in Callers : call[c].key = k
                                 /\ call[c].phase \in {"reserved", "locked", "summed"}}

\* run_idempotent(): session.add(record); session.flush().
Reserve(c) ==
    /\ call[c].phase = "ready" /\ call[c].key # None
    /\ Reserving(call[c].key) = {}
    /\ call' = [call EXCEPT ![c].phase = IF record[call[c].key] = None
                                         THEN "reserved" ELSE "conflict"]
    /\ UNCHANGED <<month, limit, tenant, consumed, ingested, record, consumption,
                   counted, charged, holder, ceiling>>

\* Mutant: the metric is not locked.
LockableAlways(c) == TRUE

\* acquire_tenant_advisory_lock(session, tenant_id, metric)
Lockable(c) == holder = None

LockMetric(c) ==
    /\ \/ call[c].phase = "ready" /\ call[c].key = None
       \/ call[c].phase = "reserved"
    /\ Lockable(c)
    /\ holder' = c
    /\ call' = [call EXCEPT ![c].phase = "locked"]
    /\ UNCHANGED <<month, limit, tenant, consumed, ingested, record, consumption,
                   counted, charged, ceiling>>

\* The SUM over the window the call computed at its start.
SumUsage(c) ==
    /\ call[c].phase = "locked"
    /\ call' = [call EXCEPT ![c].phase = "summed", ![c].used = Used(call[c].month)]
    /\ UNCHANGED <<month, limit, tenant, consumed, ingested, record, consumption,
                   counted, charged, holder, ceiling>>

Exceeds(c) == call[c].limit # None /\ call[c].used + call[c].quantity > call[c].limit

\* Mutant: a session-scoped lock, which the end of the transaction does not release.
KeepLock(c) == UNCHANGED holder

Unlock(c) == holder' = IF holder = c THEN None ELSE holder

\* QuotaExceededError leaves the transaction: the reservation goes with it.
Exceed(c) ==
    /\ call[c].phase = "summed" /\ Exceeds(c)
    /\ Unlock(c)
    /\ call' = [call EXCEPT ![c] = Answer(c, "exceeded")]
    /\ UNCHANGED <<month, limit, tenant, consumed, ingested, record, consumption,
                   counted, charged, ceiling>>

\* Mutant: the record keeps the measured total instead of the quantity.
FinishedTotal(c) == [quantity |-> call[c].used, expired |-> FALSE]

Finished(c) == [quantity |-> call[c].quantity, expired |-> FALSE]

Charge(c) == charged' = IF call[c].key = None THEN charged
                        ELSE [charged EXCEPT ![call[c].key] = @ + call[c].quantity]

\* Mutant: the finalize forgets to store the result with the reservation.
CommitUnrecorded(c) ==
    /\ call[c].phase = "summed" /\ ~Exceeds(c)
    /\ consumed' = [consumed EXCEPT ![month] = @ + call[c].quantity]
    /\ Charge(c)
    /\ Unlock(c)
    /\ call' = [call EXCEPT ![c] = Answer(c, "consumed")]
    /\ UNCHANGED <<month, limit, tenant, ingested, record, consumption, counted, ceiling>>

\* The usage row is dated with the time of the insert (occurred_at=datetime.now(UTC)).
Commit(c) ==
    /\ call[c].phase = "summed" /\ ~Exceeds(c)
    /\ consumed' = [consumed EXCEPT ![month] = @ + call[c].quantity]
    /\ record' = IF call[c].key = None THEN record
                 ELSE [record EXCEPT ![call[c].key] = Finished(c)]
    /\ Charge(c)
    /\ Unlock(c)
    /\ call' = [call EXCEPT ![c] = Answer(c, "consumed")]
    /\ UNCHANGED <<month, limit, tenant, ingested, consumption, counted, ceiling>>

\* _resolve_existing(): a record that is gone by now fails scalar_one().
Resolve(c) ==
    /\ call[c].phase = "conflict"
    /\ LET found == record[call[c].key] IN
       call' = [call EXCEPT ![c] =
                  IF found = None THEN Answer(c, "failed")
                  ELSE IF found.quantity # call[c].quantity THEN Answer(c, "reused")
                  ELSE Answer(c, "replayed")]
    /\ UNCHANGED <<month, limit, tenant, consumed, ingested, record, consumption,
                   counted, charged, holder, ceiling>>

\* The process dies, or a statement fails: PostgreSQL rolls the transaction back.
Abort(c) ==
    /\ call[c].phase # "idle"
    /\ Unlock(c)
    /\ call' = [call EXCEPT ![c] = Answer(c, "failed")]
    /\ UNCHANGED <<month, limit, tenant, consumed, ingested, record, consumption,
                   counted, charged, ceiling>>
-----------------------------------------------------------------------------
(* Ingestion *)

\* claim_event_consumption() and the usage row in one transaction.  The event is
\* delivered at least once: a committed consumption record suppresses the repetition.
Claimable(e) == e \notin consumption

\* Mutant: no lifecycle fence in the job's transaction.
IngestUnfenced(e, q, m) ==
    /\ Claimable(e)
    /\ counted[e] < 2
    /\ consumption' = consumption \cup {e}
    /\ ingested' = [ingested EXCEPT ![m] = @ + q]
    /\ counted' = [counted EXCEPT ![e] = @ + 1]
    /\ UNCHANGED <<month, limit, tenant, consumed, record, charged, holder, call, ceiling>>

IngestUsage(e, q, m) ==
    /\ tenant = "open"                     \* lock_open_tenant(): FOR SHARE to the commit
    /\ Claimable(e)
    /\ counted[e] < 2                      \* bound of the model
    /\ consumption' = consumption \cup {e}
    /\ ingested' = [ingested EXCEPT ![m] = @ + q]
    /\ counted' = [counted EXCEPT ![e] = @ + 1]
    /\ UNCHANGED <<month, limit, tenant, consumed, record, charged, holder, call, ceiling>>
-----------------------------------------------------------------------------
(* The surroundings *)

\* The tenant's plan changes; ceiling remembers the largest limit.
ChangePlan(l) ==
    /\ l # limit
    /\ limit' = l
    /\ ceiling' = Top(ceiling, l)
    /\ UNCHANGED <<month, tenant, consumed, ingested, record, consumption, counted, charged,
                   holder, call>>

NextMonth ==
    /\ month < LastMonth
    /\ month' = month + 1
    /\ UNCHANGED <<limit, tenant, consumed, ingested, record, consumption, counted, charged,
                   holder, call, ceiling>>

\* A record outlives its retention period ...
Expire(k) ==
    /\ record[k] # None /\ ~record[k].expired
    /\ record' = [record EXCEPT ![k].expired = TRUE]
    /\ UNCHANGED <<month, limit, tenant, consumed, ingested, consumption, counted, charged,
                   holder, call, ceiling>>

\* ... and purge_expired_idempotency_records() deletes every expired one.
Stale(k) == record[k] # None /\ record[k].expired

PurgeExpired ==
    /\ \E k \in Keys : Stale(k)
    /\ record' = [k \in Keys |-> IF Stale(k) THEN None ELSE record[k]]
    /\ charged' = [k \in Keys |-> IF Stale(k) THEN 0 ELSE charged[k]]
    /\ UNCHANGED <<month, limit, tenant, consumed, ingested, consumption, counted,
                   holder, call, ceiling>>

CloseTenant ==
    /\ tenant = "open"
    /\ tenant' = "closed"
    /\ UNCHANGED <<month, limit, consumed, ingested, record, consumption, counted, charged,
                   holder, call, ceiling>>

\* A purge pass deletes the consumption records and the idempotency records; the usage
\* rows are retained.  purge_tenant() may be run again.
PurgeTenant ==
    /\ tenant \in {"closed", "purging"}
    /\ tenant' = "purging"
    /\ consumption' = {}
    /\ record' = [k \in Keys |-> None]
    /\ charged' = [k \in Keys |-> 0]
    /\ UNCHANGED <<month, limit, consumed, ingested, counted, holder, call, ceiling>>
-----------------------------------------------------------------------------
Step(c) == \/ ReadLimit(c) \/ Reserve(c) \/ LockMetric(c) \/ SumUsage(c)
           \/ Exceed(c) \/ Commit(c) \/ Resolve(c)

Next == \/ \E c \in Callers : Step(c) \/ Abort(c)
        \/ \E c \in Callers, k \in Keys \cup {None}, q \in Quantities : Call(c, k, q)
        \/ \E e \in Events, q \in Quantities, m \in Months : IngestUsage(e, q, m)
        \/ \E l \in Limits : ChangePlan(l)
        \/ NextMonth
        \/ \E k \in Keys : Expire(k)
        \/ PurgeExpired \/ CloseTenant \/ PurgeTenant

Spec == Init /\ [][Next]_vars

\* PostgreSQL runs the next statement of a call, and grants a lock once it is free.
FairSpec == Spec /\ \A c \in Callers : WF_vars(Step(c))
-----------------------------------------------------------------------------
(* Properties *)

Ledger == INSTANCE QuotaLedger WITH Unlimited <- None, paid <- charged

\* The statements of concurrent calls amount to atomic consumptions: each one stays
\* within a limit that was in force, and a key pays once while its record is kept.  The
\* docstrings promise it: consume_quota() checks and records atomically, and
\* run_idempotent() executes its function "at most once" for a key.
ImplementsLedger == Ledger!LedgerSpec

\* consume_quota() raises QuotaExceededError "(never records usage) when the limit would
\* be exceeded": no month's consumption is above every limit that was in force.
WithinLimit == \A m \in Months : ceiling # None => consumed[m] <= ceiling

\* _ingest_usage_event_job() counts an outbox event at most once, also when the event is
\* delivered again after the purge deleted its consumption record.
IngestedOnce == \A e \in Events : counted[e] <= 1

\* No call waits for ever: neither for the reservation of its key nor for the metric's
\* advisory lock, whatever becomes of the calls that hold them.
EventuallyAnswered == \A c \in Callers : call[c].phase # "idle" ~> call[c].phase = "idle"
=============================================================================
