------------------------------- MODULE Outbox -------------------------------
(***************************************************************************)
(* The durable outbox: the rows of core.outbox_events and everything that  *)
(* moves them (core/outbox/dispatch.py, service.py, replay.py), the        *)
(* dispatch cycle that claims due rows and hands them to the job queue,    *)
(* and the worker job that runs an event's consumer                        *)
(* (api/outbox_dispatcher.py, infra/jobs/queue.py).                        *)
(*                                                                         *)
(* Every tenant_session_scope() of the code is one PostgreSQL transaction  *)
(* under row locks, hence one atomic step here.  Steps of different        *)
(* dispatchers, workers, operators and tenants interleave.                 *)
(*                                                                         *)
(* Time is relative: every stored instant is the time still left until it  *)
(* (next_attempt_at -> due, created_at + retry_within -> window, the       *)
(* consumer's asyncio deadline -> ttl) and Tick lets one unit pass for all *)
(* of them at once: the one database clock of dispatch.py.                 *)
(***************************************************************************)
EXTENDS Integers, FiniteSets

CONSTANTS
  Events, Tenants, Tokens, Dispatchers, Workers,
  TenantOf,          \* the tenant each event belongs to
  None,              \* SQL NULL / Python None
  MaxAttempts,       \* OUTBOX_MAX_ATTEMPTS
  Lease,             \* OUTBOX_LEASE_SECONDS
  ConsumerTimeout,   \* OUTBOX_CONSUMER_TIMEOUT_SECONDS
  EnqueueRetry,      \* OUTBOX_ENQUEUE_RETRY_SECONDS
  RetryDelay,        \* attempts -> the delays retry_delay() can return
  HintMax,           \* OUTBOX_RETRY_HINT_MAX_SECONDS
  Window,            \* retry_within of the consumers that declare one
  BatchSize, PerTenantLimit,
  MaxTries,          \* JobsConfig.max_tries
  Markers,           \* OUTBOX_EXTERNAL_EFFECT_MARKERS
  Redelivery,        \* the queue may deliver a job whose worker still runs
  LostAcks,          \* an enqueue may raise although Redis took the job
  MaxReplays,        \* bound: operator replays per event
  Outcomes           \* how the consumers of this instance can end

ASSUME OutboxAssumption ==
  /\ TenantOf \in [Events -> Tenants]
  /\ None \notin Tokens /\ None \notin Events
  /\ MaxAttempts \in Nat \ {0} /\ MaxTries \in Nat \ {0}
  /\ Lease \in Nat /\ ConsumerTimeout \in Nat /\ ConsumerTimeout < Lease
  /\ EnqueueRetry \in Nat \ {0} /\ HintMax \in Nat /\ Window \in Nat
  /\ RetryDelay \in [1..MaxAttempts -> SUBSET (Nat \ {0})]
  /\ BatchSize \in Nat \ {0} /\ PerTenantLimit \in Nat \ {0}
  /\ Markers \in BOOLEAN /\ Redelivery \in BOOLEAN /\ LostAcks \in BOOLEAN
  /\ MaxReplays \in Nat
  /\ Outcomes \subseteq {"ok", "ambiguous", "retry_within", "at_least_once", "permanent",
                          "attested", "not_sent", "deferred", "other"}

VARIABLES
  open,     \* open[t]: tenant t is not DELETED, PURGING or PURGED
  row,      \* row[e]: the outbox row of event e
  window,   \* window[e]: time left until created_at + retry_within
  cycle,    \* cycle[d]: dispatcher d inside dispatch_outbox_once()
  jobs,     \* the queued run jobs: event, claim token, tries left
  exec,     \* exec[w]: worker w inside _run_outbox_event()
  hist      \* hist[e]: history of e since it was recorded or last replayed

vars == <<open, row, window, cycle, jobs, exec, hist>>

-----------------------------------------------------------------------------
(* Types *)

Statuses == {"absent", "pending", "published", "dead_lettered", "deleted"}
Result == {"none", "ok", "ambiguous", "retry_within", "at_least_once", "permanent",
           "attested", "not_sent", "deferred", "other", "timeout"}

Row == [status : Statuses, attempts : 0..MaxAttempts, claim : Tokens \cup {None},
        due : Nat, started : Tokens \cup {None}, tagged : BOOLEAN]
Claim == [e : Events, t : Tokens]
Job == [e : Events, t : Tokens, tries : 1..MaxTries]
Cycle == [pc : {"idle", "listed", "handing", "failed"},
          tenants : SUBSET Tenants, claims : SUBSET Claim, bad : Claim \cup {None}]
Exec == [pc : {"idle", "running", "block", "after", "outcome"},
         e : Events \cup {None}, t : Tokens \cup {None}, tries : 0..MaxTries,
         ttl : Nat, started : BOOLEAN, sent : BOOLEAN, result : Result, gen : Nat]
Hist == [gen : Nat, sends : 0..2, licensed : BOOLEAN, returned : BOOLEAN,
         runs : 0..(MaxAttempts + 1), begun : Tokens \cup {None},
         deliveries : 0..(MaxTries + 1), window : BOOLEAN]

NewRow == [status |-> "absent", attempts |-> 0, claim |-> None,
           due |-> 0, started |-> None, tagged |-> FALSE]
IdleCycle == [pc |-> "idle", tenants |-> {}, claims |-> {}, bad |-> None]
IdleExec == [pc |-> "idle", e |-> None, t |-> None, tries |-> 0, ttl |-> 0,
             started |-> FALSE, sent |-> FALSE, result |-> "none", gen |-> 0]
NewHist(g) == [gen |-> g, sends |-> 0, licensed |-> FALSE, returned |-> FALSE,
               runs |-> 0, begun |-> None, deliveries |-> 0, window |-> FALSE]

Init ==
  /\ open = [t \in Tenants |-> TRUE]
  /\ row = [e \in Events |-> NewRow]
  /\ window = [e \in Events |-> Window]
  /\ cycle = [d \in Dispatchers |-> IdleCycle]
  /\ jobs = {}
  /\ exec = [w \in Workers |-> IdleExec]
  /\ hist = [e \in Events |-> NewHist(0)]

-----------------------------------------------------------------------------
(* The transitions of one row (dispatch.py), as operators on the row. *)

Owned(r, t) == r.status = "pending" /\ r.claim = t

MarkedBy(r, t) == t # None /\ r.started = t

DeadLetter(r) == [r EXCEPT !.status = "dead_lettered", !.claim = None]

\* Mutants of Retry: the marker survives the release; the attempt is refunded;
\* the new last_error drops the retry deadline of the old one.
RetryKeepsMarker(r, delay) == [r EXCEPT !.claim = None, !.due = delay]
RetryRefunds(r, delay) == [r EXCEPT !.claim = None, !.started = None, !.due = delay, !.attempts = 0]
RetryDropsDeadline(r, delay) ==
  [r EXCEPT !.claim = None, !.started = None, !.due = delay, !.tagged = FALSE]

\* Released for another attempt: claim and marker cleared, due after the delay.
Retry(r, delay) == [r EXCEPT !.claim = None, !.started = None, !.due = delay]

\* Mutants of ClaimRow: one attempt too many; a lost lease is reclaimed without
\* looking at its marker.
ClaimRowOffByOne(r, t) ==
  IF (r.claim # None /\ MarkedBy(r, r.claim)) \/ r.attempts > MaxAttempts THEN DeadLetter(r)
  ELSE [r EXCEPT !.attempts = @ + 1, !.claim = t, !.due = Lease]
ClaimRowUnmarked(r, t) ==
  IF r.attempts >= MaxAttempts THEN DeadLetter(r)
  ELSE [r EXCEPT !.attempts = @ + 1, !.claim = t, !.due = Lease]

\* One due row of claim_due_events(): a lost lease whose claim was marked and
\* a row with no attempts left are dead-lettered, any other row is claimed.
ClaimRow(r, t) ==
  IF \/ r.claim # None /\ MarkedBy(r, r.claim)
     \/ r.attempts >= MaxAttempts
  THEN DeadLetter(r)
  ELSE [r EXCEPT !.attempts = @ + 1, !.claim = t, !.due = Lease]

OrdinaryFailure(r, terminal, delay) ==
  IF terminal \/ r.attempts >= MaxAttempts THEN DeadLetter(r) ELSE Retry(r, delay)

\* Mutant of FailEvent: a marked attempt is retried like any other.
FailEventRetried(r, t, terminal, delay) == OrdinaryFailure(r, terminal, delay)

FailEvent(r, t, terminal, delay) ==
  IF MarkedBy(r, t) THEN DeadLetter(r) ELSE OrdinaryFailure(r, terminal, delay)

RecordConfirmedNotSent(r, t, attested, delay) ==
  IF MarkedBy(r, t) /\ ~attested THEN DeadLetter(r) ELSE OrdinaryFailure(r, FALSE, delay)

\* left is the time until created_at + retry_within.
RecordAmbiguousOutcome(r, t, policy, left, delay) ==
  LET attemptsLeft == r.attempts < MaxAttempts
      again == /\ attemptsLeft
               /\ \/ policy = "at_least_once"
                  \/ policy = "retry_within" /\ ~MarkedBy(r, t) /\ delay < left
      tagged == r.tagged \/ (policy = "retry_within" /\ ~MarkedBy(r, t))
  IN  [(IF again THEN Retry(r, delay) ELSE DeadLetter(r)) EXCEPT !.tagged = tagged]

ReleaseClaim(r) ==
  [r EXCEPT !.attempts = IF @ > 0 THEN @ - 1 ELSE 0, !.claim = None,
            !.due = EnqueueRetry, !.started = None]

CompleteEvent(r) == [r EXCEPT !.status = "published", !.claim = None, !.started = None]

ReplayRow(r) ==
  [r EXCEPT !.status = "pending", !.attempts = 0, !.due = 0, !.claim = None, !.started = None]

\* _record_consumer_timeout() and _record_consumer_failure(): which transition
\* records the outcome of execution x.
RecordOutcome(x, r, left, delay) ==
  CASE x.result \in {"timeout", "permanent"} -> FailEvent(r, x.t, TRUE, delay)
    [] x.result \in {"ambiguous", "retry_within", "at_least_once"} ->
         RecordAmbiguousOutcome(r, x.t, x.result, left, delay)
    [] x.result \in {"attested", "not_sent"} /\ x.started ->
         RecordConfirmedNotSent(r, x.t, x.result = "attested", delay)
    [] OTHER -> FailEvent(r, x.t, FALSE, delay)

Smaller(a, b) == IF a < b THEN a ELSE b

\* retry_delay(): the base doubled per attempt, capped, plus up to jitter of it
\* (a percentage); rounded to the unit of time, every value in between can occur.
RetryDelays(attempts, base, cap, jitter) ==
  LET exponent == IF attempts > 1 THEN attempts - 1 ELSE 0
      delay == Smaller(base * 2^exponent, cap)
  IN  delay .. (delay + (delay * jitter) \div 100)

\* retry_delay(), or the consumer's capped hint when that is longer.
Delays(r, result) ==
  LET backoff == IF r.attempts \in 1..MaxAttempts THEN RetryDelay[r.attempts] ELSE {} IN
  IF result \in {"deferred", "attested"}
  THEN backoff \cup {h \in 1..HintMax : \E b \in backoff : b <= h}
  ELSE backoff

-----------------------------------------------------------------------------
(* Producers, tenants, operators *)

\* append_event() in the producer's transaction, behind lock_open_tenant().
Append(e) ==
  /\ row[e].status = "absent"
  /\ open[TenantOf[e]]
  /\ row' = [row EXCEPT ![e] = [NewRow EXCEPT !.status = "pending"]]
  /\ UNCHANGED <<open, window, cycle, jobs, exec, hist>>

\* A lifecycle transition of the tenant to DELETED; there is no way back.
CloseTenant(tn) ==
  /\ open[tn]
  /\ open' = [open EXCEPT ![tn] = FALSE]
  /\ UNCHANGED <<row, window, cycle, jobs, exec, hist>>

\* The purge step "outbox" of a closed tenant: every row goes.
PurgeTenantOutboxEvents(tn) ==
  /\ ~open[tn]
  /\ \E e \in Events : TenantOf[e] = tn /\ row[e].status \notin {"absent", "deleted"}
  /\ row' = [e \in Events |->
               IF TenantOf[e] = tn /\ row[e].status # "absent"
               THEN [NewRow EXCEPT !.status = "deleted"] ELSE row[e]]
  /\ UNCHANGED <<open, window, cycle, jobs, exec, hist>>

\* User erasure deletes an event about the departing user, whatever its state.
DeleteAggregateEvents(e) ==
  /\ row[e].status \notin {"absent", "deleted"}
  /\ row' = [row EXCEPT ![e] = [NewRow EXCEPT !.status = "deleted"]]
  /\ UNCHANGED <<open, window, cycle, jobs, exec, hist>>

\* replay_dead_lettered_events(): the operator's decision starts a new history.
Replay(e) ==
  /\ row[e].status = "dead_lettered"
  /\ open[TenantOf[e]]
  /\ hist[e].gen < MaxReplays
  /\ row' = [row EXCEPT ![e] = ReplayRow(@)]
  /\ hist' = [hist EXCEPT ![e] = [NewHist(@.gen + 1) EXCEPT !.window = hist[e].window]]
  /\ UNCHANGED <<open, window, cycle, jobs, exec>>

-----------------------------------------------------------------------------
(* The dispatch cycle *)

\* Tokens some record still carries: a fresh uuid4() is none of them.
UsedTokens ==
  {row[e].claim : e \in Events} \cup {row[e].started : e \in Events}
  \cup {hist[e].begun : e \in Events} \cup {j.t : j \in jobs} \cup {exec[w].t : w \in Workers}
  \cup {c.t : c \in UNION {cycle[d].claims : d \in Dispatchers}}
  \cup {cycle[d].bad.t : d \in {x \in Dispatchers : cycle[x].bad # None}}

\* claim_due_events() reads the open tenants in a transaction of its own.
ListOpenTenants(d) ==
  /\ cycle[d].pc = "idle"
  /\ \E tn \in Tenants : open[tn]
  /\ cycle' = [cycle EXCEPT ![d] = [IdleCycle EXCEPT !.pc = "listed",
                                    !.tenants = {tn \in Tenants : open[tn]}]]
  /\ UNCHANGED <<open, row, window, jobs, exec, hist>>

\* Mutant of DueEvents: only unclaimed rows, so that a lost lease never expires.
DueUnclaimed(tenants) ==
  {e \in Events : /\ TenantOf[e] \in tenants /\ row[e].status = "pending"
                  /\ row[e].due = 0 /\ row[e].claim = None}

DueEvents(tenants) ==
  {e \in Events : TenantOf[e] \in tenants /\ row[e].status = "pending" /\ row[e].due = 0}

\* The claim transaction.  Rows another transaction holds are skipped, so any
\* nonempty subset of the due rows within the limits can be the one found (a
\* cycle that finds none changes what DispatcherCrash changes).
ClaimDueEvents(d) ==
  /\ cycle[d].pc = "listed"
  /\ \E S \in SUBSET DueEvents(cycle[d].tenants) :
       LET taken == {e \in S : ClaimRow(row[e], None).status = "pending"} IN
       /\ DueEvents(cycle[d].tenants) # {} => S # {}
       /\ \A tn \in Tenants : Cardinality({e \in S : TenantOf[e] = tn}) <= PerTenantLimit
       /\ Cardinality(taken) <= BatchSize
       /\ \E f \in [taken -> Tokens \ UsedTokens] :
            /\ \A a, b \in taken : f[a] = f[b] => a = b
            /\ row' = [e \in Events |-> CASE e \in taken -> ClaimRow(row[e], f[e])
                                          [] e \in S \ taken -> ClaimRow(row[e], None)
                                          [] OTHER -> row[e]]
            /\ cycle' = [cycle EXCEPT ![d] =
                 IF taken = {} THEN IdleCycle
                 ELSE [IdleCycle EXCEPT !.pc = "handing",
                         !.claims = {[e |-> e, t |-> f[e]] : e \in taken}]]
  /\ UNCHANGED <<open, window, jobs, exec, hist>>

\* Mutant of NextClaim: the hand-off loop keeps the claim it has just handed off.
NextClaimKeeps(d, c) ==
  cycle' = [cycle EXCEPT ![d] = [IdleCycle EXCEPT !.pc = "handing", !.claims = cycle[d].claims]]

NextClaim(d, c) ==
  cycle' = [cycle EXCEPT ![d] =
              IF cycle[d].claims = {c} THEN IdleCycle
              ELSE [IdleCycle EXCEPT !.pc = "handing", !.claims = cycle[d].claims \ {c}]]

\* enqueue_job() of one claim.
HandOff(d) ==
  /\ cycle[d].pc = "handing"
  /\ \E c \in cycle[d].claims :
       /\ jobs' = jobs \cup {[e |-> c.e, t |-> c.t, tries |-> MaxTries]}
       /\ NextClaim(d, c)
  /\ UNCHANGED <<open, row, window, exec, hist>>

\* enqueue_job() raises; with LostAcks Redis may have taken the job first.
HandOffRaises(d) ==
  /\ cycle[d].pc = "handing"
  /\ \E c \in cycle[d].claims :
       /\ cycle' = [cycle EXCEPT ![d].pc = "failed", ![d].bad = c]
       /\ \/ jobs' = jobs
          \/ LostAcks /\ jobs' = jobs \cup {[e |-> c.e, t |-> c.t, tries |-> MaxTries]}
  /\ UNCHANGED <<open, row, window, exec, hist>>

\* release_claim() gives the attempt back.
GiveBack(d) ==
  /\ cycle[d].pc = "failed"
  /\ LET c == cycle[d].bad IN
     /\ row' = [row EXCEPT ![c.e] = IF Owned(@, c.t) THEN ReleaseClaim(@) ELSE @]
     /\ NextClaim(d, c)
  /\ UNCHANGED <<open, window, jobs, exec, hist>>

\* The dispatching process dies, or a database error ends the cycle.
DispatcherCrash(d) ==
  /\ cycle[d].pc # "idle"
  /\ cycle' = [cycle EXCEPT ![d] = IdleCycle]
  /\ UNCHANGED <<open, row, window, jobs, exec, hist>>

-----------------------------------------------------------------------------
(* The run job *)

\* The window of an ambiguous attempt has closed before this retry could run.
WindowClosed(e) == row[e].attempts > 1 /\ row[e].tagged /\ window[e] = 0

\* begin_event_execution() lets the consumer of e run under claim t.
MayRun(e, t) == Owned(row[e], t) /\ open[TenantOf[e]] /\ ~WindowClosed(e)

\* Mutant of BeginRow: the lease is not renewed when the consumer starts.
BeginRowOldLease(e, t) ==
  CASE ~Owned(row[e], t) -> row[e]
    [] Owned(row[e], t) /\ ~open[TenantOf[e]] -> [row[e] EXCEPT !.claim = None]
    [] Owned(row[e], t) /\ open[TenantOf[e]] /\ WindowClosed(e) -> DeadLetter(row[e])
    [] OTHER -> row[e]

BeginRow(e, t) ==
  CASE ~Owned(row[e], t) -> row[e]
    [] Owned(row[e], t) /\ ~open[TenantOf[e]] -> [row[e] EXCEPT !.claim = None]
    [] Owned(row[e], t) /\ open[TenantOf[e]] /\ WindowClosed(e) -> DeadLetter(row[e])
    [] OTHER -> [row[e] EXCEPT !.due = Lease]

\* One more, up to one past the bound that is checked.
CountUpTo(n, bound) == IF n > bound THEN n ELSE n + 1

\* Count a start of the consumer: the claims that ran it, and the starts of the
\* claim that ran it last.
CountRun(h, t) ==
  IF h.begun = t THEN [h EXCEPT !.deliveries = CountUpTo(@, MaxTries)]
  ELSE [h EXCEPT !.begun = t, !.deliveries = 1, !.runs = CountUpTo(@, MaxAttempts)]

\* A worker takes job j and calls begin_event_execution().
Begin(w, j) ==
  /\ exec[w].pc = "idle" /\ j \in jobs
  /\ jobs' = jobs \ {j}
  /\ row' = [row EXCEPT ![j.e] = BeginRow(j.e, j.t)]
  /\ \/ /\ MayRun(j.e, j.t)
        /\ exec' = [exec EXCEPT ![w] =
             [IdleExec EXCEPT !.pc = "running", !.e = j.e, !.t = j.t, !.tries = j.tries - 1,
                              !.ttl = ConsumerTimeout, !.gen = hist[j.e].gen]]
        /\ hist' = [hist EXCEPT ![j.e] = CountRun(@, j.t)]
     \/ /\ ~MayRun(j.e, j.t)
        /\ UNCHANGED <<exec, hist>>
  /\ UNCHANGED <<open, window, cycle>>

\* begin_event_execution() raises: the job wrapper retries, then gives up.
BeginRaises(j) ==
  /\ j \in jobs
  /\ jobs' = IF j.tries > 1 THEN (jobs \ {j}) \cup {[j EXCEPT !.tries = @ - 1]} ELSE jobs \ {j}
  /\ UNCHANGED <<open, row, window, cycle, exec, hist>>

InConsumer(w) == exec[w].pc \in {"running", "block", "after"}

\* The consumer enters context.external_effect(): with markers on the started
\* marker is committed first, or refused (and then this execution records
\* nothing).
EnterEffect(w) ==
  /\ exec[w].pc = "running"
  /\ LET e == exec[w].e
         t == exec[w].t
         granted == Owned(row[e], t) /\ row[e].due > 0 /\ row[e].started # t IN
     IF ~Markers
     THEN /\ exec' = [exec EXCEPT ![w].pc = "block"]
          /\ row' = row
     ELSE IF granted
     THEN /\ row' = [row EXCEPT ![e].started = t, ![e].due = Lease]
          /\ exec' = [exec EXCEPT ![w].pc = "block", ![w].started = TRUE]
     ELSE /\ exec' = [exec EXCEPT ![w] = IdleExec]
          /\ row' = row
  /\ UNCHANGED <<open, window, cycle, jobs, hist>>

\* The marker commits but the database connection is lost before the answer:
\* mark_external_effect_started() raises an ordinary error, nothing is sent.
EnterEffectAckLost(w) ==
  /\ exec[w].pc = "running" /\ Markers
  /\ LET e == exec[w].e
         t == exec[w].t IN
     /\ Owned(row[e], t) /\ row[e].due > 0 /\ row[e].started # t
     /\ row' = [row EXCEPT ![e].started = t, ![e].due = Lease]
     /\ exec' = [exec EXCEPT ![w].pc = "outcome", ![w].result = "other", ![w].ttl = 0]
  /\ UNCHANGED <<open, window, cycle, jobs, hist>>

\* Count a request of execution x in the history it belongs to.
CountSend(h, x) == IF x.gen = h.gen /\ h.sends < 2 THEN [h EXCEPT !.sends = @ + 1] ELSE h

\* The external request leaves the process.
Send(w) ==
  /\ exec[w].pc = "block" /\ ~exec[w].sent
  /\ exec' = [exec EXCEPT ![w].sent = TRUE]
  /\ hist' = [hist EXCEPT ![exec[w].e] = CountSend(@, exec[w])]
  /\ UNCHANGED <<open, row, window, cycle, jobs>>

\* The consumer leaves the block and goes on (or swallows its exception).
LeaveBlock(w) ==
  /\ exec[w].pc = "block"
  /\ exec' = [exec EXCEPT ![w].pc = "after"]
  /\ UNCHANGED <<open, row, window, cycle, jobs, hist>>

\* The consumer returns or raises inside its deadline (an event type without a
\* consumer ends "permanent" at once).  A consumer attests
\* "not sent" only when it is true; the attestation is credited only to the
\* exception that left the block.
Finish(w, result) ==
  /\ InConsumer(w)
  /\ result \in {"attested", "not_sent"} => ~exec[w].sent
  /\ result = "attested" => exec[w].pc = "block"
  /\ exec' = [exec EXCEPT ![w].pc = "outcome", ![w].result = result, ![w].ttl = 0]
  /\ hist' = [hist EXCEPT ![exec[w].e].returned =
                 @ \/ (result = "ok" /\ exec[w].gen = hist[exec[w].e].gen)]
  /\ UNCHANGED <<open, row, window, cycle, jobs>>

\* asyncio.timeout() expires.  A thread inside the block is not stopped by the
\* cancellation: its request may still leave.
Timeout(w) ==
  /\ InConsumer(w) /\ exec[w].ttl = 0
  /\ exec' = [exec EXCEPT ![w].pc = "outcome", ![w].result = "timeout"]
  /\ \/ hist' = hist
     \/ /\ exec[w].pc = "block" /\ ~exec[w].sent
        /\ hist' = [hist EXCEPT ![exec[w].e] = CountSend(@, exec[w])]
  /\ UNCHANGED <<open, row, window, cycle, jobs>>

\* Mutants of Complete: every outcome publishes; a claim that was lost publishes.
CompleteAnyway(w) ==
  /\ exec[w].pc = "outcome"
  /\ LET x == exec[w] IN
     row' = [row EXCEPT ![x.e] = IF Owned(@, x.t) THEN CompleteEvent(@) ELSE @]
  /\ exec' = [exec EXCEPT ![w] = IdleExec]
  /\ UNCHANGED <<open, window, cycle, jobs, hist>>
CompleteUnowned(w) ==
  /\ exec[w].pc = "outcome" /\ exec[w].result = "ok"
  /\ row' = [row EXCEPT ![exec[w].e] = CompleteEvent(@)]
  /\ exec' = [exec EXCEPT ![w] = IdleExec]
  /\ UNCHANGED <<open, window, cycle, jobs, hist>>

\* complete_event() commits and the job ends.
Complete(w) ==
  /\ exec[w].pc = "outcome" /\ exec[w].result = "ok"
  /\ LET x == exec[w] IN
     row' = [row EXCEPT ![x.e] = IF Owned(@, x.t) THEN CompleteEvent(@) ELSE @]
  /\ exec' = [exec EXCEPT ![w] = IdleExec]
  /\ UNCHANGED <<open, window, cycle, jobs, hist>>

\* What the queue does with the job of execution x when its worker is gone or
\* its handler raised: it runs again while it has tries left.
Requeued(x) == IF x.tries > 0 THEN jobs \cup {[e |-> x.e, t |-> x.t, tries |-> x.tries]} ELSE jobs

\* complete_event() raises, before or after its commit: the job is retried and
\* runs the consumer again with the same claim.
CompleteRaises(w) ==
  /\ exec[w].pc = "outcome" /\ exec[w].result = "ok"
  /\ LET x == exec[w] IN
     /\ \/ row' = row
        \/ Owned(row[x.e], x.t) /\ row' = [row EXCEPT ![x.e] = CompleteEvent(@)]
     /\ jobs' = Requeued(x)
  /\ exec' = [exec EXCEPT ![w] = IdleExec]
  /\ UNCHANGED <<open, window, cycle, hist>>

\* The failure is recorded, if the claim still owns the row.  A marked attempt
\* its consumer declared at_least_once may be sent again; an attempt retried
\* within its window is remembered.
RecordFailure(w) ==
  /\ exec[w].pc = "outcome" /\ exec[w].result # "ok"
  /\ LET x == exec[w]
         r == row[x.e] IN
     IF Owned(r, x.t)
     THEN \E delay \in Delays(r, x.result) :
            LET new == RecordOutcome(x, r, window[x.e], delay)
                again == new.status = "pending" IN
            /\ row' = [row EXCEPT ![x.e] = new]
            /\ hist' = [hist EXCEPT
                 ![x.e].licensed = @ \/ (again /\ x.result = "at_least_once" /\ MarkedBy(r, x.t)),
                 ![x.e].window = @ \/ (again /\ x.result = "retry_within")]
     ELSE UNCHANGED <<row, hist>>
  /\ exec' = [exec EXCEPT ![w] = IdleExec]
  /\ UNCHANGED <<open, window, cycle, jobs>>

\* _write_outcome() gives up after three tries: nothing durable is written.
OutcomeUnrecorded(w) ==
  /\ exec[w].pc = "outcome" /\ exec[w].result # "ok"
  /\ exec' = [exec EXCEPT ![w] = IdleExec]
  /\ UNCHANGED <<open, row, window, cycle, jobs, hist>>

\* The worker process dies; the queue gives its job to another worker.
WorkerCrash(w) ==
  /\ exec[w].pc # "idle"
  /\ jobs' = Requeued(exec[w])
  /\ exec' = [exec EXCEPT ![w] = IdleExec]
  /\ UNCHANGED <<open, row, window, cycle, hist>>

\* The queue takes a live worker for dead and delivers its job again.
Redeliver(w) ==
  /\ Redelivery
  /\ exec[w].pc # "idle" /\ exec[w].tries > 0
  /\ jobs' = Requeued(exec[w])
  /\ exec' = [exec EXCEPT ![w].tries = 0]
  /\ UNCHANGED <<open, row, window, cycle, hist>>

-----------------------------------------------------------------------------
(* Time *)

Left(n) == IF n > 0 THEN n - 1 ELSE 0

\* One unit of time passes.  A consumer at its deadline is cancelled first.
Tick ==
  /\ \A w \in Workers : InConsumer(w) => exec[w].ttl > 0
  /\ \/ \E e \in Events : row[e].status = "pending" /\ row[e].due > 0
     \/ \E e \in Events : row[e].status \in {"pending", "dead_lettered"} /\ window[e] > 0
     \/ \E w \in Workers : InConsumer(w)
  /\ row' = [e \in Events |-> [row[e] EXCEPT !.due = Left(@)]]
  /\ window' = [e \in Events |-> IF row[e].status = "absent" THEN window[e] ELSE Left(window[e])]
  /\ exec' = [w \in Workers |-> [exec[w] EXCEPT !.ttl = Left(@)]]
  /\ UNCHANGED <<open, cycle, jobs, hist>>

Dispatch(d) ==
  ListOpenTenants(d) \/ ClaimDueEvents(d) \/ HandOff(d) \/ HandOffRaises(d)
    \/ GiveBack(d) \/ DispatcherCrash(d)

Run(w) ==
  \/ \E j \in jobs : Begin(w, j)
  \/ EnterEffect(w) \/ EnterEffectAckLost(w) \/ Send(w) \/ LeaveBlock(w)
  \/ \E result \in Outcomes : Finish(w, result)
  \/ Timeout(w) \/ Complete(w) \/ CompleteRaises(w) \/ RecordFailure(w)
  \/ OutcomeUnrecorded(w) \/ WorkerCrash(w) \/ Redeliver(w)

Next ==
  \/ \E e \in Events : Append(e) \/ DeleteAggregateEvents(e) \/ Replay(e)
  \/ \E tn \in Tenants : CloseTenant(tn) \/ PurgeTenantOutboxEvents(tn)
  \/ \E d \in Dispatchers : Dispatch(d)
  \/ \E j \in jobs : BeginRaises(j)
  \/ \E w \in Workers : Run(w)
  \/ Tick

Spec == Init /\ [][Next]_vars

\* The schedule runs the dispatch cycle again after every crash, a queue that
\* is down comes back, a deadline fires, and time passes.  Nothing is assumed
\* of the workers: a job may never run.
Fairness ==
  /\ WF_vars(Tick)
  /\ \A d \in Dispatchers :
       /\ WF_vars(ListOpenTenants(d)) /\ SF_vars(ClaimDueEvents(d))
       /\ SF_vars(HandOff(d)) /\ WF_vars(GiveBack(d))
  /\ \A w \in Workers : WF_vars(Timeout(w))

FairSpec == Spec /\ Fairness

-----------------------------------------------------------------------------
(* Properties *)

\* The records of dispatch.py, the hand-offs, the queued jobs and the
\* executions have the shapes the code gives them: no row is ever claimed
\* more than OUTBOX_MAX_ATTEMPTS times without being replayed, a failed hand-off
\* is one of the claims in hand, and a running execution has an event and a claim.
TypeOK ==
  /\ open \in [Tenants -> BOOLEAN]
  /\ row \in [Events -> Row]
  /\ window \in [Events -> Nat]
  /\ cycle \in [Dispatchers -> Cycle]
  /\ jobs \subseteq Job
  /\ exec \in [Workers -> Exec]
  /\ hist \in [Events -> Hist]
  /\ \A d \in Dispatchers : cycle[d].pc = "failed" => cycle[d].bad \in cycle[d].claims
  /\ \A w \in Workers : exec[w].pc # "idle" => exec[w].e \in Events /\ exec[w].t \in Tokens

\* "No ambiguous attempt is ever retried automatically" (dispatch.py): with
\* started markers on, the runs of an event since it was recorded or replayed
\* send at most one external request, whatever crashes, expires, is delivered
\* twice or stays unrecorded, unless its consumer declared a marked attempt
\* at_least_once.
NoSilentRepeat ==
  Markers => \A e \in Events : hist[e].sends > 1 => hist[e].licensed

\* A started marker never outlives the claim that wrote it on a row that can
\* still run: every transition that drops the claim of a pending row of an open
\* tenant drops its marker too, so the next claim is not taken for one that
\* already sent.  mark_external_effect_started() and record_ambiguous_outcome()
\* provide for more ("an older claim's marker may legitimately remain after a
\* reclaim"): that row is written by no transition of this code, only by hand
\* or by a release that does not know the marker.
MarkerBelongsToClaim ==
  \A e \in Events :
    row[e].status = "pending" /\ open[TenantOf[e]] /\ row[e].started # None
      => row[e].started = row[e].claim

\* Nothing marks an event published unless its consumer returned (dispatch.py
\* crash boundaries): a published row had a run since its last replay whose
\* consumer returned normally.
PublishedMeansReturned ==
  \A e \in Events : row[e].status = "published" => hist[e].returned

\* OUTBOX_MAX_ATTEMPTS bounds the claims that run the consumer, not only the
\* counter that release_claim() gives back, and max_tries the starts of each of
\* them, however often its worker dies, its completion raises or the queue
\* delivers its job again: between two replays the consumer starts at most
\* MaxAttempts * MaxTries times.
RunsBounded ==
  \A e \in Events : hist[e].runs <= MaxAttempts /\ hist[e].deliveries <= MaxTries

\* The lease outlasts the consumer's deadline (config.py MIN_LEASE_SECONDS): as
\* long as the queue delivers a job to one live worker at a time, two consumers
\* inside their deadlines never run the same event.
NoOverlap ==
  \A v, w \in Workers :
    InConsumer(v) /\ InConsumer(w) /\ v # w => exec[v].e # exec[w].e

\* Between the claim transaction and the outcome, the current claim of an event
\* is in one place only: a dispatcher's hand-off, the queue or one execution.
\* Two dispatchers never hand out the same claim, and a hand-off that failed
\* left nothing behind.
ClaimHeldOnce ==
  ~Redelivery /\ ~LostAcks =>
    \A e \in Events : row[e].status = "pending" /\ row[e].claim # None =>
      LET c == [e |-> e, t |-> row[e].claim] IN
      Cardinality({d \in Dispatchers : c \in cycle[d].claims})
        + Cardinality({j \in jobs : j.e = c.e /\ j.t = c.t})
        + Cardinality({w \in Workers : exec[w].e = c.e /\ exec[w].t = c.t}) <= 1

\* The purge of a closed tenant and the erasure of an event are final: no
\* producer, late worker, hand-off given back, dispatcher with a stale list of
\* tenants or replay writes the row again, and no consumer starts for it.
PurgeIsFinal ==
  [][\A e \in Events :
       LET gone == {"deleted"} \cup IF open[TenantOf[e]] THEN {} ELSE {"absent"} IN
       row[e].status \in gone =>
         /\ row'[e].status = row[e].status
         /\ \A w \in Workers : exec[w].pc = "idle" /\ exec'[w].pc # "idle" => exec'[w].e # e]_vars

\* "Give a claim back because the event could not be handed to the queue (it
\* never ran)" (release_claim()): a claim whose attempt is refunded has begun no
\* execution.
ReleasedNeverRan ==
  [][\A d \in Dispatchers :
       cycle[d].pc = "failed" /\ cycle'[d].pc # "failed" =>
         LET c == cycle[d].bad IN
         row'[c.e].attempts < row[c.e].attempts => hist[c.e].begun # c.t]_vars

\* A published event stays published and a dead-lettered one leaves that state
\* only by an operator's replay: no late worker, expired lease or dispatcher
\* revives either.
TerminalStays ==
  [][\A e \in Events :
       /\ row[e].status = "published" => row'[e].status \in {"published", "deleted"}
       /\ row[e].status = "dead_lettered" =>
            \/ row'[e].status \in {"dead_lettered", "deleted"}
            \/ row'[e].status = "pending" /\ hist'[e].gen = hist[e].gen + 1]_vars

\* An attempt whose outcome is unknown is run again only inside the window its
\* consumer declared (retry_within), even if later failures, lost leases or
\* hand-offs delayed that run; only the first run after a replay is exempt.
RetriedInsideWindow ==
  [][\A w \in Workers :
       exec[w].pc = "idle" /\ exec'[w].pc = "running" =>
         LET e == exec'[w].e IN
         hist[e].window /\ hist[e].runs > 0 /\ hist[e].begun # exec'[w].t => window[e] > 0]_vars

\* A pending event of an open tenant is eventually published or dead-lettered
\* (or deleted): no crash, lost hand-off or unrecorded outcome strands it.
EventuallySettled ==
  \A e \in Events :
    row[e].status = "pending" /\ open[TenantOf[e]]
      ~> row[e].status # "pending" \/ ~open[TenantOf[e]]

=============================================================================
