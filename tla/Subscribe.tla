----------------------------- MODULE Subscribe -----------------------------
(***************************************************************************)
(* subscribe_idempotent() of core/billing/service.py for one tenant and    *)
(* one idempotency key: begin_idempotent_operation() and                   *)
(* finalize_idempotent_operation() (core/idempotency/service.py) around    *)
(* subscribe(), which calls the billing provider between its transactions. *)
(*                                                                         *)
(* Every transaction is one step; nothing is locked between two of them.   *)
(***************************************************************************)
EXTENDS Integers

CONSTANTS Callers,    \* requests that run concurrently with the same key
          Plans,      \* plan keys: what the fingerprint tells apart
          PendingTTL, \* IDEMPOTENCY_PENDING_TTL_SECONDS
          Retention,  \* IDEMPOTENCY_RETENTION_SECONDS
          MaxTime,    \* bound on the clock
          MaxCalls,   \* bound on the calls made in all
          None        \* no record, no plan, no answer

Statuses == {"pending", "succeeded", "failed"}

ASSUME SubscribeAssumption == /\ PendingTTL \in Nat \ {0}
                              /\ Retention \in Nat \ {0}
                              /\ MaxTime \in Nat
                              /\ MaxCalls \in Nat
                              /\ None \notin Plans \cup {"subscribed", "replayed"}
                              /\ None \notin [id : Nat, plan : Plans, status : Statuses,
                                              result : Nat, updated : Nat, expires : Nat]

VARIABLES clock,     \* the time
          open,      \* the tenant is open
          withdrawn, \* plans that were withdrawn
          record,    \* the committed idempotency record of the key, None if there is none
          records,   \* how many records were inserted; record.id is the last of them
          created,   \* how many subscriptions the provider has created
          rows,      \* the committed rows of core.billing_subscriptions
          call,      \* the state of every caller
          calls,     \* bound of the model: how many calls were made
          excused    \* history: an attempt failed, outlived the TTL or was purged

vars == <<clock, open, withdrawn, record, records, created, rows, call, calls,
          excused>>

Times    == 0..MaxTime
Phases   == {"idle", "insert", "read", "reset", "check", "provider", "write", "audit",
             "succeed", "fail"}
Answers  == {None, "subscribed", "replayed", "reused", "in progress", "failed", "refused"}

\* result is the number of a subscription at the provider, 0 for none.
Record == [id : Nat, plan : Plans, status : Statuses, result : Nat,
           updated : Times, expires : Nat]

Row == [sub : Nat, plan : Plans]

\* now: the time read at the start of the call; id: the record the call holds;
\* since: when it reserved it; sub: the subscription it created or was handed.
CallState == [phase : Phases, plan : Plans \cup {None}, now : Times, id : Nat,
              since : Times, sub : Nat, answer : Answers]

Idle == [phase |-> "idle", plan |-> None, now |-> 0, id |-> 0, since |-> 0, sub |-> 0,
         answer |-> None]

\* The call ends; its caller keeps the answer and the subscription it was handed.
Answer(c, answer, sub) == [Idle EXCEPT !.answer = answer, !.sub = sub, !.plan = call[c].plan]

Goto(c, phase) == call' = [call EXCEPT ![c].phase = phase]

TypeOK == /\ clock \in Times
          /\ open \in BOOLEAN
          /\ withdrawn \subseteq Plans
          /\ record \in Record \cup {None}
          /\ records \in Nat /\ created \in Nat
          /\ rows \subseteq Row
          /\ call \in [Callers -> CallState]
          /\ calls \in 0..MaxCalls
          /\ excused \in BOOLEAN

Init == /\ clock = 0 /\ open = TRUE /\ withdrawn = {}
        /\ record = None /\ records = 0
        /\ created = 0 /\ rows = {}
        /\ call = [c \in Callers |-> Idle]
        /\ calls = 0
        /\ excused = FALSE
-----------------------------------------------------------------------------
(* begin_idempotent_operation() *)

\* require_open_tenant(), then now = datetime.now(UTC).
Begin(c, p) ==
    /\ call[c].phase = "idle" /\ calls < MaxCalls
    /\ calls' = calls + 1
    /\ call' = [call EXCEPT ![c] =
                  [Idle EXCEPT !.plan = p, !.now = clock,
                        !.phase = IF open THEN "insert" ELSE "idle",
                        !.answer = IF open THEN None ELSE "refused"]]
    /\ UNCHANGED <<clock, open, withdrawn, record, records, created, rows, excused>>

\* The caller now owns the reservation: it may call the provider.
Reserved(c, id) == [call[c] EXCEPT !.phase = "check", !.id = id, !.since = clock]

\* Mutant: the fingerprint is not stored with the reservation.
NewUnprinted(c) == [id |-> records + 1, plan |-> None, status |-> "pending",
                    result |-> 0, updated |-> clock, expires |-> call[c].now + Retention]

NewRecord(c) == [id |-> records + 1, plan |-> call[c].plan, status |-> "pending",
                 result |-> 0, updated |-> clock, expires |-> call[c].now + Retention]

\* Mutant: no unique constraint, the last INSERT wins.
InsertAlways(c) ==
    /\ call[c].phase = "insert"
    /\ record' = NewRecord(c)
    /\ records' = records + 1
    /\ call' = [call EXCEPT ![c] = Reserved(c, records + 1)]
    /\ UNCHANGED <<clock, open, withdrawn, created, rows, calls, excused>>

\* The INSERT succeeds, or raises IntegrityError on the unique constraint.
InsertRecord(c) ==
    /\ call[c].phase = "insert"
    /\ IF record = None
       THEN /\ record' = NewRecord(c)
            /\ records' = records + 1
            /\ call' = [call EXCEPT ![c] = Reserved(c, records + 1)]
       ELSE Goto(c, "read") /\ UNCHANGED <<record, records>>
    /\ UNCHANGED <<clock, open, withdrawn, created, rows, calls, excused>>

\* A pending record is taken for abandoned by its age at the start of the call.
Abandoned(c) == call[c].now - record.updated >= PendingTTL

\* The second transaction reads the record; scalar_one() raises if it is gone.
ReadRecord(c) ==
    /\ call[c].phase = "read"
    /\ call' = [call EXCEPT ![c] =
                  IF record = None THEN Answer(c, "failed", 0)
                  ELSE IF record.plan # call[c].plan THEN Answer(c, "reused", 0)
                  ELSE IF record.status = "succeeded"
                       THEN Answer(c, "replayed", record.result)
                  ELSE IF record.status = "pending" /\ ~Abandoned(c)
                       THEN Answer(c, "in progress", 0)
                  ELSE [@ EXCEPT !.phase = "reset", !.id = record.id]]
    /\ excused' = (excused \/ /\ call'[c].phase = "reset"
                              /\ record.status = "pending"
                              /\ clock - record.updated >= PendingTTL)
    /\ UNCHANGED <<clock, open, withdrawn, record, records, created, rows, calls>>

Held(c) == record # None /\ record.id = call[c].id

\* The third transaction resets the record, whatever its status is by now; a record that
\* is gone fails the assertion.  The stored result is left alone.
ResetRecord(c) ==
    /\ call[c].phase = "reset"
    /\ IF Held(c)
       THEN /\ record' = [record EXCEPT !.status = "pending", !.updated = clock,
                                        !.expires = call[c].now + Retention]
            /\ call' = [call EXCEPT ![c] = Reserved(c, record.id)]
       ELSE /\ call' = [call EXCEPT ![c] = Answer(c, "failed", 0)]
            /\ UNCHANGED record
    /\ UNCHANGED <<clock, open, withdrawn, records, created, rows, calls, excused>>
-----------------------------------------------------------------------------
(* subscribe() *)

\* An exception: the except branch of subscribe_idempotent() comes next.
Raise(c) == Goto(c, "fail") /\ excused' = TRUE

Eligible(c) == call[c].plan \notin withdrawn

\* require_open_tenant(), get_plan() and the first _refuse_withdrawn().
CheckPlan(c) ==
    /\ call[c].phase = "check"
    /\ IF open /\ Eligible(c) THEN Goto(c, "provider") /\ UNCHANGED excused ELSE Raise(c)
    /\ UNCHANGED <<clock, open, withdrawn, record, records, created, rows, calls>>

\* provider.create_subscription() answers ...
ProviderCreates(c) ==
    /\ call[c].phase = "provider"
    /\ created' = created + 1
    /\ call' = [call EXCEPT ![c].phase = "write", ![c].sub = created + 1]
    /\ UNCHANGED <<clock, open, withdrawn, record, records, rows, calls, excused>>

\* ... or raises, before or after the provider created the subscription.
ProviderRaises(c) ==
    /\ call[c].phase = "provider"
    /\ created' \in {created, created + 1}
    /\ Raise(c)
    /\ UNCHANGED <<clock, open, withdrawn, record, records, rows, calls>>

\* Mutant: the row is left to a later transaction.
WriteNothing(c) ==
    /\ call[c].phase = "write"
    /\ Goto(c, "audit")
    /\ UNCHANGED <<clock, open, withdrawn, record, records, created, rows, calls, excused>>

\* The writing transaction: the plan again, FOR SHARE to the commit, then the row and the
\* announcement of the change.
WriteRow(c) ==
    /\ call[c].phase = "write"
    /\ IF Eligible(c)
       THEN /\ rows' = rows \cup {[sub |-> call[c].sub, plan |-> call[c].plan]}
            /\ Goto(c, "audit")
            /\ UNCHANGED excused
       ELSE Raise(c) /\ UNCHANGED rows
    /\ UNCHANGED <<clock, open, withdrawn, record, records, created, calls>>

\* record_audit_event() commits in a transaction of its own.
RecordAudit(c) ==
    /\ call[c].phase = "audit"
    /\ Goto(c, "succeed")
    /\ UNCHANGED <<clock, open, withdrawn, record, records, created, rows, calls, excused>>

\* A statement of subscribe() fails: its transaction is rolled back.
StatementFails(c) ==
    /\ call[c].phase \in {"check", "write", "audit"}
    /\ Raise(c)
    /\ UNCHANGED <<clock, open, withdrawn, record, records, created, rows, calls>>
-----------------------------------------------------------------------------
(* finalize_idempotent_operation() and what surrounds the calls *)

\* Mutant: the record is found by its key, not by the id of the reservation.
OwnsByKey(c) == record # None

\* session.get(IdempotencyRecord, record_id); a missing row is ignored.
Owns(c) == Held(c)

Finalize(c) ==
    /\ call[c].phase \in {"succeed", "fail"}
    /\ LET ok == call[c].phase = "succeed" IN
       /\ record' = IF ~Owns(c) THEN record
                    ELSE [record EXCEPT !.status = IF ok THEN "succeeded" ELSE "failed",
                                        !.result = IF ok THEN call[c].sub ELSE 0,
                                        !.updated = clock]
       /\ call' = [call EXCEPT ![c] = IF ok THEN Answer(c, "subscribed", call[c].sub)
                                            ELSE Answer(c, "failed", 0)]
    /\ UNCHANGED <<clock, open, withdrawn, records, created, rows, calls, excused>>

\* The process dies between two transactions.
Crash(c) ==
    /\ call[c].phase # "idle"
    /\ call' = [call EXCEPT ![c] = Answer(c, "failed", 0)]
    /\ UNCHANGED <<clock, open, withdrawn, record, records, created, rows, calls, excused>>

Tick == /\ clock < MaxTime
        /\ clock' = clock + 1
        /\ UNCHANGED <<open, withdrawn, record, records, created, rows, call, calls, excused>>

\* purge_expired_idempotency_records(), whatever the status.
PurgeExpired ==
    /\ record # None /\ record.expires < clock
    /\ record' = None
    /\ excused' = TRUE
    /\ UNCHANGED <<clock, open, withdrawn, records, created, rows, call, calls>>

\* withdraw_plan(); a transition of the tenant out of the open states.
WithdrawPlan(p) ==
    /\ p \notin withdrawn
    /\ withdrawn' = withdrawn \cup {p}
    /\ UNCHANGED <<clock, open, record, records, created, rows, call, calls, excused>>

CloseTenant ==
    /\ open
    /\ open' = FALSE
    /\ UNCHANGED <<clock, withdrawn, record, records, created, rows, call, calls, excused>>
-----------------------------------------------------------------------------
Step(c) == \/ InsertRecord(c) \/ ReadRecord(c) \/ ResetRecord(c)
           \/ CheckPlan(c) \/ ProviderCreates(c) \/ ProviderRaises(c) \/ WriteRow(c)
           \/ RecordAudit(c) \/ StatementFails(c) \/ Finalize(c) \/ Crash(c)

Next == \/ \E c \in Callers : Step(c)
        \/ \E c \in Callers, p \in Plans : Begin(c, p)
        \/ \E p \in Plans : WithdrawPlan(p)
        \/ Tick \/ PurgeExpired \/ CloseTenant

Spec == Init /\ [][Next]_vars
-----------------------------------------------------------------------------
(* Properties *)

Backed(sub, plan) == [sub |-> sub, plan |-> plan] \in rows

\* finalize_idempotent_operation(): no "false success record before the business operation
\* commits".  A succeeded record names a committed subscription to the plan of its own
\* fingerprint, also when a superseded attempt or one of a purged record ends late.
SuccessIsReal == record # None /\ record.status = "succeeded"
                    => Backed(record.result, record.plan)

\* A caller that is handed a subscription, its own or a replayed one, is handed a committed
\* one to the plan it asked for.
AnswerIsReal == \A c \in Callers : call[c].answer \in {"subscribed", "replayed"}
                                      => Backed(call[c].sub, call[c].plan)

\* What the reservation is for: the retries of a key reach the provider once, unless an
\* attempt failed, outlived the pending TTL or its record was purged.
SubscribedOnce == ~excused => created <= 1

\* What subscribe_idempotent() promises a client that retries: through crashes, failures, takeovers
\* and purges of the record, success is real, answers are real, and the provider is reached once.
RetriesAreSafe == TypeOK /\ SuccessIsReal /\ AnswerIsReal /\ SubscribedOnce

AtProvider(c) == call[c].phase = "provider" /\ clock - call[c].since < PendingTTL

\* "two *concurrent* callers can never both reach the external call for the same key":
\* not while the reservations of both are younger than the pending TTL.
NoConcurrentCalls == \A c, d \in Callers : AtProvider(c) /\ AtProvider(d) => c = d
=============================================================================
