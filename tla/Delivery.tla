------------------------------ MODULE Delivery ------------------------------
(***************************************************************************)
(* What the two outbox handlers of saas_os do when the dispatcher runs     *)
(* them: webhook delivery (core/webhooks/service.py) and notification      *)
(* dispatch (core/notifications/service.py), with the transactions that    *)
(* queue their events, subscriptions, user erasure and the closing of the  *)
(* tenant.  One tenant, one outbox event of some channel, and several      *)
(* jobs: a job whose lease ran out may still be running when the event is  *)
(* executed again, so two executions of the same event can overlap.        *)
(*                                                                         *)
(* The exchange with the outside is split where the code can be cut off:   *)
(* before an address is tried, while it is tried, after the body left, and *)
(* before the answer is recorded.                                          *)
(***************************************************************************)
EXTENDS Naturals, FiniteSets, Sequences

CONSTANTS
    Jobs,           \* executions of the handler that may be under way at once
    MaxExecutions,  \* bound: executions of the event started in all
    Purgers,        \* concurrent purge_tenant calls
    MaxCalls,       \* bound: purge_tenant calls started in all
    MaxStarts       \* bound: executions and purge_tenant calls together

(* _MAX_ADDRESSES_TRIED *)
MaxAddressesTried == 2

Channels == {"webhook", "email", "in_app"}

VARIABLES
    tenant,         \* TenantStatus: "active", "deleted", "purging", "purged"
    channel,        \* the kind of the one event
    event,          \* "none", "queued", "published", "dead" or "deleted"
    subscription,   \* does the webhook subscription exist?
    consumed,       \* is there an OutboxConsumption row for the event?
    notifications,  \* Notification rows for the event
    erasing,        \* the recipient's erasure: "no", "rows", "events"
    executions,     \* executions started so far
    job,            \* what each job is doing
    purger,         \* where each purge_tenant call is
    calls,          \* calls started so far
    completed       \* tenant.purge_completed audit rows written

deliveryVars == <<tenant, channel, event, subscription, consumed,
                  notifications, erasing, executions, job>>

(* A job: where its handler is, the address it tries, _Exchange.started,   *)
(* the addresses the body reached, and how the handler ended.              *)
Idle == [at |-> "idle", address |-> 0, started |-> FALSE, reached |-> {},
         ended |-> "no"]

Places == {"idle", "resolving", "trying", "exchanging", "answered",
           "recording", "claimed", "ended"}
Endings == {"no", "done", "permanent", "not_sent", "ambiguous", "failed"}

DeliveryTypeOK ==
    /\ tenant \in {"active", "deleted", "purging", "purged"}
    /\ channel \in Channels
    /\ event \in {"none", "queued", "published", "dead", "deleted"}
    /\ subscription \in BOOLEAN
    /\ consumed \in BOOLEAN
    /\ notifications \in 0 .. MaxExecutions
    /\ erasing \in {"no", "rows", "events"}
    /\ executions \in 0 .. MaxExecutions
    /\ job \in [Jobs -> [at : Places, address : 0 .. MaxAddressesTried,
                         started : BOOLEAN,
                         reached : SUBSET (1 .. MaxAddressesTried),
                         ended : Endings]]

DeliveryInit ==
    /\ tenant = "active"
    /\ channel \in Channels
    /\ event = "none"
    /\ subscription = FALSE
    /\ consumed = FALSE
    /\ notifications = 0
    /\ erasing = "no"
    /\ executions = 0
    /\ job = [j \in Jobs |-> Idle]

Open == tenant = "active"

(* lock_open_tenant: the row is locked until the transaction ends, so the  *)
(* status cannot change under a job that holds it.                         *)
RowFree == \A j \in Jobs : job[j].at # "claimed"

Move(j, place) == job' = [job EXCEPT ![j].at = place]

Stop(j, ending) == job' = [job EXCEPT ![j].at = "ended", ![j].ended = ending]

(***************************************************************************)
(* The transactions around the handlers                                    *)
(***************************************************************************)

(* subscribe: inserts under the lock of an open tenant. *)
Subscribe ==
    /\ Open
    /\ ~subscription
    /\ subscription' = TRUE
    /\ UNCHANGED <<tenant, channel, event, consumed, notifications,
                   executions, job, erasing>>

(* unsubscribe: deletes, without asking whether the tenant is open. *)
Unsubscribe ==
    /\ subscription
    /\ subscription' = FALSE
    /\ UNCHANGED <<tenant, channel, event, consumed, notifications,
                   executions, job, erasing>>

(* trigger_event, one event for each subscription, and                     *)
(* dispatch_notification: both append in their caller's transaction, under *)
(* the lock of an open tenant.                                             *)
TriggerEvent ==
    /\ Open
    /\ event = "none"
    /\ channel = "webhook" => subscription
    /\ event' = "queued"
    /\ UNCHANGED <<tenant, channel, subscription, consumed, notifications,
                   executions, job, erasing>>

(* A committed move of the tenant to DELETED: it waits for the row. *)
CloseTenant ==
    /\ Open
    /\ RowFree
    /\ tenant' = "deleted"
    /\ UNCHANGED <<channel, event, subscription, consumed, notifications,
                   executions, job, erasing>>

(* Erasure of the recipient, two transactions: first the notification     *)
(* rows, then the events whatever their state.                             *)
EraseRows ==
    /\ channel # "webhook"
    /\ erasing = "no"
    /\ erasing' = "rows"
    /\ notifications' = 0
    /\ UNCHANGED <<tenant, channel, event, subscription, consumed,
                   executions, job>>

EraseEvents ==
    /\ erasing = "rows"
    /\ erasing' = "events"
    /\ event' = IF event = "none" THEN event ELSE "deleted"
    /\ UNCHANGED <<tenant, channel, subscription, consumed, notifications,
                   executions, job>>

(***************************************************************************)
(* The handlers                                                            *)
(***************************************************************************)

(* The dispatcher hands the event to a job.  _deliver_webhook: in one      *)
(* transaction under the tenant lock, a closed tenant, a recorded          *)
(* consumption or a missing subscription ends it.                          *)
(* _dispatch_notification_job: a closed tenant ends it; an e-mail already  *)
(* recorded ends it; an in-app notification goes straight to its row.      *)
Execute(j) ==
    LET over == \/ ~Open
                \/ channel # "in_app" /\ consumed
                \/ channel = "webhook" /\ ~subscription
    IN /\ event = "queued"
       /\ job[j].at = "idle"
       /\ executions < MaxExecutions /\ executions + calls < MaxStarts
       /\ executions' = executions + 1
       /\ CASE over                                -> Stop(j, "done")
            [] ~over /\ channel = "webhook"        -> Move(j, "resolving")
            [] ~over /\ channel = "email"          -> Move(j, "trying")
            [] ~over /\ channel = "in_app"         -> Move(j, "recording")
       /\ UNCHANGED <<tenant, channel, event, subscription, consumed,
                      notifications, erasing>>

(* _send_signed up to the addresses: the destination is refused by policy, *)
(* cannot be resolved, or resolves.                                        *)
Resolve(j) ==
    /\ job[j].at = "resolving"
    /\ \/ Move(j, "trying")
       \/ \E ending \in {"permanent", "not_sent"} : Stop(j, ending)
    /\ UNCHANGED <<tenant, channel, event, subscription, consumed,
                   notifications, executions, erasing>>

(* The loop of _post_to_validated_addresses takes the next address and     *)
(* notes that the exchange started before it posts; an e-mail is handed to *)
(* its one provider (_send_email_channel).                                 *)
TryAddressStartedLate(j) ==
    /\ job[j].at = "trying"
    /\ job' = [job EXCEPT ![j].at = "exchanging",
                          ![j].address = @ + 1]
    /\ UNCHANGED <<tenant, channel, event, subscription, consumed,
                   notifications, executions, erasing>>

TryAddress(j) ==
    /\ job[j].at = "trying"
    /\ job' = [job EXCEPT ![j].at = "exchanging",
                          ![j].address = @ + 1,
                          ![j].started = TRUE]
    /\ UNCHANGED <<tenant, channel, event, subscription, consumed,
                   notifications, executions, erasing>>

(* The peer has the body. *)
BodyArrives(j) ==
    /\ job[j].at = "exchanging"
    /\ job[j].address \notin job[j].reached
    /\ job' = [job EXCEPT ![j].reached = @ \cup {job[j].address}]
    /\ UNCHANGED <<tenant, channel, event, subscription, consumed,
                   notifications, executions, erasing>>

Arrived(j) == job[j].address \in job[j].reached

(* The exchange with one address fails.  Before the body left: the proxy   *)
(* refused it (permanent) or was unavailable, or no connection was free    *)
(* (both certainly not sent); for e-mail also a configuration or provider  *)
(* error.  At any time: a failure that leaves it unknown.                  *)
FailsAt(j, ending) ==
    \/ ending = "ambiguous"
    \/ ending \in {"permanent", "not_sent"} /\ ~Arrived(j)
    \/ ending = "failed" /\ channel = "email" /\ ~Arrived(j)

ExchangeFails(j) ==
    /\ job[j].at = "exchanging"
    /\ \E ending \in Endings : FailsAt(j, ending) /\ Stop(j, ending)
    /\ UNCHANGED <<tenant, channel, event, subscription, consumed,
                   notifications, executions, erasing>>

(* Only a failed connection lets the loop go on to the next address; after *)
(* the last one nothing was sent.                                          *)
NextAddress(j) ==
    IF job[j].address < MaxAddressesTried
    THEN Move(j, "trying") ELSE Stop(j, "not_sent")

ConnectFails(j) ==
    /\ job[j].at = "exchanging"
    /\ channel = "webhook"
    /\ ~Arrived(j)
    /\ NextAddress(j)
    /\ UNCHANGED <<tenant, channel, event, subscription, consumed,
                   notifications, executions, erasing>>

(* The one deadline of the attempt expires.  The loop may notice it itself *)
(* before the next address (nothing was sent: every earlier address failed *)
(* to connect); otherwise the cancelled wait is classified by whether an   *)
(* address was being tried.                                                *)
DeadlineExpires(j) ==
    /\ channel = "webhook"
    /\ \/ job[j].at = "trying" /\ Stop(j, "not_sent")
       \/ /\ job[j].at \in {"resolving", "trying", "exchanging"}
          /\ Stop(j, IF job[j].started THEN "ambiguous" ELSE "not_sent")
    /\ UNCHANGED <<tenant, channel, event, subscription, consumed,
                   notifications, executions, erasing>>

(* The answer.  A webhook's status ends the delivery (redirects and        *)
(* _PERMANENT_STATUSES), asks for a retry, or accepts it; an e-mail was    *)
(* accepted.                                                               *)
Answer(j) ==
    /\ job[j].at = "exchanging"
    /\ Arrived(j)
    /\ \/ Move(j, "recording")
       \/ channel = "webhook" /\ Stop(j, "permanent")
       \/ channel = "webhook" /\ Stop(j, "failed")
    /\ UNCHANGED <<tenant, channel, event, subscription, consumed,
                   notifications, executions, erasing>>

(* _deliver_webhook's last step, record_event_consumption: a transaction   *)
(* of its own that does not ask whether the tenant is still open.  Its     *)
(* failure is raised.                                                      *)
RecordDelivery(j) ==
    /\ channel = "webhook"
    /\ job[j].at = "recording"
    /\ \/ consumed' = TRUE /\ Stop(j, "done")
       \/ UNCHANGED consumed /\ Stop(j, "failed")
    /\ UNCHANGED <<tenant, channel, event, subscription, notifications,
                   executions, erasing>>

(* _dispatch_notification_job's transaction, first half: the tenant lock,  *)
(* then the claim, which waits for a concurrent claim of the same event    *)
(* and answers False when it committed.  A failure after an e-mail left is *)
(* ambiguous.                                                              *)
ClaimFreeAlways(j) == TRUE

ClaimFree(j) == \A k \in Jobs \ {j} : job[k].at # "claimed"

ClaimUnfenced(j) ==
    /\ channel # "webhook"
    /\ job[j].at = "recording"
    /\ ClaimFree(j)
    /\ \/ consumed /\ Stop(j, "done")
       \/ ~consumed /\ Move(j, "claimed")
       \/ Stop(j, IF channel = "email" THEN "ambiguous" ELSE "failed")
    /\ UNCHANGED <<tenant, channel, event, subscription, consumed,
                   notifications, executions, erasing>>

Claim(j) ==
    /\ channel # "webhook"
    /\ job[j].at = "recording"
    /\ \/ ~Open /\ Stop(j, "done")
       \/ Open /\ ClaimFree(j) /\ consumed /\ Stop(j, "done")
       \/ Open /\ ClaimFree(j) /\ ~consumed /\ Move(j, "claimed")
       \/ Stop(j, IF channel = "email" THEN "ambiguous" ELSE "failed")
    /\ UNCHANGED <<tenant, channel, event, subscription, consumed,
                   notifications, executions, erasing>>

(* Second half: the row and the claim commit together, or neither does. *)
CommitRow(j) ==
    /\ job[j].at = "claimed"
    /\ \/ /\ notifications' = notifications + 1
          /\ consumed' = TRUE
          /\ Stop(j, "done")
       \/ /\ UNCHANGED <<notifications, consumed>>
          /\ Stop(j, IF channel = "email" THEN "ambiguous" ELSE "failed")
    /\ UNCHANGED <<tenant, channel, event, subscription, executions,
                   erasing>>

(* The dispatcher's bookkeeping: a normal return publishes the event, a    *)
(* permanent failure dead-letters it, anything else leaves it queued.      *)
Settle(j) ==
    /\ job[j].at = "ended"
    /\ job' = [job EXCEPT ![j] = Idle]
    /\ event' = IF event # "queued" THEN event
                ELSE CASE job[j].ended = "done"      -> "published"
                       [] job[j].ended = "permanent" -> "dead"
                       [] OTHER                      -> "queued"
    /\ UNCHANGED <<tenant, channel, subscription, consumed, notifications,
                   executions, erasing>>

(* The worker dies: its transaction rolls back and the event stays queued. *)
Crash(j) ==
    /\ job[j].at # "idle"
    /\ job' = [job EXCEPT ![j] = Idle]
    /\ UNCHANGED <<tenant, channel, event, subscription, consumed,
                   notifications, executions, erasing>>

HandlerStep(j) ==
    \/ Execute(j) \/ Resolve(j) \/ TryAddress(j) \/ BodyArrives(j)
    \/ ExchangeFails(j) \/ ConnectFails(j) \/ DeadlineExpires(j)
    \/ Answer(j) \/ RecordDelivery(j) \/ Claim(j) \/ CommitRow(j)
    \/ Settle(j) \/ Crash(j)

DeliveryNext ==
    \/ Subscribe \/ Unsubscribe \/ TriggerEvent \/ CloseTenant
    \/ EraseRows \/ EraseEvents
    \/ \E j \in Jobs : HandlerStep(j)

(***************************************************************************)
(* Properties                                                              *)
(***************************************************************************)

(* _dispatch_notification_job (core/notifications/service.py): however     *)
(* often and however concurrently an event is executed, it leaves at most  *)
(* one Notification row.                                                   *)
OneNotification == notifications <= 1

(* _send_signed and _post_to_validated_addresses (core/webhooks/service.py)*)
(* and _send_email_channel: an execution that ends "certainly not sent",   *)
(* which the outbox then retries as a matter of course, has put its body   *)
(* before nobody, also when the deadline cut it off.                       *)
NotSentIsTrue ==
    \A j \in Jobs : job[j].ended = "not_sent" => job[j].reached = {}

(***************************************************************************)
(* purge_tenant (core/tenancy/service.py) over the tables of the delivery  *)
(* subsystem, while jobs of that tenant are still running.  Every step of  *)
(* a pass, and the entry and the final transition, are transactions of     *)
(* their own; a call may fail between any two of them and be repeated, and *)
(* two calls may run at once.                                              *)
(*                                                                         *)
(* Of PURGE_STEPS the three that touch the modelled tables are kept, in    *)
(* their order; the support-access revocation, the product participants    *)
(* and the Redis step lie between the same two transactions and touch      *)
(* nothing modelled here.                                                  *)
(***************************************************************************)

(* PURGE_STEPS *)
PurgeSteps == <<"notifications", "webhooks", "outbox">>

(* _MAX_PURGE_PASSES *)
MaxPurgePasses == 3

purgeVars == <<purger, calls, completed>>

Resting == [at |-> "rest", step |-> 1, passes |-> 1, removed |-> FALSE]

PurgeTypeOK ==
    /\ purger \in [Purgers -> [at : {"rest", "pass", "final", "report"},
                               step : 1 .. Len(PurgeSteps),
                               passes : 1 .. MaxPurgePasses,
                               removed : BOOLEAN]]
    /\ calls \in 0 .. MaxCalls
    /\ completed \in 0 .. MaxCalls

PurgeInit ==
    /\ purger = [p \in Purgers |-> Resting]
    /\ calls = 0
    /\ completed = 0

(* The entry transaction: under the row lock, DELETED becomes PURGING, a   *)
(* tenant already PURGING is resumed, and a PURGED one ends the call.      *)
EnterPurge(p) ==
    /\ purger[p].at = "rest"
    /\ calls < MaxCalls /\ executions + calls < MaxStarts
    /\ calls' = calls + 1
    /\ RowFree
    /\ \/ /\ tenant \in {"deleted", "purging"}
          /\ tenant' = "purging"
          /\ purger' = [purger EXCEPT ![p].at = "pass"]
       \/ tenant = "purged" /\ UNCHANGED <<tenant, purger>>
    /\ UNCHANGED <<channel, event, subscription, consumed, notifications,
                   erasing, executions, job, completed>>

(* One step deletes what it finds (rows locked FOR UPDATE): does it find   *)
(* anything, and what is left.                                             *)
Found(step) ==
    CASE step = "notifications" -> notifications > 0
      [] step = "webhooks"      -> subscription
      [] step = "outbox"        -> event \notin {"none", "deleted"} \/ consumed

(* _run_purge_pass, step by step; after the last one a pass that removed   *)
(* nothing ends the loop, otherwise the next pass runs, and after          *)
(* _MAX_PURGE_PASSES the call raises TenantPurgeIncompleteError.           *)
AfterStepShort(p, removed) ==
    IF purger[p].step < Len(PurgeSteps) - 1
    THEN [purger[p] EXCEPT !.step = @ + 1, !.removed = removed]
    ELSE [purger[p] EXCEPT !.at = "final"]

AfterStep(p, removed) ==
    IF purger[p].step < Len(PurgeSteps)
    THEN [purger[p] EXCEPT !.step = @ + 1, !.removed = removed]
    ELSE IF ~removed THEN [purger[p] EXCEPT !.at = "final"]
    ELSE IF purger[p].passes < MaxPurgePasses
    THEN [purger[p] EXCEPT !.step = 1, !.removed = FALSE, !.passes = @ + 1]
    ELSE Resting

PurgeStep(p) ==
    LET step == PurgeSteps[purger[p].step]
    IN /\ purger[p].at = "pass"
       /\ tenant = "purging"                    \* require_purging_tenant
       /\ notifications' = IF step = "notifications" THEN 0 ELSE notifications
       /\ subscription' = (subscription /\ step # "webhooks")
       /\ event' = IF step = "outbox" /\ event # "none" THEN "deleted" ELSE event
       /\ consumed' = (consumed /\ step # "outbox")
       /\ purger' = [purger EXCEPT ![p] =
                        AfterStep(p, purger[p].removed \/ Found(step))]
       /\ UNCHANGED <<tenant, channel, erasing, executions, job, calls,
                      completed>>

(* The final transaction writes the tombstone unless another call did. *)
FinalTransitionUnchecked(p) ==
    /\ purger[p].at = "final"
    /\ RowFree
    /\ tenant' = "purged"
    /\ purger' = [purger EXCEPT ![p].at = "report"]
    /\ UNCHANGED <<channel, event, subscription, consumed, notifications,
                   erasing, executions, job, calls, completed>>

FinalTransition(p) ==
    /\ purger[p].at = "final"
    /\ RowFree
    /\ IF tenant # "purged"
       THEN /\ tenant' = "purged"
            /\ purger' = [purger EXCEPT ![p].at = "report"]
       ELSE /\ UNCHANGED tenant
            /\ purger' = [purger EXCEPT ![p] = Resting]
    /\ UNCHANGED <<channel, event, subscription, consumed, notifications,
                   erasing, executions, job, calls, completed>>

(* Only the call that wrote it records tenant.purge_completed. *)
ReportCompleted(p) ==
    /\ purger[p].at = "report"
    /\ completed' = completed + 1
    /\ purger' = [purger EXCEPT ![p] = Resting]
    /\ UNCHANGED <<tenant, channel, event, subscription, consumed,
                   notifications, erasing, executions, job, calls>>

(* A step that raises (a tenant that is no longer PURGING included), or a  *)
(* process that dies: the call ends where it is.                           *)
PurgeFails(p) ==
    /\ purger[p].at # "rest"
    /\ purger' = [purger EXCEPT ![p] = Resting]
    /\ UNCHANGED <<tenant, channel, event, subscription, consumed,
                   notifications, erasing, executions, job, calls, completed>>

TenantPurgeInit == DeliveryInit /\ PurgeInit

TenantPurgeNext ==
    \/ DeliveryNext /\ UNCHANGED purgeVars
    \/ \E p \in Purgers : \/ EnterPurge(p) \/ PurgeStep(p)
                          \/ FinalTransition(p) \/ ReportCompleted(p)
                          \/ PurgeFails(p)

(***************************************************************************)
(* Properties                                                              *)
(***************************************************************************)

Closing == tenant \in {"purging", "purged"}

FencedTablesShrinkStep ==
    Closing => /\ notifications' <= notifications
               /\ subscription' => subscription
               /\ event = "none" => event' = "none"

(* The lifecycle fence (lock_open_tenant in subscribe, trigger_event,      *)
(* dispatch_notification and _dispatch_notification_job): once a tenant is *)
(* PURGING no handler still running adds a subscription, a notification or *)
(* a queued event to it.                                                   *)
FencedTablesShrink == [][FencedTablesShrinkStep]_deliveryVars

(* purge_tenant: the tombstone is written only over empty tables, those    *)
(* the fence protects.                                                     *)
TombstoneIsEmpty ==
    tenant = "purged" => /\ notifications = 0
                         /\ ~subscription
                         /\ event \in {"none", "deleted"}

(* purge_tenant: "exactly one purge_completed per genuine tombstone        *)
(* write", with calls running at once, failing and being repeated.         *)
CompletedOnce == completed <= 1

(* purge_tenant's docstring: "the P2 fence guarantees no new tenant-owned  *)
(* row can appear once PURGING is reached, so the data set only ever       *)
(* shrinks".  The consumption row of a webhook delivery still under way    *)
(* (record_event_consumption) appears.                                     *)
OnlyEverShrinks ==
    [][Closing => /\ notifications' <= notifications
                  /\ subscription' => subscription
                  /\ event = "none" => event' = "none"
                  /\ consumed' => consumed]_<<tenant, notifications,
                                              subscription, event, consumed>>
=============================================================================
