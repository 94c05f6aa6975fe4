------------------------------ MODULE MCBusiness ------------------------------
(***************************************************************************)
(* What tenants buy, are told and have done for them, on small instances:  *)
(* the idempotent subscription, commercial subscriptions and their         *)
(* projections, deliveries and the tenant purge, learning, approvals, the  *)
(* chain of decisions, evaluation, inference and e-mail.  A behaviour is   *)
(* one of one component (part); the variables of the others rest at 0,     *)
(* those of the idempotent subscription and of mail in an initial state.   *)
(***************************************************************************)
EXTENDS Subscribe, Mail, Sequences, FiniteSets, TLC

VARIABLES part,
    market, sales, provider, notices, ledger, refs, subs, sellers, todo, audit, confirmed,
    version, commercial, announced, consumed, copies, status, jobs,
    tenant, channel, event, subscription, delivered, notifications, erasing, executions, job,
    purger, purges, completed,
    adaptations, experiments, canaries, permitted, schoolOpen, learner, asked,
    request, verdicts, effects, entitled, recorded, houseOpen, officer, duties, stops,
    decisions, approval, copy, homeShut, proposal, proposing,
    judged,
    destination, models, alias, policy, trust, bound, entitledToRun, attempts, ingested, sends,
    circuits, leases, runs, situation

\* The callers of the idempotent subscription and its plans are interchangeable, and no other
\* component mentions them.
Symmetry == Permutations(Callers) \cup Permutations(Plans)

-----------------------------------------------------------------------------
(* Commercial subscriptions: who buys, sells and pays, what is already     *)
(* sold, and what is done at once.                                         *)

Shop ==
    [open |-> {"service", "payer", "merchant"}, inherits |-> FALSE, adopted |-> TRUE,
     held |-> {"charge", "create", "change", "read", "cancel", "manage", "catalog"}, plan |-> "active",
     visibility |-> "public", offer |-> FALSE, below |-> FALSE, merchant |-> "active",
     account |-> "active", customer |-> FALSE]

Order(op, key, again) == [op |-> op, key |-> key, again |-> again]
Buy == Order("create", "k1", FALSE)
BuyAgain == Order("create", "k1", TRUE)
BuyOther == Order("create", "k2", FALSE)
Ask(op, key) == [op |-> op, key |-> key]
CancelAs(as) == [op |-> "cancel", key |-> "k1", as |-> as]
Put(op, to) == [op |-> op, to |-> to]
Lose(op, of) == [op |-> op, of |-> of]
Do(op) == [op |-> op]
Move(n) == [op |-> "move", n |-> n]

Trade(market0, sold, asks) == [rows |-> market0, sold |-> sold, asks |-> asks]
Selling(asks) == Trade(Shop, {}, asks)
Sold(asks) == Trade(Shop, {"k1"}, asks)
SoldBefore(asks) == Trade(Shop, {"legacy"}, asks)

MCMarkets ==
    {Selling({Buy, BuyAgain, Do("crash")}), Selling({Buy, BuyOther}), Selling({Buy, Move(1), Move(2)}),
     Selling({Buy, Do("withdraw")}),
     Selling({Buy, Put("set_visibility", "private"), Lose("revoke", "catalog")}),
     Trade([Shop EXCEPT !.visibility = "unlisted", !.offer = TRUE], {},
           {Buy, Do("revoke_offer"), Do("offer")}),
     Trade([Shop EXCEPT !.visibility = "descendants", !.below = TRUE], {}, {Buy, Lose("close", "payer")}),
     Trade([Shop EXCEPT !.adopted = FALSE], {}, {Buy, Put("adopt", "public")}),
     Trade([Shop EXCEPT !.account = "none"], {},
           {Buy, Do("open_account"), Put("merchant_status", "restricted")}),
     Trade([Shop EXCEPT !.inherits = TRUE], {},
           {Order("migrate", "k1", FALSE), Order("migrate", "k1", TRUE), Do("opt_out")}),
     Trade([Shop EXCEPT !.inherits = TRUE], {}, {Order("migrate", "k1", FALSE), BuyOther}),
     Sold({CancelAs("payer"), Ask("reconcile", "k1"), Move(1), Do("crash")}),
     Sold({Move(1), Move(2), Do("crash"), Do("prune")}),
     Sold({CancelAs("merchant"), Lose("revoke", "manage")}),
     Sold({Ask("page", "k1"), Lose("revoke", "charge"), Move(1)}),
     Sold({CancelAs("service"), BuyOther}),
     SoldBefore({Ask("reconcile_legacy", "legacy"), Ask("legacy_cancel", "legacy")}),
     SoldBefore({Ask("reconcile_legacy", "legacy"), Ask("legacy_upgrade", "legacy"), Move(1)}),
     SoldBefore({Ask("reconcile_legacy", "legacy"), Buy}),
     Trade([Shop EXCEPT !.inherits = TRUE], {"legacy"},
           {Ask("reconcile_legacy", "legacy"), Order("migrate", "k1", FALSE)})}

C == INSTANCE Commerce WITH Keys <- {"k1", "k2"}, Legacy <- "legacy", Callers <- {"p1", "p2"},
        MaxEvents <- 2, Markets <- MCMarkets, records <- sales, calls <- sellers

P == INSTANCE Projections WITH Workers <- {1, 2}, MaxVersion <- 2

-----------------------------------------------------------------------------
(* One event and its executions, an erasure, and two calls of the purge.   *)

D == INSTANCE Delivery WITH Jobs <- {1, 2}, MaxExecutions <- 2, Purgers <- {1, 2}, MaxCalls <- 2,
        MaxStarts <- 3, consumed <- delivered, calls <- purges

-----------------------------------------------------------------------------
(* Learning: the rows a lineage has, and what is asked of it at once.      *)

Adaptation(state, outcome, previous) ==
    [status |-> state, outcome |-> outcome, previous |-> previous, replaced |-> 0]
Experiment(state, outcome) == [status |-> state, outcome |-> outcome, source |-> 2]
Trial(state) == <<[status |-> state, adaptation |-> 2, experiment |-> 1]>>
On(op, row) == [op |-> op, on |-> row, with |-> "x"]
With(op, row, value) == [op |-> op, on |-> row, with |-> value]

Lesson(versions, tests, trials, asks) ==
    [adaptations |-> versions, experiments |-> tests, canaries |-> trials, asks |-> asks]

Two == <<Adaptation("active", "pass", 0), Adaptation("candidate", "pass", 1)>>
Tried == <<Experiment("completed", "pass")>>

MCLessons ==
    { \* two candidates are activated, one is reverted, another is proposed
      Lesson(Append(Two, Adaptation("candidate", "pass", 1)), <<>>, <<>>,
             {On("activate", 2), On("activate", 3), On("rollback", 2), On("rollback", 3),
              On("propose", 0), With("propose", 0, "y")}),
      \* a candidate is evaluated again while it is activated
      Lesson(Two, <<>>, <<>>,
             {With("evaluate", 2, "fail"), With("evaluate", 2, "pass"), On("activate", 2),
              On("create_experiment", 2), On("close", 0)}),
      \* an experiment runs and is cancelled
      Lesson(Two, <<Experiment("configured", "none")>>, <<>>,
             {On("execute", 1), With("record", 1, "pass"), With("record", 1, "invalid"),
              On("cancel_experiment", 1), On("create_canary", 1), On("close", 0)}),
      \* a canary from its creation
      Lesson(Two, Tried, <<>>,
             {On("create_canary", 1), On("start", 1), On("cancel", 1), With("evaluate", 2, "fail"),
              On("withdraw_policy", 0), On("close", 0)}),
      \* a running canary
      Lesson(<<Adaptation("superseded", "pass", 0), [Adaptation("active", "pass", 1) EXCEPT !.replaced = 1],
               Adaptation("candidate", "pass", 2)>>, Tried, Trial("running"),
             {On("observe", 1), On("conclude", 1), On("promote", 1), On("rollback_canary", 1),
              On("activate", 3), On("close", 0)}),
      \* a canary and the tool act on the same adaptation
      Lesson(Two, Tried, Trial("configured"),
             {On("start", 1), On("activate", 2), On("rollback", 2), On("rollback_canary", 1),
              On("close", 0), On("withdraw_policy", 0)})}

L == INSTANCE Learning WITH Learners <- {1, 2}, Lessons <- MCLessons,
        Metrics <- {"success", "latency"}, Values <- {0, 2}, Bars <- {1}, Regressions <- {0},
        Sources <- {1, 2, 3}, Times <- {0, 1, 2}, Windows <- {1, 2}, Minimums <- {1, 2}

-----------------------------------------------------------------------------
(* Approvals and decisions.                                                *)

H == INSTANCE DecisionChain WITH Houses <- {1, 2}, Home <- 1, Tiers <- {1, 2}, MaxDecisions <- 4,
        MaxProposed <- 2, Withdrawers <- {11, 12}, Officers <- {1, 2}, Proposer <- "agent",
        Approvers <- {"ann", "bob"}, NeedsData <- TRUE, MaxDuties <- 4, MaxStops <- 1

-----------------------------------------------------------------------------
(* Inference: one call while what it resolved changes, one call and every  *)
(* exchange for every pair of protocols, and a call beside another that    *)
(* may die.                                                                *)

Exchanged(code, what) == [status |-> code, what |-> what]

Reached == Exchanged(200, "text")

EveryExchange ==
    {Exchanged(0, what) : what \in {"redirected", "too large", "no answer", "cut off", "not allowed",
        "unresolved", "not connected", "no tls", "no proxy", "too late", "model id", "adapter bug",
        "no client"}}
    \cup {Exchanged(200, what) : what \in {"text", "uncounted", "not json", "nothing", "blocked", "other part"}}
    \cup {Exchanged(code, "") : code \in {400, 401, 429, 500, 503, 529}}
    \cup {Exchanged(429, "insufficient quota")}

Serving(requests, exchanges, first, changes) ==
    [calls |-> requests, exchanges |-> exchanges, first |-> first, changes |-> changes]

MCServings ==
    {Serving([r \in {1} |-> <<0, 1>>], {Reached, Exchanged(529, "")}, <<"p1", "p2">>, c) : c \in
        {{<<"endpoint", "p1", "o2">>, <<"confirm", "p1", "">>},
         {<<"secret", "p1", "s2">>, <<"confirm", "p1", "">>},
         {<<"status", "p1", FALSE>>, <<"alias", <<"p2">>, TRUE>>},
         {<<"tenant policy", "", FALSE>>, <<"grant", "p1", {0}>>},
         {<<"use case", "", {0}>>, <<"installation", "p2", {0}>>},
         {<<"lifecycle", "p1", FALSE>>, <<"preferences", "", {"training"}>>,
          <<"handling", "p2", {"training"}>>},
         {<<"trust", "o1", "n1">>, <<"expire", "o1", "">>, <<"revoke", "o1", "">>,
          <<"trust", "o1", "n2">>},
         {<<"provider", "p3", "o2">>, <<"model", "p3", "">>, <<"grant", "p3", {0, 1}>>,
          <<"installation", "p3", {1}>>, <<"alias", <<"p3", "p1">>, TRUE>>},
         {<<"authority", "", "">>}}}
    \cup {Serving([r \in {1} |-> parts], EveryExchange, first, {}) :
            parts \in {<<1, 0>>, <<1, 2>>}, first \in {<<"p1", "p2">>, <<"p2", "p3">>, <<"p3", "p1">>}}
    \cup {Serving([r \in {1, 2} |-> <<0>>], {Reached, Exchanged(0, "no answer")}, <<"p1", "p2">>, c) :
            c \in {{}, {<<"death", "", "">>}}}

N == INSTANCE Inference WITH Requests <- {1, 2}, Providers <- {"p1", "p2", "p3"},
        ProtocolOf <- [p1 |-> "anthropic", p2 |-> "openai", p3 |-> "gemini"],
        Origins <- {"o1", "o2"}, FirstOrigin <- "o1", FirstSecret <- "s1", Ceiling <- 1,
        MaxRetries <- 1, Threshold <- 2, Slots <- 1, Situations <- MCServings, confirmed <- bound

-----------------------------------------------------------------------------
(* Mail: each provider with and without credentials and keys, every        *)
(* combination of the TLS settings, a missing sender and a bad recipient.  *)

Deployment ==
    [provider |-> "smtp", named |-> FALSE, mode |-> "unset", useTls |-> "unset",
     environment |-> "production", requireTls |-> "unset", credentials |-> "set", sender |-> 1,
     recipient |-> "valid", keyed |-> TRUE]

MCDeployments ==
    {[Deployment EXCEPT !.credentials = c] : c \in {"set", "unset", "partial"}}
    \cup {[Deployment EXCEPT !.provider = "resend", !.named = TRUE, !.credentials = c, !.keyed = k] :
            c \in {"set", "unset"}, k \in BOOLEAN}
    \cup {[Deployment EXCEPT !.provider = "mailpit", !.named = TRUE, !.environment = e] :
            e \in {"production", "test", "unset"}}
    \cup {[Deployment EXCEPT !.named = n, !.mode = m, !.useTls = u, !.environment = e,
                             !.requireTls = r, !.credentials = "unset"] :
            n \in BOOLEAN, m \in {"unset", "starttls", "implicit", "none"},
            u \in {"unset", "true", "false"}, e \in {"production", "unset"},
            r \in {"unset", "true", "false"}}
    \cup {[Deployment EXCEPT !.sender = 0], [Deployment EXCEPT !.recipient = "invalid"]}

-----------------------------------------------------------------------------
commerceVars == <<market, sales, provider, notices, ledger, refs, subs, sellers, todo, audit,
                  confirmed>>
projectionVars == <<version, commercial, announced, consumed, copies, status, jobs>>
deliveryVars == <<tenant, channel, event, subscription, delivered, notifications, erasing,
                  executions, job, purger, purges, completed>>
learningVars == <<adaptations, experiments, canaries, permitted, schoolOpen, learner, asked>>
approvalVars == <<request, verdicts, effects, entitled, recorded, houseOpen, officer, duties,
                  stops>>
chainVars == <<decisions, approval, copy, homeShut, proposal, proposing>>
judgementVars == <<judged>>
inferenceVars == <<destination, models, alias, policy, trust, bound, entitledToRun, attempts,
                   ingested, sends, circuits, leases, runs, situation>>

mcVars == <<part, vars, commerceVars, projectionVars, deliveryVars, learningVars, approvalVars,
           chainVars, judgementVars, inferenceVars, mailVars>>

CommerceRest ==
    /\ market = 0 /\ sales = 0 /\ provider = 0 /\ notices = 0 /\ ledger = 0 /\ refs = 0
    /\ subs = 0 /\ sellers = 0 /\ todo = 0 /\ audit = 0 /\ confirmed = 0
ProjectionRest ==
    /\ version = 0 /\ commercial = 0 /\ announced = 0 /\ consumed = 0 /\ copies = 0 /\ status = 0
    /\ jobs = 0
DeliveryRest ==
    /\ tenant = 0 /\ channel = 0 /\ event = 0 /\ subscription = 0 /\ delivered = 0
    /\ notifications = 0 /\ erasing = 0 /\ executions = 0 /\ job = 0 /\ purger = 0 /\ purges = 0
    /\ completed = 0
LearningRest ==
    /\ adaptations = 0 /\ experiments = 0 /\ canaries = 0 /\ permitted = 0 /\ schoolOpen = 0
    /\ learner = 0 /\ asked = 0
ApprovalRest ==
    /\ request = 0 /\ verdicts = 0 /\ effects = 0 /\ entitled = 0 /\ recorded = 0 /\ houseOpen = 0
    /\ officer = 0 /\ duties = 0 /\ stops = 0
ChainRest ==
    /\ decisions = 0 /\ approval = 0 /\ copy = 0 /\ homeShut = 0 /\ proposal = 0 /\ proposing = 0
JudgementRest == judged = 0
InferenceRest ==
    /\ destination = 0 /\ models = 0 /\ alias = 0 /\ policy = 0 /\ trust = 0 /\ bound = 0
    /\ entitledToRun = 0 /\ attempts = 0
    /\ ingested = 0 /\ sends = 0 /\ circuits = 0 /\ leases = 0 /\ runs = 0 /\ situation = 0

MCInit ==
    /\ part \in {"subscribe", "commerce", "projections", "delivery", "learning", "approvals",
                 "chain", "judgement", "inference", "mail"}
    /\ Init
    /\ IF part = "commerce" THEN C!CommerceInit ELSE CommerceRest
    /\ IF part = "projections" THEN P!ProjectionInit ELSE ProjectionRest
    /\ IF part = "delivery" THEN D!TenantPurgeInit ELSE DeliveryRest
    /\ IF part = "learning" THEN L!LearningInit ELSE LearningRest
    /\ IF part = "approvals" THEN H!ApprovalInit ELSE ApprovalRest
    /\ IF part = "chain" THEN H!ChainInit ELSE ChainRest
    /\ IF part = "judgement" THEN L!JudgementInit ELSE JudgementRest
    /\ IF part = "inference" THEN N!InferenceInit ELSE InferenceRest
    /\ MailInit /\ (part # "mail" => deployment = Deployment)

MCNext ==
    /\ UNCHANGED part
    /\ \/ /\ part = "subscribe" /\ Next
          /\ UNCHANGED <<commerceVars, projectionVars, deliveryVars, learningVars, approvalVars,
                         chainVars, judgementVars, inferenceVars, mailVars>>
       \/ /\ part = "commerce" /\ C!CommerceNext
          /\ UNCHANGED <<vars, projectionVars, deliveryVars, learningVars, approvalVars,
                         chainVars, judgementVars, inferenceVars, mailVars>>
       \/ /\ part = "projections" /\ P!ProjectionNext
          /\ UNCHANGED <<vars, commerceVars, deliveryVars, learningVars, approvalVars, chainVars,
                         judgementVars, inferenceVars, mailVars>>
       \/ /\ part = "delivery" /\ D!TenantPurgeNext
          /\ UNCHANGED <<vars, commerceVars, projectionVars, learningVars, approvalVars,
                         chainVars, judgementVars, inferenceVars, mailVars>>
       \/ /\ part = "learning" /\ L!LearningNext
          /\ UNCHANGED <<vars, commerceVars, projectionVars, deliveryVars, approvalVars,
                         chainVars, judgementVars, inferenceVars, mailVars>>
       \/ /\ part = "approvals" /\ H!ApprovalNext
          /\ UNCHANGED <<vars, commerceVars, projectionVars, deliveryVars, learningVars,
                         chainVars, judgementVars, inferenceVars, mailVars>>
       \/ /\ part = "chain" /\ H!ChainNext
          /\ UNCHANGED <<vars, commerceVars, projectionVars, deliveryVars, learningVars,
                         approvalVars, judgementVars, inferenceVars, mailVars>>
       \/ /\ part = "judgement" /\ L!JudgementNext
          /\ UNCHANGED <<vars, commerceVars, projectionVars, deliveryVars, learningVars,
                         approvalVars, chainVars, inferenceVars, mailVars>>
       \/ /\ part = "inference" /\ N!InferenceNext
          /\ UNCHANGED <<vars, commerceVars, projectionVars, deliveryVars, learningVars,
                         approvalVars, chainVars, judgementVars, mailVars>>
       \/ /\ part = "mail" /\ MailNext
          /\ UNCHANGED <<vars, commerceVars, projectionVars, deliveryVars, learningVars,
                         approvalVars, chainVars, judgementVars, inferenceVars>>

MCSpec == MCInit /\ [][MCNext]_mcVars

-----------------------------------------------------------------------------
\* Commerce. A subscription is sold under the context it was checked in and follows the
\* provider's word in order.
\*   ActiveIsConfirmed: A verified row is active only if the provider told some process so
\*     (commercial.py: a row is always inserted pending).
\*   ReferenceBeforeRow: A subscription at the provider that has a commercial row or whose
\*     creation was refused is in the provider-reference index: events and reconciliation can
\*     find it (register_provider_ref precedes the insert).
\*   ProcessedCancellationArrived: A notice of a cancellation that the ledger calls processed has
\*     reached the row, unless the provider answered that it cannot tell (not_found, unknown).
\*   InheritsOrPays: A tenant that inherits billing pays for no subscription made by
\*     create_subscription or the migration.
\*   CanceledIsFinal: A canceled row never changes its status again, however late an answer the
\*     provider gave before arrives (_apply_provider_state, lifecycle.py).
\*   InsertedUnderContext: A commercial row is inserted only while authority, tenants, plan,
\*     offer, account and merchant still allow it, whatever changed during the provider call
\*     (_insert_pending evaluates _commercial_context under row locks).
SoldUnderContext ==
    /\ [](part = "commerce" => /\ C!CommerceTypeOK /\ C!ActiveIsConfirmed /\ C!ReferenceBeforeRow
                               /\ C!ProcessedCancellationArrived /\ C!InheritsOrPays)
    /\ [][part = "commerce" => /\ C!CanceledIsFinalStep /\ C!InsertedUnderContextStep]_mcVars

\* Projections and Delivery. Events are consumed once, in order, and nothing of them outlives the
\* purge of the tenant.
\*   ConsumedIsProjected: An event recorded as consumed is in the copy of every owner still open:
\*     no later delivery will bring it (record_event_consumption comes last).
\*   NoCopyAfterPurge: No worker gives a tenant whose purge has begun a copy again
\*     (lock_open_tenant in the transaction that inserts).
\*   CopyNeverGoesBack: A copy is never replaced by an older version, however the jobs of several
\*     events overlap ("existing.source_version >= snapshot.version" under the lock).
\*   OneNotification: _dispatch_notification_job (core/notifications/service.py): however often
\*     and however concurrently an event is executed, it leaves at most one Notification row.
\*   NotSentIsTrue: _send_signed and _post_to_validated_addresses (core/webhooks/service.py) and
\*     _send_email_channel: an execution that ends "certainly not sent", which the outbox then
\*     retries as a matter of course, has put its body before nobody, also when the deadline cut
\*     it off.
\*   TombstoneIsEmpty: purge_tenant: the tombstone is written only over empty tables, those the
\*     fence protects.
\*   CompletedOnce: purge_tenant: "exactly one purge_completed per genuine tombstone write", with
\*     calls running at once, failing and being repeated.
\*   FencedTablesShrink: The lifecycle fence (lock_open_tenant in subscribe, trigger_event,
\*     dispatch_notification and _dispatch_notification_job): once a tenant is PURGING no handler
\*     still running adds a subscription, a notification or a queued event to it.
ConsumedOnceUntilPurged ==
    /\ [](part = "projections" => /\ P!ProjectionTypeOK /\ P!ConsumedIsProjected
                                  /\ P!NoCopyAfterPurge)
    /\ [][part = "projections" => P!CopyNeverGoesBackStep]_mcVars
    /\ [](part = "delivery" => /\ D!DeliveryTypeOK /\ D!PurgeTypeOK /\ D!OneNotification
                               /\ D!NotSentIsTrue /\ D!TombstoneIsEmpty /\ D!CompletedOnce)
    /\ [][part = "delivery" => D!FencedTablesShrinkStep]_mcVars

\* Learning. An adaptation is in force, one of its lineage, only on an evaluation
\* that passed its limits.
\*   OneActiveKept: Whatever is activated and rolled back at the same time, a lineage that has an
\*     active version keeps exactly one (activate_adaptation_in_session,
\*     rollback_adaptation_in_session and the partial unique index).
\*   ActivatedOnPass: A candidate becomes active only while the evaluation on its row is a pass,
\*     also when another evaluation of it is being recorded (activate_adaptation_in_session reads
\*     FOR UPDATE).
\*   CanaryMovesWithAdaptation: A canary starts with its candidate's activation and is rolled
\*     back with its adaptation's rollback, never the one without the other (start_canary,
\*     _rollback).
\*   ClosedLearnsNothing: A closed tenant's learning rows stay as they are, whatever was under
\*     way when it closed; only a refused rollback is still recorded (lock_open_tenant,
\*     _rollback).
\*   PassIsWithinLimits: A candidate that passes its evaluation violates none of the monitoring
\*     thresholds of the same rules: a canary that starts on a PASS is not rolled back for the
\*     very metrics it passed with (evaluate_candidate against _violated_metrics).
\*   RepeatAddsNothing: Reporting once more, at any time up to the latest observation, what an
\*     observation within the window already reports changes neither the verdict nor the
\*     confidence (detect_recurrence).
LearnsOnEvidence ==
    /\ [](part = "learning" => L!LearningTypeOK)
    /\ [][part = "learning" => /\ L!OneActiveKeptStep /\ L!ActivatedOnPassStep
                               /\ L!CanaryMovesWithAdaptationStep /\ L!ClosedLearnsNothingStep]_mcVars
    /\ [](part = "judgement" => L!PassIsWithinLimits /\ L!RepeatAddsNothing)

\* DecisionChain. An effect rests on an approval that another person gave and that
\* is on record.
\*   EffectWasApproved: The tool has its effect only after somebody other than its proposer
\*     approved it, whatever is decided and executed at the same time (approve,
\*     _claim_for_execution).
\*   DecidedByAnother: No row names its proposer as the one who decided (approve's check and the
\*     CHECK constraint).
\*   ExecutingIsHeld: "must never permanently strand the approval": a request is executing only
\*     while some execution of it is under way, or was when its process stopped
\*     (execute_approved).
\*   RestsOnRecord: A recorded permission rests on recorded permissions only: behind every
\*     recorded ALLOW of the gate there is a recorded PASS and a recorded learning ALLOW of its
\*     own tenant, and behind that a recorded data ALLOW of it (authorize_learning_use,
\*     run_evaluation, evaluate_and_record_policy_gate_decision).
\*   ProposalRestsOnRecord: Every proposal on record rests on a recorded learning ALLOW of its
\*     own tenant, which rests on a recorded data ALLOW of it (propose_system_learning_proposal).
\*   GateReadsStoredApproval: A recorded tier 1 ALLOW is given only while the stored approval is
\*     an approved one, however old the copy the caller passes (_approval_is_stored_as_given).
ActsOnRecordedApproval ==
    /\ [](part = "approvals" => /\ H!ApprovalTypeOK /\ H!EffectWasApproved /\ H!DecidedByAnother
                                /\ H!ExecutingIsHeld)
    /\ [](part = "chain" => /\ H!ChainTypeOK /\ H!ProposalTypeOK /\ H!RestsOnRecord
                            /\ H!ProposalRestsOnRecord)
    /\ [][part = "chain" => H!GateReadsStoredApprovalStep]_mcVars

\* Inference. An inference call goes where the policy of the moment sends it, once, and is
\* accounted once.
\*   AcceptedAtMostOnce: A request is sent again only while no provider may have accepted it:
\*     retries, fallbacks, cancellations and crashes included, at most one of its sends can have
\*     been processed, whichever way the exchange failed and whichever protocol classified it
\*     (error_from_egress, error_for_status, the adapters' complete, _attempt_all).
\*   AcceptanceIsRecorded: What a provider may have processed is on record as such: its attempt is
\*     open, or succeeded, or says possibly accepted (_settle, _abandon_stale).
\*   SecretToConfirmedOrigin: A credential only ever goes to an origin an administrator bound
\*     that very credential to, whatever is changed while the call is under way
\*     (create_provider, update_provider_endpoint, set_provider_credential_ref,
\*     confirm_provider_binding, load_snapshot).
\*   UsageOncePerSuccess: Usage is ingested once for an attempt that succeeded, and for no other
\*     (_settle: one transaction).
\*   SentUnderSlotStep: A request leaves only in a call that still holds its slot, and no more
\*     slots are held than the tenant has: a call that outlived its lease sends nothing more
\*     (RedisAdmission.admit, EgressClient._request, run_inference's finally).
\*   StartsOnFreshPolicyStep: An attempt starts for a caller that is authorized, at a destination
\*     that is eligible, and with the endpoint, the credential and the trusted networks that
\*     stand, at that moment: not those of the resolution earlier in the call (_begin_attempt).
\*   SentWhereGrantedStep: No part of a request goes where data of its rank is not granted by the
\*     use case, the tenant and the installation (validate_request, evaluate).
\*   SettledOnceStep: What was sent has its row, and a row that has left started never changes
\*     again: an abandoned attempt is not settled by its late answer (_settle, _abandon_stale).
InferenceIsGoverned ==
    /\ [](part = "inference" => /\ N!InferenceTypeOK /\ N!AcceptedAtMostOnce
                                /\ N!AcceptanceIsRecorded /\ N!SecretToConfirmedOrigin
                                /\ N!UsageOncePerSuccess)
    /\ [][part = "inference" => /\ N!StartsOnFreshPolicyStep /\ N!SentWhereGrantedStep
                                /\ N!SettledOnceStep /\ N!SentUnderSlotStep]_mcVars

=============================================================================
