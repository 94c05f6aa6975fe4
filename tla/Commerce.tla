------------------------------ MODULE Commerce ------------------------------
(***************************************************************************)
(* Commercial subscriptions (core/billing): one service tenant, a payer    *)
(* with one billing account, a seller with one merchant account and one    *)
(* plan.  commercial.py creates a subscription at the provider between two *)
(* database transactions, provider_events.py and                           *)
(* reconcile_subscription_status() copy the provider's state into the row, *)
(* cancellation goes to the provider first.                                *)
(*                                                                         *)
(* A transaction whose rows stay locked until it ends is one step; the     *)
(* final transaction of a creation is two, because the rows it read FOR    *)
(* SHARE must not change before it commits.  Every provider call is a step *)
(* of its own, and a process may die between any two steps.                *)
(***************************************************************************)
EXTENDS Integers, Sequences, FiniteSets

CONSTANTS
    Keys,       \* reservations: one idempotency record, one subscription id each
    Legacy,     \* the subscription a legacy subscribe() left behind
    Callers,    \* processes
    Markets,    \* commercial situations to start from, with the calls then made
    MaxEvents   \* bound on the state changes of subscriptions at the provider

Subscriptions == Keys \cup {Legacy}
States == {"pending", "active", "past_due", "canceled"}
Live == {"pending", "active", "past_due"}
NoRow == [status |-> "none", verified |-> FALSE, plan |-> "none"]

VARIABLES
    market,     \* the committed rows of tenants, plan, offer, parties, authority
    records,    \* status of every idempotency record
    provider,   \* the provider's subscriptions
    notices,    \* the provider's notices: one for each of its state changes
    ledger,     \* core.billing_provider_events: status of every notice
    refs,       \* subscriptions in the provider-reference index
    subs,       \* core.billing_subscriptions
    calls,      \* the processes
    todo,       \* calls not made yet
    audit,      \* refused creations and issued payment pages in the audit log
    confirmed   \* history: the subscriptions processes were told are active, or cannot be told of

commerceVars == <<market, records, provider, notices, ledger, refs, subs, calls, todo,
                  audit, confirmed>>

Idle == [step |-> "idle", ask |-> [op |-> "none"], known |-> FALSE, state |-> "none"]

-----------------------------------------------------------------------------
(* The lifecycle.                                                          *)

Transitions == [pending  |-> {"active", "past_due", "canceled"},
                active   |-> {"past_due", "canceled"},
                past_due |-> {"active", "canceled"},
                canceled |-> {}]

AllowedAlways(from, to) == TRUE
Allowed(from, to) == from = to \/ to \in Transitions[from]

\* The rows of the partial unique index: one merchant, so at most one of them.
LiveRows == {s \in Subscriptions : subs[s].verified /\ subs[s].status \in Live}

-----------------------------------------------------------------------------
(* May this plan be bought by this tenant and charged to this account?     *)

VisibleTo(m) ==
    CASE m.visibility = "public" -> TRUE
      [] m.visibility = "descendants" -> m.below
      [] m.visibility = "private" -> "catalog" \in m.held
      [] m.visibility = "unlisted" -> m.offer

EvaluatePlanEligibility(m) ==
    /\ "service" \in m.open
    /\ m.adopted
    /\ m.plan = "active"
    /\ "create" \in m.held
    /\ m.merchant = "active"
    /\ VisibleTo(m)

Required(op) == {"charge", "create"} \cup (IF op = "migrate" THEN {"change"} ELSE {})

\* What precedes the inheritance check: authority and two open tenants.
Admitted(m, op) == Required(op) \subseteq m.held /\ {"service", "payer"} \subseteq m.open

Migratable(m) == m.inherits /\ \A s \in Subscriptions : subs[s].status \notin Live

OwnsBillingUnchecked(m, op) == op = "migrate" => Migratable(m)
OwnsBilling(m, op) == IF op = "migrate" THEN Migratable(m) ELSE ~m.inherits

CommercialContext(m, op) ==
    /\ Admitted(m, op)
    /\ OwnsBilling(m, op)
    /\ m.account = "active"
    /\ EvaluatePlanEligibility(m)

\* The rows a creation's final transaction holds FOR SHARE until it commits.
Shared == {"service", "payer", "plan", "account", "merchant", "authority"}
          \cup (IF market.visibility = "unlisted" THEN {"offer"} ELSE {})

RowFreeAlways(row) == TRUE
RowFree(row) == \A c \in Callers : calls[c].step = "insert" => row \notin Shared

\* A migration locks its tenant's row FOR UPDATE before anything else.
MayLockTenant(op) ==
    \A c \in Callers : calls[c].step = "insert" => op # "migrate" /\ calls[c].ask.op # "migrate"

-----------------------------------------------------------------------------
(* Steps of a process.                                                     *)

Take(c, a) ==
    /\ \E d \in Callers : calls[d].step = "idle"
    /\ c = CHOOSE d \in Callers : calls[d].step = "idle"
    /\ a \in todo
    /\ todo' = todo \ {a}

Enter(c, a, step) == calls' = [calls EXCEPT ![c] = [Idle EXCEPT !.step = step, !.ask = a]]
Refuse == UNCHANGED calls
Goto(c, step) == calls' = [calls EXCEPT ![c].step = step]
Return(c) == calls' = [calls EXCEPT ![c] = Idle]
At(c, step) == calls[c].step = step
Key(c) == calls[c].ask.key

\* _create_commercial_subscription, the first transaction.
CheckContext(c, a) ==
    /\ a.op \in {"create", "migrate"}
    /\ Take(c, a)
    /\ IF CommercialContext(market, a.op) THEN Enter(c, a, "reserve")
       ELSE IF a.op = "migrate" /\ Admitted(market, a.op) /\ ~OwnsBilling(market, a.op)
            THEN Enter(c, a, "replay")
            ELSE Refuse
    /\ UNCHANGED <<market, records, provider, notices, ledger, refs, subs, audit, confirmed>>

\* begin_idempotent_operation; a pending record may have outlived its TTL.
Reserve(c) ==
    /\ calls[c].step \in {"reserve", "replay"}
    /\ \/ /\ "service" \in market.open
          /\ records[Key(c)] # "succeeded"
          /\ records' = [records EXCEPT ![Key(c)] = "pending"]
          /\ Goto(c, IF At(c, "reserve") THEN "find" ELSE "fail")
       \/ /\ \/ "service" \notin market.open
             \/ records[Key(c)] \in {"pending", "succeeded"}
          /\ Return(c)
          /\ UNCHANGED records
    /\ UNCHANGED <<market, provider, notices, ledger, refs, subs, todo, audit, confirmed>>

FindById(c) ==
    /\ At(c, "find")
    /\ LET there == subs[Key(c)].status # "none"
       IN  calls' = [calls EXCEPT ![c].step = IF there THEN "register" ELSE "find_ref",
                                  ![c].known = there]
    /\ UNCHANGED <<market, records, provider, notices, ledger, refs, subs, todo, audit,
                   confirmed>>

FindProviderObjectRef(c) ==
    /\ At(c, "find_ref")
    /\ Goto(c, IF Key(c) \in refs THEN "register" ELSE "find_live")
    /\ UNCHANGED <<market, records, provider, notices, ledger, refs, subs, todo, audit,
                   confirmed>>

LiveSubscriptionExists(c) ==
    /\ At(c, "find_live")
    /\ Goto(c, IF LiveRows # {} THEN "fail" ELSE "customer")
    /\ UNCHANGED <<market, records, provider, notices, ledger, refs, subs, todo, audit,
                   confirmed>>

\* The provider returns the same customer whenever it is asked for one.
EnsureProviderCustomer(c) ==
    /\ At(c, "customer")
    /\ \/ Goto(c, "create") /\ market' = [market EXCEPT !.customer = TRUE]
       \/ Goto(c, "fail") /\ market' \in {market, [market EXCEPT !.customer = TRUE]}
    /\ UNCHANGED <<records, provider, notices, ledger, refs, subs, todo, audit, confirmed>>

\* The provider creates one subscription for one idempotency key.
ProviderCreates(c) ==
    /\ At(c, "create")
    /\ \/ /\ provider' = IF provider[Key(c)] = "none"
                         THEN [provider EXCEPT ![Key(c)] = "pending"] ELSE provider
          /\ Goto(c, "register") \/ Goto(c, "fail")
       \/ UNCHANGED provider /\ Goto(c, "fail")
    /\ UNCHANGED <<market, records, notices, ledger, refs, subs, todo, audit, confirmed>>

RegisterLate(c) ==
    /\ At(c, "register")
    /\ Goto(c, IF calls[c].known THEN "ask" ELSE "open")
    /\ refs' = IF calls[c].known THEN refs \cup {Key(c)} ELSE refs
    /\ UNCHANGED <<market, records, provider, notices, ledger, subs, todo, audit, confirmed>>

\* register_provider_ref
RegisterProviderRef(c) ==
    /\ At(c, "register")
    /\ refs' = refs \cup {Key(c)}
    /\ Goto(c, IF calls[c].known THEN "ask" ELSE "open")
    /\ UNCHANGED <<market, records, provider, notices, ledger, subs, todo, audit, confirmed>>

OpenInsertUnchecked(c) ==
    /\ At(c, "open")
    /\ MayLockTenant(calls[c].ask.op)
    /\ Goto(c, "insert")
    /\ UNCHANGED <<market, records, provider, notices, ledger, refs, subs, todo, audit,
                   confirmed>>

\* _insert_pending: the context once more, in the transaction that inserts.
OpenInsert(c) ==
    /\ At(c, "open")
    /\ MayLockTenant(calls[c].ask.op)
    /\ Goto(c, IF CommercialContext(market, calls[c].ask.op) THEN "insert" ELSE "refuse")
    /\ UNCHANGED <<market, records, provider, notices, ledger, refs, subs, todo, audit,
                   confirmed>>

PendingRow == [status |-> "pending", verified |-> TRUE, plan |-> "bought"]
ActiveRow == [PendingRow EXCEPT !.status = "active"]

InsertActive(c) ==
    /\ At(c, "insert")
    /\ IF subs[Key(c)].status = "none" /\ LiveRows \ {Key(c)} = {}
       THEN subs' = [subs EXCEPT ![Key(c)] = ActiveRow] /\ Goto(c, "ask")
       ELSE UNCHANGED subs /\ Goto(c, "refuse")
    /\ UNCHANGED <<market, records, provider, notices, ledger, refs, todo, audit, confirmed>>

\* The flush and commit of _insert_pending: the row's own key may be taken by
\* another process with the same reservation, or the index of live rows.
InsertPending(c) ==
    /\ At(c, "insert")
    /\ IF subs[Key(c)].status # "none"
       THEN UNCHANGED <<subs, market>> /\ Goto(c, "ask")
       ELSE IF LiveRows \ {Key(c)} # {}
            THEN UNCHANGED <<subs, market>> /\ Goto(c, "refuse")
            ELSE /\ subs' = [subs EXCEPT ![Key(c)] = PendingRow]
                 /\ market' = [market EXCEPT !.inherits =
                                   @ /\ calls[c].ask.op # "migrate"]
                 /\ Goto(c, "ask")
    /\ UNCHANGED <<records, provider, notices, ledger, refs, todo, audit, confirmed>>

AuditRefusedCreation(c) ==
    /\ At(c, "refuse")
    /\ audit' = audit \cup {<<"refused", Key(c)>>}
    /\ Goto(c, "fail")
    /\ UNCHANGED <<market, records, provider, notices, ledger, refs, subs, todo, confirmed>>

\* finalize_idempotent_operation
Finalize(c) ==
    /\ calls[c].step \in {"fail", "succeed"}
    /\ records' = [records EXCEPT ![Key(c)] = IF At(c, "fail") THEN "failed" ELSE "succeeded"]
    /\ Return(c)
    /\ UNCHANGED <<market, provider, notices, ledger, refs, subs, todo, audit, confirmed>>

-----------------------------------------------------------------------------
(* The provider's state becomes the row's.                                 *)

Of(c) == calls[c].ask.key

Told == Subscriptions \X {"active", "unknown"}

\* A verified row whose reference leads back to it.
VerifyProviderReference(s) == subs[s].verified /\ s \in refs

ReconcileSubscriptionStatus(c, a) ==
    /\ a.op = "reconcile"
    /\ Take(c, a)
    /\ IF "read" \in market.held /\ VerifyProviderReference(a.key)
       THEN Enter(c, a, "ask") ELSE Refuse
    /\ UNCHANGED <<market, records, provider, notices, ledger, refs, subs, audit, confirmed>>

\* get_subscription_status, by creation, reconciliation and event processing: the state, one
\* that says nothing (not_found, or a status _STRIPE_STATES does not have), or no answer.
AskStatus(c) ==
    /\ At(c, "ask")
    /\ \/ \E state \in {provider[Of(c)], "unknown"} :
             /\ calls' = [calls EXCEPT ![c].step = "apply", ![c].state = state]
             /\ confirmed' = confirmed \cup ({<<Of(c), state>>} \cap Told)
       \/ /\ CASE calls[c].ask.op = "event" -> Goto(c, "mark_failed")
               [] calls[c].ask.op = "reconcile" -> Return(c)
               [] OTHER -> Goto(c, "succeed")
          /\ UNCHANGED confirmed
    /\ UNCHANGED <<market, records, provider, notices, ledger, refs, subs, todo, audit>>

\* The billing system caller of an event needs no permission.
ReadsAs(op) == CASE op = "event" -> {} [] op = "reconcile" -> {"read"} [] OTHER -> Required(op)

ApplyProviderState(c) ==
    /\ At(c, "apply")
    /\ LET s == Of(c)
           may == ReadsAs(calls[c].ask.op) \subseteq market.held
           moves == may /\ calls[c].state # "unknown" /\ Allowed(subs[s].status, calls[c].state)
       IN  subs' = IF moves THEN [subs EXCEPT ![s].status = calls[c].state] ELSE subs
    /\ CASE calls[c].ask.op = "event" -> Goto(c, "mark_processed")
         [] calls[c].ask.op = "reconcile" -> Return(c)
         [] OTHER -> Goto(c, "succeed")
    /\ UNCHANGED <<market, records, provider, notices, ledger, refs, todo, audit, confirmed>>

-----------------------------------------------------------------------------
(* Provider events.                                                        *)

Notices == 1..MaxEvents
Done == {"processed", "ignored"}

\* _claim: a notice already done is not processed again.
ClaimEvent(c, n) ==
    /\ n \in DOMAIN notices
    /\ ledger[n] \notin Done
    /\ \E d \in Callers : calls[d].step = "idle"
    /\ c = CHOOSE d \in Callers : calls[d].step = "idle"
    /\ ledger' = [ledger EXCEPT ![n] = IF @ = "none" THEN "received" ELSE @]
    /\ Enter(c, [op |-> "event", key |-> notices[n].of, n |-> n], "resolve")
    /\ UNCHANGED <<market, records, provider, notices, refs, subs, todo, audit, confirmed>>

\* _resolve and the start of the reconciliation.  A subscription unknown for
\* longer than the grace period is ignored.
ResolveEvent(c) ==
    /\ At(c, "resolve")
    /\ IF Of(c) \in refs /\ subs[Of(c)].status # "none"
       THEN Goto(c, IF subs[Of(c)].verified THEN "ask" ELSE "mark_ignored")
       ELSE Goto(c, "mark_failed") \/ Goto(c, "mark_ignored")
    /\ UNCHANGED <<market, records, provider, notices, ledger, refs, subs, todo, audit,
                   confirmed>>

MarkOverwrites(c) ==
    /\ calls[c].step \in {"mark_processed", "mark_ignored", "mark_failed"}
    /\ ledger' = [ledger EXCEPT ![calls[c].ask.n] = "processed"]
    /\ Return(c)
    /\ UNCHANGED <<market, records, provider, notices, refs, subs, todo, audit, confirmed>>

\* _mark and _mark_failed: a done or pruned notice is left alone.
MarkEvent(c) ==
    /\ calls[c].step \in {"mark_processed", "mark_ignored", "mark_failed"}
    /\ LET mark == [mark_processed |-> "processed", mark_ignored |-> "ignored",
                    mark_failed |-> "failed"]
       IN  ledger' = [ledger EXCEPT ![calls[c].ask.n] =
                          IF @ \in Done \cup {"none"} THEN @ ELSE mark[calls[c].step]]
    /\ Return(c)
    /\ UNCHANGED <<market, records, provider, notices, refs, subs, todo, audit, confirmed>>

-----------------------------------------------------------------------------
(* Cancellation.                                                           *)

CancelNeeds(a) == CASE a.as = "service" -> "cancel"
                    [] a.as = "payer" -> "charge"
                    [] a.as = "merchant" -> "manage"

\* cancel_commercial_subscription up to the provider call.
StartCancel(c, a) ==
    /\ a.op = "cancel"
    /\ Take(c, a)
    /\ IF /\ CancelNeeds(a) \in market.held
          /\ VerifyProviderReference(a.key)
          /\ subs[a.key].status # "canceled"
       THEN Enter(c, a, "cancel_provider") ELSE Refuse
    /\ UNCHANGED <<market, records, provider, notices, ledger, refs, subs, audit, confirmed>>

Moved(s, state) == /\ provider' = [provider EXCEPT ![s] = state]
                   /\ notices' = Append(notices, [of |-> s, state |-> state])

\* cancel_at_provider: an error is fine when the provider then says canceled.
CancelAtProvider(c) ==
    /\ At(c, "cancel_provider")
    /\ \/ /\ provider[Of(c)] # "canceled" /\ Len(notices) < MaxEvents
          /\ Moved(Of(c), "canceled")
          /\ Goto(c, "cancel_row") \/ Return(c)
       \/ /\ provider[Of(c)] = "canceled"
          /\ UNCHANGED <<provider, notices>>
          /\ Goto(c, "cancel_row") \/ Return(c)
       \/ /\ provider[Of(c)] # "canceled"
          /\ UNCHANGED <<provider, notices>>
          /\ Return(c)
    /\ UNCHANGED <<market, records, ledger, refs, subs, todo, audit, confirmed>>

\* The final transaction: authority again, then the locked row.
CommitCancel(c) ==
    /\ At(c, "cancel_row")
    /\ subs' = IF CancelNeeds(calls[c].ask) \in market.held
               THEN [subs EXCEPT ![Of(c)].status = "canceled"] ELSE subs
    /\ Return(c)
    /\ UNCHANGED <<market, records, provider, notices, ledger, refs, todo, audit, confirmed>>

-----------------------------------------------------------------------------
(* The payment page.                                                       *)

Payable(s) == /\ subs[s].status \in {"pending", "past_due"}
              /\ market.account = "active" /\ market.merchant = "active"

MaySeePage == {"read", "charge"} \subseteq market.held

GetPaymentPage(c, a) ==
    /\ a.op = "page"
    /\ Take(c, a)
    /\ IF MaySeePage /\ VerifyProviderReference(a.key) /\ Payable(a.key)
       THEN Enter(c, a, "page") ELSE Refuse
    /\ UNCHANGED <<market, records, provider, notices, ledger, refs, subs, audit, confirmed>>

PaymentPageUrl(c) ==
    /\ At(c, "page")
    /\ Goto(c, "page_issued") \/ Return(c)
    /\ UNCHANGED <<market, records, provider, notices, ledger, refs, subs, todo, audit,
                   confirmed>>

\* The page is handed out only under an authority that still holds.
RecordPaymentPageIssued(c) ==
    /\ At(c, "page_issued")
    /\ audit' = IF MaySeePage /\ Payable(Of(c)) THEN audit \cup {<<"page", Of(c)>>} ELSE audit
    /\ Return(c)
    /\ UNCHANGED <<market, records, provider, notices, ledger, refs, subs, todo, confirmed>>

-----------------------------------------------------------------------------
(* The legacy subscription: subscribe() wrote it without payer or merchant. *)

\* reconcile_legacy_subscription up to the provider call.
StartLegacyReconciliation(c, a) ==
    /\ a.op = "reconcile_legacy"
    /\ Take(c, a)
    /\ IF /\ Admitted(market, "create")
          /\ subs[a.key].status # "none" /\ ~subs[a.key].verified
          /\ market.account = "active" /\ market.merchant = "active"
       THEN calls' = [calls EXCEPT ![c] = [step |-> "ask_legacy", ask |-> a, known |-> FALSE,
                                           state |-> subs[a.key].status]]
       ELSE Refuse
    /\ UNCHANGED <<market, records, provider, notices, ledger, refs, subs, audit, confirmed>>

\* The provider must confirm a state the status read before may move to.
AskLegacyStatus(c) ==
    /\ At(c, "ask_legacy")
    /\ \/ /\ Allowed(calls[c].state, provider[Of(c)])
          /\ calls' = [calls EXCEPT ![c].step = "register_legacy", ![c].state = provider[Of(c)]]
          /\ confirmed' = confirmed \cup ({<<Of(c), provider[Of(c)]>>} \cap Told)
       \/ Return(c) /\ UNCHANGED confirmed
    /\ UNCHANGED <<market, records, provider, notices, ledger, refs, subs, todo, audit>>

RegisterLegacyRef(c) ==
    /\ At(c, "register_legacy")
    /\ refs' = refs \cup {Of(c)}
    /\ Goto(c, "verify_row")
    /\ UNCHANGED <<market, records, provider, notices, ledger, subs, todo, audit, confirmed>>

\* The final transaction; the index admits one live row, and
\* set_subscription_status raises on a transition that is not allowed.
CommitLegacyReconciliation(c) ==
    /\ At(c, "verify_row")
    /\ LET s == Of(c)
       IN  subs' = IF /\ Admitted(market, "create")
                      /\ ~subs[s].verified
                      /\ Allowed(subs[s].status, calls[c].state)
                      /\ calls[c].state \in Live => LiveRows = {}
                   THEN [subs EXCEPT ![s].status = calls[c].state, ![s].verified = TRUE]
                   ELSE subs
    /\ Return(c)
    /\ UNCHANGED <<market, records, provider, notices, ledger, refs, todo, audit, confirmed>>

\* _refuse_commercial, asked before the provider call and in the final transaction.
NotCommercial(s) == ~subs[s].verified

\* cancel_subscription and upgrade_subscription of the legacy path.
StartLegacyChange(c, a) ==
    /\ a.op \in {"legacy_cancel", "legacy_upgrade"}
    /\ Take(c, a)
    /\ IF /\ ~market.inherits
          /\ subs[a.key].status # "none" /\ ~subs[a.key].verified
          /\ a.op = "legacy_upgrade" => "service" \in market.open /\ market.plan = "active"
       THEN Enter(c, a, "legacy_provider") ELSE Refuse
    /\ UNCHANGED <<market, records, provider, notices, ledger, refs, subs, audit, confirmed>>

LegacyAtProvider(c) ==
    /\ At(c, "legacy_provider")
    /\ \/ /\ calls[c].ask.op = "legacy_cancel"
          /\ provider[Of(c)] # "canceled" /\ Len(notices) < MaxEvents
          /\ Moved(Of(c), "canceled")
          /\ Goto(c, "legacy_row") \/ Return(c)
       \/ /\ calls[c].ask.op = "legacy_upgrade" \/ provider[Of(c)] = "canceled"
          /\ UNCHANGED <<provider, notices>>
          /\ Goto(c, "legacy_row")
       \/ UNCHANGED <<provider, notices>> /\ Return(c)
    /\ UNCHANGED <<market, records, ledger, refs, subs, todo, audit, confirmed>>

CommitLegacyChange(c) ==
    /\ At(c, "legacy_row")
    /\ LET s == Of(c)
           new == IF calls[c].ask.op = "legacy_cancel"
                  THEN [subs[s] EXCEPT !.status = "canceled"]
                  ELSE [subs[s] EXCEPT !.plan = "bought"]
           may == /\ NotCommercial(s)
                  /\ calls[c].ask.op = "legacy_upgrade" => market.plan = "active"
       IN  subs' = IF may THEN [subs EXCEPT ![s] = new] ELSE subs
    /\ Return(c)
    /\ UNCHANGED <<market, records, provider, notices, ledger, refs, todo, audit, confirmed>>

-----------------------------------------------------------------------------
(* Changes of the rows a creation depends on: catalog, parties, tenants.   *)

ChangeMarket(a, row, may, new) ==
    /\ a \in todo
    /\ RowFree(row)
    /\ todo' = todo \ {a}
    /\ market' = IF may THEN new ELSE market
    /\ UNCHANGED <<records, provider, notices, ledger, refs, subs, calls, audit, confirmed>>

WithdrawPlan(a) == /\ a.op = "withdraw"
                   /\ ChangeMarket(a, "plan", market.adopted,
                                   [market EXCEPT !.plan = "withdrawn"])

SetPlanVisibility(a) == /\ a.op = "set_visibility"
                        /\ ChangeMarket(a, "plan", market.adopted,
                                        [market EXCEPT !.visibility = a.to])

\* adopt_legacy_plan gives an ownerless plan its owner and merchant.
AdoptLegacyPlan(a) ==
    /\ a.op = "adopt"
    /\ ChangeMarket(a, "plan", /\ ~market.adopted /\ market.merchant # "disabled"
                               /\ "merchant" \in market.open,
                    [market EXCEPT !.adopted = TRUE, !.visibility = a.to])

CreatePlanOffer(a) ==
    /\ a.op = "offer"
    /\ ChangeMarket(a, "none", /\ market.plan = "active" /\ market.adopted
                               /\ {"merchant", "service"} \subseteq market.open,
                    [market EXCEPT !.offer = TRUE])

RevokePlanOffer(a) == /\ a.op = "revoke_offer"
                      /\ ChangeMarket(a, "offer", TRUE, [market EXCEPT !.offer = FALSE])

SetMerchantAccountStatus(a) ==
    /\ a.op = "merchant_status"
    /\ ChangeMarket(a, "merchant", a.to = "active" => "merchant" \in market.open,
                    [market EXCEPT !.merchant = a.to])

\* get_or_create_billing_account: an existing account is returned as it is.
OpenBillingAccount(a) ==
    /\ a.op = "open_account"
    /\ ChangeMarket(a, "none", /\ market.merchant = "active" /\ market.account = "none"
                               /\ "payer" \in market.open,
                    [market EXCEPT !.account = "active"])

OptOutOfBillingInheritance(a) ==
    /\ a.op = "opt_out"
    /\ ChangeMarket(a, "service", "change" \in market.held,
                    [market EXCEPT !.inherits = FALSE])

\* Tenants are closed and authority is taken away by other components.
CloseTenant(a) == /\ a.op = "close"
                  /\ ChangeMarket(a, a.of, TRUE, [market EXCEPT !.open = @ \ {a.of}])
LoseAuthority(a) == /\ a.op = "revoke"
                    /\ ChangeMarket(a, "authority", TRUE, [market EXCEPT !.held = @ \ {a.of}])

-----------------------------------------------------------------------------
(* The provider and the processes on their own.                            *)

\* A payment succeeds or fails, the provider cancels. How often this, a crash
\* and a prune may happen is part of the situation a behaviour starts in.
Chance(op) == \E a \in todo : a.op = op /\ todo' = todo \ {a}

ProviderMoves(s) ==
    /\ Chance("move")
    /\ Len(notices) < MaxEvents
    /\ provider[s] # "none"
    /\ \E state \in Transitions[provider[s]] : Moved(s, state)
    /\ UNCHANGED <<market, records, ledger, refs, subs, calls, audit, confirmed>>

\* prune_provider_events: a ledger row past its retention is deleted.
PruneEvents(n) ==
    /\ Chance("prune")
    /\ ledger[n] \in Done
    /\ \A c \in Callers : calls[c].ask.op = "event" => calls[c].ask.n # n
    /\ ledger' = [ledger EXCEPT ![n] = "none"]
    /\ UNCHANGED <<market, records, provider, notices, refs, subs, calls, audit, confirmed>>

Crash(c) ==
    /\ Chance("crash")
    /\ calls[c].step # "idle"
    /\ Return(c)
    /\ UNCHANGED <<market, records, provider, notices, ledger, refs, subs, audit, confirmed>>

CommerceInit ==
    \E m \in Markets :
      /\ market = m.rows
      /\ todo = m.asks
      /\ records = [k \in Keys |-> "none"]
      /\ provider = [s \in Subscriptions |-> IF s \in m.sold THEN "active" ELSE "none"]
      /\ subs = [s \in Subscriptions |->
                    IF s \in m.sold
                    THEN [status |-> "active", verified |-> s # Legacy, plan |-> "bought"]
                    ELSE NoRow]
      /\ refs = m.sold \ {Legacy}
      /\ confirmed = (m.sold \ {Legacy}) \X {"active"}
      /\ notices = <<>>
      /\ ledger = [n \in Notices |-> "none"]
      /\ calls = [c \in Callers |-> Idle]
      /\ audit = {}

Create(c) == \/ Reserve(c) \/ FindById(c) \/ FindProviderObjectRef(c)
             \/ LiveSubscriptionExists(c) \/ EnsureProviderCustomer(c) \/ ProviderCreates(c)
             \/ RegisterProviderRef(c) \/ OpenInsert(c) \/ InsertPending(c)
             \/ AuditRefusedCreation(c) \/ Finalize(c)

Start(c, a) == \/ CheckContext(c, a) \/ ReconcileSubscriptionStatus(c, a)
               \/ StartCancel(c, a) \/ GetPaymentPage(c, a)
               \/ StartLegacyReconciliation(c, a) \/ StartLegacyChange(c, a)

ProcessProviderEvent(c) == ResolveEvent(c) \/ MarkEvent(c)

Work(c) == \/ Create(c) \/ AskStatus(c) \/ ApplyProviderState(c)
           \/ ProcessProviderEvent(c)
           \/ CancelAtProvider(c) \/ CommitCancel(c)
           \/ PaymentPageUrl(c) \/ RecordPaymentPageIssued(c)
           \/ AskLegacyStatus(c) \/ RegisterLegacyRef(c) \/ CommitLegacyReconciliation(c)
           \/ LegacyAtProvider(c) \/ CommitLegacyChange(c)

Market(a) == \/ WithdrawPlan(a) \/ SetPlanVisibility(a) \/ AdoptLegacyPlan(a)
             \/ CreatePlanOffer(a) \/ RevokePlanOffer(a) \/ SetMerchantAccountStatus(a)
             \/ OpenBillingAccount(a) \/ OptOutOfBillingInheritance(a)
             \/ CloseTenant(a) \/ LoseAuthority(a)

CommerceNext ==
    \/ \E c \in Callers : Work(c) \/ Crash(c)
    \/ \E c \in Callers, a \in todo : Start(c, a)
    \/ \E c \in Callers, n \in Notices : ClaimEvent(c, n)
    \/ \E n \in Notices : PruneEvents(n)
    \/ \E a \in todo : Market(a)
    \/ \E s \in Subscriptions : ProviderMoves(s)

CommerceSpec == CommerceInit /\ [][CommerceNext]_commerceVars

-----------------------------------------------------------------------------
(* Properties.                                                             *)

CommerceTypeOK ==
    /\ records \in [Keys -> {"none", "pending", "succeeded", "failed"}]
    /\ provider \in [Subscriptions -> States \cup {"none"}]
    /\ ledger \in [Notices -> Done \cup {"none", "received", "failed"}]
    /\ refs \subseteq Subscriptions
    /\ \A s \in Subscriptions : subs[s].status \in States \cup {"none"}

CanceledIsFinalStep ==
    \A s \in Subscriptions : subs[s].status = "canceled" => subs'[s].status = "canceled"

\* A canceled row never changes its status again, however late an answer the
\* provider gave before arrives (_apply_provider_state, lifecycle.py).
CanceledIsFinal == [][CanceledIsFinalStep]_commerceVars

\* A verified row is active only if the provider told some process so
\* (commercial.py: a row is always inserted pending).
ActiveIsConfirmed ==
    \A s \in Subscriptions : subs[s].verified /\ subs[s].status = "active" => <<s, "active">> \in confirmed

InsertedUnderContextStep ==
    \A k \in Keys : subs[k].status = "none" /\ subs'[k].status # "none"
        => \E op \in {"create", "migrate"} : CommercialContext(market, op)

\* A commercial row is inserted only while authority, tenants, plan, offer,
\* account and merchant still allow it, whatever changed during the provider
\* call (_insert_pending evaluates _commercial_context under row locks).
InsertedUnderContext == [][InsertedUnderContextStep]_commerceVars

\* A subscription at the provider that has a commercial row or whose creation
\* was refused is in the provider-reference index: events and reconciliation
\* can find it (register_provider_ref precedes the insert).
ReferenceBeforeRow ==
    \A s \in Subscriptions : subs[s].verified \/ <<"refused", s>> \in audit => s \in refs

\* A notice of a cancellation that the ledger calls processed has reached the row, unless the
\* provider answered a process that it cannot tell: such an answer changes nothing, and its
\* notice is processed all the same (process_provider_event, _apply_provider_state).
ProcessedCancellationArrived ==
    \A n \in DOMAIN notices :
        notices[n].state = "canceled" /\ ledger[n] = "processed"
            => subs[notices[n].of].status = "canceled" \/ <<notices[n].of, "unknown">> \in confirmed

\* A tenant that inherits billing pays for no subscription that create_subscription or the
\* migration made; a legacy subscription of its own may still be verified for it, since
\* reconcile_legacy_subscription does not ask whether it inherits.
InheritsOrPays == market.inherits => LiveRows \subseteq {Legacy}
=============================================================================
