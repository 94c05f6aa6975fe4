------------------------------ MODULE Inference -----------------------------
(***************************************************************************)
(* Governed inference: one call of run_inference from its authorization to  *)
(* its settlement, beside the administration of providers, models, aliases, *)
(* endpoint trust and policies (control_plane/inference: service.py,        *)
(* resolution.py, adapters/, config/).                                      *)
(*                                                                          *)
(* Every database transaction is one step; between two of them anything     *)
(* else may happen.  What becomes of an exchange with a provider is         *)
(* nondeterminate; the protocol adapters classify it.  A provider stands    *)
(* for itself and its one model.  Data is classified by its rank            *)
(* (CLASSIFICATION_RANK).  What a request asks for beyond its classification *)
(* (capabilities, size) does not change in a call, and a request that fails *)
(* on it ends like one whose destination is not eligible.                   *)
(***************************************************************************)
EXTENDS Naturals, Sequences, FiniteSets, FiniteSetsExt, Functions, TLC

CONSTANTS
    Requests,      \* calls of run_inference
    Providers,     \* keys of providers
    ProtocolOf,    \* the protocol of each
    Origins,       \* endpoint origins
    FirstOrigin,   \* the origin the providers start with
    FirstSecret,   \* and the credential bound to it
    Ceiling,       \* the use case's max_classification
    MaxRetries,    \* MAX_RETRIES
    Threshold,     \* failures that open a circuit
    Slots,         \* concurrency slots of the tenant
    Situations     \* bound: what happens in a behaviour, as Situation below

VARIABLES
    destination,   \* ai_providers: the rows there are, by key
    models,        \* ai_models: by provider, whether the model is usable
    alias,         \* ai_aliases: the one alias
    policy,        \* the tenant's policy and the installation's (ai_destination_policy)
    trust,         \* ai_endpoint_trust: by origin, the entry not revoked
    confirmed,     \* history: <<secret, origin>> pairs an administrator has bound
    entitledToRun, \* the caller holds ai.inference:run and the tenant is open
    attempts,      \* ai_inference_attempts
    ingested,      \* history: attempts whose usage events were appended
    sends,         \* history: what left the process, in order
    circuits,      \* failures counted, and whether the circuit is open
    leases,        \* requests that hold a concurrency slot
    runs,          \* the calls
    situation      \* the situation, less the changes already made

configVars == <<destination, models, alias, policy, trust, confirmed, entitledToRun>>

callVars == <<attempts, ingested, sends, circuits, leases, runs>>

inferenceVars == <<configVars, callVars, situation>>

NotBound == "none"

\* Classification: none, tenant_data, sensitive.
Classes == 0..2

\* The requirements a tenant may set: residency, retention, no use for training.
Requirements == {"residency", "retention", "training"}

\* AIProvider: credential_origin is bound; data_handling is the set of requirements its declaration
\* meets.
Provider(origin, secret, bound, active, handling, version) ==
    [origin |-> origin, secret |-> secret, bound |-> bound, active |-> active,
     handling |-> handling, version |-> version]

\* AITenantPolicy, AITenantUseCaseGrant, AITenantDestinationGrant, AITenantPreferences and
\* AIDestinationPolicy: the classifications each grants.
Policy(enabled, useCase, granted, installation, preferences) ==
    [enabled |-> enabled, useCase |-> useCase, granted |-> granted, installation |-> installation,
     preferences |-> preferences]

\* AIInferenceAttempt: accepted is possibly_accepted; provenance, of the usage.
Attempt(r, p, state, accepted, provenance) ==
    [request |-> r, provider |-> p, state |-> state, accepted |-> accepted,
     provenance |-> provenance]

\* AdapterError, or AdapterResult: what an adapter makes of an exchange.  The category of a result is
\* the provenance of its usage.
Outcome(category, accepted) == [category |-> category, accepted |-> accepted]

\* A call: at, its effective classification, the candidates it resolved, the place among them,
\* retries made, its attempt row, the outcome of its last exchange.
Run(at, class, eligible, index, retry, row, outcome) ==
    [at |-> at, class |-> class, eligible |-> eligible, index |-> index, retry |-> retry,
     row |-> row, outcome |-> outcome]

\* The calls made, with the classification of each part; the exchanges that happen; the alias
\* and its models at first; the changes that happen, each once.
Situation(calls, exchanges, first, changes) ==
    [calls |-> calls, exchanges |-> exchanges, first |-> first, changes |-> changes]

\* UsageProvenance of an attempt that succeeded: the provider counted the tokens, or did not.
Counts == {"provider_reported", "estimated"}

NewRun == Run("authorize", 0, <<>>, 1, 0, 0, Outcome("none", FALSE))

-----------------------------------------------------------------------------
\* Administration.  Each operation is one transaction (run_platform_change, _authorized_change)
\* under the row lock of what it writes.

\* create_provider: active, bound to its own endpoint's origin, nothing declared.
CreateProvider(p, o) ==
    /\ p \notin DOMAIN destination
    /\ destination' = destination @@ (p :> Provider(o, FirstSecret, o, TRUE, {}, 1))
    /\ confirmed' = confirmed \cup {<<FirstSecret, o>>}
    /\ UNCHANGED <<models, alias, policy, trust, entitledToRun>>

\* A provider's row is rewritten under its lock, with a new version.
Rewrite(p, row) ==
    /\ p \in DOMAIN destination
    /\ destination' = [destination EXCEPT ![p] = [row EXCEPT !.version = @ + 1]]
    /\ UNCHANGED <<models, alias, policy, trust, entitledToRun>>

\* update_provider_endpoint: a new origin clears the binding.
UpdateEndpoint(p, o) ==
    /\ Rewrite(p, [destination[p] EXCEPT !.origin = o,
                      !.bound = IF destination[p].origin = o THEN @ ELSE NotBound])
    /\ UNCHANGED confirmed

SetCredentialKeepsBinding(p, s) ==
    Rewrite(p, [destination[p] EXCEPT !.secret = s]) /\ UNCHANGED confirmed

\* set_provider_credential_ref: a new name clears the binding.
SetCredential(p, s) ==
    /\ Rewrite(p, [destination[p] EXCEPT !.secret = s,
                      !.bound = IF destination[p].secret = s THEN @ ELSE NotBound])
    /\ UNCHANGED confirmed

\* confirm_provider_binding.
ConfirmBinding(p) ==
    /\ Rewrite(p, [destination[p] EXCEPT !.bound = destination[p].origin])
    /\ confirmed' = confirmed \cup {<<destination[p].secret, destination[p].origin>>}

\* set_provider_status.
SetProviderStatus(p, active) ==
    Rewrite(p, [destination[p] EXCEPT !.active = active]) /\ UNCHANGED confirmed

\* set_provider_data_handling.
SetDataHandling(p, met) ==
    Rewrite(p, [destination[p] EXCEPT !.handling = met]) /\ UNCHANGED confirmed

\* create_model.
CreateModel(p) ==
    /\ p \in DOMAIN destination /\ p \notin DOMAIN models
    /\ models' = models @@ (p :> TRUE)
    /\ UNCHANGED <<destination, alias, policy, trust, confirmed, entitledToRun>>

\* set_model_lifecycle, or the retire_after it set has passed.
SetModelLifecycle(p, usable) ==
    /\ p \in DOMAIN models
    /\ models' = [models EXCEPT ![p] = usable]
    /\ UNCHANGED <<destination, alias, policy, trust, confirmed, entitledToRun>>

\* set_alias: each candidate has its model, none is named twice.
SetAlias(candidates, active) ==
    /\ candidates # <<>> /\ IsInjective(candidates) /\ Range(candidates) \subseteq DOMAIN models
    /\ alias' = [candidates |-> candidates, active |-> active]
    /\ UNCHANGED <<destination, models, policy, trust, confirmed, entitledToRun>>

\* create_trust_entry: refused while an entry is not revoked, an expired one included.
CreateTrust(o, networks) ==
    /\ o \notin DOMAIN trust
    /\ trust' = trust @@ (o :> [networks |-> networks, live |-> TRUE])
    /\ UNCHANGED <<destination, models, alias, policy, confirmed, entitledToRun>>

\* revoke_trust_entry.
RevokeTrust(o) ==
    /\ o \in DOMAIN trust
    /\ trust' = RestrictDomain(trust, LAMBDA x : x # o)
    /\ UNCHANGED <<destination, models, alias, policy, confirmed, entitledToRun>>

\* Its expires_at is reached.
TrustExpires(o) ==
    /\ o \in DOMAIN trust /\ trust[o].live
    /\ trust' = [trust EXCEPT ![o].live = FALSE]
    /\ UNCHANGED <<destination, models, alias, policy, confirmed, entitledToRun>>

SetPolicy(to) ==
    policy' = to /\ UNCHANGED <<destination, models, alias, trust, confirmed, entitledToRun>>

\* set_tenant_ai_policy.
SetTenantPolicy(enabled) == SetPolicy([policy EXCEPT !.enabled = enabled])

\* grant_use_case; a grant that is not enabled grants nothing.
GrantUseCase(classes) == SetPolicy([policy EXCEPT !.useCase = classes])

\* grant_destination, of a configured model.
GrantDestination(p, classes) ==
    p \in DOMAIN models /\ SetPolicy([policy EXCEPT !.granted = (p :> classes) @@ @])

\* set_tenant_ai_preferences.
SetPreferences(required) == SetPolicy([policy EXCEPT !.preferences = required])

\* set_destination_policy, of the classifications a provider is eligible for.
SetDestinationPolicy(p, classes) ==
    p \in DOMAIN destination /\ SetPolicy([policy EXCEPT !.installation = (p :> classes) @@ @])

\* The caller's role, or the tenant, goes.
LoseAuthority ==
    /\ entitledToRun' = FALSE
    /\ UNCHANGED <<destination, models, alias, policy, trust, confirmed>>

-----------------------------------------------------------------------------
\* Resolution.

EffectiveOfFirst(parts) == parts[1]

\* validate_request: the highest classification of the request's parts.
Effective(parts) == Max(Range(parts))

Granted(grants, p) == IF p \in DOMAIN grants THEN grants[p] ELSE {}

\* meets_preferences: what is not declared is not met.
MeetsPreferences(p) == policy.preferences \subseteq destination[p].handling

\* data_authorization_allows: asked again after routing.
DataAuthorizationAllows(p, class) ==
    /\ class \in policy.useCase \cap Granted(policy.granted, p)
    /\ class \in Granted(policy.installation, p)

\* evaluate: whether the provider is eligible now for data of the classification.
Eligible(p, class) ==
    /\ policy.enabled /\ class \in policy.useCase /\ alias.active
    /\ p \in Range(alias.candidates) /\ destination[p].active
    /\ destination[p].bound = destination[p].origin /\ models[p]
    /\ class \in Granted(policy.installation, p) /\ class \in Granted(policy.granted, p)
    /\ MeetsPreferences(p) /\ DataAuthorizationAllows(p, class)

\* _trusted: the networks of the live entry of the origin.
Trusted(o) == IF o \in DOMAIN trust /\ trust[o].live THEN {trust[o].networks} ELSE {}

\* load_snapshot: what a call remembers of a candidate.
Candidate(p) ==
    [provider |-> p, origin |-> destination[p].origin, secret |-> destination[p].secret,
     version |-> destination[p].version, trusted |-> Trusted(destination[p].origin)]

EligibleNow(class) ==
    SelectSeq([i \in DOMAIN alias.candidates |-> Candidate(alias.candidates[i])],
              LAMBDA c : Eligible(c.provider, class))

Move(r, run) == runs' = [runs EXCEPT ![r] = run]

\* A call that raises or returns: its slot is released whichever way it ends; a release that fails
\* is swallowed and leaves the slot to expire.
Ends(r, how) ==
    /\ Move(r, [runs[r] EXCEPT !.at = how])
    /\ leases' \in {leases, leases \ {r}}

\* run_inference up to its resolution: the tenant is open, the caller authorized, the request valid.
Authorize(r) ==
    LET class == Effective(situation.calls[r])
    IN
    /\ runs[r].at = "authorize"
    /\ Move(r, [runs[r] EXCEPT
           !.class = class,
           !.at = IF entitledToRun /\ class <= Ceiling THEN "resolve" ELSE "refused"])
    /\ UNCHANGED <<configVars, attempts, ingested, sends, circuits, leases, situation>>

\* A call that lives on without its slot: the lease expires 30 s after the deadline
\* (LEASE_MARGIN_SECONDS), which an exchange respects and a database transaction need not.
Late(r) == r \notin leases

\* _abandon_stale: attempts whose call is over, or so late that its deadline has passed.
AbandonStale(rows, stale) ==
    [i \in DOMAIN rows |->
        IF i \in stale THEN [rows[i] EXCEPT !.state = "abandoned", !.accepted = TRUE] ELSE rows[i]]

StaleRows ==
    {i \in DOMAIN attempts : attempts[i].state = "started"
                               /\ \/ runs[attempts[i].request].at \notin {"begin", "send"}
                                  \/ Late(attempts[i].request)}

\* _resolve, and evaluate on the snapshot it loads.
Resolve(r) ==
    LET found == EligibleNow(runs[r].class)
    IN
    /\ runs[r].at = "resolve"
    /\ IF ~entitledToRun
       THEN /\ Move(r, [runs[r] EXCEPT !.at = "refused"])
            /\ UNCHANGED attempts
       ELSE /\ \E stale \in SUBSET StaleRows : attempts' = AbandonStale(attempts, stale)
            /\ Move(r, [runs[r] EXCEPT !.eligible = found,
                                       !.at = IF found = <<>> THEN "refused" ELSE "admit"])
    /\ UNCHANGED <<configVars, ingested, sends, circuits, leases, situation>>

AdmittedAlways(held) == TRUE

\* ConcurrencyLeases.acquire, for the tenant's scope.
Admitted(held) == Cardinality(held) < Slots

\* check_entitlement, the token quota and RedisAdmission.admit: refused or admitted.
Admit(r) ==
    /\ runs[r].at = "admit"
    /\ \/ Admitted(leases) /\ leases' = leases \cup {r} /\ Move(r, [runs[r] EXCEPT !.at = "pick"])
       \/ leases' = leases /\ Move(r, [runs[r] EXCEPT !.at = "refused"])
    /\ UNCHANGED <<configVars, attempts, ingested, sends, circuits, situation>>

Chosen(r) == runs[r].eligible[runs[r].index]

NextCandidate(r) == Move(r, [runs[r] EXCEPT !.at = "pick", !.index = @ + 1, !.retry = 0])

\* _attempt_all, the head of its loop: an open circuit is passed over, a candidate whose secret
\* cannot be read ends the call, and so does the deadline.
Pick(r) ==
    /\ runs[r].at = "pick"
    /\ \/ /\ runs[r].index > Len(runs[r].eligible)
          /\ Ends(r, "failed")
       \/ /\ runs[r].index <= Len(runs[r].eligible) /\ circuits[Chosen(r).provider].open
          /\ NextCandidate(r) /\ UNCHANGED leases
       \/ /\ runs[r].index <= Len(runs[r].eligible) /\ ~circuits[Chosen(r).provider].open
          /\ \/ ~Late(r) /\ Move(r, [runs[r] EXCEPT !.at = "begin"]) /\ UNCHANGED leases
             \/ Ends(r, "failed")
    /\ UNCHANGED <<configVars, attempts, ingested, sends, circuits, situation>>

SameDestinationUnread(c) == TRUE

SameDestinationButTrust(c) == [Candidate(c.provider) EXCEPT !.trusted = c.trusted] = c

\* _begin_attempt: the destination is the one resolved, its version and its trust entries included.
SameDestination(c) == Candidate(c.provider) = c

\* _begin_attempt: authorize, evaluate afresh, insert the started row.
BeginAttempt(r) ==
    LET c == Chosen(r)
        allowed == entitledToRun /\ Eligible(c.provider, runs[r].class) /\ SameDestination(c)
    IN
    /\ runs[r].at = "begin"
    /\ \/ /\ allowed
          /\ attempts' = Append(attempts, Attempt(r, c.provider, "started", FALSE, "unknown"))
          /\ \/ /\ Move(r, [runs[r] EXCEPT !.at = "send", !.row = Len(attempts) + 1])
                /\ UNCHANGED leases
             \/ Ends(r, "failed")     \* cancelled while the thread inserts the row
       \/ ~allowed /\ Ends(r, "failed") /\ UNCHANGED attempts
       \/ Ends(r, "failed") /\ UNCHANGED attempts     \* the deadline, or the row is not written
    /\ UNCHANGED <<configVars, ingested, sends, circuits, situation>>

-----------------------------------------------------------------------------
\* The exchange.  One without a response has status 0 and says what became of it.
Exchange(status, what) == [status |-> status, what |-> what]

\* The egress client's errors after which the request may have been sent.
SentReasons == {"redirected", "too large", "no answer", "cut off"}

ErrorFromEgressAnyTimeout(reason) ==
    CASE reason \in {"not allowed", "no tls", "redirected"} ->
             Outcome("endpoint_security", reason \in SentReasons)
      [] reason = "too large" -> Outcome("response_too_large", TRUE)
      [] reason \in {"no answer", "too late", "not connected", "unresolved"} ->
             Outcome("transient_pre_acceptance", FALSE)
      [] OTHER -> Outcome("provider_error", reason \in SentReasons)

\* error_from_egress: "too late" is a timeout before the exchange, "no answer" one after it began.
ErrorFromEgress(reason) ==
    CASE reason \in {"not allowed", "no tls", "redirected"} ->
             Outcome("endpoint_security", reason \in SentReasons)
      [] reason = "too large" -> Outcome("response_too_large", TRUE)
      [] reason = "no answer" -> Outcome("timeout", TRUE)
      [] reason \in {"too late", "not connected", "unresolved"} ->
             Outcome("transient_pre_acceptance", FALSE)
      [] OTHER -> Outcome("provider_error", reason \in SentReasons)

ErrorForStatusTrustsServerErrors(status, notProcessed) ==
    CASE status \in {401, 403} -> Outcome("provider_auth", FALSE)
      [] status = 429 -> Outcome("rate_limited", FALSE)
      [] status \in notProcessed -> Outcome("provider_overloaded", FALSE)
      [] status \in 400..499 -> Outcome("invalid_request", FALSE)
      [] OTHER -> Outcome("provider_error", FALSE)

\* error_for_status: a 5xx that is not declared not processed may have been accepted.
ErrorForStatus(status, notProcessed) ==
    CASE status \in {401, 403} -> Outcome("provider_auth", FALSE)
      [] status = 429 -> Outcome("rate_limited", FALSE)
      [] status \in notProcessed -> Outcome("provider_overloaded", FALSE)
      [] status \in 400..499 -> Outcome("invalid_request", FALSE)
      [] OTHER -> Outcome("provider_error", TRUE)

\* parse_json_object and malformed: a 2xx the adapter cannot interpret.
Malformed == Outcome("malformed_response", TRUE)

\* _usage_settlement: tokens the provider did not count are estimated.
Provenance(x) == IF x.what = "uncounted" THEN "estimated" ELSE "provider_reported"

\* What the adapters share: send_json, the status, then the bodies the protocol understands.
Classified(x, notProcessed, understood) ==
    CASE x.status = 0 -> ErrorFromEgress(x.what)
      [] x.status \in 200..299 -> IF x.what \in understood THEN Outcome(Provenance(x), FALSE)
                                  ELSE Malformed
      [] OTHER -> ErrorForStatus(x.status, notProcessed)

\* OpenAICompatibleAdapter.complete: an exhausted account is not a rate limit.
CompleteOpenAI(x) ==
    IF x = Exchange(429, "insufficient quota") THEN Outcome("provider_quota_exhausted", FALSE)
    ELSE Classified(x, {}, {"text", "uncounted"})

\* AnthropicMessagesAdapter.complete: 529 is not processed; a block that is not text is skipped.
CompleteAnthropic(x) == Classified(x, {529}, {"text", "uncounted", "other part"})

\* GeminiGenerateContentAdapter.complete: 503 is not processed; a blocked prompt is an answer; a
\* model id that is no path segment is refused before anything is sent.
CompleteGemini(x) ==
    IF x = Exchange(0, "model id") THEN Outcome("invalid_request", FALSE)
    ELSE Classified(x, {503}, {"text", "uncounted", "blocked"})

\* An adapter bug, and a client that could not be built (EgressConfigurationError).
AdapterBug == Exchange(0, "adapter bug")

NoClient == Exchange(0, "no client")

\* _attempt_all: the call of the adapter and what it is caught as.
Attempted(protocol, x) ==
    CASE x = NoClient -> Outcome("configuration", FALSE)
      [] x = AdapterBug -> Outcome("internal", TRUE)
      [] protocol = "openai" -> CompleteOpenAI(x)
      [] protocol = "anthropic" -> CompleteAnthropic(x)
      [] protocol = "gemini" -> CompleteGemini(x)

\* Whether the request reached the provider, and whether the provider may have processed it: it
\* does not process what it answers with 4xx, nor what it answers with its overload status.
Left(x) == x.status # 0 \/ x.what \in SentReasons \cup {"adapter bug"}

OverloadStatus == [openai |-> 0, anthropic |-> 529, gemini |-> 503]

MayBeProcessed(protocol, x) ==
    Left(x) /\ x.status \notin 400..499 /\ (x.status # 0 => x.status # OverloadStatus[protocol])

\* What can become of an exchange: one that starts after the deadline sends nothing
\* (EgressClient._request).
ExchangesAnyTime(r) == situation.exchanges

Exchanges(r) ==
    IF Late(r) THEN {x \in situation.exchanges \cup {Exchange(0, "too late")} : ~Left(x)}
    ELSE situation.exchanges

\* adapter.complete: the request leaves with the credential.
Send(r, x) ==
    LET c == Chosen(r)
        protocol == ProtocolOf[c.provider]
    IN
    /\ runs[r].at = "send"
    /\ x.what = "model id" => protocol = "gemini"
    /\ sends' = IF ~Left(x) THEN sends
                ELSE Append(sends, [row |-> runs[r].row, request |-> r, secret |-> c.secret,
                                    origin |-> c.origin, accepted |-> MayBeProcessed(protocol, x)])
    /\ Move(r, [runs[r] EXCEPT !.at = "settle", !.outcome = Attempted(protocol, x)])
    /\ UNCHANGED <<configVars, attempts, ingested, circuits, leases, situation>>

-----------------------------------------------------------------------------
\* The settlement of a result (_usage_settlement) and of a failure.
SettledRow(outcome, row) ==
    IF outcome.category \in Counts
    THEN [row EXCEPT !.state = "succeeded", !.provenance = outcome.category]
    ELSE [row EXCEPT !.state = "failed", !.accepted = outcome.accepted]

Succeeded(r) == runs[r].outcome.category \in Counts

Close(r) == attempts' = [attempts EXCEPT ![runs[r].row] = SettledRow(runs[r].outcome, @)]

\* Usage goes to the ledger in the transaction of the settlement, if the provider counted it.
Mirror(r) ==
    ingested' = IF runs[r].outcome.category = "provider_reported" THEN Append(ingested, runs[r].row)
                ELSE ingested

SettleUnchecked(r) == Close(r) /\ Mirror(r)

SettleIngestsLate(r) ==
    /\ Mirror(r)
    /\ IF attempts[runs[r].row].state # "started" THEN UNCHANGED attempts ELSE Close(r)

\* _settle: a row that is no longer started is left as it is.
Settle(r) ==
    IF attempts[runs[r].row].state # "started" THEN UNCHANGED <<attempts, ingested>>
    ELSE Close(r) /\ Mirror(r)

\* CircuitBreaker.failure and CircuitBreaker.success.
CircuitFailure(p) ==
    circuits' = [circuits EXCEPT ![p] =
        IF @.failures + 1 >= Threshold THEN [failures |-> 0, open |-> TRUE]
        ELSE [@ EXCEPT !.failures = @ + 1]]

CircuitSuccess(p) == circuits' = [circuits EXCEPT ![p] = [failures |-> 0, open |-> FALSE]]

\* The circuit's time is over.
CircuitCloses(p) ==
    /\ circuits[p].open
    /\ circuits' = [circuits EXCEPT ![p].open = FALSE]
    /\ UNCHANGED <<configVars, attempts, ingested, sends, leases, runs, situation>>

\* _RETRYABLE and _NEVER_FALLBACK.
Retryable == {"rate_limited", "provider_overloaded", "transient_pre_acceptance", "provider_error"}

NeverFallback ==
    {"provider_auth", "endpoint_security", "invalid_request", "response_too_large",
     "malformed_response", "timeout"}

EndsTheCallUnlessUncertain(outcome) ==
    outcome.category \in NeverFallback \cup {"internal", "configuration"}

\* _attempt_all: possibly accepted, or in _NEVER_FALLBACK, or not the provider's error.
EndsTheCall(outcome) ==
    outcome.accepted \/ outcome.category \in NeverFallback \cup {"internal", "configuration"}

RetriesLeftOneMore(r) == runs[r].retry <= MaxRetries

\* The candidate's own retries (MAX_RETRIES).
RetriesLeft(r) == runs[r].retry < MaxRetries

\* _attempt_all after a failure that was settled: end, next candidate, or retry.
AfterFailure(r, outcome) ==
    \/ EndsTheCall(outcome) /\ Ends(r, "failed")
    \/ /\ ~EndsTheCall(outcome)
       /\ IF outcome.category \in Retryable /\ RetriesLeft(r) /\ ~Late(r)
          THEN \/ Move(r, [runs[r] EXCEPT !.at = "begin", !.retry = @ + 1])
               \/ NextCandidate(r)               \* no time left to retry here
          ELSE NextCandidate(r)
       /\ UNCHANGED leases

\* The settlement's transaction, and what the call does next.
SettleAndGoOn(r) ==
    LET outcome == runs[r].outcome
    IN
    /\ runs[r].at = "settle" /\ Settle(r)
    /\ IF Succeeded(r) THEN Ends(r, "returned") ELSE AfterFailure(r, outcome)
    /\ CASE Succeeded(r) -> CircuitSuccess(Chosen(r).provider)
         [] outcome.category \in {"provider_overloaded", "transient_pre_acceptance"} ->
                CircuitFailure(Chosen(r).provider)
         [] OTHER -> UNCHANGED circuits
    /\ UNCHANGED <<configVars, sends, situation>>

\* The settlement fails, or the task is cancelled while a thread commits it: the call ends and
\* returns nothing.
EndsInSettlement(r) ==
    /\ runs[r].at = "settle"
    /\ Settle(r) \/ UNCHANGED <<attempts, ingested>>
    /\ Ends(r, "failed")
    /\ IF Succeeded(r) THEN CircuitSuccess(Chosen(r).provider) ELSE UNCHANGED circuits
    /\ UNCHANGED <<configVars, sends, situation>>

\* The task is cancelled while the adapter waits, before or after the request left: the row is
\* settled as interrupted, unless that fails too or the row is no longer started.
CancelSend(r) ==
    /\ runs[r].at = "send"
    /\ \/ UNCHANGED attempts
       \/ /\ attempts[runs[r].row].state = "started"
          /\ attempts' = [attempts EXCEPT ![runs[r].row] =
                             [@ EXCEPT !.state = "interrupted", !.accepted = TRUE]]
    /\ \/ UNCHANGED sends
       \/ /\ ~Late(r)
          /\ sends' = Append(sends, [row |-> runs[r].row, request |-> r, secret |-> Chosen(r).secret,
                                     origin |-> Chosen(r).origin, accepted |-> TRUE])
    /\ Ends(r, "failed")
    /\ UNCHANGED <<configVars, ingested, circuits, situation>>

\* The process dies: the call is gone, its row stays, its slot expires later.
Die(r) ==
    /\ runs[r].at \in {"pick", "begin", "send", "settle"}
    /\ <<"death", "", "">> \in situation.changes
    /\ situation' = [situation EXCEPT !.changes = @ \ {<<"death", "", "">>}]
    /\ Move(r, [runs[r] EXCEPT !.at = "dead"])
    /\ UNCHANGED <<configVars, attempts, ingested, sends, circuits, leases>>

\* A lease expires after the deadline of its call: the call is over by then, or between two
\* exchanges, in a transaction that took longer.
LeaseExpires(r) ==
    /\ runs[r].at \in {"pick", "begin", "settle", "dead", "failed", "returned"} /\ r \in leases
    /\ leases' = leases \ {r}
    /\ UNCHANGED <<configVars, attempts, ingested, sends, circuits, runs, situation>>

-----------------------------------------------------------------------------
InferenceInit ==
    /\ situation \in Situations
    /\ alias = [candidates |-> situation.first, active |-> TRUE]
    /\ destination = [p \in Range(situation.first) |->
                         Provider(FirstOrigin, FirstSecret, FirstOrigin, TRUE, {}, 1)]
    /\ models = [p \in Range(situation.first) |-> TRUE]
    /\ policy = Policy(TRUE, Classes, [p \in Range(situation.first) |-> Classes],
                       [p \in Range(situation.first) |-> Classes], {})
    /\ trust = [o \in {} |-> {}]
    /\ confirmed = {<<FirstSecret, FirstOrigin>>} /\ entitledToRun = TRUE
    /\ attempts = <<>> /\ ingested = <<>> /\ sends = <<>>
    /\ circuits = [p \in Providers |-> [failures |-> 0, open |-> FALSE]]
    /\ leases = {}
    /\ runs = [r \in Requests |-> NewRun]

\* A change <<operation, of what, to what>> of the situation is made.
Administer ==
    \E c \in situation.changes :
        /\ \/ c[1] = "provider" /\ CreateProvider(c[2], c[3])
           \/ c[1] = "endpoint" /\ UpdateEndpoint(c[2], c[3])
           \/ c[1] = "secret" /\ SetCredential(c[2], c[3])
           \/ c[1] = "confirm" /\ ConfirmBinding(c[2])
           \/ c[1] = "status" /\ SetProviderStatus(c[2], c[3])
           \/ c[1] = "handling" /\ SetDataHandling(c[2], c[3])
           \/ c[1] = "model" /\ CreateModel(c[2])
           \/ c[1] = "lifecycle" /\ SetModelLifecycle(c[2], c[3])
           \/ c[1] = "alias" /\ SetAlias(c[2], c[3])
           \/ c[1] = "trust" /\ CreateTrust(c[2], c[3])
           \/ c[1] = "revoke" /\ RevokeTrust(c[2])
           \/ c[1] = "expire" /\ TrustExpires(c[2])
           \/ c[1] = "tenant policy" /\ SetTenantPolicy(c[3])
           \/ c[1] = "use case" /\ GrantUseCase(c[3])
           \/ c[1] = "grant" /\ GrantDestination(c[2], c[3])
           \/ c[1] = "preferences" /\ SetPreferences(c[3])
           \/ c[1] = "installation" /\ SetDestinationPolicy(c[2], c[3])
           \/ c[1] = "authority" /\ LoseAuthority
        /\ situation' = [situation EXCEPT !.changes = @ \ {c}]
        /\ UNCHANGED callVars

Serve(r) ==
    \/ Authorize(r) \/ Resolve(r) \/ Admit(r) \/ Pick(r) \/ BeginAttempt(r)
    \/ \E x \in Exchanges(r) : Send(r, x)
    \/ SettleAndGoOn(r) \/ EndsInSettlement(r) \/ CancelSend(r)
    \/ Die(r) \/ LeaseExpires(r)

InferenceNext ==
    \/ Administer
    \/ \E r \in DOMAIN situation.calls : Serve(r)
    \/ \E p \in Providers : CircuitCloses(p)

InferenceSpec == InferenceInit /\ [][InferenceNext]_inferenceVars

-----------------------------------------------------------------------------
InferenceTypeOK ==
    /\ \A i \in DOMAIN attempts :
        attempts[i].state \in {"started", "succeeded", "failed", "interrupted", "abandoned"}
    /\ Range(alias.candidates) \subseteq DOMAIN models /\ DOMAIN models \subseteq DOMAIN destination
    /\ DOMAIN trust \subseteq Origins
    /\ leases \subseteq Requests /\ Range(ingested) \subseteq DOMAIN attempts
    /\ \A r \in Requests :
        runs[r].index \in 1..(Len(runs[r].eligible) + 1) /\ runs[r].retry \in 0..MaxRetries

\* A request is sent again only while no provider may have accepted it: retries, fallbacks,
\* cancellations and crashes included, at most one of its sends can have been processed, whichever
\* way the network or the provider failed and whichever protocol classified it (error_from_egress,
\* error_for_status, the adapters' complete, _attempt_all's possibly_accepted).
AcceptedAtMostOnce ==
    \A i, j \in DOMAIN sends :
        sends[i].accepted /\ sends[j].accepted /\ sends[i].request = sends[j].request => i = j

\* What a provider may have processed is on record as such: its attempt is not closed yet, or
\* succeeded, or says possibly accepted (_settle, _abandon_stale, the adapters' possibly_accepted).
AcceptanceIsRecorded ==
    \A i \in DOMAIN sends :
        sends[i].accepted => \/ attempts[sends[i].row].state \in {"started", "succeeded"}
                             \/ attempts[sends[i].row].accepted

\* A credential only ever goes to an origin an administrator bound that very credential to, whatever
\* is changed while the call is under way (create_provider, update_provider_endpoint,
\* set_provider_credential_ref, confirm_provider_binding, load_snapshot).
SecretToConfirmedOrigin ==
    \A i \in DOMAIN sends : <<sends[i].secret, sends[i].origin>> \in confirmed

Starting(r) == runs[r].at = "begin" /\ runs'[r].at = "send"

\* An attempt starts for a caller that is authorized, at a destination that is eligible, and with the
\* endpoint, the credential and the trusted networks that stand, at that moment: not those of the
\* resolution earlier in the call (_begin_attempt).
StartsOnFreshPolicyStep ==
    \A r \in Requests : Starting(r) =>
        /\ entitledToRun /\ Eligible(Chosen(r).provider, runs[r].class)
        /\ Chosen(r).origin = destination[Chosen(r).provider].origin
        /\ Chosen(r).secret = destination[Chosen(r).provider].secret
        /\ Chosen(r).trusted = Trusted(Chosen(r).origin)

\* No part of a request goes where data of its rank is not granted by the use case, the tenant's
\* destination grant and the installation, all three, nor above the use case's ceiling
\* (validate_request, evaluate).
SentWhereGrantedStep ==
    \A r \in Requests : Starting(r) =>
        \A part \in Range(situation.calls[r]) :
            /\ part <= Ceiling
            /\ \E class \in Classes :
                /\ part <= class
                /\ class \in policy.useCase \cap Granted(policy.granted, Chosen(r).provider)
                                \cap Granted(policy.installation, Chosen(r).provider)

\* What was sent has its row, and a row that has left started never changes again: an attempt that
\* was abandoned is not settled by its late answer (_settle, _abandon_stale).
SettledOnceStep ==
    \A i \in DOMAIN attempts : attempts[i].state # "started" => attempts'[i] = attempts[i]

\* Usage is ingested once for an attempt that succeeded with tokens its provider counted, and for no
\* other: never an estimate, never for an attempt abandoned meanwhile (_settle: one transaction).
UsageOncePerSuccess ==
    /\ \A i \in DOMAIN attempts :
        Cardinality({k \in DOMAIN ingested : ingested[k] = i})
            = (IF attempts[i].state = "succeeded" /\ attempts[i].provenance = "provider_reported"
               THEN 1 ELSE 0)
    /\ \A i \in DOMAIN sends : sends[i].row \in DOMAIN attempts

\* A request leaves only in a call that still holds its slot, and no more slots are held than the
\* tenant has: a call that outlived its lease, because a transaction took longer than the margin,
\* sends nothing more (RedisAdmission.admit, EgressClient._request, run_inference's finally).
SentUnderSlotStep ==
    \A i \in DOMAIN sends' \ DOMAIN sends :
        sends'[i].request \in leases /\ Cardinality(leases) <= Slots
=============================================================================
