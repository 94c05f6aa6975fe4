------------------------------- MODULE Login -------------------------------
(***************************************************************************)
(* Signing in with the OpenID provider: GET /auth/login, GET /auth/callback*)
(* and POST /auth/logout (api/auth/routes.py), the login transactions      *)
(* (core/identity/login_transactions.py), the provider's discovery and     *)
(* token exchange (core/identity/provider.py and oidc.py), the user found  *)
(* or made for the identity (core/identity/service.py) and the session.    *)
(*                                                                         *)
(* A login is its transaction row.  state, nonce, code_verifier and the    *)
(* code_challenge made from it are fresh secrets, so each of them stands   *)
(* for the login it was drawn for and is written as its number.  The       *)
(* provider gives a browser back the state it was sent, and one code per   *)
(* login.  A browser may reload an answer, and may begin a second login    *)
(* before it finishes the first; the cookie names the last one begun.      *)
(*                                                                         *)
(* One web process serves the visits; its handlers interleave wherever     *)
(* they leave the process or end a transaction.  Expired sessions, erased  *)
(* links and deactivated users are the matter of Credentials.              *)
(***************************************************************************)
EXTENDS Naturals, FiniteSets

CONSTANTS
    Setups,         \* settings the process may have been started with
    Browsers,       \* browsers
    Visits,         \* requests to the callback
    Documents,      \* what a fetch of the discovery document may bring
    TokenFaults,    \* what may be wrong with an ID token
    MaxLogins,      \* logins that may be begun
    Lifetime,       \* begin_login_transaction's lifetime
    LastMinute      \* how far the clock may go

\* The deployment limits, and one process: finitely many callbacks are ever under way.
ASSUME LoginAssumption ==
    /\ MaxLogins \in Nat /\ Lifetime \in Nat /\ LastMinute \in Nat
    /\ IsFiniteSet(Visits)

None == 0
Logins == 1 .. MaxLogins
Users == 1 .. Cardinality(Visits)

VARIABLES
    setup,          \* the settings of the process
    minute,         \* the clock
    logins,         \* core.login_transactions, and who began each
    cookie,         \* the login cookie of each browser
    codes,          \* the provider's codes: given, spent
    discovered,     \* lru_cache of the configuration and of the endpoints
    callback,       \* the requests to the callback
    people,         \* users, and the user the external identity is linked to
    issued,         \* sessions, with the callback that issued them
    attempts,       \* attempts to complete each login that found its row
    exchanged       \* codes sent to the provider, each with its verifier

loginVars == <<setup, minute, logins, cookie, codes, discovered, callback, people, issued,
               attempts, exchanged>>

---------------------------------------------------------------------------
\* The settings.  An origin has a scheme, a site and a "shape" (an origin only, or not).
CallbackUrlFor(origin) == [scheme |-> origin.scheme, site |-> origin.site, path |-> "callback"]

NormalOrigin(s) == /\ s.origin.shape = "origin"
                   /\ s.origin.scheme \in {"http", "https"}
                   /\ ~(s.origin.scheme = "http" /\ s.production)

AgreeUnchecked(s) == TRUE
Agree(s) == s.redirect = {} \/ s.redirect = {CallbackUrlFor(s.origin)}

\* resolve_callback_url: the URL, or none.
ResolveCallbackUrl(s) == IF s.public /\ s.redirect = {} THEN {CallbackUrlFor(s.origin)}
                         ELSE s.redirect

\* AuthHttpConfig.__post_init__ on what _auth_http_config_from_env resolved.
AuthHttpConfig(s) ==
    /\ s.public => NormalOrigin(s) /\ Agree(s)
    /\ ResolveCallbackUrl(s) # {}
    /\ \A url \in ResolveCallbackUrl(s) : /\ url.scheme \in {"http", "https"}
                                          /\ url.scheme = "http" => ~s.production
    /\ s.secure \/ ~s.production
    /\ s.path = "same-origin"

---------------------------------------------------------------------------
\* Discovery: a document must name the configured issuer and have usable endpoints.
Usable(document) == document = "good"

\* get_oidc_provider_config: fetched once, cached once it succeeded.
DiscoverConfig(document) ==
    /\ discovered.config = FALSE
    /\ discovered' = [discovered EXCEPT !.config = Usable(document)]

\* get_oidc_flow_endpoints, the second half of get_identity_provider.
DiscoverEndpoints(document) ==
    /\ discovered.config /\ ~discovered.endpoints
    /\ discovered' = [discovered EXCEPT !.endpoints = Usable(document)]

IdentityProviderKnown == discovered.config /\ discovered.endpoints

---------------------------------------------------------------------------
NoCallback == [pc |-> "none", browser |-> None, login |-> None, returned |-> None,
               at |-> 0, user |-> None, answer |-> None]

LoginTypeOK ==
    /\ minute \in 0 .. LastMinute
    /\ \A l \in Logins : logins[l].row \in {"none", "waiting", "gone"}
    /\ \A v \in Visits : callback[v].user \in Users \cup {None}
    /\ people.count \in 0 .. Cardinality(Visits) /\ people.linked \in Users \cup {None}

LoginInit ==
    /\ setup \in Setups
    /\ minute = 0
    /\ logins = [l \in Logins |-> [row |-> "none", browser |-> None, expires |-> 0]]
    /\ cookie = [b \in Browsers |-> None]
    /\ codes = [l \in Logins |-> "none"]
    /\ discovered = [config |-> FALSE, endpoints |-> FALSE]
    /\ callback = [v \in Visits |-> NoCallback]
    /\ people = [count |-> 0, linked |-> None]
    /\ issued = {}
    /\ attempts = [l \in Logins |-> 0]
    /\ exchanged = {}

At(v, pc) == callback[v].pc = pc
Goto(v, pc) == callback' = [callback EXCEPT ![v].pc = pc]
Answer(v, status) == callback' = [callback EXCEPT ![v].pc = "answered", ![v].answer = status]

\* login: begin_login_transaction, and the cookie.
BeginLogin(b) == \E l \in Logins :
    /\ AuthHttpConfig(setup) /\ IdentityProviderKnown
    /\ logins[l].row = "none" /\ \A k \in Logins : k < l => logins[k].row # "none"
    /\ logins' = [logins EXCEPT ![l] = [row |-> "waiting", browser |-> b,
                                        expires |-> minute + Lifetime]]
    /\ cookie' = [cookie EXCEPT ![b] = l]
    /\ UNCHANGED <<setup, minute, codes, discovered, callback, people, issued, attempts, exchanged>>

\* get_identity_provider of a login or a callback that finds no provider yet.
Discover == \E document \in Documents :
    /\ AuthHttpConfig(setup)
    /\ DiscoverConfig(document) \/ DiscoverEndpoints(document)
    /\ UNCHANGED <<setup, minute, logins, cookie, codes, callback, people, issued, attempts,
                   exchanged>>

\* The process is restarted between two requests: its caches are empty again.
Restart ==
    /\ discovered.config
    /\ \A v \in Visits : callback[v].pc \in {"none", "answered"}
    /\ discovered' = [config |-> FALSE, endpoints |-> FALSE]
    /\ UNCHANGED <<setup, minute, logins, cookie, codes, callback, people, issued, attempts,
                   exchanged>>

\* The person signs in at the provider, which redirects the browser back.
SignIn(l) ==
    /\ logins[l].row # "none" /\ codes[l] = "none"
    /\ codes' = [codes EXCEPT ![l] = "given"]
    /\ UNCHANGED <<setup, minute, logins, cookie, discovered, callback, people, issued, attempts,
                   exchanged>>

Tick ==
    /\ minute < LastMinute
    /\ minute' = minute + 1
    /\ UNCHANGED <<setup, logins, cookie, codes, discovered, callback, people, issued, attempts,
                   exchanged>>

---------------------------------------------------------------------------
\* _enforce_auth_rate_limit: too many requests from this address, or no store to count them.
RateLimitRefusals == {429, 503}

\* callback arrives with the cookie the browser has now and an answer of the provider to a login
\* this browser began; the answer may be an old one.  The rate limit, or its store, may refuse it.
Arrive(v, l) == LET b == logins[l].browser IN
    /\ At(v, "none") /\ codes[l] # "none" /\ AuthHttpConfig(setup)
    /\ \A w \in Visits : w < v => ~At(w, "none")
    /\ \/ callback' = [callback EXCEPT ![v] =
               [NoCallback EXCEPT !.pc = "consume", !.browser = b, !.login = cookie[b],
                                  !.returned = l, !.at = minute]]
       \/ \E status \in RateLimitRefusals : Answer(v, status)
    /\ UNCHANGED <<setup, minute, logins, cookie, codes, discovered, people, issued, attempts,
                   exchanged>>

\* session.get(LoginTransaction, id, with_for_update=True) waits for the holder of the row.
RowFreeAlways(l) == TRUE
RowFree(l) == \A w \in Visits : ~(callback[w].login = l /\ At(w, "held"))

\* consume_login_transaction: lock and read; no cookie or no row ends it.
LockLogin(v) == LET l == callback[v].login IN
    /\ At(v, "consume")
    /\ IF l = None THEN Answer(v, 400)
       ELSE /\ RowFree(l)
            /\ IF logins[l].row = "waiting" THEN Goto(v, "held") ELSE Answer(v, 400)
    /\ attempts' = IF l # None /\ logins[l].row = "waiting"
                   THEN [attempts EXCEPT ![l] = @ + 1] ELSE attempts
    /\ UNCHANGED <<setup, minute, logins, cookie, codes, discovered, people, issued, exchanged>>

StateMatchesAlways(v) == TRUE
StateMatches(v) == callback[v].returned = callback[v].login

Expired(v) == logins[callback[v].login].expires <= callback[v].at

\* The delete is committed whatever was found; only then is a bad attempt refused.
ConsumeOrRollBack(v) ==
    /\ At(v, "held")
    /\ IF Expired(v) \/ ~StateMatches(v)
       THEN Answer(v, 400) /\ UNCHANGED logins
       ELSE /\ Goto(v, "provider")
            /\ logins' = [logins EXCEPT ![callback[v].login].row = "gone"]
    /\ UNCHANGED <<setup, minute, cookie, codes, discovered, people, issued, attempts, exchanged>>

Consume(v) ==
    /\ At(v, "held")
    /\ logins' = [logins EXCEPT ![callback[v].login].row = "gone"]
    /\ IF Expired(v) \/ ~StateMatches(v) THEN Answer(v, 400) ELSE Goto(v, "provider")
    /\ UNCHANGED <<setup, minute, cookie, codes, discovered, people, issued, attempts, exchanged>>

\* The provider is looked up after the login was consumed; without it the login is lost.
Provider(v) ==
    /\ At(v, "provider")
    /\ \/ IdentityProviderKnown /\ Goto(v, "exchange")
       \/ ~IdentityProviderKnown /\ (\E d \in Documents : ~Usable(d)) /\ Answer(v, 503)
    /\ UNCHANGED <<setup, minute, logins, cookie, codes, discovered, people, issued, attempts,
                   exchanged>>

\* The provider takes a code once, with the verifier of its challenge.  Its answer may be lost.
Redeemable(v) == /\ codes[callback[v].returned] = "given"
                 /\ callback[v].returned = callback[v].login

\* validate_id_token: algorithm, key, signature, expiry, issuer, audience, subject, nonce.
ValidIdToken(token, nonce) == token.fault = "none" /\ token.nonce = nonce

\* exchange_authorization_code, and the validation of the token with the consumed nonce.
Exchange(v) ==
    /\ At(v, "exchange")
    /\ exchanged' = exchanged \cup {[code |-> callback[v].returned, verifier |-> callback[v].login]}
    /\ \/ /\ Redeemable(v)
          /\ \E fault \in TokenFaults \cup {"none"} :
                LET token == [fault |-> fault, nonce |-> callback[v].returned]
                IN IF ValidIdToken(token, callback[v].login) THEN Goto(v, "find")
                   ELSE Answer(v, 401)
       \/ ~Redeemable(v) /\ Answer(v, 502)
       \/ Answer(v, 503)
    /\ \/ codes' = [codes EXCEPT ![callback[v].returned] = "spent"]
       \/ callback'[v].answer = 503 /\ UNCHANGED codes
    /\ UNCHANGED <<setup, minute, logins, cookie, discovered, people, issued, attempts>>

---------------------------------------------------------------------------
\* get_or_create_user_for_external_identity, transaction by transaction.
Find(v) ==
    /\ At(v, "find")
    /\ callback' = [callback EXCEPT ![v].user = people.linked,
                                    ![v].pc = IF people.linked = None THEN "create" ELSE "issue"]
    /\ UNCHANGED <<setup, minute, logins, cookie, codes, discovered, people, issued, attempts,
                   exchanged>>

CreateUser(v) ==
    /\ At(v, "create")
    /\ people' = [people EXCEPT !.count = @ + 1]
    /\ callback' = [callback EXCEPT ![v].user = people.count + 1, ![v].pc = "link"]
    /\ UNCHANGED <<setup, minute, logins, cookie, codes, discovered, issued, attempts, exchanged>>

\* DuplicateExternalIdentityError: another callback linked the identity first.
AfterDuplicateOwnUser(v) == callback[v].user
AfterDuplicate(v) == people.linked

Link(v) ==
    /\ At(v, "link")
    /\ IF people.linked = None
       THEN people' = [people EXCEPT !.linked = callback[v].user] /\ Goto(v, "issue")
       ELSE UNCHANGED people /\ Goto(v, "again")
    /\ UNCHANGED <<setup, minute, logins, cookie, codes, discovered, issued, attempts, exchanged>>

FindAgain(v) ==
    /\ At(v, "again")
    /\ callback' = [callback EXCEPT ![v].user = AfterDuplicate(v), ![v].pc = "issue"]
    /\ UNCHANGED <<setup, minute, logins, cookie, codes, discovered, people, issued, attempts,
                   exchanged>>

\* issue_session, the session cookie, and the end of the login cookie.
Issue(v) ==
    /\ At(v, "issue")
    /\ issued' = issued \cup {[by |-> v, user |-> callback[v].user, live |-> TRUE]}
    /\ cookie' = [cookie EXCEPT ![callback[v].browser] = None]
    /\ Answer(v, 303)
    /\ UNCHANGED <<setup, minute, logins, codes, discovered, people, attempts, exchanged>>

\* logout: revoke_session of the session the cookie names.
Logout(s) ==
    /\ s.live
    /\ issued' = (issued \ {s}) \cup {[s EXCEPT !.live = FALSE]}
    /\ UNCHANGED <<setup, minute, logins, cookie, codes, discovered, callback, people, attempts,
                   exchanged>>

Handle(v) == \/ LockLogin(v) \/ Consume(v) \/ Provider(v) \/ Exchange(v)
             \/ Find(v) \/ CreateUser(v) \/ Link(v) \/ FindAgain(v) \/ Issue(v)

LoginNext == \/ Discover \/ Restart \/ Tick
             \/ \E b \in Browsers : BeginLogin(b)
             \/ \E l \in Logins : SignIn(l) \/ \E v \in Visits : Arrive(v, l)
             \/ \E v \in Visits : Handle(v)
             \/ \E s \in issued : Logout(s)

LoginSpec == LoginInit /\ [][LoginNext]_loginVars

---------------------------------------------------------------------------
\* A login can be attempted once.  Whatever an attempt that found its row came to (completed,
\* expired, answered with another login's state), no later or concurrent one finds the row again.
OneAttemptPerLogin == \A l \in Logins : attempts[l] <= 1

\* A code goes to the provider only with the verifier of the login it was given for, also when
\* the browser has begun another login since or answers an old redirect.
ExchangesOwnCode == \A e \in exchanged : e.code = e.verifier

\* Every session of the identity is its one linked user's, also when two first logins of it run
\* at the same time and each creates a user.
OneUserPerIdentity == \A s \in issued : s.user = people.linked

\* With a public origin, a browser that logs in is sent back to that origin, and in production
\* never over plain http, whichever of the two settings says so.
ReturnsToOrigin ==
    \A l \in Logins : logins[l].row # "none" =>
        \A url \in ResolveCallbackUrl(setup) :
            /\ setup.public => url.site = setup.origin.site
            /\ setup.production => url.scheme = "https"

\* A login is attempted once, with its own code, makes one user of an identity, and ends where
\* the settings say: what GET /auth/callback and get_or_create_user_for_external_identity keep,
\* however the callbacks of one or of several browsers interleave.
OneLoginOneUser ==
    LoginTypeOK /\ OneAttemptPerLogin /\ ExchangesOwnCode /\ OneUserPerIdentity /\ ReturnsToOrigin
=============================================================================
