---------------------------- MODULE TenantSettings ----------------------------
(***************************************************************************)
(* What platform operators and tenants configure for one tenant: the       *)
(* override of a feature flag and the webhook subscriptions with their      *)
(* signing secrets, against the closing and the purge of the tenant; and    *)
(* the replay ledger a webhook receiver keeps.  An operation is a           *)
(* transaction: Open (the checks, the locks and the reads) and Commit.      *)
(***************************************************************************)
EXTENDS Integers, FiniteSets

CONSTANTS Operators,      \* the processes
          Intents,        \* what each behaviour starts from and may do (see Intent)
          Tolerance       \* the accepted age of a delivery, either way

VARIABLES intent,         \* what this behaviour may still do
          site,           \* the tenant: open | closed | purging
          override,       \* the override row: none | on | off
          hooks,          \* subscription -> unused | plain | sealed | gone
          resealed,       \* the secrets the committed re-encryptions say they changed
          operator,       \* process -> its transaction
          results,        \* how operations ended
          dial,           \* the clock
          replays,        \* the replay ledger: [event, at]
          taken           \* event -> how often it was accepted

settingVars == <<intent, site, override, hooks, resealed, operator, results, dial, replays, taken>>

HookIds == DOMAIN hooks

\* Where a behaviour starts (override, subscriptions) and what may happen in it: the
\* operations, whether the tenant is closed and purged, whether the key store fails, the
\* deliveries received (event and timestamp), how long a replay record is kept
\* (purge_expired_replay_records' older_than), and the time it takes.
Intent(row, subs, ops, closing, outages, arriving, keep, until) ==
    [row |-> row, subs |-> subs, ops |-> ops, closing |-> closing, outages |-> outages,
     arriving |-> arriving, keep |-> keep, until |-> until]

Resting == [op |-> "none", arg |-> "none", pc |-> "idle", found |-> "none", rows |-> {}, attempt |-> 0]

Busy(o) == operator[o].pc # "idle"

-----------------------------------------------------------------------------
(* Locks. *)

\* lock_open_tenant: the tenant row is held FOR SHARE; a closure waits for its holders.
Sharing(o) == Busy(o) /\ operator[o].op \in {"set", "subscribe", "reencrypt"}

TenantUnsharedAlways == TRUE

TenantUnshared == ~\E o \in Operators : Sharing(o)

\* Setting the value a row already has writes no row.
Writes(o) == operator[o].op = "remove" \/ (operator[o].op = "set" /\ operator[o].found # operator[o].arg)

\* The override row, or its place in the unique index, is held by an uncommitted write.
OverrideFree(me) == \A o \in Operators \ {me} : ~(Writes(o) /\ operator[o].pc = "written")

\* A subscription is held FOR UPDATE by a re-encryption.
HookFree(me, h) == \A o \in Operators \ {me} : ~(operator[o].op = "reencrypt" /\ h \in operator[o].rows)

Present(h) == hooks[h] \in {"plain", "sealed"}

\* lock_open_tenant raises for a closed tenant.
RequireOpen == site = "open"

-----------------------------------------------------------------------------
(* An operation commits, or ends without effect.  The audit rows of a change commit with it;  *)
(* of them only the number of secrets a re-encryption reports is kept.                        *)

End(o, result) ==
    /\ operator' = [operator EXCEPT ![o] = Resting]
    /\ results' = results \cup {[op |-> operator[o].op, result |-> result]}

-----------------------------------------------------------------------------
(* Feature-flag overrides. *)

\* set_tenant_override: authorised, the tenant held open, the row read.
OpenSet(o, t) ==
    /\ t \in intent.ops /\ t.op = "set" /\ ~Busy(o) /\ RequireOpen
    /\ intent' = [intent EXCEPT !.ops = @ \ {t}]
    /\ operator' = [operator EXCEPT ![o] = [Resting EXCEPT !.op = "set", !.arg = t.arg, !.pc = "read",
                                                          !.found = override, !.attempt = 1]]
    /\ UNCHANGED <<site, override, hooks, resealed, results, dial, replays, taken>>

\* The second attempt after an IntegrityError: everything from the start, rows and all.
SecondAttemptNever(o) == FALSE

SecondAttempt(o) == operator[o].attempt = 1 /\ RequireOpen

\* The row is updated, or inserted if none was read.  The insert meets a row another set
\* committed meanwhile (unique constraint), the update finds its row removed meanwhile.
WriteSet(o) ==
    /\ operator[o].op = "set" /\ operator[o].pc = "read" /\ (Writes(o) => OverrideFree(o))
    /\ IF (operator[o].found = "none") = (override = "none")
       THEN operator' = [operator EXCEPT ![o].pc = "written"] /\ UNCHANGED results
       ELSE IF operator[o].found = "none" /\ SecondAttempt(o)
       THEN operator' = [operator EXCEPT ![o].found = override, ![o].attempt = 2] /\ UNCHANGED results
       ELSE End(o, "conflict")
    /\ UNCHANGED <<intent, site, override, hooks, resealed, dial, replays, taken>>

\* The change and its audit rows commit together.
CommitSet(o) ==
    /\ operator[o].op = "set" /\ operator[o].pc = "written"
    /\ override' = (IF Writes(o) THEN operator[o].arg ELSE override)
    /\ End(o, "done")
    /\ UNCHANGED <<intent, site, hooks, resealed, dial, replays, taken>>

\* remove_tenant_override: the row FOR UPDATE; nothing to remove writes nothing.  The
\* tenant's state is not asked: an override may be removed from a closed tenant.
OpenRemove(o, t) ==
    /\ t \in intent.ops /\ t.op = "remove" /\ ~Busy(o) /\ OverrideFree(o)
    /\ intent' = [intent EXCEPT !.ops = @ \ {t}]
    /\ operator' = IF override = "none" THEN operator
                   ELSE [operator EXCEPT ![o] = [Resting EXCEPT !.op = "remove", !.pc = "written"]]
    /\ UNCHANGED <<site, override, hooks, resealed, results, dial, replays, taken>>

CommitRemove(o) ==
    /\ operator[o].op = "remove" /\ operator[o].pc = "written"
    /\ override' = "none"
    /\ End(o, "done")
    /\ UNCHANGED <<intent, site, hooks, resealed, dial, replays, taken>>

-----------------------------------------------------------------------------
(* Webhook subscriptions. *)

\* subscribe: a sealed secret and the row, under the tenant's lock.
OpenSubscribe(o, t) ==
    /\ t \in intent.ops /\ t.op = "subscribe" /\ ~Busy(o) /\ RequireOpen
    /\ intent' = [intent EXCEPT !.ops = @ \ {t}]
    /\ operator' = [operator EXCEPT ![o] = [Resting EXCEPT !.op = "subscribe", !.arg = t.arg, !.pc = "written"]]
    /\ UNCHANGED <<site, override, hooks, resealed, results, dial, replays, taken>>

CommitSubscribe(o) ==
    /\ operator[o].op = "subscribe" /\ operator[o].pc = "written"
    /\ \E h \in HookIds : hooks[h] = "unused" /\ hooks' = [hooks EXCEPT ![h] = "sealed"]
    /\ End(o, "done")
    /\ UNCHANGED <<intent, site, override, resealed, dial, replays, taken>>

\* unsubscribe: the row is read without a lock; the delete waits for whoever holds it.
OpenUnsubscribe(o, t, h) ==
    /\ t \in intent.ops /\ t.op = "unsubscribe" /\ ~Busy(o) /\ Present(h)
    /\ intent' = [intent EXCEPT !.ops = @ \ {t}]
    /\ operator' = [operator EXCEPT ![o] = [Resting EXCEPT !.op = "unsubscribe", !.pc = "read", !.rows = {h}]]
    /\ UNCHANGED <<site, override, hooks, resealed, results, dial, replays, taken>>

CommitUnsubscribe(o) ==
    /\ operator[o].op = "unsubscribe" /\ \A h \in operator[o].rows : HookFree(o, h)
    /\ hooks' = [h \in HookIds |-> IF h \in operator[o].rows THEN "gone" ELSE hooks[h]]
    /\ End(o, "done")
    /\ UNCHANGED <<intent, site, override, resealed, dial, replays, taken>>

\* reencrypt_legacy_signing_secrets: the key is probed, the tenant held open, the rows that
\* still hold plaintext held FOR UPDATE.
OpenReencrypt(o, t) ==
    /\ t \in intent.ops /\ t.op = "reencrypt" /\ ~Busy(o) /\ RequireOpen
    /\ \A h \in HookIds : hooks[h] = "plain" => HookFree(o, h)
    /\ intent' = [intent EXCEPT !.ops = @ \ {t}]
    /\ operator' = [operator EXCEPT ![o] = [Resting EXCEPT !.op = "reencrypt", !.pc = "written",
                                                          !.rows = {h \in HookIds : hooks[h] = "plain"}]]
    /\ UNCHANGED <<site, override, hooks, resealed, results, dial, replays, taken>>

\* Every new ciphertext is decrypted and compared before its row changes; one that does not
\* come back ends the transaction with nothing changed.
VerifiedEach(rows, failed) == rows \cap failed = {}

CommitReencrypt(o) ==
    /\ operator[o].op = "reencrypt"
    /\ \E failed \in SUBSET (IF intent.outages THEN operator[o].rows ELSE {}) :
          IF VerifiedEach(operator[o].rows, failed)
          THEN /\ hooks' = [h \in HookIds |-> IF h \in operator[o].rows THEN "sealed" ELSE hooks[h]]
               /\ resealed' = resealed + Cardinality(operator[o].rows)
               /\ End(o, "done")
          ELSE End(o, "refused") /\ UNCHANGED <<hooks, resealed>>
    /\ UNCHANGED <<intent, site, override, dial, replays, taken>>

-----------------------------------------------------------------------------
(* The tenant is closed, purged. *)

Close ==
    /\ intent.closing /\ site = "open" /\ TenantUnshared
    /\ site' = "closed"
    /\ UNCHANGED <<intent, override, hooks, resealed, operator, results, dial, replays, taken>>

BeginPurge ==
    /\ site = "closed" /\ site' = "purging"
    /\ UNCHANGED <<intent, override, hooks, resealed, operator, results, dial, replays, taken>>

\* purge_tenant_feature_flag_overrides
PurgeOverrides ==
    /\ site = "purging" /\ override # "none"
    /\ \A o \in Operators : ~(Writes(o) /\ operator[o].pc = "written")
    /\ override' = "none"
    /\ UNCHANGED <<intent, site, hooks, resealed, operator, results, dial, replays, taken>>

\* purge_tenant_webhooks: the replay records, then the subscriptions.
PurgeWebhooks ==
    /\ site = "purging" /\ (replays # {} \/ \E h \in HookIds : Present(h))
    /\ replays' = {}
    /\ hooks' = [h \in HookIds |-> IF Present(h) THEN "gone" ELSE hooks[h]]
    /\ UNCHANGED <<intent, site, override, resealed, operator, results, dial, taken>>

-----------------------------------------------------------------------------
(* The receiver's replay ledger. *)

FreshIfNotOld(stamp) == dial - stamp <= Tolerance

\* verify_webhook_signature: a timestamp too old or too far ahead is refused.
Fresh(stamp) == dial - stamp <= Tolerance /\ stamp - dial <= Tolerance

\* verify_and_record_webhook_delivery: fresh, and not in the ledger.
Receive(event) ==
    /\ event \in intent.arriving
    /\ Fresh(event.stamp) /\ ~\E r \in replays : r.event = event.id
    /\ replays' = replays \cup {[event |-> event.id, at |-> dial]}
    /\ taken' = [taken EXCEPT ![event] = @ \cup {dial}]
    /\ UNCHANGED <<intent, site, override, hooks, resealed, operator, results, dial>>

\* purge_expired_replay_records
PurgeReplays ==
    /\ \E r \in replays : r.at < dial - intent.keep
    /\ replays' = {r \in replays : r.at >= dial - intent.keep}
    /\ UNCHANGED <<intent, site, override, hooks, resealed, operator, results, dial, taken>>

Advance ==
    /\ dial < intent.until
    /\ dial' = dial + 1
    /\ UNCHANGED <<intent, site, override, hooks, resealed, operator, results, replays, taken>>

-----------------------------------------------------------------------------
SettingsInit ==
    /\ intent \in Intents
    /\ site = "open" /\ override = intent.row /\ hooks = intent.subs
    /\ resealed = 0
    /\ operator = [o \in Operators |-> Resting] /\ results = {}
    /\ dial = 0 /\ replays = {} /\ taken = [event \in intent.arriving |-> {}]

SettingsNext ==
    \/ \E o \in Operators, t \in intent.ops :
          \/ OpenSet(o, t) \/ OpenRemove(o, t) \/ OpenSubscribe(o, t) \/ OpenReencrypt(o, t)
          \/ \E h \in HookIds : OpenUnsubscribe(o, t, h)
    \/ \E o \in Operators : \/ WriteSet(o) \/ CommitSet(o) \/ CommitRemove(o)
                            \/ CommitSubscribe(o) \/ CommitUnsubscribe(o) \/ CommitReencrypt(o)
    \/ Close \/ BeginPurge \/ PurgeOverrides \/ PurgeWebhooks
    \/ \E event \in intent.arriving : Receive(event)
    \/ PurgeReplays \/ Advance

SettingsSpec == SettingsInit /\ [][SettingsNext]_settingVars

-----------------------------------------------------------------------------
\* The variables hold rows of their tables.
SettingsTypeOK ==
    /\ site \in {"open", "closed", "purging"}
    /\ override \in {"none", "on", "off"}
    /\ \A h \in HookIds : hooks[h] \in {"unused", "plain", "sealed", "gone"}

\* The number a re-encryption reports is the number of plaintext secrets it sealed, whatever
\* is re-encrypted or unsubscribed at the same time: no secret is counted twice, and no
\* deleted subscription (reencrypt_legacy_signing_secrets).
ResealedIsCountedStep ==
    resealed' - resealed = Cardinality({h \in HookIds : hooks[h] = "plain" /\ hooks'[h] = "sealed"})

SettingsFrozenStep ==
    site # "open" => /\ override' \in {override, "none"}
                     /\ \A h \in HookIds : hooks'[h] \in {hooks[h], "gone"}

\* Once the tenant is closed no override is set and no subscription appears or changes:
\* what was allowed while it was open does not commit later.
SettingsFrozen == [][SettingsFrozenStep]_settingVars

\* A set that lost a race to another set is made good by its second attempt: without a
\* removal at the same time no set ends in a conflict.
ConcurrentSetsSucceed ==
    [op |-> "set", result |-> "conflict"] \in results =>
        \E other \in {r.op : r \in results} \cup {operator[o].op : o \in Operators} : other = "remove"

\* A webhook event is accepted once, however often it arrives, when its replay record is kept
\* for both sides of the tolerance.  When it is kept only for the tolerance, as the docstring
\* of purge_expired_replay_records allows, an event is accepted again only if its timestamp
\* was ahead of the clock the first time.
EventAcceptedOnce ==
    \A event \in DOMAIN taken :
        Cardinality(taken[event]) > 1 =>
            intent.keep < 2 * Tolerance /\ \E t \in taken[event] : t < event.stamp
=============================================================================
