----------------------------- MODULE SharedStore -----------------------------
(***************************************************************************)
(* What the application keeps in Redis: the fixed-window counter of the     *)
(* rate limiter, the concurrency leases, and the dead-letter list the job   *)
(* wrapper appends to.  Every script is one atomic step; a dead letter is   *)
(* two commands, an append and a trim, and peek_rate_limit reads count and  *)
(* time to live one after the other.  The job queue itself (arq) is         *)
(* modelled by what the wrapper relies on: an attempt number that grows     *)
(* with every start, and redelivery after a crash.                          *)
(***************************************************************************)
EXTENDS Integers, Sequences, FiniteSets, SequencesExt

CONSTANTS Requesters,     \* processes that ask the limiter and the leases
          JobIds,         \* the jobs
          JobTenant,      \* job -> the tenant its payload names
          Errands,        \* what each behaviour may do (see Errand)
          RateLimit,      \* requests_per_window
          RateWindow,     \* window_seconds
          LeaseLimit,     \* scope -> its limit
          MaxJobTries,    \* JobsConfig.max_tries
          MaxDeadLetters  \* JobsConfig.dead_letter_max_entries

VARIABLES errand,         \* what this behaviour may still do
          tick,           \* the Redis server's clock
          counter,        \* the limiter's key: at most one [count, expires]
          admitted,       \* when requests were admitted
          peeked,         \* requester -> count read by a peek under way (-1: none)
          scopes,         \* scope -> [members, expires]: the sorted set and its key's expiry
          leases,         \* the leases granted and neither released nor given up
          letters,        \* the dead-letter list, oldest first
          pushed,         \* how many letters were ever appended
          queued,         \* job -> queued | running | done | failed | dropped
          tries,          \* job -> attempts started
          lastError,      \* job -> how its last attempt ended
          wrapper         \* job -> where the wrapper is: idle | handler | push | trim

storeVars == <<errand, tick, counter, admitted, peeked, scopes, leases,
               letters, pushed, queued, tries, lastError, wrapper>>

limiterVars == <<counter, admitted, peeked>>
leaseVars == <<scopes, leases>>
jobVars == <<letters, pushed, queued, tries, lastError, wrapper>>

ScopeNames == DOMAIN LeaseLimit

\* What one behaviour may do: the requests asked, the leases wanted (scopes and time to
\* live), the jobs with the ways their attempts may end, the crashes, the purges
\* and the time it takes.
Errand(requests, wanted, jobs, endings, crashes, purges, until) ==
    [requests |-> requests, wanted |-> wanted, jobs |-> jobs, endings |-> endings,
     crashes |-> crashes, purges |-> purges, until |-> until]

-----------------------------------------------------------------------------
(* The rate limiter. *)

\* The script: the first request of a window sets its expiry, later ones never extend it.
Incremented(c) ==
    IF c = {} THEN {[count |-> 1, expires |-> tick + RateWindow]}
    ELSE {[k EXCEPT !.count = @ + 1] : k \in c}

AllowedOneMore(count) == count <= RateLimit + 1

Allowed(count) == count <= RateLimit

CheckRateLimit(q) ==
    /\ errand.requests > 0 /\ peeked[q] = -1
    /\ errand' = [errand EXCEPT !.requests = @ - 1]
    /\ counter' = Incremented(counter)
    /\ admitted' = IF \E k \in counter' : Allowed(k.count) THEN Append(admitted, tick) ELSE admitted
    /\ UNCHANGED <<tick, peeked, leaseVars, jobVars>>

\* The first half of a peek: GET.
PeekCount(q) ==
    /\ errand.requests > 0 /\ peeked[q] = -1
    /\ errand' = [errand EXCEPT !.requests = @ - 1]
    /\ peeked' = [peeked EXCEPT ![q] = IF counter = {} THEN 0 ELSE (CHOOSE k \in counter : TRUE).count]
    /\ UNCHANGED <<tick, counter, admitted, leaseVars, jobVars>>

\* The second half: TTL, which may belong to another window by now.
PeekTtl(q) ==
    /\ peeked[q] # -1
    /\ peeked' = [peeked EXCEPT ![q] = -1]
    /\ UNCHANGED <<errand, tick, counter, admitted, leaseVars, jobVars>>

-----------------------------------------------------------------------------
(* The concurrency leases. *)

Unexpired(members) == {m \in members : m.until > tick}

\* A key is given the new lease's time to live only if that is longer than what it has.
KeyExpiryShortened(expires, ttl) == tick + ttl

KeyExpiry(expires, ttl) == IF expires - tick < ttl THEN tick + ttl ELSE expires

FullOneLater(names) == {s \in names : Cardinality(Unexpired(scopes[s].members)) > LeaseLimit[s]}

\* The scopes that are full, once expired members are gone.
Full(names) == {s \in names : Cardinality(Unexpired(scopes[s].members)) >= LeaseLimit[s]}

\* All scopes are checked before any of them is written: all or none.
Acquired(names, member, ttl) ==
    [s \in ScopeNames |->
        IF s \in names /\ Full(names) = {}
        THEN [members |-> Unexpired(scopes[s].members) \cup {member}, expires |-> KeyExpiry(scopes[s].expires, ttl)]
        ELSE scopes[s]]

Acquire(q, want) ==
    /\ want \in errand.wanted /\ ~\E l \in leases : l.holder = q
    /\ errand' = [errand EXCEPT !.wanted = @ \ {want}]
    /\ LET member == [id |-> want.id, until |-> tick + want.ttl]
       IN /\ scopes' = Acquired(want.scopes, member, want.ttl)
          /\ leases' = IF Full(want.scopes) = {}
                       THEN leases \cup {[holder |-> q, scopes |-> want.scopes, member |-> member]}
                       ELSE leases
    /\ UNCHANGED <<tick, limiterVars, jobVars>>

\* Release removes this lease's own id from each of its scopes and nothing else.
Release(l) ==
    /\ l \in leases
    /\ leases' = leases \ {l}
    /\ scopes' = [s \in ScopeNames |->
                    IF s \in l.scopes THEN [scopes[s] EXCEPT !.members = @ \ {l.member}] ELSE scopes[s]]
    /\ UNCHANGED <<errand, tick, limiterVars, jobVars>>

\* The process holding a lease is gone, or its release got no answer: only time frees the slot.
Abandon(l) ==
    /\ l \in leases /\ errand.crashes > 0
    /\ errand' = [errand EXCEPT !.crashes = @ - 1]
    /\ leases' = leases \ {l}
    /\ UNCHANGED <<tick, scopes, limiterVars, jobVars>>

-----------------------------------------------------------------------------
(* Jobs. *)

\* arq starts a job: the attempt number grows.  A job past its attempts is ended by arq
\* itself; the wrapper never sees it.
StartJob(j) ==
    /\ j \in errand.jobs /\ queued[j] = "queued" /\ wrapper[j] = "idle"
    /\ tries' = [tries EXCEPT ![j] = @ + 1]
    /\ IF tries[j] < MaxJobTries
       THEN queued' = [queued EXCEPT ![j] = "running"] /\ wrapper' = [wrapper EXCEPT ![j] = "handler"]
       ELSE queued' = [queued EXCEPT ![j] = "dropped"] /\ UNCHANGED wrapper
    /\ UNCHANGED <<errand, tick, limiterVars, leaseVars, letters, pushed, lastError>>

\* The wrapper's rule: another attempt unless the handler ran out of time (its work may
\* still be running), said its outcome must not be repeated, broke the job contract, or
\* this was the last attempt.
RetriesTimeout(j, ending) == ending \in {"error", "timeout"} /\ tries[j] < MaxJobTries

Retries(j, ending) == ending = "error" /\ tries[j] < MaxJobTries

\* The attempt ends: success, another attempt, or on to the dead letter.
EndAttempt(j, ending) ==
    /\ wrapper[j] = "handler" /\ ending \in errand.endings
    /\ lastError' = [lastError EXCEPT ![j] = ending]
    /\ IF ending = "ok"
       THEN queued' = [queued EXCEPT ![j] = "done"] /\ wrapper' = [wrapper EXCEPT ![j] = "idle"]
       ELSE IF Retries(j, ending)
       THEN queued' = [queued EXCEPT ![j] = "queued"] /\ wrapper' = [wrapper EXCEPT ![j] = "idle"]
       ELSE wrapper' = [wrapper EXCEPT ![j] = "push"] /\ UNCHANGED queued
    /\ UNCHANGED <<errand, tick, limiterVars, leaseVars, letters, pushed, tries>>

\* record_dead_letter: RPUSH ...
PushDeadLetter(j) ==
    /\ wrapper[j] = "push"
    /\ letters' = Append(letters, [n |-> pushed + 1, job |-> j, tenant |-> JobTenant[j], error |-> "raw"])
    /\ pushed' = pushed + 1
    /\ wrapper' = [wrapper EXCEPT ![j] = "trim"]
    /\ UNCHANGED <<errand, tick, limiterVars, leaseVars, queued, tries, lastError>>

KeepHead(list) == SubSeq(list, 1, IF Len(list) < MaxDeadLetters THEN Len(list) ELSE MaxDeadLetters)

\* ... then LTRIM -N -1: the N most recent stay.
KeepTail(list) ==
    SubSeq(list, IF Len(list) < MaxDeadLetters THEN 1 ELSE Len(list) - MaxDeadLetters + 1, Len(list))

TrimDeadLetters(j) ==
    /\ wrapper[j] = "trim"
    /\ letters' = KeepTail(letters)
    /\ wrapper' = [wrapper EXCEPT ![j] = "idle"]
    /\ queued' = [queued EXCEPT ![j] = "failed"]
    /\ UNCHANGED <<errand, tick, limiterVars, leaseVars, pushed, tries, lastError>>

\* The worker dies: arq delivers the job again, its attempt counted.
CrashWorker(j) ==
    /\ wrapper[j] # "idle" /\ errand.crashes > 0
    /\ errand' = [errand EXCEPT !.crashes = @ - 1]
    /\ wrapper' = [wrapper EXCEPT ![j] = "idle"]
    /\ queued' = [queued EXCEPT ![j] = "queued"]
    /\ lastError' = [lastError EXCEPT ![j] = "crash"]
    /\ UNCHANGED <<tick, limiterVars, leaseVars, letters, pushed, tries>>

\* The purge script: exactly the tenant's own entries go, the others keep their order.
WithoutTenant(list, tenant) == SelectSeq(list, LAMBDA e : e.tenant # tenant)

PurgeTenantDeadLetters(tenant) ==
    /\ tenant \in errand.purges
    /\ errand' = [errand EXCEPT !.purges = @ \ {tenant}]
    /\ letters' = WithoutTenant(letters, tenant)
    /\ UNCHANGED <<tick, limiterVars, leaseVars, pushed, queued, tries, lastError, wrapper>>

\* The maintenance script: matching error texts are replaced in place.
RewriteDeadLetterErrors ==
    /\ "rewrite" \in errand.purges
    /\ errand' = [errand EXCEPT !.purges = @ \ {"rewrite"}]
    /\ letters' = [i \in DOMAIN letters |-> [letters[i] EXCEPT !.error = "replaced"]]
    /\ UNCHANGED <<tick, limiterVars, leaseVars, pushed, queued, tries, lastError, wrapper>>

-----------------------------------------------------------------------------
\* Time passes; Redis drops the keys whose time is over.
Tick ==
    /\ tick < errand.until
    /\ tick' = tick + 1
    /\ counter' = {k \in counter : k.expires > tick + 1}
    /\ scopes' = [s \in ScopeNames |->
                    IF scopes[s].expires <= tick + 1 THEN [members |-> {}, expires |-> 0] ELSE scopes[s]]
    /\ UNCHANGED <<errand, admitted, peeked, leases, jobVars>>

StoreInit ==
    /\ errand \in Errands
    /\ tick = 0
    /\ counter = {} /\ admitted = <<>> /\ peeked = [q \in Requesters |-> -1]
    /\ scopes = [s \in ScopeNames |-> [members |-> {}, expires |-> 0]] /\ leases = {}
    /\ letters = <<>> /\ pushed = 0
    /\ queued = [j \in JobIds |-> "queued"] /\ tries = [j \in JobIds |-> 0]
    /\ lastError = [j \in JobIds |-> "none"] /\ wrapper = [j \in JobIds |-> "idle"]

StoreNext ==
    \/ Tick
    \/ \E q \in Requesters : CheckRateLimit(q) \/ PeekCount(q) \/ PeekTtl(q)
    \/ \E q \in Requesters : \E want \in errand.wanted : Acquire(q, want)
    \/ \E l \in leases : Release(l) \/ Abandon(l)
    \/ \E j \in JobIds : \/ StartJob(j) \/ PushDeadLetter(j) \/ TrimDeadLetters(j) \/ CrashWorker(j)
                         \/ \E ending \in errand.endings : EndAttempt(j, ending)
    \/ \E t \in errand.purges \ {"rewrite"} : PurgeTenantDeadLetters(t)
    \/ RewriteDeadLetterErrors

StoreSpec == StoreInit /\ [][StoreNext]_storeVars

-----------------------------------------------------------------------------
\* The variables hold what the scripts store.
StoreTypeOK ==
    /\ tick \in 0..errand.until /\ Cardinality(counter) <= 1
    /\ \A j \in JobIds : /\ queued[j] \in {"queued", "running", "done", "failed", "dropped"}
                         /\ wrapper[j] \in {"idle", "handler", "push", "trim"}
                         /\ tries[j] \in 0..(MaxJobTries + 2)

\* A fixed window admits at most twice the limit in any span as long as the window: the end
\* of one window and the start of the next, and never more.
AdmissionBounded ==
    \A start \in 0..errand.until :
        Cardinality({i \in DOMAIN admitted : admitted[i] \in start..(start + RateWindow - 1)}) <= 2 * RateLimit

\* In no scope do more leases live at a time than its limit, whatever their times to live,
\* the crashes of their holders and the order of acquisitions and releases.
LeasesBounded ==
    \A s \in ScopeNames :
        Cardinality({l \in leases : s \in l.scopes /\ l.member.until > tick}) <= LeaseLimit[s]

\* A lease is held in all its scopes or in none: a refused acquisition leaves nothing behind
\* that would keep a slot from others.
HeldInAllOrNone ==
    \A s \in ScopeNames : \A m \in Unexpired(scopes[s].members) :
        \A want \in UNION {e.wanted : e \in Errands} :
            want.id = m.id => \A r \in want.scopes : m \in scopes[r].members

UnsafeNotRepeatedStep ==
    \A j \in JobIds : tries'[j] = tries[j] + 1 => lastError[j] \in {"none", "error", "crash"}

\* An attempt that ran out of time, or whose outcome must not be repeated, is never followed
\* by another attempt: only a failure that may be repeated, or a crash, is.
UnsafeNotRepeated == [][UnsafeNotRepeatedStep]_storeVars

LettersKeptStep ==
    \A i \in DOMAIN letters :
       \/ \E k \in DOMAIN letters' : letters'[k].n = letters[i].n /\ letters'[k].tenant = letters[i].tenant
       \/ letters[i].tenant \in errand.purges \ errand'.purges
       \/ Len(letters) - i >= MaxDeadLetters

\* An entry leaves the dead-letter list only when its tenant is purged or when as many newer
\* ones are there as the list may hold: purges, appends and trims in any order lose no other.
LettersKept == [][LettersKeptStep]_storeVars
=============================================================================
