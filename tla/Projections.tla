---------------------------- MODULE Projections ----------------------------
(***************************************************************************)
(* The read models of a subscription (core/billing/projections.py).  The   *)
(* row lives under its service tenant; its seller and its payer each get a *)
(* copy under their own tenant.  announce_subscription_change() numbers    *)
(* every change and appends an outbox event in the transaction of the      *)
(* change; _project_subscription_job runs for an event at least once, in   *)
(* any order, on several workers, and may die between any two of its       *)
(* transactions.                                                           *)
(***************************************************************************)
EXTENDS Integers, FiniteSets

CONSTANTS
    Workers,
    MaxVersion      \* bound on the changes of the subscription

Owners == {"seller", "payer"}
Versions == 1..MaxVersion
NoCopy == 0     \* the version of a copy that does not exist
Copies == Versions \cup {NoCopy}

VARIABLES
    version,        \* of the canonical row
    commercial,     \* the row has a billing account and a merchant
    announced,      \* versions with an event in the outbox
    consumed,       \* versions whose event was recorded as consumed
    copies,         \* source_version of every owner's copy
    status,         \* of every owner's tenant
    jobs            \* what every worker is doing

projectionVars == <<version, commercial, announced, consumed, copies, status, jobs>>

Resting == [step |-> "idle", event |-> 0, seen |-> 0, owner |-> "seller"]

\* announce_subscription_change: a row without parties is not announced.
AnnounceSubscriptionChange ==
    /\ version < MaxVersion
    /\ version' = version + 1
    /\ announced' = IF commercial THEN announced \cup {version + 1} ELSE announced
    /\ UNCHANGED <<commercial, consumed, copies, status, jobs>>

\* reconcile_legacy_subscription fills in the parties and announces.
BecomeCommercial ==
    /\ ~commercial
    /\ version < MaxVersion
    /\ commercial' = TRUE
    /\ version' = version + 1
    /\ announced' = announced \cup {version + 1}
    /\ UNCHANGED <<consumed, copies, status, jobs>>

Set(w, step) == jobs' = [jobs EXCEPT ![w].step = step]

\* The start of _project_subscription_job: an event already consumed is skipped.
StartJob(w, v) ==
    /\ jobs[w].step = "idle"
    /\ v \in announced \ consumed
    /\ jobs' = [jobs EXCEPT ![w] = [Resting EXCEPT !.step = "check", !.event = v]]
    /\ UNCHANGED <<version, commercial, announced, consumed, copies, status>>

\* The announced version must be visible; otherwise the job is retried.
CheckVisible(w) ==
    /\ jobs[w].step = "check"
    /\ IF commercial /\ version < jobs[w].event
       THEN jobs' = [jobs EXCEPT ![w] = Resting]
       ELSE Set(w, "snapshot")
    /\ UNCHANGED <<version, commercial, announced, consumed, copies, status>>

\* project_subscription called outside a job.
Rebuild(w) ==
    /\ jobs[w].step = "idle"
    /\ commercial
    /\ jobs' = [jobs EXCEPT ![w] = [Resting EXCEPT !.step = "snapshot"]]
    /\ UNCHANGED <<version, commercial, announced, consumed, copies, status>>

\* _canonical_snapshot, read in a transaction of its own.
CanonicalSnapshot(w) ==
    /\ jobs[w].step = "snapshot"
    /\ jobs' = [jobs EXCEPT ![w].step = IF commercial THEN "look" ELSE "record",
                            ![w].seen = version]
    /\ UNCHANGED <<version, commercial, announced, consumed, copies, status>>

\* The seller's copy first, then the payer's.
Onwards(w) ==
    jobs' = [jobs EXCEPT ![w].step = IF jobs[w].owner = "seller" THEN "look" ELSE "record",
                         ![w].owner = "payer"]

StaleNever(w, o) == FALSE
Stale(w, o) == copies[o] >= jobs[w].seen

\* _apply_projection: the owner's tenant must be open and stays locked; an
\* existing copy is locked and replaced only by a newer version.
ApplyProjection(w) ==
    /\ jobs[w].step = "look"
    /\ LET o == jobs[w].owner
       IN  IF status[o] # "open" THEN Onwards(w) /\ UNCHANGED copies
           ELSE IF copies[o] = NoCopy THEN Set(w, "insert") /\ UNCHANGED copies
           ELSE /\ copies' = IF Stale(w, o) THEN copies
                             ELSE [copies EXCEPT ![o] = jobs[w].seen]
                /\ Onwards(w)
    /\ UNCHANGED <<version, commercial, announced, consumed, status>>

\* The insert of a copy nobody had: another worker may have been first, then
\* the whole transaction is tried once more.
InsertCopy(w) ==
    /\ jobs[w].step = "insert"
    /\ IF copies[jobs[w].owner] = NoCopy
       THEN copies' = [copies EXCEPT ![jobs[w].owner] = jobs[w].seen] /\ Onwards(w)
       ELSE UNCHANGED copies /\ Set(w, "look")
    /\ UNCHANGED <<version, commercial, announced, consumed, status>>

RecordEarly(w) ==
    /\ jobs[w].step \in {"look", "record"}
    /\ consumed' = IF jobs[w].event = 0 THEN consumed ELSE consumed \cup {jobs[w].event}
    /\ jobs' = [jobs EXCEPT ![w] = Resting]
    /\ UNCHANGED <<version, commercial, announced, copies, status>>

\* record_event_consumption after both copies, in a transaction of its own.
RecordEventConsumption(w) ==
    /\ jobs[w].step = "record"
    /\ consumed' = IF jobs[w].event = 0 THEN consumed ELSE consumed \cup {jobs[w].event}
    /\ jobs' = [jobs EXCEPT ![w] = Resting]
    /\ UNCHANGED <<version, commercial, announced, copies, status>>

JobDies(w) ==
    /\ jobs[w].step # "idle"
    /\ jobs' = [jobs EXCEPT ![w] = Resting]
    /\ UNCHANGED <<version, commercial, announced, consumed, copies, status>>

OwnerRowFreeAlways(o) == TRUE

\* lock_open_tenant's share lock lasts until the inserting transaction ends.
OwnerRowFree(o) == \A w \in Workers : jobs[w].step = "insert" => jobs[w].owner # o

\* The owner's tenant starts to be purged; later the purge deletes the copy.
CloseOwner(o) ==
    /\ status[o] = "open"
    /\ OwnerRowFree(o)
    /\ status' = [status EXCEPT ![o] = "purging"]
    /\ UNCHANGED <<version, commercial, announced, consumed, copies, jobs>>

PurgeOwner(o) ==
    /\ status[o] = "purging"
    /\ status' = [status EXCEPT ![o] = "purged"]
    /\ copies' = [copies EXCEPT ![o] = NoCopy]
    /\ UNCHANGED <<version, commercial, announced, consumed, jobs>>

ProjectionInit ==
    /\ version = 1
    /\ commercial \in BOOLEAN
    /\ announced = IF commercial THEN {1} ELSE {}
    /\ consumed = {}
    /\ copies = [o \in Owners |-> NoCopy]
    /\ status = [o \in Owners |-> "open"]
    /\ jobs = [w \in Workers |-> Resting]

ProjectionNext ==
    \/ AnnounceSubscriptionChange \/ BecomeCommercial
    \/ \E w \in Workers :
         \/ \E v \in Versions : StartJob(w, v)
         \/ CheckVisible(w) \/ Rebuild(w) \/ CanonicalSnapshot(w) \/ ApplyProjection(w)
         \/ InsertCopy(w) \/ RecordEventConsumption(w) \/ JobDies(w)
    \/ \E o \in Owners : CloseOwner(o) \/ PurgeOwner(o)

ProjectionSpec == ProjectionInit /\ [][ProjectionNext]_projectionVars

-----------------------------------------------------------------------------
ProjectionTypeOK ==
    /\ version \in Versions
    /\ announced \subseteq Versions /\ consumed \subseteq announced
    /\ copies \in [Owners -> Copies]
    /\ status \in [Owners -> {"open", "purging", "purged"}]

CopyNeverGoesBackStep ==
    \A o \in Owners : copies'[o] >= copies[o] \/ status'[o] = "purged"

\* A copy is never replaced by an older version, however the jobs of several
\* events overlap ("existing.source_version >= snapshot.version" under the lock).
CopyNeverGoesBack == [][CopyNeverGoesBackStep]_projectionVars

\* An event recorded as consumed is in the copy of every owner still open: no
\* later delivery will bring it (record_event_consumption comes last).
ConsumedIsProjected ==
    \A v \in consumed, o \in Owners : status[o] = "open" => copies[o] >= v

\* No worker gives a tenant whose purge has begun a copy again
\* (lock_open_tenant in the transaction that inserts).
NoCopyAfterPurge == \A o \in Owners : status[o] = "purged" => copies[o] = NoCopy

=============================================================================
