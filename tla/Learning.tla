------------------------------ MODULE Learning ------------------------------
(***************************************************************************)
(* Self-learning (control_plane/self_learning): the adaptations of one      *)
(* lineage of one tenant, the experiments about them and the canaries that  *)
(* put them into effect.                                                    *)
(*                                                                          *)
(* A row of adaptations is its version.  A transaction is one step that     *)
(* opens it (locks, reads, checks) and one that commits it; a call that     *)
(* checks a status in one transaction and writes in another has a step for  *)
(* each.  FOR UPDATE rows are locked from the one to the other, and so is   *)
(* the tenant's row (FOR SHARE) in every transaction that asks for an open  *)
(* tenant.  What a caller obtains elsewhere is an input: the outcome of an  *)
(* evaluation, a violated threshold, the tenant's learning policy.          *)
(*                                                                          *)
(* The last part has the pure judgements those inputs come from: a          *)
(* candidate measured against a baseline under a list of thresholds         *)
(* (evaluation/service.py), a running canary's metrics against the same     *)
(* list (autonomous_improvement/service.py), and whether a list of          *)
(* observations shows a recurring problem (system_learning/service.py).     *)
(* There a state is one input; the only step chooses it.                    *)
(***************************************************************************)
EXTENDS Integers, Sequences, FiniteSets, FiniteSetsExt, Functions

CONSTANTS
    Learners,   \* calls that run at the same time
    Lessons,    \* the rows a behaviour starts with and what is asked of them
    Metrics,        \* names of measured metrics
    Values,         \* measured values; a metric may also be missing
    Bars,           \* absolute bars of a threshold
    Regressions,    \* regressions a threshold tolerates
    Sources,        \* references observations name
    Times,          \* when observations are made
    Windows, Minimums

VARIABLES
    adaptations,  \* self_learning.adaptations, by version
    experiments,  \* self_learning.experiments
    canaries,     \* self_learning.canaries
    permitted,    \* the learning policy allows this tenant's learning
    schoolOpen,   \* the tenant is open
    learner,      \* the call of each learner
    asked,        \* what is still asked
    judged        \* the input of a judgement, once chosen

learningVars == <<adaptations, experiments, canaries, permitted, schoolOpen, learner, asked>>

\* replaced is no column: the version the row's last activation superseded.
Adaptation(status, outcome, previous) ==
    [status |-> status, outcome |-> outcome, previous |-> previous, replaced |-> 0]

Experiment(status, outcome, source) == [status |-> status, outcome |-> outcome, source |-> source]

Canary(status, adaptation, experiment) ==
    [status |-> status, adaptation |-> adaptation, experiment |-> experiment]

AskFor(op, on, with) == [op |-> op, on |-> on, with |-> with]

Resting == [stage |-> "idle", op |-> "none", on |-> 0, with |-> "none", seen |-> 0]

CandidateStatuses == {"candidate", "active", "superseded", "rolled_back"}
ExperimentStatuses == {"configured", "running", "completed", "failed", "cancelled"}
TerminalExperiments == {"completed", "failed", "cancelled"}
CanaryStatuses ==
    {"configured", "running", "succeeded", "promoted", "rolled_back", "rollback_failed", "cancelled"}
Rollbackable == {"running", "succeeded"}

-----------------------------------------------------------------------------
(* Locks.                                                                  *)

\* The adaptation an operation works on: a canary's own, or the one it names.
Target(op, on) ==
    IF op \in {"start", "observe", "rollback_canary"} THEN canaries[on].adaptation ELSE on

Activating == {"activate", "start"}
Reverting == {"rollback", "observe", "rollback_canary"}

\* SELECT ... FOR UPDATE of adaptations, held until the transaction ends.
AdaptationsHeld(l) ==
    LET c == learner[l] IN
    IF c.stage # "open" THEN {}
    ELSE IF c.op \in Activating THEN {Target(c.op, c.on)}
    ELSE IF c.op \in Reverting THEN {Target(c.op, c.on), adaptations[Target(c.op, c.on)].previous}
    ELSE {}

AdaptationFreeAlways(l, a) == TRUE

AdaptationFree(l, a) == \A o \in Learners \ {l} : a \notin AdaptationsHeld(o)

\* _locked_canary: the canary's row is read FOR UPDATE.
CanaryFree(l, k) ==
    \A o \in Learners \ {l} :
        ~(learner[o].stage = "open" /\ learner[o].on = k /\ learner[o].op \in {"start", "observe", "rollback_canary"})

TenantLockedNever(l) == FALSE

\* lock_open_tenant: the tenant's row is shared until the transaction ends.
TenantLocked(l) == learner[l].stage = "open"

-----------------------------------------------------------------------------
Rows == <<adaptations, experiments, canaries>>
Setting == <<permitted, schoolOpen>>

Goes(l, stage, op, on, with, seen) ==
    learner' = [learner EXCEPT ![l] = [stage |-> stage, op |-> op, on |-> on, with |-> with, seen |-> seen]]

Ends(l) == learner' = [learner EXCEPT ![l] = Resting]

\* A call is taken up where its first check passes; a refused one changes nothing.
Begins(l, a, stage, on, seen) ==
    /\ learner[l].stage = "idle"
    /\ Goes(l, stage, a.op, on, a.with, seen)
    /\ asked' = asked \ {a}
    /\ UNCHANGED <<Rows, Setting>>

\* A call that goes on to its next transaction, or is refused by it.
Continues(l, stage, seen) ==
    /\ Goes(l, stage, learner[l].op, learner[l].on, learner[l].with, seen)
    /\ UNCHANGED <<Rows, Setting, asked>>

Refused(l) == Ends(l) /\ UNCHANGED <<Rows, Setting, asked>>

Active == {v \in DOMAIN adaptations : adaptations[v].status = "active"}

CurrentActive == IF Active = {} THEN 0 ELSE CHOOSE v \in Active : TRUE

-----------------------------------------------------------------------------
(* Adaptations.                                                            *)

\* propose_adaptation: the active row and the highest version are read.
OpenPropose(l, a) ==
    /\ a.op = "propose" /\ permitted /\ schoolOpen
    /\ Begins(l, a, "open", Len(adaptations) + 1, CurrentActive)

\* The version is unique in its lineage.
CommitPropose(l) ==
    LET c == learner[l] IN
    /\ c.stage = "open" /\ c.op = "propose"
    /\ adaptations' = IF c.on = Len(adaptations) + 1
                      THEN Append(adaptations, Adaptation("candidate", "none", c.seen))
                      ELSE adaptations
    /\ Ends(l)
    /\ UNCHANGED <<experiments, canaries, Setting, asked>>

\* record_adaptation_evaluation: the row is read without a lock.
OpenEvaluation(l, a) ==
    /\ a.op = "evaluate" /\ schoolOpen
    /\ a.on \in DOMAIN adaptations /\ adaptations[a.on].status = "candidate"
    /\ Begins(l, a, "open", a.on, 0)

CommitEvaluation(l) ==
    LET c == learner[l] IN
    /\ c.stage = "open" /\ c.op = "evaluate"
    /\ AdaptationFree(l, c.on)
    /\ adaptations' = [adaptations EXCEPT ![c.on].outcome = c.with]
    /\ Ends(l)
    /\ UNCHANGED <<experiments, canaries, Setting, asked>>

MayActivateAgain(v) == adaptations[v].outcome = "pass"

\* activate_adaptation_in_session: what it finds under the row's lock.
MayActivate(v) == adaptations[v].status = "candidate" /\ adaptations[v].outcome = "pass"

\* rollback_adaptation_in_session: what it finds under the row's lock.
MayRollBack(v) == adaptations[v].status = "active" /\ adaptations[v].previous # 0

\* activate_adaptation, the tier 1 tool: the candidate is locked, the active row is read.
OpenActivate(l, a) ==
    /\ a.op = "activate" /\ schoolOpen
    /\ a.on \in DOMAIN adaptations /\ AdaptationFree(l, a.on) /\ MayActivate(a.on)
    /\ Begins(l, a, "open", a.on, CurrentActive)

ConflictNever(seen) == FALSE

\* ux_adaptations_one_active_per_lineage, once the row that was read is superseded.
Conflict(seen) == Active \ {seen} # {}

\* The two updates of an activation, the row that was read first.
Activated(v, seen) ==
    [w \in DOMAIN adaptations |->
        IF w = v THEN [adaptations[w] EXCEPT !.status = "active", !.replaced = seen]
        ELSE IF w = seen THEN [adaptations[w] EXCEPT !.status = "superseded"]
        ELSE adaptations[w]]

\* The two updates of a rollback.
RolledBack(v) ==
    [w \in DOMAIN adaptations |->
        IF w = v THEN [adaptations[w] EXCEPT !.status = "rolled_back"]
        ELSE IF w = adaptations[v].previous THEN [adaptations[w] EXCEPT !.status = "active"]
        ELSE adaptations[w]]

\* The canary a transaction moves with its adaptation, if it has one.
WithCanary(l, status) ==
    canaries' = IF learner[l].op \in {"start", "observe", "rollback_canary"}
                THEN [canaries EXCEPT ![learner[l].on].status = status] ELSE canaries

\* The commit of activate_adaptation and of start_canary.
CommitActivate(l) ==
    LET c == learner[l]
        v == Target(c.op, c.on)
    IN
    /\ c.stage = "open" /\ c.op \in Activating
    /\ AdaptationFree(l, c.seen)
    /\ IF Conflict(c.seen)
       THEN UNCHANGED <<adaptations, canaries>>
       ELSE /\ adaptations' = Activated(v, c.seen)
            /\ WithCanary(l, "running")
    /\ Ends(l)
    /\ UNCHANGED <<experiments, Setting, asked>>

\* rollback_adaptation, the tier 1 tool.
OpenRollBack(l, a) ==
    /\ a.op = "rollback" /\ schoolOpen
    /\ a.on \in DOMAIN adaptations /\ AdaptationFree(l, a.on) /\ MayRollBack(a.on)
    /\ AdaptationFree(l, adaptations[a.on].previous)
    /\ Begins(l, a, "open", a.on, 0)

\* The commit of rollback_adaptation and of a canary's rollback.
CommitRollBack(l) ==
    LET c == learner[l] IN
    /\ c.stage = "open" /\ c.op \in Reverting
    /\ adaptations' = RolledBack(Target(c.op, c.on))
    /\ WithCanary(l, "rolled_back")
    /\ Ends(l)
    /\ UNCHANGED <<experiments, Setting, asked>>

-----------------------------------------------------------------------------
(* Experiments.                                                            *)

\* create_experiment, of an adaptation.
CreateExperiment(l, a) ==
    /\ a.op = "create_experiment" /\ permitted /\ schoolOpen
    /\ learner[l].stage = "idle" /\ a.on \in DOMAIN adaptations
    /\ experiments' = Append(experiments, Experiment("configured", "none", a.on))
    /\ asked' = asked \ {a}
    /\ UNCHANGED <<adaptations, canaries, Setting, learner>>

\* What execute_experiment, record_experiment_result and cancel_experiment ask of the row.
ExperimentAllows(op, status) ==
    \/ op = "execute" /\ status = "configured"
    \/ op = "record" /\ status = "running"
    \/ op = "cancel_experiment" /\ status \notin TerminalExperiments

\* The row is read without a lock.
OpenExperiment(l, a) ==
    /\ a.on \in DOMAIN experiments /\ schoolOpen
    /\ ExperimentAllows(a.op, experiments[a.on].status)
    /\ Begins(l, a, "open", a.on, 0)

CommitExperiment(l) ==
    LET c == learner[l]
        e == experiments[c.on]
    IN
    /\ c.stage = "open"
    /\ \/ /\ c.op = "execute"
          /\ experiments' = [experiments EXCEPT ![c.on].status = "running"]
       \/ /\ c.op = "record"
          /\ experiments' = [experiments EXCEPT
                ![c.on] = [e EXCEPT !.status = IF c.with = "invalid" THEN "failed" ELSE "completed",
                                    !.outcome = c.with]]
       \/ /\ c.op = "cancel_experiment"
          /\ experiments' = [experiments EXCEPT ![c.on].status = "cancelled"]
    /\ Ends(l)
    /\ UNCHANGED <<adaptations, canaries, Setting, asked>>

-----------------------------------------------------------------------------
(* Canaries.                                                               *)

\* create_canary: the experiment and the adaptation it names are read, and the gate's
\* decision for them.
ReadForCanary(l, a) ==
    /\ a.op = "create_canary" /\ permitted
    /\ a.on \in DOMAIN experiments
    /\ experiments[a.on].status = "completed" /\ experiments[a.on].outcome = "pass"
    /\ MayActivate(experiments[a.on].source)
    /\ Begins(l, a, "read", a.on, experiments[a.on].source)

InsertCanary(l) ==
    LET c == learner[l] IN
    /\ c.stage = "read" /\ c.op = "create_canary"
    /\ canaries' = IF schoolOpen THEN Append(canaries, Canary("configured", c.seen, c.on)) ELSE canaries
    /\ Ends(l)
    /\ UNCHANGED <<adaptations, experiments, Setting, asked>>

\* What each operation of a canary asks of the status it reads first.
CanaryAllows(op, status) ==
    \/ op \in {"start", "cancel"} /\ status = "configured"
    \/ op \in {"observe", "conclude"} /\ status = "running"
    \/ op = "promote" /\ status = "succeeded"
    \/ op = "rollback_canary" /\ status \in Rollbackable

\* get_canary and the check of its status, in a transaction of their own.
ReadCanary(l, a) ==
    /\ a.on \in DOMAIN canaries
    /\ CanaryAllows(a.op, canaries[a.on].status)
    /\ Begins(l, a, "read", a.on, 0)

\* The status the bookkeeping operations write.
Bookkeeping == [conclude |-> "succeeded", promote |-> "promoted", cancel |-> "cancelled"]

\* conclude_canary_monitoring, promote_canary, cancel_canary: the row is written as it is by now.
WriteCanary(l) ==
    LET c == learner[l] IN
    /\ c.stage = "read" /\ c.op \in DOMAIN Bookkeeping
    /\ CanaryFree(l, c.on)
    /\ canaries' = IF schoolOpen THEN [canaries EXCEPT ![c.on].status = Bookkeeping[c.op]] ELSE canaries
    /\ Ends(l)
    /\ UNCHANGED <<adaptations, experiments, Setting, asked>>

\* require_open_tenant and _require_fresh_canary_authorization.
Gate(l) ==
    LET c == learner[l] IN
    /\ c.stage = "read" /\ c.op \in {"start", "observe", "rollback_canary"}
    /\ IF schoolOpen /\ permitted /\ adaptations[Target(c.op, c.on)].outcome = "pass"
       THEN Continues(l, "gated", 0) ELSE Refused(l)

\* start_canary's transaction.
OpenStart(l) ==
    LET c == learner[l]
        v == Target(c.op, c.on)
    IN
    /\ c.stage = "gated" /\ c.op = "start"
    /\ CanaryFree(l, c.on) /\ AdaptationFree(l, v)
    /\ IF canaries[c.on].status = "configured" /\ schoolOpen /\ MayActivate(v)
       THEN Continues(l, "open", CurrentActive) ELSE Refused(l)

\* _rollback's transaction; one its adaptation refuses goes on to record that.
OpenCanaryRollBack(l) ==
    LET c == learner[l]
        v == Target(c.op, c.on)
    IN
    /\ c.stage = "gated" /\ c.op \in Reverting
    /\ CanaryFree(l, c.on) /\ AdaptationFree(l, v)
    /\ IF canaries[c.on].status \notin Rollbackable \/ ~schoolOpen THEN Refused(l)
       ELSE IF ~MayRollBack(v) THEN Continues(l, "failing", 0)
       ELSE AdaptationFree(l, adaptations[v].previous) /\ Continues(l, "open", 0)

\* The transaction that records rollback_failed; it does not ask for an open tenant.
RecordFailure(l) ==
    LET c == learner[l] IN
    /\ c.stage = "failing"
    /\ CanaryFree(l, c.on)
    /\ canaries' = IF canaries[c.on].status \in Rollbackable
                   THEN [canaries EXCEPT ![c.on].status = "rollback_failed"] ELSE canaries
    /\ Ends(l)
    /\ UNCHANGED <<adaptations, experiments, Setting, asked>>

-----------------------------------------------------------------------------
(* The learning policy and the tenant's lifecycle.                         *)

WithdrawPolicy ==
    \E a \in asked :
        /\ a.op = "withdraw_policy" /\ permitted
        /\ permitted' = FALSE /\ asked' = asked \ {a}
        /\ UNCHANGED <<Rows, schoolOpen, learner>>

\* transition_tenant_status takes the tenant's row FOR UPDATE.
CloseSchool ==
    \E a \in asked :
        /\ a.op = "close" /\ schoolOpen
        /\ \A l \in Learners : ~TenantLocked(l)
        /\ schoolOpen' = FALSE /\ asked' = asked \ {a}
        /\ UNCHANGED <<Rows, permitted, learner>>

-----------------------------------------------------------------------------
LearningInit ==
    /\ permitted = TRUE /\ schoolOpen = TRUE
    /\ learner = [l \in Learners |-> Resting]
    /\ \E s \in Lessons :
        /\ adaptations = s.adaptations /\ experiments = s.experiments /\ canaries = s.canaries
        /\ asked = s.asks

Starts(l, a) ==
    \/ OpenPropose(l, a) \/ OpenEvaluation(l, a) \/ OpenActivate(l, a) \/ OpenRollBack(l, a)
    \/ CreateExperiment(l, a) \/ OpenExperiment(l, a)
    \/ ReadForCanary(l, a) \/ ReadCanary(l, a)

Steps(l) ==
    \/ CommitPropose(l) \/ CommitEvaluation(l) \/ CommitActivate(l) \/ CommitRollBack(l)
    \/ CommitExperiment(l) \/ InsertCanary(l) \/ WriteCanary(l) \/ Gate(l)
    \/ OpenStart(l) \/ OpenCanaryRollBack(l) \/ RecordFailure(l)

LearningNext ==
    \/ \E l \in Learners : Steps(l) \/ \E a \in asked : Starts(l, a)
    \/ WithdrawPolicy \/ CloseSchool

LearningSpec == LearningInit /\ [][LearningNext]_learningVars

-----------------------------------------------------------------------------
LearningTypeOK ==
    /\ \A v \in DOMAIN adaptations : adaptations[v].status \in CandidateStatuses
    /\ \A e \in DOMAIN experiments : experiments[e].status \in ExperimentStatuses
    /\ \A k \in DOMAIN canaries : canaries[k].status \in CanaryStatuses
    /\ permitted \in BOOLEAN /\ schoolOpen \in BOOLEAN

OneActiveKeptStep ==
    Active # {} => Cardinality(Active') = 1

\* Whatever is activated and rolled back at the same time, a lineage that has an active version
\* keeps exactly one (activate_adaptation_in_session, rollback_adaptation_in_session and the
\* partial unique index).
OneActiveKept == [][OneActiveKeptStep]_learningVars

ActivatedOnPassStep ==
    \A v \in DOMAIN adaptations :
         adaptations[v].status = "candidate" /\ adaptations'[v].status # "candidate"
             => adaptations'[v].status = "active" /\ adaptations[v].outcome = "pass"

\* A candidate becomes active only while the evaluation on its row is a pass, also when another
\* evaluation of it is being recorded (activate_adaptation_in_session reads FOR UPDATE).
ActivatedOnPass == [][ActivatedOnPassStep]_learningVars

CanaryMovesWithAdaptationStep ==
    \A k \in DOMAIN canaries :
     LET v == canaries[k].adaptation IN
     /\ canaries[k].status # "running" /\ canaries'[k].status = "running"
         => adaptations[v].status = "candidate" /\ adaptations'[v].status = "active"
     /\ canaries[k].status # "rolled_back" /\ canaries'[k].status = "rolled_back"
         => adaptations[v].status = "active" /\ adaptations'[v].status = "rolled_back"

\* A canary starts with its candidate's activation and is rolled back with its adaptation's
\* rollback, never the one without the other (start_canary, _rollback).
CanaryMovesWithAdaptation == [][CanaryMovesWithAdaptationStep]_learningVars

ClosedLearnsNothingStep ==
    ~schoolOpen =>
     /\ UNCHANGED <<adaptations, experiments>>
     /\ Len(canaries') = Len(canaries)
     /\ \A k \in DOMAIN canaries :
         canaries'[k] # canaries[k] => canaries'[k].status = "rollback_failed"

\* A closed tenant's learning rows stay as they are, whatever was under way when it closed; only a
\* refused rollback is still recorded (lock_open_tenant, _rollback).
ClosedLearnsNothing == [][ClosedLearnsNothingStep]_learningVars

\* "never a bare status flip that would leave production state and canary bookkeeping out of sync"
\* (cancel_canary): what a cancelled canary names has not been activated by it.
CancelledHadNoEffect ==
    \A k \in DOMAIN canaries :
        canaries[k].status = "cancelled" => adaptations[canaries[k].adaptation].status = "candidate"

\* "Revert an ACTIVE adaptation to its immediately-prior version" (rollback_adaptation): a rollback
\* reactivates the version the activation replaced.
RevertsToReplaced ==
    [][\A v \in DOMAIN adaptations :
            adaptations[v].status = "active" /\ adaptations'[v].status = "rolled_back"
                => adaptations[v].replaced # 0 /\ adaptations'[adaptations[v].replaced].status = "active"]_learningVars

-----------------------------------------------------------------------------
(* The judgements.                                                         *)

\* None: not a value anything measures.
Missing == -1

Thresholds ==
    [metric : Metrics, higher : BOOLEAN,
     bar : Bars \cup {Missing}, regression : Regressions \cup {Missing}]

Measured == [Metrics -> Values \cup {Missing}]

Observations == [source : Sources, at : Times]

-----------------------------------------------------------------------------
\* How much worse a is than b in the threshold's direction.
WorseBy(t, a, b) == IF t.higher THEN b - a ELSE a - b

Under(t, v) == t.bar # Missing /\ WorseBy(t, v, t.bar) > 0

Regressed(t, baseline, candidate) ==
    /\ t.regression # Missing
    /\ WorseBy(t, candidate[t.metric], baseline[t.metric]) > t.regression

UnmeasuredNever(t, baseline, candidate) == FALSE

Unmeasured(t, baseline, candidate) ==
    baseline[t.metric] = Missing \/ candidate[t.metric] = Missing

\* evaluate_candidate, once both subjects are authorized: the order of the thresholds does not
\* matter, and a metric that failed its bar is not looked at for regression.
EvaluateMetrics(baseline, candidate, rules) ==
    LET there == {t \in Range(rules) : baseline[t.metric] # Missing /\ candidate[t.metric] # Missing}
    IN
    IF \E t \in Range(rules) : Unmeasured(t, baseline, candidate) THEN "invalid"
    ELSE IF \E t \in there : Under(t, candidate[t.metric]) THEN "fail"
    ELSE IF \E t \in there : Regressed(t, baseline, candidate) THEN "regression"
    ELSE "pass"

\* _violated_metrics.
ViolatedMetrics(metrics, rules) ==
    {t.metric : t \in {u \in Range(rules) :
                          metrics[u.metric] = Missing \/ Under(u, metrics[u.metric])}}

-----------------------------------------------------------------------------
\* detect_recurrence: the observations no older than a window before the latest.
WithinWindow(observations, window) ==
    {o \in observations : o.at >= Max({p.at : p \in observations}) - window}

CountAll(observations) == Cardinality(observations)

CountDistinct(observations) == Cardinality({o.source : o \in observations})

DetectRecurrence(observations, window, minimum) ==
    LET count == CountDistinct(WithinWindow(observations, window))
    IN
    IF observations = {} THEN [recurring |-> FALSE, confidence |-> "low"]
    ELSE [recurring |-> count >= minimum,
          confidence |-> IF count < minimum THEN "low"
                         ELSE IF count >= 2 * minimum THEN "high" ELSE "medium"]

-----------------------------------------------------------------------------
NotAsked == [asked |-> FALSE]

JudgementInit == judged = NotAsked

AskEvaluation ==
    /\ judged = NotAsked
    /\ judged' \in [baseline : Measured, candidate : Measured, rules : [1..2 -> Thresholds]]

AskRecurrence ==
    /\ judged = NotAsked
    /\ judged' \in [seen : kSubset(3, Observations) \cup kSubset(2, Observations),
                   window : Windows, minimum : Minimums]

JudgementNext == AskEvaluation \/ AskRecurrence

JudgementSpec == JudgementInit /\ [][JudgementNext]_judged

-----------------------------------------------------------------------------
\* A candidate that passes its evaluation violates none of the monitoring thresholds of the same
\* rules: a canary that starts on a PASS is not rolled back for the very metrics it passed with
\* (evaluate_candidate against _violated_metrics).
PassIsWithinLimits ==
    "rules" \in DOMAIN judged =>
        (EvaluateMetrics(judged.baseline, judged.candidate, judged.rules) = "pass"
            => ViolatedMetrics(judged.candidate, judged.rules) = {})

\* Reporting once more, at any time up to the latest observation, what an observation within the
\* window already reports changes neither the verdict nor the confidence (detect_recurrence).
RepeatAddsNothing ==
    "seen" \in DOMAIN judged =>
        \A o \in WithinWindow(judged.seen, judged.window), t \in Times :
            t <= Max({p.at : p \in judged.seen}) =>
                DetectRecurrence(judged.seen \cup {[source |-> o.source, at |-> t]},
                                 judged.window, judged.minimum)
                    = DetectRecurrence(judged.seen, judged.window, judged.minimum)
=============================================================================
