---------------------------- MODULE DecisionChain ---------------------------
(***************************************************************************)
(* The decisions self-learning rests on: data authorization, learning       *)
(* authorization, evaluation and the policy gate, each taken on the ones    *)
(* before it (control_plane/data_authorization and self_learning).          *)
(*                                                                          *)
(* A decision is an object its caller holds; it is never stored.  Every     *)
(* decision has two ways to come about: the pure evaluator, and the entry   *)
(* point that also writes an audit record.  A later stage asks the audit    *)
(* log for the record of what it is handed.  What the tenant's policies     *)
(* say to a request is an input (permits), and so is what the metrics of an *)
(* evaluation add up to.                                                    *)
(*                                                                          *)
(* A system learning proposal (self_learning/system_learning/service.py)    *)
(* rests on a learning decision.  It is an object in memory and two kinds   *)
(* of audit records, its creation and its withdrawal; each call checks      *)
(* first and writes afterwards, in a transaction of its own, and nothing is *)
(* locked in between.                                                       *)
(*                                                                          *)
(* The tier 1 workflow behind an approval: one proposed tool call is        *)
(* approved or rejected by people and executed by whoever claims it         *)
(* (control_plane/approvals, control_plane/orchestration).                  *)
(***************************************************************************)
EXTENDS Naturals, Sequences, FiniteSets, Functions

CONSTANTS
    Houses,         \* tenants
    Home,           \* the tenant of the approval request and of the proposal
    Tiers,          \* autonomy tiers a request can name
    MaxDecisions,   \* bound: decisions in a behaviour
    MaxProposed,    \* bound: decisions in a behaviour with a proposal
    Withdrawers,    \* callers that withdraw the proposal
    Officers,     \* calls that run at the same time
    Proposer,     \* the agent that proposes
    Approvers,    \* the people who may decide
    NeedsData,    \* the tool declares requires_data_authorization
    MaxDuties,    \* bound: calls in a behaviour
    MaxStops      \* bound: processes that stop in the middle of an execution

VARIABLES
    decisions,    \* every decision made; its id is its place
    approval,     \* the stored status of one approval request of Home
    copy,         \* the status a caller's own copy of it shows
    homeShut,     \* Home has been closed
    proposal,     \* the audit records of one proposal of Home, in order
    proposing,    \* calls on it that have made their checks and not yet written
    request,     \* control_plane.approval_requests: status and approver
    verdicts,    \* every decision ever written: <<verdict, by>>
    effects,     \* how often the tool has had its effect
    entitled,    \* the proposer has the tool's permission
    recorded,    \* the data authorization decision the caller passes is on record
    houseOpen,   \* the tenant is open
    officer,     \* the call of each officer
    duties,      \* calls so far
    stops        \* processes that stopped so far

chainVars == <<decisions, approval, copy>>
proposalVars == <<homeShut, proposal, proposing>>

\* rests: the decisions it was taken on.  logged: it has its audit record.
Decision(kind, house, outcome, rests, logged) ==
    [kind |-> kind, house |-> house, outcome |-> outcome, rests |-> rests, logged |-> logged]

Kinds == {"data", "learning", "evaluation", "gate", "approved gate"}

Ids == DOMAIN decisions

Of(kind) == {i \in Ids : decisions[i].kind = kind}

\* A refusal that is not recorded leaves nothing behind, and nothing is decided on it.
Makes(d) ==
    /\ d.logged \/ d.outcome \notin {"deny", "invalid"}
    /\ Len(decisions) < IF proposalVars = <<FALSE, <<>>, {}>> THEN MaxDecisions ELSE MaxProposed
    /\ decisions' = Append(decisions, d)
    /\ UNCHANGED <<approval, copy>>

VerifiedAlways(i, house, outcome) == TRUE

\* The tenant's own audit log holds the decision's record.
Verified(i, house, outcome) ==
    LET d == decisions[i] IN d.logged /\ d.house = house /\ d.outcome = outcome

\* verify_data_authorization_provenance.
DataOnRecord(i, house) == Verified(i, house, "allow")

\* verify_learning_authorization_provenance.
LearningOnRecord(i, house) == Verified(i, house, "allow")

\* verify_evaluation_provenance, of a comparison that passed.
EvaluationOnRecord(i, house) == Verified(i, house, "pass")

-----------------------------------------------------------------------------
\* evaluate_data_authorization: what the tenant's and the platform's policies say to the request.
EvaluateData(h, permits, logged) ==
    Decision("data", h, IF permits THEN "allow" ELSE "deny", {}, logged)

\* authorize_data_access.
DecideData(h, permits, logged) == Makes(EvaluateData(h, permits, logged))

\* evaluate_learning_authorization: the data decision is an ALLOW of the same tenant.
LearningAllowed(h, i, permits) ==
    decisions[i].outcome = "allow" /\ decisions[i].house = h /\ permits

\* authorize_learning_use asks for the data decision's record, the evaluator does not.
DecideLearning(h, i, permits, logged) ==
    Makes(Decision("learning", h,
                   IF LearningAllowed(h, i, permits) /\ (logged => DataOnRecord(i, h))
                   THEN "allow" ELSE "deny",
                   {i}, logged))

\* evaluate_candidate: each subject's learning decision is an ALLOW of the subject's tenant.
SubjectAllowed(h, i) == decisions[i].outcome = "allow" /\ decisions[i].house = h

\* run_evaluation asks for both records; a PASS apart, what the metrics say (a FAIL or a REGRESSION)
\* makes no difference to anything decided on it.  Its own record is written for the candidate's tenant.  Subjects
\* of two tenants need a cross-tenant policy (permits).
Evaluate(hb, b, hc, c, permits, metrics, logged) ==
    LET valid == /\ SubjectAllowed(hb, b) /\ SubjectAllowed(hc, c)
                 /\ hb # hc => permits
                 /\ logged => LearningOnRecord(b, hb) /\ LearningOnRecord(c, hc)
    IN
    Makes(Decision("evaluation", hc, IF valid THEN metrics ELSE "invalid", {b, c}, logged))

\* evaluate_policy_gate, tier 1: the approval the caller passes.
ApprovalPasses(h) == h = Home /\ copy = "approved"

StoredAsGivenUnread == TRUE

\* _approval_is_stored_as_given.
StoredAsGiven == approval = "approved"

\* evaluate_policy_gate: the checks in the order of the code, which of them fails first aside.
GateAllowed(h, l, e, tier, permits) ==
    /\ tier \in {0, 1, 2} /\ permits
    /\ decisions[l].house = h /\ decisions[l].outcome = "allow"
    /\ decisions[e].outcome = "pass"
    /\ tier = 1 => ApprovalPasses(h)

\* evaluate_and_record_policy_gate_decision: an ALLOW also needs the records and the stored approval.
DecideGate(h, l, e, tier, permits, logged) ==
    Makes(Decision(IF tier = 1 THEN "approved gate" ELSE "gate", h,
                   IF /\ GateAllowed(h, l, e, tier, permits)
                      /\ logged => /\ LearningOnRecord(l, h) /\ EvaluationOnRecord(e, h)
                                   /\ tier = 1 => StoredAsGiven
                   THEN "allow" ELSE "deny",
                   {l, e}, logged))

-----------------------------------------------------------------------------
\* execute_approved moves the request on, and a caller reads it.  Bound: only once there is an
\* evaluation to ask the gate with, for no earlier decision reads the approval.
ApprovalMoves ==
    /\ Of("evaluation") # {}
    /\ \/ approval = "approved" /\ approval' = "executing"
       \/ approval = "executing" /\ approval' \in {"approved", "executed"}
    /\ UNCHANGED <<decisions, copy>>

ReadApproval ==
    /\ copy # approval /\ copy' = approval
    /\ UNCHANGED <<decisions, approval>>

-----------------------------------------------------------------------------
ProposableUnverified(l) == decisions[l].outcome = "allow" /\ decisions[l].house = Home

\* verify_learning_authorization_provenance, then build_system_learning_proposal's own check.
Proposable(l) ==
    LearningOnRecord(l, Home) /\ decisions[l].outcome = "allow" /\ decisions[l].house = Home

\* _resolve_affected_tenant_ids, and the authorization of a platform-wide scope: only a platform-wide
\* proposal names other tenants, and each needs the policy that permits it.
ScopePermits(wide, others, permits) ==
    /\ wide => permits
    /\ others # {} => wide /\ permits

\* propose_system_learning_proposal up to its record.
CheckProposal(l, wide, others, permits) ==
    /\ ~homeShut /\ proposal = <<>> /\ proposing = {}
    /\ Proposable(l) /\ ScopePermits(wide, others, permits)
    /\ proposing' = {[writes |-> "created", from |-> l, affects |-> {Home} \cup others]}
    /\ UNCHANGED <<homeShut, proposal>>

\* _withdrawable_proposal_on_record.
WithdrawableOnRecord ==
    LET written == {r.writes : r \in Range(proposal)}
    IN  "created" \in written /\ "withdrawn" \notin written

\* withdraw_system_learning_proposal up to its record.
CheckWithdrawal(caller) ==
    /\ ~homeShut /\ WithdrawableOnRecord
    /\ \A c \in proposing : c.from # caller
    /\ proposing' = proposing \cup {[writes |-> "withdrawn", from |-> caller, affects |-> {}]}
    /\ UNCHANGED <<homeShut, proposal>>

\* record_audit_event, whatever has happened since the checks.
RecordProposal(c) ==
    /\ proposing' = proposing \ {c} /\ proposal' = Append(proposal, c)
    /\ UNCHANGED homeShut

ShutHome == ~homeShut /\ homeShut' = TRUE /\ UNCHANGED <<proposal, proposing>>

-----------------------------------------------------------------------------
ChainInit ==
    /\ decisions = <<>> /\ approval = "approved" /\ copy = "approved"
    /\ homeShut = FALSE /\ proposal = <<>> /\ proposing = {}

Deciding(h, permits, logged) ==
    \/ DecideData(h, permits, logged)
    \/ \E i \in Of("data") : DecideLearning(h, i, permits, logged)
    \/ \E b, c \in Of("learning"), hb \in Houses, metrics \in {"pass", "fail"} :
            Evaluate(hb, b, h, c, permits, metrics, logged)
    \/ \E l \in Of("learning"), e \in Of("evaluation"), tier \in Tiers :
            DecideGate(h, l, e, tier, permits, logged)

ProposalStep ==
    /\ Len(decisions) <= MaxProposed
    /\ \/ \E l \in Of("learning"), wide, permits \in BOOLEAN, others \in SUBSET (Houses \ {Home}) :
                CheckProposal(l, wide, others, permits)
       \/ \E w \in Withdrawers : CheckWithdrawal(w)
       \/ \E c \in proposing : RecordProposal(c)
       \/ ShutHome

ChainNext ==
    \/ \E h \in Houses, permits, logged \in BOOLEAN : Deciding(h, permits, logged) /\ UNCHANGED proposalVars
    \/ (ApprovalMoves \/ ReadApproval) /\ UNCHANGED proposalVars
    \/ ProposalStep /\ UNCHANGED chainVars

ChainSpec == ChainInit /\ [][ChainNext]_<<chainVars, proposalVars>>

-----------------------------------------------------------------------------
ChainTypeOK ==
    /\ \A i \in Ids : /\ decisions[i].kind \in Kinds /\ decisions[i].house \in Houses
                      /\ decisions[i].rests \subseteq 1..(i - 1)
    /\ {approval, copy} \subseteq {"approved", "executing", "executed"}

Permits(d) == d.logged /\ d.outcome \in {"allow", "pass"}

\* A recorded permission rests on recorded permissions only: behind every recorded ALLOW of the gate
\* there is a recorded PASS and a recorded learning ALLOW of its own tenant, and behind that a
\* recorded data ALLOW of it (authorize_learning_use, run_evaluation,
\* evaluate_and_record_policy_gate_decision).
RestsOnRecord ==
    \A i \in Ids :
        Permits(decisions[i]) =>
            \A j \in decisions[i].rests :
                /\ Permits(decisions[j])
                /\ decisions[i].kind # "evaluation" => decisions[j].house = decisions[i].house

GateReadsStoredApprovalStep ==
    \A i \in DOMAIN decisions' \ Ids :
         decisions'[i].kind = "approved gate" /\ Permits(decisions'[i]) => approval = "approved"

\* A recorded tier 1 ALLOW is given only while the stored approval is an approved one, however old
\* the copy the caller passes (_approval_is_stored_as_given).
GateReadsStoredApproval == [][GateReadsStoredApprovalStep]_chainVars

ProposalTypeOK ==
    /\ homeShut \in BOOLEAN
    /\ Range(proposal) \cup proposing \subseteq
        [writes : {"created"}, from : 1..MaxDecisions, affects : SUBSET Houses]
            \cup [writes : {"withdrawn"}, from : Withdrawers, affects : {{}}]

\* Every proposal on record rests on a recorded learning ALLOW of its own tenant, which rests on a
\* recorded data ALLOW of it (propose_system_learning_proposal).
ProposalRestsOnRecord ==
    \A r \in Range(proposal) :
        r.writes = "created" =>
            /\ Permits(decisions[r.from]) /\ decisions[r.from].house = Home
            /\ \A d \in decisions[r.from].rests : Permits(decisions[d]) /\ decisions[d].house = Home

-----------------------------------------------------------------------------
(* The tier 1 workflow.  approve and reject read the request in one        *)
(* transaction and write it in another.  The claim is one conditional      *)
(* UPDATE.  The tool's handler runs between the claim and the write that   *)
(* ends it: it may raise before or after its effect, and its process may   *)
(* stop.                                                                   *)

approvalVars == <<request, verdicts, effects, entitled, recorded, houseOpen, officer, duties, stops>>

OffDuty == [op |-> "none", by |-> Proposer, ended |-> "none"]

OnDuty(op, by, ended) == [op |-> op, by |-> by, ended |-> ended]

Statuses == {"none", "pending", "approved", "rejected", "executing", "executed"}

TakesUp(o, op, by) ==
    /\ officer[o] = OffDuty /\ duties < MaxDuties
    /\ officer' = [officer EXCEPT ![o] = OnDuty(op, by, "none")]
    /\ duties' = duties + 1

Returns(o) == officer' = [officer EXCEPT ![o] = OffDuty]

-----------------------------------------------------------------------------
\* propose_action, under the tenant's row FOR SHARE.
ProposeAction ==
    /\ request.status = "none" /\ houseOpen
    /\ request' = [status |-> "pending", approver |-> "nobody"]
    /\ UNCHANGED <<verdicts, effects, entitled, recorded, houseOpen, officer, duties, stops>>

\* get_approval and the checks of approve: the proposer does not approve.
ReadToApprove(o, by) ==
    /\ request.status = "pending" /\ by # Proposer
    /\ TakesUp(o, "approve", by)
    /\ UNCHANGED <<request, verdicts, effects, entitled, recorded, houseOpen, stops>>

\* get_approval and the check of reject.
ReadToReject(o, by) ==
    /\ request.status = "pending"
    /\ TakesUp(o, "reject", by)
    /\ UNCHANGED <<request, verdicts, effects, entitled, recorded, houseOpen, stops>>

NoSelfApprovalUnchecked(by) == TRUE

\* ck_approval_requests_no_self_approval, which every write of an approver meets.
NoSelfApproval(by) == by # Proposer

Verdict == [approve |-> "approved", reject |-> "rejected"]

\* The write of approve and reject: the row as it is by now, under lock_open_tenant.
Decide(o) ==
    LET c == officer[o] IN
    /\ c.op \in DOMAIN Verdict
    /\ IF houseOpen /\ NoSelfApproval(c.by)
       THEN /\ request' = [status |-> Verdict[c.op], approver |-> c.by]
            /\ verdicts' = verdicts \cup {<<Verdict[c.op], c.by>>}
       ELSE UNCHANGED <<request, verdicts>>
    /\ Returns(o)
    /\ UNCHANGED <<effects, entitled, recorded, houseOpen, duties, stops>>

-----------------------------------------------------------------------------
ClaimableUndecided == request.status \in {"pending", "approved"}

\* The WHERE of _claim_for_execution's UPDATE.
Claimable == request.status = "approved"

\* _claim_for_execution; a call that does not win the claim is refused and changes nothing.
Claim(o) ==
    /\ Claimable /\ houseOpen
    /\ TakesUp(o, "execute", Proposer)
    /\ request' = [request EXCEPT !.status = "executing"]
    /\ UNCHANGED <<verdicts, effects, entitled, recorded, houseOpen, stops>>

\* _execute_tool's gates: the tenant, the proposer's permission, the data authorization.
Admitted == houseOpen /\ entitled /\ (NeedsData => recorded)

\* The handler has its effect and returns.
ToolSucceeds(o) ==
    /\ officer[o].op = "execute" /\ officer[o].ended = "none" /\ Admitted
    /\ effects' = effects + 1
    /\ officer' = [officer EXCEPT ![o].ended = "returned"]
    /\ UNCHANGED <<request, verdicts, entitled, recorded, houseOpen, duties, stops>>

\* A gate refuses, or the handler raises: before its effect or after it.
ToolRaises(o) ==
    /\ officer[o].op = "execute" /\ officer[o].ended = "none"
    /\ \/ effects' = effects
       \/ Admitted /\ effects' = effects + 1
    /\ officer' = [officer EXCEPT ![o].ended = "raised"]
    /\ UNCHANGED <<request, verdicts, entitled, recorded, houseOpen, duties, stops>>

\* The except branch reads the row: a claim that is still there will go back.
LooksAtClaim(o) ==
    /\ officer[o].op = "execute" /\ officer[o].ended = "raised"
    /\ IF request.status = "executing" THEN officer' = [officer EXCEPT ![o].ended = "releasing"]
       ELSE Returns(o)
    /\ UNCHANGED <<request, verdicts, effects, entitled, recorded, houseOpen, duties, stops>>

\* The write of execute_approved's last transaction, whichever way the tool ended.  The row is
\* not locked: the write does not depend on what it holds by now.
Finish(o) ==
    LET c == officer[o] IN
    /\ c.op = "execute" /\ c.ended \in {"returned", "releasing"}
    /\ request' = [request EXCEPT !.status = IF c.ended = "releasing" THEN "approved" ELSE "executed"]
    /\ Returns(o)
    /\ UNCHANGED <<verdicts, effects, entitled, recorded, houseOpen, duties, stops>>

\* The process ends, or is cancelled, before that transaction.
Stop(o) ==
    /\ officer[o].op = "execute" /\ stops < MaxStops
    /\ stops' = stops + 1
    /\ Returns(o)
    /\ UNCHANGED <<request, verdicts, effects, entitled, recorded, houseOpen, duties>>

-----------------------------------------------------------------------------
\* The proposer loses the tool's permission.
Disentitle ==
    /\ entitled /\ entitled' = FALSE
    /\ UNCHANGED <<request, verdicts, effects, recorded, houseOpen, officer, duties, stops>>

\* The tenant closes; the writes above share its row and are single steps here.
CloseHouse ==
    /\ houseOpen /\ houseOpen' = FALSE
    /\ UNCHANGED <<request, verdicts, effects, entitled, recorded, officer, duties, stops>>

ApprovalInit ==
    /\ request = [status |-> "none", approver |-> "nobody"]
    /\ verdicts = {} /\ effects = 0
    /\ entitled = TRUE /\ recorded \in BOOLEAN /\ houseOpen = TRUE
    /\ officer = [o \in Officers |-> OffDuty]
    /\ duties = 0 /\ stops = 0

ApprovalNext ==
    \/ ProposeAction \/ Disentitle \/ CloseHouse
    \/ \E o \in Officers :
        \/ \E by \in Approvers \cup {Proposer} : ReadToApprove(o, by) \/ ReadToReject(o, by)
        \/ Decide(o) \/ Claim(o)
        \/ ToolSucceeds(o) \/ ToolRaises(o) \/ LooksAtClaim(o) \/ Finish(o) \/ Stop(o)

ApprovalSpec == ApprovalInit /\ [][ApprovalNext]_approvalVars

-----------------------------------------------------------------------------
ApprovalTypeOK ==
    /\ request.status \in Statuses
    /\ request.approver \in Approvers \cup {Proposer, "nobody"}
    /\ effects \in 0..MaxDuties /\ duties \in 0..MaxDuties /\ stops \in 0..MaxStops
    /\ \A o \in Officers : officer[o].op \in {"none", "approve", "reject", "execute"}

Executing == {o \in Officers : officer[o].op = "execute"}

\* The tool has its effect only after somebody other than its proposer approved it, whatever is
\* decided and executed at the same time (approve, _claim_for_execution).
EffectWasApproved ==
    effects > 0 \/ request.status \in {"executing", "executed"}
        => \E by \in Approvers : <<"approved", by>> \in verdicts

\* No row names its proposer as the one who decided (approve's check and the CHECK constraint).
DecidedByAnother == request.approver # Proposer

\* "must never permanently strand the approval": a request is executing only while some execution
\* of it is under way, or was when its process stopped (execute_approved).
ExecutingIsHeld == request.status = "executing" => Executing # {} \/ stops > 0

\* "two concurrent calls against the same approval_id can no longer both observe approved and both
\* execute it" (execute_approved).
OneExecution == Cardinality(Executing) <= 1

\* "a rejected proposal never executes" (execute_approved): the tool has no effect after a
\* rejection was written.
RejectedNeverExecutes ==
    [][effects' > effects => \A by \in Approvers : <<"rejected", by>> \notin verdicts]_approvalVars
=============================================================================
