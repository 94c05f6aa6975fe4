--------------------------- MODULE LedgerRegister ---------------------------
(***************************************************************************)
(* The approver eligibility register of the permission grant ledger        *)
(* (core/permission_grants/register.py and the insert trigger of migration *)
(* c3f9e1a7b5d2): append-only entries that propose and designate           *)
(* representatives, enrol approvers and revoke either.                     *)
(*                                                                         *)
(* Every write is one transaction. Its time is the transaction's start     *)
(* (now()), read before the register lock is waited for; it then checks    *)
(* and inserts under the exclusive register lock and commits.  A replay of *)
(* an act already recorded returns the entry and changes nothing, like a   *)
(* refusal.                                                                *)
(***************************************************************************)
EXTENDS Integers, Sequences, FiniteSets

CONSTANTS
    Owners,         \* users who hold platform.authority:manage
    Security,       \* users who hold platform.security_retention_hold:manage
    Reporters,      \* users who hold platform.security_retention:report
    Linked,         \* pairs one of whom enrolled the other or granted them the report
    ProposalTTL,    \* PROPOSAL_VALIDITY
    Delay,          \* ELIGIBILITY_DELAY
    MaxValidity,    \* MAX_VALIDITY_MONTHS
    Writers,        \* database connections
    Acts,           \* the acts callers ask for
    Registers,      \* the registers a behaviour starts from
    MaxTime,        \* bound: the clock
    MaxEntries      \* bound: register entries

VARIABLES
    reg,        \* the register: entries in the order they were inserted
    clock,      \* the database clock
    writer      \* what each connection is doing

registerVars == <<reg, clock, writer>>

-----------------------------------------------------------------------------
(* Reading the register, at a time.                                        *)

Revoked(r, i) == \E j \in DOMAIN r : r[j].revokes = i
Confirmed(r, i) == \E j \in DOMAIN r : r[j].proposal = i

DesignationRenewed(r, d, at) ==
    /\ d \in DOMAIN r
    /\ r[d].type = "designation"
    /\ \E e \in DOMAIN r :
          /\ r[e].type = "designation" /\ r[e].subject = r[d].subject
          /\ at < r[e].until /\ ~Revoked(r, e)

DesignationLive(r, d, at) ==
    /\ d \in DOMAIN r
    /\ r[d].type = "designation"
    /\ at < r[d].until
    /\ ~Revoked(r, d)

EnrolmentState(r, i, at) ==
    CASE Revoked(r, i)                            -> "revoked"
      [] ~DesignationLive(r, r[i].authorised, at) -> "suspended"
      [] at >= r[i].until                         -> "expired"
      [] at < r[i].from                           -> "waiting"
      [] OTHER                                    -> "eligible"

Enrolments(r, u) == {i \in DOMAIN r : r[i].type = "enrolment" /\ r[i].subject = u}

EligibleEntries(r, u, at) == {i \in Enrolments(r, u) : EnrolmentState(r, i, at) = "eligible"}

\* The one that lasts longest.
ApproverEligibility(r, u, at) ==
    CHOOSE i \in EligibleEntries(r, u, at) :
        \A j \in EligibleEntries(r, u, at) :
            r[j].until < r[i].until \/ (r[j].until = r[i].until /\ j <= i)

\* Eligible or still waiting.
ActiveEnrolments(r, at) ==
    {i \in DOMAIN r : r[i].type = "enrolment" /\ EnrolmentState(r, i, at) \in {"waiting", "eligible"}}

ActiveBySubject(r, u, at) == {i \in ActiveEnrolments(r, at) : r[i].subject = u}

EligibleByPerson(r, p, at) ==
    {i \in ActiveEnrolments(r, at) : r[i].person = p /\ EnrolmentState(r, i, at) = "eligible"}

ActiveByPerson(r, p, at) == {i \in ActiveEnrolments(r, at) : r[i].person = p}

NotEligibleYet(r, u, at) == EligibleEntries(r, u, at) = {}

NotAnApprover(r, u, at) == ActiveBySubject(r, u, at) = {}

ActiveDesignations(r, u, at) == {i \in DOMAIN r : r[i].subject = u /\ DesignationLive(r, i, at)}

ActiveDesignation(r, u, at) ==
    CHOOSE i \in ActiveDesignations(r, u, at) :
        \A j \in ActiveDesignations(r, u, at) :
            r[j].until < r[i].until \/ (r[j].until = r[i].until /\ j <= i)

SuspendedVerificationReused(r, a, at) ==
    \E i \in DOMAIN r :
        /\ r[i].type = "enrolment"
        /\ r[i].verification = a.verification
        /\ r[i].subject = a.subject \/ r[i].person = a.person
        /\ ~DesignationLive(r, r[i].authorised, at)

-----------------------------------------------------------------------------
(* The acts. An act names its caller, its subject and what it asks for; the
   entry it points at (a proposal, a renewed or a revoked entry) is .entry.  *)

Blank == [type |-> "none", subject |-> "none", by |-> "none", person |-> "none",
          verification |-> "none", until |-> 0, from |-> 0, expires |-> 0,
          proposal |-> 0, authorised |-> 0, revokes |-> 0, renews |-> 0]

MayPropose(r, a, at) ==
    /\ at < a.until /\ a.until <= at + MaxValidity
    /\ a.subject # a.by
    /\ \A i \in DOMAIN r : r[i].type = "proposal" /\ r[i].subject = a.subject =>
           Confirmed(r, i) \/ r[i].expires <= at
    /\ a.subject \notin Owners
    /\ NotAnApprover(r, a.subject, at)

ProposeRepresentative(r, a, at) ==
    [Blank EXCEPT !.type = "proposal", !.subject = a.subject, !.by = a.by,
                  !.until = a.until, !.expires = at + ProposalTTL]

MayConfirm(r, a, at) ==
    /\ a.entry \in DOMAIN r
    /\ r[a.entry].type = "proposal"
    /\ r[a.entry].subject = a.subject
    /\ ~Confirmed(r, a.entry)
    /\ at < r[a.entry].expires /\ at < r[a.entry].until
    /\ a.by \notin {a.subject, r[a.entry].by}
    /\ {a.by, a.subject} \cap Owners = {}
    /\ NotAnApprover(r, a.subject, at)

ConfirmRepresentative(r, a) ==
    [Blank EXCEPT !.type = "designation", !.subject = a.subject, !.by = a.by,
                  !.until = r[a.entry].until, !.proposal = a.entry]

\* One active enrolment per account and per natural person, except one renewal.
MayEnrol(r, a, at) ==
    /\ at + Delay < a.until /\ a.until <= at + MaxValidity
    /\ a.by \notin Owners
    /\ ActiveDesignations(r, a.by, at) # {}
    /\ a.subject # a.by
    /\ a.subject \notin Owners \cup Security
    /\ ActiveDesignations(r, a.subject, at) = {}
    /\ {<<a.by, a.subject>>, <<a.subject, a.by>>} \cap Linked = {}
    /\ \A i \in Enrolments(r, a.by) : r[i].person # a.person
    /\ ActiveBySubject(r, a.subject, at) \subseteq {a.entry}
    /\ ActiveByPerson(r, a.person, at) \subseteq {a.entry}
    /\ ~SuspendedVerificationReused(r, a, at)
    /\ a.entry # 0 => /\ a.entry \in ActiveBySubject(r, a.subject, at)
                      /\ r[a.entry].person = a.person
                      /\ \A i \in DOMAIN r : r[i].renews # a.entry

EnrolApprover(r, a, at) ==
    [Blank EXCEPT !.type = "enrolment", !.subject = a.subject, !.by = a.by,
                  !.person = a.person, !.verification = a.verification,
                  !.authorised = ActiveDesignation(r, a.by, at), !.renews = a.entry,
                  !.from = at + Delay, !.until = a.until]

\* Who may revoke what: an enrolment a representative or security, a designation
\* an owner or security.
MayRevoke(r, a, at) ==
    /\ a.entry \in DOMAIN r
    /\ r[a.entry].type \in {"enrolment", "designation"}
    /\ r[a.entry].subject = a.subject
    /\ \/ a.by \in Security \ Owners
       \/ a.by \in Owners /\ r[a.entry].type = "designation"
       \/ /\ r[a.entry].type = "enrolment"
          /\ a.by \in Reporters \ Owners
          /\ ActiveDesignations(r, a.by, at) # {}
    /\ ~Revoked(r, a.entry)

RevokeEntry(r, a) ==
    [Blank EXCEPT !.type = "revocation", !.subject = a.subject, !.by = a.by,
                  !.revokes = a.entry]

\* Whose approvals a revocation invalidates.
Affected(r, a, at) ==
    IF r[a.entry].type = "enrolment" THEN {r[a.entry].subject}
    ELSE {r[i].subject : i \in {j \in DOMAIN r :
             /\ r[j].type = "enrolment"
             /\ r[j].authorised = a.entry
             /\ at < r[j].until
             /\ ~Revoked(r, j)}}

Permitted(a) ==
    CASE a.op = "propose" -> a.by \in Owners
      [] a.op = "confirm" -> a.by \in Security
      [] a.op = "enrol"   -> a.by \in Reporters
      [] a.op = "revoke"  -> a.by \in Owners \cup Security \cup Reporters

May(r, a, at) ==
    CASE a.op = "propose" -> MayPropose(r, a, at)
      [] a.op = "confirm" -> MayConfirm(r, a, at)
      [] a.op = "enrol"   -> MayEnrol(r, a, at)
      [] a.op = "revoke"  -> MayRevoke(r, a, at)

EntryOf(r, a, at) ==
    CASE a.op = "propose" -> ProposeRepresentative(r, a, at)
      [] a.op = "confirm" -> ConfirmRepresentative(r, a)
      [] a.op = "enrol"   -> EnrolApprover(r, a, at)
      [] a.op = "revoke"  -> RevokeEntry(r, a)

-----------------------------------------------------------------------------
NoAct == [op |-> "none", by |-> "none", subject |-> "none", entry |-> 0,
          person |-> "none", verification |-> "none", until |-> 0]

IdleWriter == [pc |-> "idle", act |-> NoAct, at |-> 0]

\* lock_register, exclusive: nobody else has written and not yet committed.
RegisterFree(c) == \A d \in Writers \ {c} : writer[d].pc # "written"

\* The transaction starts: its time is fixed, its caller authorized.
Begin(c, a) ==
    /\ writer[c].pc = "idle"
    /\ Len(reg) < MaxEntries
    /\ Permitted(a)
    /\ writer' = [writer EXCEPT ![c] = [pc |-> "open", act |-> a, at |-> clock]]
    /\ UNCHANGED <<reg, clock>>

\* Under the lock: the checks, the insert and its trigger.
Write(c) ==
    /\ writer[c].pc = "open"
    /\ RegisterFree(c)
    /\ May(reg, writer[c].act, writer[c].at)
    /\ writer' = [writer EXCEPT ![c].pc = "written"]
    /\ UNCHANGED <<reg, clock>>

Commit(c) ==
    /\ writer[c].pc = "written"
    /\ reg' = Append(reg, EntryOf(reg, writer[c].act, writer[c].at))
    /\ writer' = [writer EXCEPT ![c] = IdleWriter]
    /\ UNCHANGED clock

\* A refusal, a replay or a failed connection: nothing is recorded.
Abandon(c) ==
    /\ writer[c].pc # "idle"
    /\ writer' = [writer EXCEPT ![c] = IdleWriter]
    /\ UNCHANGED <<reg, clock>>

Tick ==
    /\ clock < MaxTime
    /\ clock' = clock + 1
    /\ UNCHANGED <<reg, writer>>

Init ==
    /\ reg \in Registers
    /\ clock = 0
    /\ writer = [c \in Writers |-> IdleWriter]

Next ==
    \/ \E c \in Writers : Write(c) \/ Commit(c) \/ Abandon(c)
    \/ \E c \in Writers, a \in Acts : Begin(c, a)
    \/ Tick

Spec == Init /\ [][Next]_registerVars

-----------------------------------------------------------------------------
\* At no time do two active enrolments share an account or a natural person, unless
\* one renews the other: one person never counts as two approvers.
OnePersonOneEnrolment ==
    \A i, j \in ActiveEnrolments(reg, clock) :
        i < j /\ (reg[i].subject = reg[j].subject \/ reg[i].person = reg[j].person) =>
            /\ reg[j].renews = i
            /\ reg[i].subject = reg[j].subject
            /\ reg[i].person = reg[j].person

\* At no time is an active representative also an enrolled approver: propose, confirm
\* and enrol each refuse the other role, whatever their order.
RepresentativeIsNoApprover ==
    \A i \in ActiveEnrolments(reg, clock) : ActiveDesignations(reg, reg[i].subject, clock) = {}

Ended == {"revoked", "suspended", "expired"}

NoRevivalStep ==
    \A i \in DOMAIN reg :
       /\ reg[i].type = "enrolment"
       /\ EnrolmentState(reg, i, clock) \in Ended
       => EnrolmentState(reg', i, clock') \in Ended

\* An enrolment that is revoked, expired or suspended never becomes usable again: no
\* later designation revives it.
NoRevival == [][NoRevivalStep]_registerVars
=============================================================================
