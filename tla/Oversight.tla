----------------------------- MODULE Oversight -----------------------------
(***************************************************************************)
(* Platform oversight reads (core/platform_authority/oversight.py) and the *)
(* references their audit rows carry (subjects.py).                        *)
(*                                                                         *)
(* An oversight read is two transactions: the attempt row is committed     *)
(* first, then the permission is checked again, the data read and the      *)
(* completion row written in a second one; a refusal is recorded in a      *)
(* third, best effort.  A row about a user never holds the user id but a   *)
(* reference, one live reference per user and day, got or created in the   *)
(* row's own transaction.  Erasing the user unlinks the references no      *)
(* legal hold covers and leaves a marker, after which references are born  *)
(* unlinked.  Writers hold the subject's advisory lock S shared until they *)
(* end, the erasure holds it exclusively.                                  *)
(*                                                                         *)
(* One user is read about; each caller makes one read.  A reference is a   *)
(* fresh value, so random collisions and their retry do not occur.         *)
(***************************************************************************)
EXTENDS Naturals, FiniteSets

CONSTANTS
    Overseers,  \* operators, each making one oversight read about the user
    MaxDay,     \* bound on the days that pass
    HeldDays    \* days whose references an active legal hold covers

VARIABLES
    today,      \* the UTC day a new transaction sees
    mayRead,    \* operators whose grant stands
    links,      \* core.platform_audit_subject_links: [ref, day, live]
    erased,     \* the erasure marker
    auditRows,  \* committed rows: [by, kind, ref]
    seen,       \* reads that have looked at the data
    returned,   \* reads whose value was handed back
    oversight,  \* each operator's call
    eraser      \* the erasure: [at, unlink]

oversightVars ==
    <<today, mayRead, links, erased, auditRows, seen, returned, oversight, eraser>>

NoRef == <<"no one", 0>>
NoCall == [at |-> "idle", day |-> 0, fresh |-> {}, row |-> {}]

OversightInit ==
    /\ today = 1
    /\ mayRead = Overseers
    /\ links = {}
    /\ erased = FALSE
    /\ auditRows = {}
    /\ seen = {}
    /\ returned = {}
    /\ oversight = [c \in Overseers |-> NoCall]
    /\ eraser = [at |-> "idle", unlink |-> {}]

PassDay ==
    /\ today < MaxDay
    /\ today' = today + 1
    /\ UNCHANGED <<mayRead, links, erased, auditRows, seen, returned, oversight, eraser>>

----------------------------------------------------------------------------
(* Locks. *)

(* The caller has a transaction open that read its operator and grant rows *)
(* FOR SHARE. *)
HoldsAuthority(c) == oversight[c].at \in {"attempt", "attempted", "read", "recorded"}

AuthorityRowFreeAlways(c) == TRUE

(* Revoking waits for the rows a decision was made on. *)
AuthorityRowFree(c) == ~HoldsAuthority(c)

(* The caller's transaction has taken S shared: it has written a row about *)
(* the user. *)
HoldsSubject(c) == oversight[c].at \in {"attempted", "recorded", "refused"}

SubjectFreeAlways == TRUE

(* S exclusive: no writer about the user is under way. *)
SubjectFree == \A c \in Overseers : ~HoldsSubject(c)

(* S shared: no erasure is under way. *)
SubjectShared == eraser.at = "idle"

SlotFreeAlways(c) == TRUE

(* The partial unique index: an insert of the day's live link waits for a  *)
(* transaction that has inserted one and not ended. *)
SlotFree(c) ==
    \A d \in Overseers \ {c} :
       HoldsSubject(d) => \A l \in oversight[d].fresh : l.live => l.day # oversight[c].day

----------------------------------------------------------------------------
(* platform_audit_subject_ref and user_audit_target. *)

LiveToday(d) == {l \in links : l.live /\ l.day = d}

(* The link the row's transaction adds: none when the day's link exists;   *)
(* one born unlinked after an erasure. *)
NewLink(c, kind) ==
    LET day == oversight[c].day
    IN IF ~erased /\ LiveToday(day) # {} THEN {}
       ELSE {[ref |-> <<c, kind>>, day |-> day, live |-> ~erased]}

RefFor(c, kind) ==
    IF NewLink(c, kind) = {} THEN (CHOOSE l \in LiveToday(oversight[c].day) : TRUE).ref
    ELSE <<c, kind>>

(* The row and its link are written; both wait for the commit. *)
WriteRow(c, kind, next) ==
    /\ SubjectShared
    /\ ~erased => SlotFree(c)
    /\ oversight' = [oversight EXCEPT ![c] =
          [@ EXCEPT !.at = next, !.fresh = NewLink(c, kind),
                    !.row = {[by |-> c, kind |-> kind, ref |-> RefFor(c, kind)]}]]
    /\ UNCHANGED <<today, mayRead, links, erased, auditRows, seen, returned, eraser>>

Goto(c, next) == [oversight EXCEPT ![c] = [NoCall EXCEPT !.at = next, !.day = today]]

CommitRow(c, next) ==
    /\ links' = links \cup oversight[c].fresh
    /\ auditRows' = auditRows \cup oversight[c].row
    /\ oversight' = Goto(c, next)

----------------------------------------------------------------------------
(* run_oversight_read. *)

(* record_oversight_attempt: authorize in the attempt's transaction. *)
OpenAttempt(c) ==
    /\ oversight[c].at = "idle"
    /\ oversight' = Goto(c, IF c \in mayRead THEN "attempt" ELSE "denied")
    /\ UNCHANGED <<today, mayRead, links, erased, auditRows, seen, returned, eraser>>

RecordAttempt(c) == oversight[c].at = "attempt" /\ WriteRow(c, "attempt", "attempted")

AttemptNotCommitted(c) ==
    /\ oversight[c].at = "attempted"
    /\ oversight' = Goto(c, "between")
    /\ UNCHANGED <<today, mayRead, links, erased, auditRows, seen, returned, eraser>>

CommitAttempt(c) ==
    /\ oversight[c].at = "attempted"
    /\ CommitRow(c, "between")
    /\ UNCHANGED <<today, mayRead, erased, seen, returned, eraser>>

AuthorizedEarlier(c) == TRUE

(* The second transaction decides again. *)
AuthorizedAgain(c) == c \in mayRead

OpenRead(c) ==
    /\ oversight[c].at = "between"
    /\ IF AuthorizedAgain(c)
       THEN oversight' = Goto(c, "read") /\ seen' = seen \cup {c}
       ELSE oversight' = Goto(c, "denied") /\ UNCHANGED seen
    /\ UNCHANGED <<today, mayRead, links, erased, auditRows, returned, eraser>>

RecordCompletion(c) == oversight[c].at = "read" /\ WriteRow(c, "completion", "recorded")

CommitRead(c) ==
    /\ oversight[c].at = "recorded"
    /\ CommitRow(c, "done")
    /\ returned' = returned \cup {c}
    /\ UNCHANGED <<today, mayRead, erased, seen, eraser>>

FailReturns(c) ==
    /\ oversight[c].at \in {"attempt", "attempted", "read", "recorded"}
    /\ returned' = IF oversight[c].at = "recorded" THEN returned \cup {c} ELSE returned
    /\ oversight' = Goto(c, "done")
    /\ UNCHANGED <<today, mayRead, links, erased, auditRows, seen, eraser>>

(* A statement timeout or another error: the transaction rolls back and    *)
(* the error is raised; a failed tenant read is recorded like a refusal. *)
Fail(c) ==
    /\ oversight[c].at \in {"attempt", "attempted", "read", "recorded"}
    /\ \/ oversight' = Goto(c, "done")
       \/ oversight[c].at \in {"read", "recorded"} /\ oversight' = Goto(c, "denied")
    /\ UNCHANGED <<today, mayRead, links, erased, auditRows, seen, returned, eraser>>

(* record_platform_refusal: a transaction of its own; when the reference   *)
(* cannot be got the row is written without a target, and when the row     *)
(* cannot be written the refusal is raised all the same. *)
RecordRefusal(c) == oversight[c].at = "denied" /\ WriteRow(c, "denied", "refused")

RecordUntargeted(c) ==
    /\ oversight[c].at = "denied"
    /\ auditRows' = auditRows \cup {[by |-> c, kind |-> "denied", ref |-> NoRef]}
    /\ oversight' = Goto(c, "done")
    /\ UNCHANGED <<today, mayRead, links, erased, seen, returned, eraser>>

EndRefusal(c) ==
    /\ \/ oversight[c].at = "refused" /\ CommitRow(c, "done")
       \/ /\ oversight[c].at \in {"denied", "refused"}
          /\ oversight' = Goto(c, "done") /\ UNCHANGED <<links, auditRows>>
    /\ UNCHANGED <<today, mayRead, erased, seen, returned, eraser>>

CrashOverseer(c) ==
    /\ oversight[c].at \notin {"idle", "done"}
    /\ oversight' = Goto(c, "done")
    /\ UNCHANGED <<today, mayRead, links, erased, auditRows, seen, returned, eraser>>

RevokeReader(c) ==
    /\ c \in mayRead /\ AuthorityRowFree(c)
    /\ mayRead' = mayRead \ {c}
    /\ UNCHANGED <<today, links, erased, auditRows, seen, returned, oversight, eraser>>

----------------------------------------------------------------------------
(* erase_platform_audit_subject. *)

CoveredByHold(l) == l.day \in HeldDays

(* S exclusive, the marker, the user's live links FOR UPDATE, the holds. *)
OpenErasure ==
    /\ eraser.at = "idle" /\ ~erased /\ SubjectFree
    /\ eraser' = [at |-> "erasing", unlink |-> {l \in links : l.live /\ ~CoveredByHold(l)}]
    /\ UNCHANGED <<today, mayRead, links, erased, auditRows, seen, returned, oversight>>

Unlink(l) == IF l \in eraser.unlink THEN [l EXCEPT !.live = FALSE] ELSE l

CommitErasure ==
    /\ eraser.at = "erasing"
    /\ erased' = TRUE
    /\ links' = {Unlink(l) : l \in links}
    /\ eraser' = [at |-> "idle", unlink |-> {}]
    /\ UNCHANGED <<today, mayRead, auditRows, seen, returned, oversight>>

(* Any statement of the erasure may fail or time out. *)
RollBackErasure ==
    /\ eraser.at = "erasing"
    /\ eraser' = [at |-> "idle", unlink |-> {}]
    /\ UNCHANGED <<today, mayRead, links, erased, auditRows, seen, returned, oversight>>

OversightNext ==
    \/ PassDay
    \/ OpenErasure \/ CommitErasure \/ RollBackErasure
    \/ \E c \in Overseers :
          \/ OpenAttempt(c) \/ RecordAttempt(c) \/ CommitAttempt(c)
          \/ OpenRead(c) \/ RecordCompletion(c) \/ CommitRead(c)
          \/ Fail(c) \/ CrashOverseer(c)
          \/ RecordRefusal(c) \/ RecordUntargeted(c) \/ EndRefusal(c)
          \/ RevokeReader(c)

OversightSpec == OversightInit /\ [][OversightNext]_oversightVars

----------------------------------------------------------------------------
OversightTypeOK ==
    /\ today \in 1..MaxDay
    /\ mayRead \subseteq Overseers /\ seen \subseteq Overseers /\ returned \subseteq Overseers
    /\ erased \in BOOLEAN
    /\ \A l \in links : l.day \in 1..MaxDay /\ l.live \in BOOLEAN
    /\ eraser.unlink \subseteq links

Recorded(c, kind) == \E r \in auditRows : r.by = c /\ r.kind = kind

(* Whatever fails or crashes, the data is looked at only after the attempt *)
(* row of that read is committed.                                          *)
SeenIsOnRecord == \A c \in seen : Recorded(c, "attempt")

(* A value is handed to the operator only once the completion row of the   *)
(* read is committed.                                                      *)
ReturnedIsOnRecord == \A c \in returned : Recorded(c, "completion")

(* Once the erasure marker is committed no reference outside a legal hold  *)
(* leads to the user, although audit rows about the user were being        *)
(* written while the erasure ran.                                          *)
ErasedIsUnlinked == erased => \A l \in links : l.live => CoveredByHold(l)

(* Two writers of one day never leave two live references of the user.     *)
OneReferencePerDay ==
    \A k, l \in links : (k.live /\ l.live /\ k.day = l.day) => k = l

ReturnsWhatMayBeReadStep ==
    \A c \in returned' \ returned : c \in mayRead /\ c \in mayRead'

(* A value is handed over in a transaction in which the operator's grant   *)
(* still stands: neither a revocation between the two transactions nor one *)
(* during the second slips through.                                        *)
ReturnsWhatMayBeRead == [][ReturnsWhatMayBeReadStep]_oversightVars
=============================================================================
