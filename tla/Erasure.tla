------------------------------- MODULE Erasure -------------------------------
(***************************************************************************)
(* erase_user_identity (core/identity/erasure.py): one person's rows in one *)
(* tenant and their identity links and sessions, removed in a fixed order   *)
(* of transactions.  Two erasures of the same person may overlap, either    *)
(* may die or fail on a foreign key and be run again, and the person may    *)
(* still act on a session they hold.  An address stands for the person's    *)
(* e-mail addresses: "a" is declared by the caller, "v" was verified for a  *)
(* session, "x" is known to neither.                                        *)
(***************************************************************************)
EXTENDS Naturals, FiniteSets

CONSTANTS Circumstances,  \* what is on record, and what others may do meanwhile
          Erasers,        \* calls of erase_user_identity
          Invites,        \* rows of core.invitations
          Events          \* rows of core.outbox_events

VARIABLES circumstance,   \* the circumstance of this behaviour
          person,         \* the rows that name the person
          eraser,         \* the calls
          tally           \* what was removed, and what the audit rows say was

erasureVars == <<circumstance, person, eraser, tally>>

\* Rows with a foreign key onto the membership, each purged by its module.
Leaves == {"api_keys", "notifications", "notification_events"}

Mine(i) == person.invites[i].state # "none"
Accepted == {i \in Invites : person.invites[i].state = "accepted"}
Named == {e \in Events : person.events[e] = "user"}
Member == person.member # 0    \* 0, or the id of the membership row

At(r, pc) == eraser[r].pc = pc
Working(r) == eraser[r].pc \notin {"none", "done", "refused", "failed", "died"}
AllStopped == \A r \in Erasers : ~Working(r)

AfterSessionsEarly(pc) ==
    CASE pc = "links" -> "sessions" [] pc = "sessions" -> "leaves" [] pc = "leaves" -> "addresses"
      [] pc = "addresses" -> "find" [] pc = "find" -> "invitations" [] pc = "invitations" -> "roles"
      [] pc = "roles" -> "membership" [] pc = "membership" -> "record" [] pc = "record" -> "done"

\* The order of the steps: the sessions, which hold addresses a second call needs, go last.
After(pc) ==
    CASE pc = "links" -> "leaves" [] pc = "leaves" -> "addresses" [] pc = "addresses" -> "find"
      [] pc = "find" -> "invitations" [] pc = "invitations" -> "roles" [] pc = "roles" -> "membership"
      [] pc = "membership" -> "record" [] pc = "record" -> "sessions" [] pc = "sessions" -> "done"

Go(r, pc) == eraser' = [eraser EXCEPT ![r].pc = pc]

-----------------------------------------------------------------------------
\* list_user_verified_emails and normalize_invitation_addresses
VerifiedEmails == IF person.sessions THEN {"v"} ELSE {}
DeclaredEmails == IF circumstance.declared = "valid" THEN {"a"} ELSE {}

\* Refused before anything is read if a declared address is invalid or the actor is unknown;
\* no address need be declared.
Begin(r) ==
    /\ At(r, "none") /\ \A q \in Erasers : q < r => ~At(q, "none")
    /\ circumstance.overlap \/ AllStopped
    /\ eraser' = [eraser EXCEPT ![r].pc = IF circumstance.declared = "invalid" THEN "refused" ELSE "links",
                                ![r].addresses = DeclaredEmails \cup VerifiedEmails]
    /\ UNCHANGED <<circumstance, person, tally>>

\* remove_identity_links_unless_enrolled_operator
RemoveLinks(r) ==
    /\ At(r, "links")
    /\ IF circumstance.operator THEN Go(r, "refused") /\ UNCHANGED person
       ELSE Go(r, After("links")) /\ person' = [person EXCEPT !.links = FALSE]
    /\ UNCHANGED <<circumstance, tally>>

\* purge_user_api_keys_in_tenant, purge_user_notifications_in_tenant and
\* purge_user_notification_events_in_tenant, one transaction after the other.
PurgeLeaf(r) == \E leaf \in eraser[r].left :
    /\ At(r, "leaves")
    /\ leaf = "api_keys" \/ "api_keys" \notin eraser[r].left
    /\ leaf = "notification_events" => eraser[r].left = {leaf}
    /\ person' = [person EXCEPT !.leaves = @ \ {leaf}]
    /\ eraser' = [eraser EXCEPT ![r].left = @ \ {leaf},
                                ![r].pc = IF eraser[r].left = {leaf} THEN After("leaves") ELSE "leaves"]
    /\ UNCHANGED <<circumstance, tally>>

\* delete_user_invitations_in_tenant: the addresses of the invitations the person accepted
\* here are read, then the rows that match are found, then those are locked.
ReadAddresses(r) ==
    /\ At(r, "addresses")
    /\ eraser' = [eraser EXCEPT ![r].pc = After("addresses"),
                                ![r].addresses = @ \cup {person.invites[i].to : i \in Accepted}]
    /\ UNCHANGED <<circumstance, person, tally>>

FindInvitations(r) ==
    /\ At(r, "find")
    /\ eraser' = [eraser EXCEPT ![r].pc = After("find"),
           ![r].matched = {i \in Invites : Mine(i) /\ (i \in Accepted \/ person.invites[i].to \in eraser[r].addresses)}]
    /\ UNCHANGED <<circumstance, person, tally>>

LockedAsFound(r) == eraser[r].matched

\* Of the rows found, those another call has not deleted by the time they are locked.
Locked(r) == {i \in eraser[r].matched : Mine(i)}

\* erase_user_initiator; then the membership is looked for.  One transaction, in which the
\* invitations are counted, and the initiators where there is no membership.
EraseInvitations(r) ==
    /\ At(r, "invitations")
    /\ person' = [person EXCEPT
           !.invites = [i \in Invites |-> IF i \in Locked(r) THEN [@[i] EXCEPT !.state = "none"] ELSE @[i]],
           !.events = [e \in Events |-> IF e \in Named THEN "unavailable" ELSE @[e]]]
    /\ tally' = [tally EXCEPT !.invitations = @ + Cardinality({i \in Locked(r) : Mine(i)}),
                              !.invitationsSaid = @ + Cardinality(Locked(r)),
                              !.initiators = @ + Cardinality(Named),
                              !.initiatorsSaid = IF Member THEN @ ELSE @ + Cardinality(Named)]
    /\ eraser' = [eraser EXCEPT ![r].pc = IF Member THEN After("invitations") ELSE "record",
                                ![r].initiators = Cardinality(Named), ![r].found = person.member]
    /\ UNCHANGED circumstance

\* purge_user_membership_roles_in_tenant
PurgeRoles(r) ==
    /\ At(r, "roles")
    /\ person' = [person EXCEPT !.roles = IF person.member = eraser[r].found THEN FALSE ELSE @]
    /\ Go(r, After("roles"))
    /\ UNCHANGED <<circumstance, tally>>

\* The row is locked again and deleted unless another call was first.  The foreign keys
\* refuse it while roles, keys or notifications are there.
RemoveMembership(r) ==
    /\ At(r, "membership")
    /\ IF person.member # eraser[r].found THEN Go(r, After("membership")) /\ UNCHANGED person
       ELSE IF person.roles \/ person.leaves \cap {"api_keys", "notifications"} # {} THEN Go(r, "failed") /\ UNCHANGED person
       ELSE /\ person' = [person EXCEPT !.member = 0]
            /\ eraser' = [eraser EXCEPT ![r].pc = After("membership"), ![r].removed = TRUE]
    /\ UNCHANGED <<circumstance, tally>>

SaysWhenRemoved(r) == IF eraser[r].removed THEN eraser[r].initiators ELSE 0

\* What the last audit row of the tenant says: with the membership removed, or alone if
\* another call removed it first.
Says(r) == IF eraser[r].removed \/ eraser[r].found # 0 THEN eraser[r].initiators ELSE 0

RecordErasure(r) ==
    /\ At(r, "record")
    /\ tally' = [tally EXCEPT !.initiatorsSaid = @ + Says(r)]
    /\ Go(r, After("record"))
    /\ UNCHANGED <<circumstance, person>>

\* purge_user_sessions
PurgeSessions(r) ==
    /\ At(r, "sessions")
    /\ person' = [person EXCEPT !.sessions = FALSE]
    /\ Go(r, After("sessions"))
    /\ UNCHANGED <<circumstance, tally>>

\* The process dies, or a statement fails.
Die(r) ==
    /\ circumstance.deaths /\ Working(r)
    /\ Go(r, "died")
    /\ UNCHANGED <<circumstance, person, tally>>

-----------------------------------------------------------------------------
(* The others, while an erasure may be running: each once. *)

Meanwhile(what) ==
    /\ what \in circumstance.others
    /\ circumstance' = [circumstance EXCEPT !.others = @ \ {what}]
    /\ tally' = [tally EXCEPT !.quiet = FALSE]
    /\ UNCHANGED eraser

\* accept_invitation, on a session that is still valid, of the address it was verified for.
Accept == \E i \in Invites :
    /\ person.sessions /\ person.invites[i] = [state |-> "pending", to |-> "v"]
    /\ person' = [person EXCEPT !.invites[i].state = "accepted", !.member = IF Member THEN @ ELSE 2]
    /\ Meanwhile("accept")

\* append_event(initiated_by=...), on behalf of the person.
AppendEvent == \E e \in Events :
    /\ Member /\ person.events[e] = "none"
    /\ person' = [person EXCEPT !.events[e] = "user"]
    /\ Meanwhile("append")

\* assign_role to the membership.
AssignRole ==
    /\ Member /\ ~person.roles
    /\ person' = [person EXCEPT !.roles = TRUE]
    /\ Meanwhile("assign")

\* A notification to the person, or a key of theirs.
AddLeaf == \E leaf \in {"api_keys", "notifications"} :
    /\ Member /\ leaf \notin person.leaves
    /\ person' = [person EXCEPT !.leaves = @ \cup {leaf}]
    /\ Meanwhile("leaf")

-----------------------------------------------------------------------------
ErasureInit ==
    /\ circumstance \in Circumstances
    /\ person = circumstance.person
    /\ eraser = [r \in Erasers |-> [pc |-> "none", addresses |-> {}, left |-> Leaves, matched |-> {},
                                    initiators |-> 0, found |-> 0, removed |-> FALSE]]
    /\ tally = [invitations |-> 0, invitationsSaid |-> 0, initiators |-> 0, initiatorsSaid |-> 0, quiet |-> TRUE]

ErasureNext ==
    \/ \E r \in Erasers :
          \/ Begin(r) \/ RemoveLinks(r) \/ PurgeLeaf(r) \/ ReadAddresses(r) \/ FindInvitations(r)
          \/ EraseInvitations(r) \/ PurgeRoles(r) \/ RemoveMembership(r) \/ RecordErasure(r) \/ PurgeSessions(r) \/ Die(r)
    \/ Accept \/ AppendEvent \/ AssignRole \/ AddLeaf

ErasureSpec == ErasureInit /\ [][ErasureNext]_erasureVars

-----------------------------------------------------------------------------
\* The variables have their shapes.
ErasureTypeOK ==
    /\ {person.links, person.roles, person.sessions} \subseteq BOOLEAN
    /\ person.member \in 0 .. 2 /\ person.leaves \subseteq Leaves
    /\ \A r \in Erasers : eraser[r].left \subseteq Leaves /\ eraser[r].initiators <= Cardinality(Events)

\* The invitations the audit rows count are those that were deleted: overlapping calls neither
\* lose nor repeat one, whichever dies.
InvitationCountExact == tally.invitationsSaid = tally.invitations

\* As long as no call died or failed, the initiators counted are those that were replaced, also
\* where another call removed the membership in between.
InitiatorCountExact ==
    (\A r \in Erasers : eraser[r].pc \in {"none", "refused", "done"}) => tally.initiatorsSaid = tally.initiators

\* The addresses the person could be found by: declared, verified or accepted here.
KnownEmails ==
    LET first == circumstance.person
    IN  DeclaredEmails \cup (IF first.sessions THEN {"v"} ELSE {})
            \cup {first.invites[i].to : i \in {j \in Invites : first.invites[j].state = "accepted"}}

\* A call that ran to its end, however many died before it, leaves nothing that names the
\* person, invitations to an address it had no way to know excepted, unless somebody added it
\* meanwhile.
CompletedLeavesNothing ==
    tally.quiet /\ (\E r \in Erasers : At(r, "done")) =>
        /\ ~person.links /\ ~person.sessions /\ ~Member /\ ~person.roles /\ person.leaves = {}
        /\ Named = {}
        /\ \A i \in Invites : Mine(i) => person.invites[i].to \notin KnownEmails
=============================================================================
