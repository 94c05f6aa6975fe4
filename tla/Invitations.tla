---------------------------- MODULE Invitations ----------------------------
(***************************************************************************)
(* Joining one tenant and leaving it: invitations sent to one address and  *)
(* the memberships they lead to (core/identity/service.py), with erasure   *)
(* of a member (core/identity/erasure.py) and the tenant's purge.          *)
(*                                                                         *)
(* A call is one transaction: Open takes its locks and reads, Commit       *)
(* writes.  revoke_invitation takes no lock before its UPDATE, which waits *)
(* for whoever holds the row and is then subject to the table's            *)
(* constraints.                                                            *)
(***************************************************************************)
EXTENDS Naturals, FiniteSets

CONSTANTS
    Users,          \* who may redeem a token
    Rows,           \* rows the invitations table may come to hold
    Calls,          \* transactions that may be open at once
    NoRow, NoUser

VARIABLES
    tenant,         \* "open", "closed" or "purging"
    invitation,     \* the rows
    membership,     \* status of each user's membership, "none" without a row
    accepted,       \* how often each invitation was redeemed
    call            \* the open transactions

invitationVars == <<tenant, invitation, membership, accepted, call>>

MembershipStatus == {"active", "suspended", "revoked"}

Absent == [state |-> "none", expired |-> FALSE, by |-> NoUser]
NoCall == [op |-> "none", row |-> NoRow, user |-> NoUser, saw |-> "none"]

InvitationTypeOK ==
    /\ tenant \in {"open", "closed", "purging"}
    /\ invitation \in [Rows -> [state : {"none", "pending", "accepted",
                                         "revoked", "deleted"},
                                expired : BOOLEAN, by : Users \cup {NoUser}]]
    /\ membership \in [Users -> MembershipStatus \cup {"none"}]
    /\ accepted \in [Rows -> Nat]
    /\ call \in [Calls -> [op : {"none", "accept", "revoke_invitation", "add",
                                 "suspend", "reactivate", "revoke"},
                           row : Rows \cup {NoRow}, user : Users \cup {NoUser},
                           saw : MembershipStatus \cup {"none"}]]

InvitationInit ==
    /\ tenant = "open"
    /\ invitation = [i \in Rows |-> Absent]
    /\ membership = [u \in Users |-> "none"]
    /\ accepted = [i \in Rows |-> 0]
    /\ call = [c \in Calls |-> NoCall]

Pending == {i \in Rows : invitation[i].state = "pending"}

Start(c, op, row, user, saw) ==
    /\ call[c] = NoCall
    /\ call' = [call EXCEPT ![c] = [op |-> op, row |-> row, user |-> user,
                                    saw |-> saw]]

(***************************************************************************)
(* Invitations                                                             *)
(***************************************************************************)

(* create_invitation: uq_invitations_live_unique allows one row that is    *)
(* neither accepted nor revoked, expired or not.                           *)
CreateInvitation ==
    LET i == CHOOSE r \in Rows : invitation[r] = Absent
    IN /\ tenant = "open"
       /\ Pending = {}
       /\ \E r \in Rows : invitation[r] = Absent
       /\ invitation' = [invitation EXCEPT ![i].state = "pending"]
       /\ UNCHANGED <<tenant, membership, accepted, call>>

(* expires_at passes. *)
Expire(i) ==
    /\ invitation[i].state = "pending"
    /\ ~invitation[i].expired
    /\ invitation' = [invitation EXCEPT ![i].expired = TRUE]
    /\ UNCHANGED <<tenant, membership, accepted, call>>

(* session.get(Invitation, ..., with_for_update=True) *)
RowFreeAlways(i) == TRUE

RowFree(i) == ~ \E c \in Calls : call[c].op = "accept" /\ call[c].row = i

(* accept_invitation and _consume_locked_invitation.  A membership that is *)
(* not active refuses it.                                                  *)
AcceptInvitation(c, i, u) ==
    /\ RowFree(i)
    /\ tenant = "open"                  \* lock_accessible_tenant
    /\ invitation[i].state = "pending"
    /\ ~invitation[i].expired
    /\ membership[u] \in {"none", "active"}
    /\ Start(c, "accept", i, u, membership[u])
    /\ UNCHANGED <<tenant, invitation, membership, accepted>>

(* A membership that appeared since breaks the unique constraint. *)
CommitAcceptance(c) ==
    LET i == call[c].row
        u == call[c].user
    IN /\ call[c].op = "accept"
       /\ call[c].saw = "none" => membership[u] = "none"
       /\ invitation' = [invitation EXCEPT ![i].state = "accepted", ![i].by = u]
       /\ accepted' = [accepted EXCEPT ![i] = @ + 1]
       /\ membership' = IF call[c].saw = "none"
                        THEN [membership EXCEPT ![u] = "active"] ELSE membership
       /\ call' = [call EXCEPT ![c] = NoCall]
       /\ UNCHANGED tenant

(* revoke_invitation *)
RevokeInvitation(c, i) ==
    /\ invitation[i].state = "pending"
    /\ Start(c, "revoke_invitation", i, NoUser, "none")
    /\ UNCHANGED <<tenant, invitation, membership, accepted>>

(* ck_invitations_not_accepted_and_revoked; a deleted row is not found. *)
MayBeRevokedUnchecked(i) == invitation[i].state # "deleted"

MayBeRevoked(i) == invitation[i].state \in {"pending", "revoked"}

CommitRevocation(c) ==
    LET i == call[c].row
    IN /\ call[c].op = "revoke_invitation"
       /\ RowFree(i)
       /\ MayBeRevoked(i)
       /\ invitation' = [invitation EXCEPT ![i].state = "revoked"]
       /\ call' = [call EXCEPT ![c] = NoCall]
       /\ UNCHANGED <<tenant, membership, accepted>>

(***************************************************************************)
(* Memberships                                                             *)
(***************************************************************************)

(* add_tenant_membership, for the system's provisioning: the tenant is     *)
(* read without a lock.                                                    *)
AddMembership(c, u) ==
    /\ tenant = "open"
    /\ Start(c, "add", NoRow, u, "none")
    /\ UNCHANGED <<tenant, invitation, membership, accepted>>

(* lock_tenant_administrators *)
AdministratorLockFreeAlways == TRUE

AdministratorLockFree ==
    ~ \E c \in Calls : call[c].op \in {"suspend", "reactivate", "revoke"}

(* suspend_membership, reactivate_membership, revoke_membership *)
AllowedFrom(op) ==
    CASE op = "suspend"    -> {"active"}
      [] op = "reactivate" -> {"suspended"}
      [] op = "revoke"     -> {"active", "suspended"}

ToStatus(op) ==
    CASE op = "suspend"    -> "suspended"
      [] op = "reactivate" -> "active"
      [] op = "revoke"     -> "revoked"
      [] op = "add"        -> "active"

(* _transition_membership_status: the status is read under the lock. *)
TransitionMembership(c, op, u) ==
    /\ AdministratorLockFree
    /\ op = "reactivate" => tenant = "open"
    /\ membership[u] \in AllowedFrom(op)
    /\ Start(c, op, NoRow, u, membership[u])
    /\ UNCHANGED <<tenant, invitation, membership, accepted>>

CommitMembership(c) ==
    LET op == call[c].op
        u  == call[c].user
    IN /\ op \in {"add", "suspend", "reactivate", "revoke"}
       /\ (membership[u] = "none") <=> (op = "add")
       /\ membership' = [membership EXCEPT ![u] = ToStatus(op)]
       /\ call' = [call EXCEPT ![c] = NoCall]
       /\ UNCHANGED <<tenant, invitation, accepted>>

(* Any call may fail: a refused constraint, a lost connection, a crash. *)
RollBack(c) ==
    /\ call[c] # NoCall
    /\ call' = [call EXCEPT ![c] = NoCall]
    /\ UNCHANGED <<tenant, invitation, membership, accepted>>

(***************************************************************************)
(* The tenant and erasure                                                  *)
(***************************************************************************)

(* transition_tenant_status: FOR UPDATE waits for every FOR SHARE. *)
TenantRowFreeAlways == TRUE

TenantRowFree == ~ \E c \in Calls : call[c].op = "accept"

CloseTenant ==
    /\ tenant = "open"
    /\ TenantRowFree
    /\ tenant' = "closed"
    /\ UNCHANGED <<invitation, membership, accepted, call>>

StartPurge ==
    /\ tenant = "closed"
    /\ tenant' = "purging"
    /\ UNCHANGED <<invitation, membership, accepted, call>>

(* purge_tenant_invitations and purge_tenant_memberships *)
PurgeInvitations ==
    /\ tenant = "purging"
    /\ \A i \in Rows : RowFree(i)
    /\ invitation' = [i \in Rows |-> IF invitation[i] = Absent THEN Absent
                                     ELSE [invitation[i] EXCEPT !.state = "deleted"]]
    /\ UNCHANGED <<tenant, membership, accepted, call>>

PurgeMemberships ==
    /\ tenant = "purging"
    /\ membership' = [u \in Users |-> "none"]
    /\ UNCHANGED <<tenant, invitation, accepted, call>>

(* delete_user_invitations_in_tenant, for the person the address belongs   *)
(* to: every row, once nobody holds it.                                    *)
EraseInvitations ==
    /\ \A i \in Rows : RowFree(i)
    /\ \E i \in Rows : invitation[i].state \notin {"none", "deleted"}
    /\ invitation' = [i \in Rows |-> IF invitation[i] = Absent THEN Absent
                                     ELSE [invitation[i] EXCEPT !.state = "deleted"]]
    /\ UNCHANGED <<tenant, membership, accepted, call>>

(* _erase_membership_in_tenant *)
EraseMembership(u) ==
    /\ membership[u] # "none"
    /\ membership' = [membership EXCEPT ![u] = "none"]
    /\ UNCHANGED <<tenant, invitation, accepted, call>>

InvitationNext ==
    \/ CreateInvitation
    \/ \E i \in Rows : Expire(i)
    \/ \E c \in Calls, i \in Rows, u \in Users : AcceptInvitation(c, i, u)
    \/ \E c \in Calls, i \in Rows : RevokeInvitation(c, i)
    \/ \E c \in Calls, u \in Users :
          \/ AddMembership(c, u)
          \/ \E op \in {"suspend", "reactivate", "revoke"} :
                TransitionMembership(c, op, u)
    \/ \E c \in Calls : \/ CommitAcceptance(c) \/ CommitRevocation(c)
                        \/ CommitMembership(c) \/ RollBack(c)
    \/ CloseTenant \/ StartPurge \/ PurgeInvitations \/ PurgeMemberships
    \/ EraseInvitations
    \/ \E u \in Users : EraseMembership(u)

(***************************************************************************)
(* Properties                                                              *)
(***************************************************************************)

(* accept_invitation: a token is redeemed once, though two people may      *)
(* present it at the same time.                                            *)
AcceptedOnce == \A i \in Rows : accepted[i] <= 1

InvitationEndsOnceStep ==
    \A i \in Rows : invitation[i].state \in {"accepted", "revoked"} =>
       invitation'[i].state \in {invitation[i].state, "deleted"}

(* core/identity/models.py, Invitation: accepted and revoked are terminal, *)
(* though a revocation may have read the row before it was redeemed.       *)
InvitationEndsOnce == [][InvitationEndsOnceStep]_invitationVars

RevokedIsFinalStep ==
    \A u \in Users : membership[u] = "revoked" =>
       membership'[u] \in {"revoked", "none"}

(* _transition_membership_status: a revoked membership comes back neither  *)
(* by a reactivation that had read "suspended" nor by an invitation.       *)
RevokedIsFinal == [][RevokedIsFinalStep]_invitationVars

JoinsOpenTenantStep ==
    accepted' # accepted => tenant = "open"

(* _consume_locked_invitation: nobody joins a tenant that has closed by    *)
(* redeeming a token.                                                      *)
JoinsOpenTenant == [][JoinsOpenTenantStep]_invitationVars
=============================================================================
