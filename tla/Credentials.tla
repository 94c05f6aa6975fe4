---------------------------- MODULE Credentials ----------------------------
(***************************************************************************)
(* The credentials of one person: sessions (core/identity/sessions.py and  *)
(* session_retention.py), API keys (core/api_keys/service.py), and what    *)
(* takes them away: single and bulk revocation, deactivation of the user   *)
(* (core/identity/user_authority.py) and erasure of the identity           *)
(* (core/identity/erasure.py).                                             *)
(*                                                                         *)
(* Every call is a transaction.  Its first half (Open) takes the locks the *)
(* code takes and checks what it read; its second half (Commit) makes the  *)
(* effect visible.  An UPDATE of all of a user's rows changes the rows its *)
(* statement saw, so Open also records those.  Tokens, hashes and names    *)
(* are left out; a session that ran out is "expired".                      *)
(***************************************************************************)
EXTENDS Naturals, FiniteSets

CONSTANTS
    Calls,          \* transactions that may be open at once
    Keys,           \* rows the api_keys table may come to hold
    Sessions,       \* rows the sessions table may come to hold
    MaxPerUser,     \* get_api_key_config().max_per_user
    NoKey           \* no key

VARIABLES
    userActive,     \* users.is_active
    linked,         \* has an external identity
    member,         \* has a membership of the tenant
    keys,           \* the person's API keys, and the key each replaces
    sessions,       \* the person's sessions
    erasure,        \* how far erase_user_identity has come
    call            \* the open transactions

credentialVars == <<userActive, linked, member, keys, sessions, erasure, call>>

SessionStates == {"none", "live", "expired", "revoked", "deleted"}
KeyStates == {"none", "live", "revoked", "deleted"}

Operations == {"login", "create", "rotate", "revoke_key", "revoke_keys",
               "revoke_session", "revoke_sessions", "deactivate", "reactivate",
               "erase_keys", "erase_membership", "erase_sessions"}

NoCall == [op |-> "none", key |-> NoKey, seen |-> {}, seenSessions |-> {},
           open |-> FALSE]

Unrevoked == {k \in Keys : keys[k].state = "live"}
KeyRows == {k \in Keys : keys[k].state \in {"live", "revoked"}}
UnrevokedSessions == {s \in Sessions : sessions[s] \in {"live", "expired"}}
SessionRows == {s \in Sessions : sessions[s] \notin {"none", "deleted"}}

CredentialTypeOK ==
    /\ {userActive, linked, member} \subseteq BOOLEAN
    /\ keys \in [Keys -> [state : KeyStates, of : Keys \cup {NoKey}]]
    /\ sessions \in [Sessions -> SessionStates]
    /\ erasure \in {"no", "links", "keys", "membership", "done"}
    /\ call \in [Calls -> [op : Operations \cup {"none"},
                           key : Keys \cup {NoKey}, seen : SUBSET Keys,
                           seenSessions : SUBSET Sessions, open : BOOLEAN]]

CredentialInit ==
    /\ userActive = TRUE
    /\ linked = TRUE
    /\ member = TRUE
    /\ keys = [k \in Keys |-> [state |-> "none", of |-> NoKey]]
    /\ sessions = [s \in Sessions |-> "none"]
    /\ erasure = "no"
    /\ call = [c \in Calls |-> NoCall]

(***************************************************************************)
(* Locks                                                                   *)
(***************************************************************************)

Holding(ops) == \E c \in Calls : call[c].open /\ call[c].op \in ops

(* lock_user_is_active: whoever adds a credential shares the user's row,   *)
(* whoever takes them all away has it alone.                               *)
Sharing == {"login", "create", "rotate"}
Exclusive == {"revoke_keys", "revoke_sessions", "deactivate", "reactivate"}

UserRowFreeAlways(op) == TRUE

UserRowFree(op) ==
    /\ op \in Sharing   => ~Holding(Exclusive)
    /\ op \in Exclusive => ~Holding(Sharing \cup Exclusive)

(* _lock_key, and the rows a bulk statement has locked. *)
KeyRowFreeAlways(k) == TRUE

KeyRowFree(k) ==
    \A c \in Calls : call[c].open => k # call[c].key /\ k \notin call[c].seen

(* acquire_tenant_advisory_lock(_USER_KEY_LIMIT_LOCK) *)
LimitLockFreeAlways == TRUE

LimitLockFree == ~Holding({"create"})

(***************************************************************************)
(* Opening a transaction                                                   *)
(***************************************************************************)

OpenCall(c, op, key, seen, seenSessions) ==
    /\ ~call[c].open
    /\ UserRowFree(op)
    /\ call' = [call EXCEPT ![c] =
                  [op |-> op, key |-> key, seen |-> seen,
                   seenSessions |-> seenSessions, open |-> TRUE]]
    /\ UNCHANGED <<userActive, linked, member, keys, sessions, erasure>>

(* get_or_create_user_for_external_identity: the login finds the identity  *)
(* in a transaction of its own, before issue_session.                      *)
FindIdentity(c) ==
    /\ call[c] = NoCall
    /\ linked
    /\ call' = [call EXCEPT ![c].op = "login"]
    /\ UNCHANGED <<userActive, linked, member, keys, sessions, erasure>>

(* issue_session *)
IssueSession(c) ==
    /\ call[c].op = "login"
    /\ userActive
    /\ OpenCall(c, "login", NoKey, {}, {})

(* create_api_key.  The foreign key asks for the membership. *)
CreateWithoutMembership(c) ==
    /\ call[c] = NoCall
    /\ LimitLockFree
    /\ userActive
    /\ Cardinality(Unrevoked) < MaxPerUser
    /\ OpenCall(c, "create", NoKey, {}, {})

CreateApiKey(c) ==
    /\ call[c] = NoCall
    /\ LimitLockFree
    /\ userActive
    /\ Cardinality(Unrevoked) < MaxPerUser
    /\ member /\ ~Holding({"erase_membership"})
    /\ OpenCall(c, "create", NoKey, {}, {})

(* rotate_api_key: the row is locked before revoked_at is looked at. *)
RotateApiKey(c, k) ==
    /\ call[c] = NoCall
    /\ userActive
    /\ KeyRowFree(k)
    /\ keys[k].state = "live"
    /\ OpenCall(c, "rotate", k, {}, {})

(* revoke_api_key; a key already revoked is left as it is. *)
RevokeApiKey(c, k) ==
    /\ call[c] = NoCall
    /\ KeyRowFree(k)
    /\ keys[k].state = "live"
    /\ OpenCall(c, "revoke_key", k, {}, {})

(* revoke_user_api_keys and revoke_user_sessions, by a platform operator. *)
RevokeUserApiKeys(c) ==
    /\ call[c] = NoCall
    /\ OpenCall(c, "revoke_keys", NoKey, Unrevoked, {})

RevokeUserSessions(c) ==
    /\ call[c] = NoCall
    /\ OpenCall(c, "revoke_sessions", NoKey, {}, UnrevokedSessions)

(* revoke_session, at logout: the row is read without a lock. *)
RevokeSession(c, s) ==
    /\ call[c] = NoCall
    /\ s \in UnrevokedSessions
    /\ OpenCall(c, "revoke_session", NoKey, {}, {s})

(* _deactivate_in_transaction and reactivate_user revoke both. *)
DeactivateUser(c) ==
    /\ call[c] = NoCall
    /\ userActive
    /\ OpenCall(c, "deactivate", NoKey, Unrevoked, UnrevokedSessions)

ReactivateUser(c) ==
    /\ call[c] = NoCall
    /\ ~userActive
    /\ OpenCall(c, "reactivate", NoKey, Unrevoked, UnrevokedSessions)

(* erase_user_identity, one transaction after the other, none of which     *)
(* takes the user's row: purge_user_api_keys_in_tenant, the membership,    *)
(* purge_user_sessions.                                                    *)
EraseKeys(c) ==
    /\ call[c] = NoCall
    /\ erasure = "links"
    /\ ~Holding({"erase_keys"})
    /\ OpenCall(c, "erase_keys", NoKey, KeyRows, {})

EraseMembership(c) ==
    /\ call[c] = NoCall
    /\ erasure = "keys"
    /\ ~Holding({"erase_membership", "create", "rotate"})
    /\ KeyRows = {}                     \* fk_api_keys_tenant_membership
    /\ OpenCall(c, "erase_membership", NoKey, {}, {})

EraseSessions(c) ==
    /\ call[c] = NoCall
    /\ erasure = "membership"
    /\ ~Holding({"erase_sessions"})
    /\ OpenCall(c, "erase_sessions", NoKey, {}, SessionRows)

(***************************************************************************)
(* Committing it                                                           *)
(***************************************************************************)

(* A statement that found a row locked waits for it. *)
RowsFree(c) ==
    \A d \in Calls \ {c} : call[d].open => call[d].key \notin call[c].seen

(* The rows are interchangeable: a new key takes any free one. *)
NewKey(of) ==
    LET n == CHOOSE k \in Keys : keys[k].state = "none"
    IN /\ \E k \in Keys : keys[k].state = "none"
       /\ keys' = [k \in Keys |->
                    IF k = n THEN [state |-> "live", of |-> of]
                    ELSE IF k = of THEN [keys[k] EXCEPT !.state = "revoked"]
                    ELSE keys[k]]

(* revoke_user_api_keys_in_transaction and _revoke_sessions: of the rows   *)
(* seen, those that are still unrevoked.                                   *)
RevokeSeen(c) ==
    /\ keys' = [k \in Keys |->
                 IF k \in call[c].seen \cap Unrevoked
                 THEN [keys[k] EXCEPT !.state = "revoked"] ELSE keys[k]]
    /\ sessions' = [s \in Sessions |->
                     IF s \in call[c].seenSessions \cap UnrevokedSessions
                     THEN "revoked" ELSE sessions[s]]

Effect(c) ==
    LET op == call[c].op
    IN CASE op = "login" ->
              /\ \E s \in Sessions : /\ sessions[s] = "none"
                                     /\ sessions' = [sessions EXCEPT ![s] = "live"]
              /\ UNCHANGED <<userActive, member, keys, erasure>>
         [] op \in {"create", "rotate"} ->
              /\ NewKey(call[c].key)
              /\ UNCHANGED <<userActive, member, sessions, erasure>>
         [] op = "revoke_key" ->
              /\ keys' = [keys EXCEPT ![call[c].key].state = "revoked"]
              /\ UNCHANGED <<userActive, member, sessions, erasure>>
         [] op \in {"revoke_keys", "revoke_sessions", "revoke_session",
                    "deactivate", "reactivate"} ->
              /\ RevokeSeen(c)
              /\ userActive' = IF op = "deactivate" THEN FALSE
                               ELSE (userActive \/ op = "reactivate")
              /\ UNCHANGED <<member, erasure>>
         [] op = "erase_keys" ->
              /\ keys' = [k \in Keys |-> IF k \in call[c].seen
                                         THEN [keys[k] EXCEPT !.state = "deleted"]
                                         ELSE keys[k]]
              /\ erasure' = "keys"
              /\ UNCHANGED <<userActive, member, sessions>>
         [] op = "erase_membership" ->
              /\ member' = FALSE
              /\ erasure' = "membership"
              /\ UNCHANGED <<userActive, keys, sessions>>
         [] op = "erase_sessions" ->
              /\ sessions' = [s \in Sessions |-> IF s \in call[c].seenSessions
                                                 THEN "deleted" ELSE sessions[s]]
              /\ erasure' = "done"
              /\ UNCHANGED <<userActive, member, keys>>

Commit(c) ==
    /\ call[c].open
    /\ RowsFree(c)
    /\ Effect(c)
    /\ call' = [call EXCEPT ![c] = NoCall]
    /\ UNCHANGED linked

(* A statement fails, a connection is lost or the process dies.  Erasure   *)
(* is called again from the beginning.                                     *)
RollBack(c) ==
    /\ call[c] # NoCall
    /\ call' = [call EXCEPT ![c] = NoCall]
    /\ UNCHANGED <<userActive, linked, member, keys, sessions, erasure>>

(* remove_identity_links_unless_enrolled_operator, and again when a step   *)
(* failed: the rows a concurrent call left are found then.                 *)
EraseLinks ==
    /\ erasure \in {"no", "links", "keys"}
    /\ linked' = FALSE
    /\ erasure' = "links"
    /\ UNCHANGED <<userActive, member, keys, sessions, call>>

(* A session runs out; cleanup_expired_sessions deletes what has expired   *)
(* and what was revoked long enough ago.                                   *)
Expire(s) ==
    /\ sessions[s] = "live"
    /\ sessions' = [sessions EXCEPT ![s] = "expired"]
    /\ UNCHANGED <<userActive, linked, member, keys, erasure, call>>

CleanupSession(s) ==
    /\ sessions[s] \in {"expired", "revoked"}
    /\ sessions' = [sessions EXCEPT ![s] = "deleted"]
    /\ UNCHANGED <<userActive, linked, member, keys, erasure, call>>

CredentialNext ==
    \/ \E c \in Calls :
          \/ FindIdentity(c) \/ IssueSession(c) \/ CreateApiKey(c)
          \/ \E k \in Keys : RotateApiKey(c, k) \/ RevokeApiKey(c, k)
          \/ \E s \in Sessions : RevokeSession(c, s)
          \/ RevokeUserApiKeys(c) \/ RevokeUserSessions(c)
          \/ DeactivateUser(c) \/ ReactivateUser(c)
          \/ EraseKeys(c) \/ EraseMembership(c) \/ EraseSessions(c)
          \/ Commit(c) \/ RollBack(c)
    \/ EraseLinks
    \/ \E s \in Sessions : Expire(s) \/ CleanupSession(s)

(***************************************************************************)
(* Properties                                                              *)
(***************************************************************************)

(* _deactivate_in_transaction: a deactivated user has no credential left,  *)
(* though logins, new keys and rotations may be under way when it commits. *)
InactiveHasNoCredential ==
    ~userActive => Unrevoked = {} /\ \A s \in Sessions : sessions[s] # "live"

(* create_api_key: "at most max_per_user" unrevoked keys, however many are *)
(* created at once and rotated meanwhile.                                  *)
KeyLimitKept == Cardinality(Unrevoked) <= MaxPerUser

(* rotate_api_key: a key has one successor; of two rotations at once the   *)
(* second is refused (RevokedApiKeyError).                                 *)
RotatedOnce ==
    \A k \in Keys : Cardinality({n \in Keys : keys[n].of = k}) <= 1

(* erase_user_identity: once the membership is gone no key of the person   *)
(* is left in the tenant, whatever was created or rotated while it ran.    *)
ErasedHasNoKey == erasure \in {"membership", "done"} => KeyRows = {} /\ ~member
=============================================================================
