-------------------------- MODULE ServiceAccounts --------------------------
(***************************************************************************)
(* A tenant's service account and its API keys (core/identity/service.py,  *)
(* core/api_keys/service.py) under the tenant's lifecycle, and the check   *)
(* of a presented key, validate_api_key, which reads the key, the tenant   *)
(* and the account in three transactions.                                  *)
(*                                                                         *)
(* A change is a transaction: Open takes its locks and checks, Settle      *)
(* commits it.  Whoever is authorized for the tenant (can()) holds its row *)
(* shared until the commit and finds it accessible; a lifecycle transition *)
(* takes the row exclusively.  Names, secrets and the callers' permissions *)
(* are left out.                                                           *)
(***************************************************************************)
EXTENDS Naturals, FiniteSets

CONSTANTS
    Changers,       \* transactions that may be open at once
    MachineKeys,    \* rows the api_keys table may come to hold
    Never,          \* no expiry
    MaxHour,        \* bound on the clock
    Businesses      \* what may happen in one behaviour: [ops, checks, first]

VARIABLES
    business,       \* the operations this behaviour is about
    hour,           \* the clock
    home,           \* the tenant's status
    purged,         \* purge steps that have run: "keys", "accounts"
    account,        \* the service account's row
    cited,          \* an audit row names the account as its actor
    machineKeys,    \* [MachineKeys -> [state, of, expires]]
    change,         \* the open transactions
    check,          \* the validation under way
    witnessed       \* what held at some moment of that validation

accountVars ==
    <<business, hour, home, purged, account, cited, machineKeys, change, check, witnessed>>

NoMachineKey == 0
NoChange == [op |-> "none", key |-> NoMachineKey, cap |-> 0]
NoCheck == [at |-> "none", key |-> NoMachineKey]

Instants == 0 .. MaxHour
Rows == {k \in MachineKeys : machineKeys[k].state \in {"live", "revoked", "rotated"}}

Accessible == home = "active"

AccountInit ==
    /\ business \in Businesses
    /\ hour = 0
    /\ home = "active"
    /\ purged = {}
    /\ account = business.first
    /\ cited = FALSE
    /\ machineKeys = [k \in MachineKeys |->
                        [state |-> "none", of |-> NoMachineKey, expires |-> Never]]
    /\ change = [c \in Changers |-> NoChange]
    /\ check = NoCheck
    /\ witnessed = {}

----------------------------------------------------------------------------
(* Locks. *)

(* Everything but the service account's own revocation of its key holds    *)
(* the tenant's row. *)
Shares(op) == op \notin {"none", "revoke_own", "purge_keys", "purge_accounts"}

HomeUnsharedAlways == TRUE

(* FOR UPDATE on the tenant's row waits for every holder. *)
HomeUnshared == \A c \in Changers : ~Shares(change[c].op)

MachineKeyFreeAlways(k) == TRUE

(* _lock_key: the row is not held by another transaction. *)
MachineKeyFree(k) ==
    \A c \in Changers : /\ change[c].key # k
                        /\ change[c].op # "purge_keys"

(* No other transaction holds the account's row. *)
AccountFree == \A c \in Changers : change[c].op \notin {"disable", "enable", "create_key"}

----------------------------------------------------------------------------
(* Opening a change. *)

OpenChange(c, op, key, cap) ==
    /\ change[c].op = "none" /\ op \in business.ops
    /\ change' = [change EXCEPT ![c] = [op |-> op, key |-> key, cap |-> cap]]
    /\ UNCHANGED <<business, hour, home, purged, account, cited, machineKeys, check>>

(* create_service_account: lock_accessible_tenant in the transaction. *)
CreateServiceAccount(c) ==
    /\ Accessible /\ account = "none"
    /\ OpenChange(c, "create_account", NoMachineKey, 0)

(* _set_service_account_status: an account already there is left as it is. *)
SetServiceAccountStatus(c, op, from) ==
    /\ Accessible /\ account = from
    /\ OpenChange(c, op, NoMachineKey, 0)

DisableServiceAccount(c) == SetServiceAccountStatus(c, "disable", "active")
EnableServiceAccount(c) == SetServiceAccountStatus(c, "enable", "disabled")

(* create_service_account_api_key: the foreign key asks for the account,   *)
(* whatever its status. *)
CreateServiceAccountApiKey(c, expires) ==
    /\ Accessible /\ account \in {"active", "disabled"}
    /\ OpenChange(c, "create_key", NoMachineKey, expires)

(* rotate_api_key by somebody who may rotate the tenant's keys, with the   *)
(* route's cap on the expiry of the new key. *)
RotateMachineKey(c, k, cap) ==
    /\ Accessible
    /\ MachineKeyFree(k) /\ machineKeys[k].state = "live"
    /\ OpenChange(c, "rotate", k, cap)

(* revoke_service_account_api_key: by a member. *)
RevokeServiceAccountApiKey(c, k) ==
    /\ Accessible
    /\ MachineKeyFree(k) /\ machineKeys[k].state = "live"
    /\ OpenChange(c, "revoke", k, 0)

(* revoke_api_key: the account revokes its own key; nothing is asked of    *)
(* the tenant. *)
RevokeOwnKey(c, k) ==
    /\ MachineKeyFree(k) /\ machineKeys[k].state = "live"
    /\ OpenChange(c, "revoke_own", k, 0)

(* purge_tenant_api_keys *)
PurgeKeys(c) ==
    /\ home = "purging" /\ "keys" \notin purged
    /\ \A k \in MachineKeys : MachineKeyFree(k)
    /\ OpenChange(c, "purge_keys", NoMachineKey, 0)

KeepNone == FALSE

(* referenced_service_account_ids: an account an audit row names is kept,  *)
(* disabled; read before the rows are locked. *)
Keep == cited

(* purge_tenant_service_accounts, a later step of the purge: the references *)
(* are read, and the rows locked and deleted in another transaction.       *)
PurgeAccounts(c) ==
    /\ home = "purging" /\ "keys" \in purged /\ "accounts" \notin purged
    /\ OpenChange(c, "purge_accounts", NoMachineKey, IF Keep THEN 1 ELSE 0)

----------------------------------------------------------------------------
(* Committing it. *)

EarlierIsCap(first, second) == second

Earlier(first, second) ==
    IF first = Never THEN second
    ELSE IF second = Never THEN first
    ELSE IF first < second THEN first ELSE second

NewMachineKey(of, expires) ==
    \E n \in MachineKeys :
       /\ machineKeys[n].state = "none"
       /\ \A k \in MachineKeys : machineKeys[k].state = "none" => n <= k
       /\ machineKeys' = [k \in MachineKeys |->
            IF k = n THEN [state |-> "live", of |-> of, expires |-> expires]
            ELSE IF k = of THEN [machineKeys[k] EXCEPT !.state = "rotated"]
            ELSE machineKeys[k]]

Revoked(k) == [machineKeys EXCEPT ![k].state = "revoked"]

AfterChange(c) ==
    LET op == change[c].op  k == change[c].key
    IN CASE op = "create_account" ->
              account' = "active" /\ UNCHANGED <<machineKeys, cited, purged>>
         [] op = "disable" -> account' = "disabled" /\ UNCHANGED <<machineKeys, cited, purged>>
         [] op = "enable"  -> account' = "active" /\ UNCHANGED <<machineKeys, cited, purged>>
         [] op = "create_key" ->
              NewMachineKey(NoMachineKey, change[c].cap) /\ UNCHANGED <<account, cited, purged>>
         [] op = "rotate" ->
              /\ NewMachineKey(k, Earlier(machineKeys[k].expires, change[c].cap))
              /\ UNCHANGED <<account, cited, purged>>
         [] op = "revoke" ->
              machineKeys' = Revoked(k) /\ UNCHANGED <<account, cited, purged>>
         [] op = "revoke_own" ->
              machineKeys' = Revoked(k) /\ cited' = TRUE /\ UNCHANGED <<account, purged>>
         [] op = "purge_keys" ->
              /\ machineKeys' = [j \in MachineKeys |->
                    IF j \in Rows THEN [machineKeys[j] EXCEPT !.state = "deleted"]
                    ELSE machineKeys[j]]
              /\ purged' = purged \cup {"keys"}
              /\ UNCHANGED <<account, cited>>
         [] op = "purge_accounts" ->
              /\ AccountFree
              /\ account' = IF account \in {"none", "deleted"} THEN account
                            ELSE IF change[c].cap = 1 THEN "disabled" ELSE "deleted"
              /\ account # "none" /\ change[c].cap = 0 => Rows = {} /\ ~cited  \* the foreign keys
              /\ purged' = purged \cup {"accounts"}
              /\ UNCHANGED <<machineKeys, cited>>

Settle(c) ==
    /\ change[c].op # "none"
    /\ AfterChange(c)
    /\ change' = [change EXCEPT ![c] = NoChange]
    /\ UNCHANGED <<business, hour, home, check>>

Undo(c) ==
    /\ change[c].op # "none"
    /\ change' = [change EXCEPT ![c] = NoChange]
    /\ UNCHANGED <<business, hour, home, purged, account, cited, machineKeys, check>>

----------------------------------------------------------------------------
(* The tenant and the clock. *)

(* transition_tenant_status and purge_tenant: FOR UPDATE on the row. *)
MoveHome(to) ==
    /\ HomeUnshared
    /\ \/ home = "active" /\ to \in {"suspended", "deleted"}
       \/ home = "suspended" /\ to \in {"active", "deleted"}
       \/ home = "deleted" /\ to = "purging"
       \/ home = "purging" /\ to = "purged" /\ purged = {"keys", "accounts"}
    /\ home' = to
    /\ UNCHANGED <<business, hour, purged, account, cited, machineKeys, change, check>>

PassHour ==
    /\ hour < MaxHour
    /\ hour' = hour + 1
    /\ UNCHANGED <<business, home, purged, account, cited, machineKeys, change, check>>

----------------------------------------------------------------------------
(* validate_api_key. *)

Expired(k) == machineKeys[k].expires # Never /\ machineKeys[k].expires <= hour

UsableUnlessRevoked(k) == machineKeys[k].state = "live"

(* The first transaction: revoked or expired. *)
Usable(k) == machineKeys[k].state = "live" /\ ~Expired(k)

StepCheck(next) ==
    /\ check' = next
    /\ UNCHANGED <<business, hour, home, purged, account, cited, machineKeys, change>>

PresentKey(k) ==
    /\ business.checks /\ check.at = "none" /\ machineKeys[k].state # "none"
    /\ StepCheck([at |-> "presented", key |-> k])

Outcome(good, next) == [check EXCEPT !.at = IF good THEN next ELSE "denied"]

(* A key that is not there is refused without a record. *)
LookUpKey ==
    /\ check.at = "presented"
    /\ StepCheck(IF check.key \in Rows THEN Outcome(Usable(check.key), "found")
                 ELSE [check EXCEPT !.at = "refused"])

(* The second: is_accessible_to_principals. *)
CheckTenant == check.at = "found" /\ StepCheck(Outcome(Accessible, "tenant"))

AccountUsableIfThere == account \in {"active", "disabled"}

AccountUsable == account = "active"

(* The third: the account exists and is active. *)
CheckAccount == check.at = "tenant" /\ StepCheck(Outcome(AccountUsable, "accepted"))

(* record_audit_event: a transaction of its own.  With the account gone the *)
(* foreign key refuses it, and the call is refused all the same. *)
RecordDenial ==
    /\ check.at = "denied"
    /\ check' = [check EXCEPT !.at = "refused"]
    /\ cited' = (cited \/ account \in {"active", "disabled"})
    /\ UNCHANGED <<business, hour, home, purged, account, machineKeys, change>>

AnswerCheck == check.at \in {"accepted", "refused"} /\ StepCheck(NoCheck)

----------------------------------------------------------------------------

ChangeStep(c) ==
    \/ CreateServiceAccount(c) \/ DisableServiceAccount(c) \/ EnableServiceAccount(c)
    \/ \E e \in Instants \cup {Never} : CreateServiceAccountApiKey(c, e)
    \/ \E k \in MachineKeys :
          \/ \E cap \in {MaxHour, Never} : RotateMachineKey(c, k, cap)
          \/ RevokeServiceAccountApiKey(c, k) \/ RevokeOwnKey(c, k)
    \/ PurgeKeys(c) \/ PurgeAccounts(c)
    \/ Settle(c) \/ Undo(c)

CheckStep ==
    \/ \E k \in MachineKeys : PresentKey(k)
    \/ LookUpKey \/ CheckTenant \/ CheckAccount \/ RecordDenial \/ AnswerCheck

(* What holds now of the key being validated. *)
HoldsNow ==
    {w \in {"key", "tenant", "account"} :
       CASE w = "key" -> machineKeys[check.key].state = "live" /\ ~Expired(check.key)
         [] w = "tenant" -> Accessible
         [] w = "account" -> account = "active"}

AccountNext ==
    /\ \/ \E c \in Changers : ChangeStep(c)
       \/ \E to \in {"active", "suspended", "deleted", "purging", "purged"} : MoveHome(to)
       \/ PassHour
       \/ CheckStep
    /\ witnessed' = IF check'.at = "none" THEN {}
                    ELSE IF check'.at \in {"accepted", "denied", "refused"} THEN witnessed
                    ELSE witnessed \cup HoldsNow'

AccountSpec == AccountInit /\ [][AccountNext]_accountVars

----------------------------------------------------------------------------

(* Types. *)
AccountTypeOK ==
    /\ home \in {"active", "suspended", "deleted", "purging", "purged"}
    /\ account \in {"none", "active", "disabled", "deleted"}
    /\ check.at \in {"none", "presented", "found", "tenant", "accepted", "denied", "refused"}
    /\ purged \subseteq {"keys", "accounts"}

(* validate_api_key reads three rows in three transactions: a key is only  *)
(* accepted when, at some moment of the call, it was live and unexpired,   *)
(* at some moment its tenant admitted principals and at some moment its    *)
(* account was active; a rotation, a revocation or a disabling that        *)
(* committed before the call began is never missed. *)
AcceptedWasGood == check.at = "accepted" => witnessed = {"key", "tenant", "account"}

(* purge_tenant: a purged tenant has no key and no active account, though  *)
(* keys were being created and rotated and the account enabled when it was *)
(* deleted. *)
PurgedHasNoCredential == home = "purged" => Rows = {} /\ account # "active"

(* rotate_api_key: "a rotation must not turn a revoked key back into a     *)
(* live credential", also when the two run at once. *)
RevokedHasNoSuccessor ==
    \A n \in MachineKeys :
       machineKeys[n].of # NoMachineKey => machineKeys[machineKeys[n].of].state # "revoked"

(* rotate_api_key: a new key never outlives the one it replaces, so an     *)
(* expired key is not renewed by rotating it. *)
NeverOutlives ==
    \A n \in MachineKeys :
       LET old == machineKeys[n].of
       IN old # NoMachineKey /\ machineKeys[old].expires # Never
          => /\ machineKeys[n].expires # Never
             /\ machineKeys[n].expires <= machineKeys[old].expires

(* purge_tenant_service_accounts keeps the account an audit row names: its *)
(* own last revocation, made while the tenant was being closed, or a       *)
(* validation refused at any moment.  A record written between the reading *)
(* of the references and the deletion makes the deletion fail.             *)
CitedIsKept == cited => account # "deleted"

=============================================================================
