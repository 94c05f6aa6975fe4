--------------------------- MODULE GrantMigrations ---------------------------
(***************************************************************************)
(* Runs of apply_permission_grant_migrations                               *)
(* (core/permission_grants/apply.py): a pre-flight transaction that checks *)
(* every ledger and writes the started row, one transaction per tenant     *)
(* under the tenant's row lock and advisory lock, and the completed row.   *)
(* Runs go on concurrently, crash, and meet tenant administrators who take *)
(* permissions back, create and drop roles, and tenants that close.  One   *)
(* role, one namespace; a declaration is a set of migrations.              *)
(***************************************************************************)
EXTENDS Naturals, FiniteSets

CONSTANTS
    Tenants,        \* numbers: a run visits them in order of creation
    Runs,
    Declarations,   \* sets of [id, digest, permission]
    MaxChanges      \* bound: what administrators and tenants do

VARIABLES
    open,       \* tenants that are not closed
    roles,      \* tenants that have the role
    granted,    \* tenant -> permissions its role holds
    rows,       \* tenant -> ledger rows [id, digest, run]
    run,        \* run -> what it is doing
    started, completed,   \* the platform audit rows of the runs
    changes

vars == <<open, roles, granted, rows, run, started, completed, changes>>

IdleRun == [pc |-> "idle", decl |-> {}, targets |-> {}, todo |-> {}, tenant |-> 0,
            new |-> {}, role |-> FALSE, partial |-> FALSE]

Recorded(t) == {r.id : r \in rows[t]}

\* _refuse_changed: an applied migration was edited since.
Changed(t, decl) == \E m \in decl, r \in rows[t] : r.id = m.id /\ r.digest # m.digest

Current(r) == CHOOSE t \in run[r].todo : \A u \in run[r].todo : t <= u

-----------------------------------------------------------------------------
PreflightUnrecorded(r, decl) ==
    /\ run[r].pc = "idle"
    /\ \A t \in open : ~Changed(t, decl)
    /\ run' = [run EXCEPT ![r] = [IdleRun EXCEPT !.pc = "running", !.decl = decl,
                                                 !.targets = open, !.todo = open]]
    /\ UNCHANGED <<open, roles, granted, rows, started, completed, changes>>

\* The pre-flight transaction; a changed digest anywhere refuses the run.
Preflight(r, decl) ==
    /\ run[r].pc = "idle"
    /\ \A t \in open : ~Changed(t, decl)
    /\ run' = [run EXCEPT ![r] = [IdleRun EXCEPT !.pc = "running", !.decl = decl,
                                                 !.targets = open, !.todo = open]]
    /\ started' = started \cup {r}
    /\ UNCHANGED <<open, roles, granted, rows, completed, changes>>

AdvisoryFreeAlways(r, t) == TRUE

\* acquire_tenant_advisory_lock, held to the end of the transaction.
AdvisoryFree(r, t) == \A q \in Runs \ {r} : ~(run[q].pc = "applying" /\ run[q].tenant = t)

SkipClosed(r) ==
    /\ run[r].pc = "running" /\ run[r].todo # {}
    /\ Current(r) \notin open
    /\ run' = [run EXCEPT ![r].todo = @ \ {Current(r)}]
    /\ UNCHANGED <<open, roles, granted, rows, started, completed, changes>>

\* Under the locks: the ledger, then the role.
EnterTenant(r) ==
    /\ run[r].pc = "running" /\ run[r].todo # {}
    /\ Current(r) \in open
    /\ AdvisoryFree(r, Current(r))
    /\ ~Changed(Current(r), run[r].decl)
    /\ run' = [run EXCEPT ![r].pc = "applying", ![r].tenant = Current(r),
                          ![r].role = Current(r) \in roles,
                          ![r].new = {m \in run[r].decl : m.id \notin Recorded(Current(r))}]
    /\ UNCHANGED <<open, roles, granted, rows, started, completed, changes>>

\* An edited declaration found inside a tenant ends the run.
RefuseTenant(r) ==
    /\ run[r].pc = "running" /\ run[r].todo # {}
    /\ Current(r) \in open
    /\ AdvisoryFree(r, Current(r))
    /\ Changed(Current(r), run[r].decl)
    /\ run' = [run EXCEPT ![r].pc = "refused"]
    /\ UNCHANGED <<open, roles, granted, rows, started, completed, changes>>

\* The grants and the ledger rows. The unique constraint on (tenant, migration) is left
\* out: the ledger read under the advisory lock is what must keep rows apart.
CommitTenant(r) ==
    /\ run[r].pc = "applying"
    /\ LET t == run[r].tenant
       IN  /\ granted' = [granted EXCEPT ![t] =
                            IF run[r].role THEN @ \cup {m.permission : m \in run[r].new} ELSE @]
           /\ rows' = [rows EXCEPT ![t] =
                            @ \cup {[id |-> m.id, digest |-> m.digest, run |-> r] : m \in run[r].new}]
           /\ run' = [run EXCEPT ![r].pc = "running", ![r].todo = @ \ {t}]
    /\ UNCHANGED <<open, roles, started, completed, changes>>

FailTenantQuietly(r) ==
    /\ run[r].pc = "applying"
    /\ run' = [run EXCEPT ![r].pc = "running", ![r].todo = @ \ {run[r].tenant}]
    /\ UNCHANGED <<open, roles, granted, rows, started, completed, changes>>

\* Any other failure rolls the tenant back and is reported; the run goes on.
FailTenant(r) ==
    /\ run[r].pc = "applying"
    /\ run' = [run EXCEPT ![r].pc = "running", ![r].todo = @ \ {run[r].tenant}, ![r].partial = TRUE]
    /\ UNCHANGED <<open, roles, granted, rows, started, completed, changes>>

Complete(r) ==
    /\ run[r].pc = "running" /\ run[r].todo = {}
    /\ run' = [run EXCEPT ![r].pc = "done"]
    /\ completed' = completed \cup {r}
    /\ UNCHANGED <<open, roles, granted, rows, started, changes>>

Crash(r) ==
    /\ run[r].pc \in {"running", "applying"}
    /\ run' = [run EXCEPT ![r].pc = "dead"]
    /\ UNCHANGED <<open, roles, granted, rows, started, completed, changes>>

-----------------------------------------------------------------------------
(* The tenants, meanwhile.                                                 *)

TakeBack(t, p) ==
    /\ p \in granted[t]
    /\ granted' = [granted EXCEPT ![t] = @ \ {p}]
    /\ UNCHANGED <<open, roles>>

CreateRole(t) ==
    /\ t \notin roles
    /\ roles' = roles \cup {t}
    /\ UNCHANGED <<open, granted>>

TenantRowFreeAlways(t) == TRUE

\* lock_open_tenant holds the tenant row against its closing.
TenantRowFree(t) == \A r \in Runs : ~(run[r].pc = "applying" /\ run[r].tenant = t)

CloseTenant(t) ==
    /\ t \in open
    /\ TenantRowFree(t)
    /\ open' = open \ {t}
    /\ UNCHANGED <<roles, granted>>

TenantStep ==
    /\ changes < MaxChanges
    /\ changes' = changes + 1
    /\ \E t \in Tenants :
          \/ \E p \in granted[t] : TakeBack(t, p)
          \/ CreateRole(t)
          \/ CloseTenant(t)
    /\ UNCHANGED <<rows, run, started, completed>>

RunStep(r) ==
    \/ \E d \in Declarations : Preflight(r, d)
    \/ SkipClosed(r) \/ EnterTenant(r) \/ RefuseTenant(r)
    \/ CommitTenant(r) \/ FailTenant(r) \/ Complete(r) \/ Crash(r)

Init ==
    /\ open = Tenants
    /\ roles \in SUBSET Tenants
    /\ granted = [t \in Tenants |-> {}]
    /\ rows = [t \in Tenants |-> {}]
    /\ run = [r \in Runs |-> IdleRun]
    /\ started = {} /\ completed = {}
    /\ changes = 0

Next == TenantStep \/ \E r \in Runs : RunStep(r)

Spec == Init /\ [][Next]_vars

-----------------------------------------------------------------------------
\* A ledger row names a run whose started row exists, however the run ends: a crash
\* never leaves grants that no platform row explains.
RowsNameAStartedRun == \A t \in Tenants : {x.run : x \in rows[t]} \subseteq started

TakenBackStaysStep ==
    \A t \in Tenants : \A p \in granted'[t] \ granted[t] :
       \E r \in Runs : \E m \in run[r].decl :
          m.permission = p /\ m.id \notin Recorded(t)

\* A migration grants a permission only in the step that first records it in the tenant: what
\* an administrator took back afterwards stays taken back, whatever runs follow or race.
TakenBackStays == [][TakenBackStaysStep]_vars

ClosedIsUntouchedStep ==
    \A t \in Tenants \ open : rows'[t] = rows[t] /\ granted'[t] \subseteq granted[t]

\* A closed tenant's grants and ledger never change: closing waits for the run inside the
\* tenant, and the run skips the closed.
ClosedIsUntouched == [][ClosedIsUntouchedStep]_vars

\* A completed run that reports no failure left its migrations recorded, unedited, in every
\* tenant it set out for that is still open.
CompletedMeansApplied ==
    \A r \in completed : ~run[r].partial =>
        \A t \in run[r].targets \cap open, m \in run[r].decl :
            \E x \in rows[t] : x.id = m.id /\ x.digest = m.digest
=============================================================================
