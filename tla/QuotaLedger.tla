---------------------------- MODULE QuotaLedger ----------------------------
(***************************************************************************)
(* What metered consumption promises its callers: a consumption happens in *)
(* one step or not at all, never takes the month above a limit that was in *)
(* force, and an idempotency key pays for one consumption as long as its   *)
(* record is kept.                                                         *)
(***************************************************************************)
EXTENDS Integers

CONSTANTS Keys,        \* idempotency keys of one (tenant, operation)
          Months,      \* the calendar months usage is counted in
          MaxQuantity, \* bound on the quantity of one call
          Unlimited    \* the value of ceiling when a plan without limit was read

VARIABLES consumed,    \* consumed[m]: enforced quantity recorded in month m
          paid,        \* paid[k]: the quantity key k paid for, 0 if none
          ceiling      \* the largest limit that was ever in force

ledgerVars == <<consumed, paid, ceiling>>

Within(total, top) == top = Unlimited \/ total <= top

LedgerInit == /\ consumed = [m \in Months |-> 0]
              /\ paid = [k \in Keys |-> 0]
              /\ ceiling \in Nat \cup {Unlimited}

Raise == /\ ceiling # Unlimited
         /\ ceiling' \in Nat \cup {Unlimited}
         /\ ceiling' # Unlimited => ceiling' > ceiling
         /\ UNCHANGED <<consumed, paid>>

Consume(m, q) == /\ Within(consumed[m] + q, ceiling)
                 /\ consumed' = [consumed EXCEPT ![m] = @ + q]
                 /\ UNCHANGED ceiling

ConsumeOnce == \E m \in Months, q \in 1..MaxQuantity :
                  Consume(m, q) /\ UNCHANGED paid

ConsumeWithKey == \E m \in Months, q \in 1..MaxQuantity, k \in Keys :
                     /\ paid[k] = 0
                     /\ Consume(m, q)
                     /\ paid' = [paid EXCEPT ![k] = q]

Forget == /\ \E K \in SUBSET Keys : paid' = [k \in Keys |-> IF k \in K THEN 0 ELSE paid[k]]
          /\ UNCHANGED <<consumed, ceiling>>

LedgerNext == Raise \/ ConsumeOnce \/ ConsumeWithKey \/ Forget

LedgerSpec == LedgerInit /\ [][LedgerNext]_ledgerVars
=============================================================================
