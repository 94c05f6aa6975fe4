------------------------------ MODULE MCOutbox ------------------------------
(* The outbox on small instances. *)
EXTENDS Outbox, TLC

CONSTANTS e1, e2, tn1, tn2

OneTenantOf == (e1 :> tn1)
TwoTenantOf == (e1 :> tn1) @@ (e2 :> tn2)

\* retry_delay() with a base of 1 and a cap of 2: with and without jitter.
Backoff == [n \in 1..MaxAttempts |-> RetryDelays(n, 1, 2, 100)]
ShortBackoff == [n \in 1..MaxAttempts |-> RetryDelays(n, 1, 1, 0)]

Sym == Permutations(Tokens) \cup Permutations(Workers) \cup Permutations(Dispatchers)

=============================================================================
