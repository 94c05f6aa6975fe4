---------------------------- MODULE QuotaProofs ----------------------------
(***************************************************************************)
(* The statements of concurrent consumptions amount to atomic ones, for    *)
(* any number of callers, keys and events and any limits, as long as the   *)
(* calls of one month are considered: Quota implements QuotaLedger.        *)
(***************************************************************************)
EXTENDS Quota, TLAPS

InTransaction(c) == call[c].phase \in {"reserved", "locked", "summed"}

Covers(top, l) == top = None \/ (l # None /\ l <= top)

\* The lock's holder is the one call between its SUM and its INSERT.
LockInv == \A c \in Callers : call[c].phase \in {"locked", "summed"} => holder = c

\* What a call has read is covered by what holds now.
ReadInv == \A c \in Callers :
              /\ call[c].phase \in {"ready", "reserved", "locked", "summed"}
                    => Covers(ceiling, call[c].limit)
              /\ call[c].phase = "summed" => consumed[call[c].month] <= call[c].used

\* An uncommitted reservation excludes a record and another reservation of its key.
KeyInv == /\ \A k \in Keys : record[k] = None <=> charged[k] = 0
          /\ \A c \in Callers : InTransaction(c) /\ call[c].key # None
                                   => record[call[c].key] = None
          /\ \A c, d \in Callers : /\ InTransaction(c) /\ InTransaction(d)
                                   /\ call[c].key # None /\ call[c].key = call[d].key
                                   => c = d

QInv == TypeOK /\ Covers(ceiling, limit) /\ LockInv /\ ReadInv /\ KeyInv

\* None is no record.
LEMMA NotARecord == None \notin Record
  <1>1. Record \subseteq [quantity : Nat, expired : BOOLEAN]
    BY QuotaAssumption DEF Record, Quantities
  <1> QED
    BY <1>1, QuotaAssumption

\* The states between two calls are call states.
LEMMA IdleState ==
  ASSUME TypeOK
  PROVE  /\ \A n \in 0..MaxCalls : Idle(n) \in CallState
         /\ \A c \in Callers, a \in Answers : Answer(c, a) \in CallState
<1>1. \A n \in 0..MaxCalls : Idle(n) \in CallState
  BY QuotaAssumption DEF Idle, CallState, Phases, Quantities, Months, Answers
<1>2. ASSUME NEW c \in Callers, NEW a \in Answers PROVE Answer(c, a) \in CallState
  <2>1. call[c].left \in 0..MaxCalls
    BY DEF TypeOK, CallState
  <2> QED
    BY <2>1, <1>1 DEF Answer, CallState
<1> QED
  BY <1>1, <1>2

\* Every step keeps the types.
LEMMA QTypeStep == ASSUME TypeOK, [Next]_vars PROVE TypeOK'
<1> USE QuotaAssumption, IdleState
<1>1. ASSUME NEW c \in Callers, ReadLimit(c) PROVE TypeOK'
  <2>0. call[c] \in CallState /\ limit \in Limits
    BY DEF TypeOK
  <2>1. [call[c] EXCEPT !.phase = "ready", !.limit = limit] \in CallState
    BY Zenon, <2>0 DEF CallState, Phases
  <2> QED
    BY <1>1, <2>1 DEF ReadLimit, TypeOK, Answers
<1>2. ASSUME NEW c \in Callers, Reserve(c) PROVE TypeOK'
  <2>1. \A p \in Phases : [call[c] EXCEPT !.phase = p] \in CallState
    BY DEF TypeOK, CallState
  <2>2. call' = [call EXCEPT ![c] = [call[c] EXCEPT !.phase =
                   IF record[call[c].key] = None THEN "reserved" ELSE "conflict"]]
    BY <1>2 DEF Reserve, TypeOK
  <2> QED
    BY <1>2, <2>1, <2>2 DEF Reserve, TypeOK, Phases
<1>3. ASSUME NEW c \in Callers, LockMetric(c) PROVE TypeOK'
  <2>1. [call[c] EXCEPT !.phase = "locked"] \in CallState
    BY DEF TypeOK, CallState, Phases
  <2>2. call' = [call EXCEPT ![c] = [call[c] EXCEPT !.phase = "locked"]]
    BY <1>3 DEF LockMetric, TypeOK
  <2> QED
    BY <1>3, <2>1, <2>2 DEF LockMetric, TypeOK
<1>4. ASSUME NEW c \in Callers, SumUsage(c) PROVE TypeOK'
  <2>0. call[c] \in CallState
    BY DEF TypeOK
  <2>1. Used(call[c].month) \in Nat
    BY DEF TypeOK, CallState, Used
  <2>2. [call[c] EXCEPT !.phase = "summed", !.used = Used(call[c].month)] \in CallState
    BY Zenon, <2>0, <2>1 DEF CallState, Phases
  <2>3. call' = [call EXCEPT ![c] = [call[c] EXCEPT !.phase = "summed",
                                                    !.used = Used(call[c].month)]]
    BY Zenon, <1>4 DEF SumUsage, TypeOK
  <2> QED
    BY <1>4, <2>2, <2>3 DEF SumUsage, TypeOK
<1>5. ASSUME NEW c \in Callers, Exceed(c) PROVE TypeOK'
  BY <1>5 DEF Exceed, Unlock, TypeOK, Answers
<1>6. ASSUME NEW c \in Callers, Commit(c) PROVE TypeOK'
  <2>1. call[c].quantity \in Nat /\ Finished(c) \in Record /\ call[c].key \in Keys \cup {None}
    BY DEF TypeOK, CallState, Finished, Record, Quantities
  <2>2. consumed' \in [Months -> Nat] /\ charged' \in [Keys -> Nat]
    BY <1>6, <2>1 DEF Commit, Charge, TypeOK
  <2> QED
    BY <1>6, <2>1, <2>2 DEF Commit, Unlock, TypeOK, Answers
<1>7. ASSUME NEW c \in Callers, Resolve(c) PROVE TypeOK'
  BY <1>7 DEF Resolve, TypeOK, Answers
<1>8. ASSUME NEW c \in Callers, Abort(c) PROVE TypeOK'
  BY <1>8 DEF Abort, Unlock, TypeOK, Answers
<1>9. ASSUME NEW c \in Callers, NEW k \in Keys \cup {None}, NEW q \in Quantities, Call(c, k, q)
      PROVE TypeOK'
  <2>1. call[c].left - 1 \in 0..MaxCalls
    BY <1>9 DEF Call, TypeOK, CallState
  <2>0. Idle(call[c].left - 1) \in CallState /\ month \in Months
    BY <2>1 DEF TypeOK
  <2>2. [Idle(call[c].left - 1) EXCEPT !.phase = "windowed", !.key = k, !.quantity = q,
                                       !.month = month] \in CallState
    BY Zenon, <2>0 DEF CallState, Phases
  <2>3. call' = [call EXCEPT ![c] =
                   [Idle(call[c].left - 1) EXCEPT !.phase = "windowed", !.key = k,
                                                  !.quantity = q, !.month = month]]
    BY <1>9 DEF Call, TypeOK
  <2> QED
    BY <1>9, <2>2, <2>3 DEF Call, TypeOK
<1>10. ASSUME NEW e \in Events, NEW q \in Quantities, NEW m \in Months, IngestUsage(e, q, m)
       PROVE TypeOK'
  BY <1>10 DEF IngestUsage, TypeOK, Quantities
<1>11. ASSUME NEW l \in Limits, ChangePlan(l) PROVE TypeOK'
  BY <1>11 DEF ChangePlan, Top, TypeOK
<1>12. CASE NextMonth
  BY SMTT(30), <1>12 DEF NextMonth, TypeOK, Months
<1>13. ASSUME NEW k \in Keys, Expire(k) PROVE TypeOK'
  BY Zenon, <1>13 DEF Expire, TypeOK, Record
<1>14. CASE PurgeExpired
  BY <1>14 DEF PurgeExpired, TypeOK
<1>15. CASE CloseTenant
  BY <1>15 DEF CloseTenant, TypeOK
<1>16. CASE PurgeTenant
  BY <1>16 DEF PurgeTenant, TypeOK
<1>17. CASE UNCHANGED vars
  BY <1>17 DEF vars, TypeOK
<1> QED
  BY <1>1, <1>2, <1>3, <1>4, <1>5, <1>6, <1>7, <1>8, <1>9, <1>10, <1>11, <1>12, <1>13,
     <1>14, <1>15, <1>16, <1>17 DEF Next, Step
-----------------------------------------------------------------------------
\* Every step keeps the inductive invariant.
LEMMA QInvStep == ASSUME LastMonth = 0, QInv, [Next]_vars PROVE QInv'
<1> USE QuotaAssumption
<1>0. TypeOK /\ TypeOK'
  BY QTypeStep DEF QInv
<1>a. month = 0 /\ month' = 0 /\ \A c \in Callers : call[c].month = 0
  BY <1>0 DEF TypeOK, CallState, Months
<1>b. SUFFICES (Covers(ceiling, limit) /\ LockInv /\ ReadInv /\ KeyInv)'
  BY <1>0 DEF QInv
<1>c. Covers(ceiling, limit) /\ LockInv /\ ReadInv /\ KeyInv
  BY DEF QInv
\* Steps of one caller that change nothing but its own state.
<1>1. ASSUME NEW c \in Callers, ReadLimit(c)
      PROVE  (Covers(ceiling, limit) /\ LockInv /\ ReadInv /\ KeyInv)'
  <2>1. \A d \in Callers : d # c => call'[d] = call[d]
    BY <1>1, <1>0 DEF ReadLimit, TypeOK
  <2>2. \/ call'[c].phase = "ready" /\ call'[c].limit = limit
        \/ call'[c].phase = "idle"
    BY <1>1, <1>0 DEF ReadLimit, TypeOK, CallState, Answer, Idle
  <2> QED
    BY <1>1, <1>c, <2>1, <2>2
    DEF ReadLimit, LockInv, ReadInv, KeyInv, InTransaction, Covers
<1>2. ASSUME NEW c \in Callers, Reserve(c)
      PROVE  (Covers(ceiling, limit) /\ LockInv /\ ReadInv /\ KeyInv)'
  <2>1. \A d \in Callers : d # c => call'[d] = call[d]
    BY <1>2, <1>0 DEF Reserve, TypeOK
  <2>2. /\ call'[c].key = call[c].key /\ call'[c].limit = call[c].limit
        /\ \/ call'[c].phase = "reserved" /\ record[call[c].key] = None
           \/ call'[c].phase = "conflict"
        /\ call[c].phase = "ready"
    BY <1>2, <1>0 DEF Reserve, TypeOK, CallState
  <2>3. \A d \in Callers : ~(InTransaction(d) /\ call[d].key = call[c].key)
    BY <1>2 DEF Reserve, Reserving, InTransaction
  <2>4. (LockInv /\ ReadInv /\ Covers(ceiling, limit))'
    BY <1>2, <1>c, <2>1, <2>2 DEF Reserve, LockInv, ReadInv, Covers
  <2>5. KeyInv'
    BY <1>2, <1>c, <2>1, <2>2, <2>3 DEF Reserve, KeyInv, InTransaction
  <2> QED
    BY <2>4, <2>5
<1>3. ASSUME NEW c \in Callers, LockMetric(c)
      PROVE  (Covers(ceiling, limit) /\ LockInv /\ ReadInv /\ KeyInv)'
  <2>1. \A d \in Callers : d # c => call'[d] = call[d]
    BY <1>3, <1>0 DEF LockMetric, TypeOK
  <2>2. /\ call'[c].key = call[c].key /\ call'[c].limit = call[c].limit
        /\ call'[c].phase = "locked"
        /\ call[c].phase = "reserved" \/ (call[c].phase = "ready" /\ call[c].key = None)
    BY <1>3, <1>0 DEF LockMetric, TypeOK, CallState
  <2>3. holder = None /\ holder' = c /\ \A d \in Callers : d # None
    BY <1>3 DEF LockMetric, Lockable
  <2>4. (LockInv /\ ReadInv /\ Covers(ceiling, limit))'
    BY <1>3, <1>c, <2>1, <2>2, <2>3 DEF LockMetric, LockInv, ReadInv, Covers
  <2>5. KeyInv'
    BY <1>3, <1>c, <2>1, <2>2 DEF LockMetric, KeyInv, InTransaction
  <2> QED
    BY <2>4, <2>5
<1>4. ASSUME NEW c \in Callers, SumUsage(c)
      PROVE  (Covers(ceiling, limit) /\ LockInv /\ ReadInv /\ KeyInv)'
  <2>0. UNCHANGED <<limit, ceiling, consumed, record, charged, holder>>
    BY <1>4 DEF SumUsage
  <2>1. \A d \in Callers : d # c => call'[d] = call[d]
    BY <1>4, <1>0 DEF SumUsage, TypeOK
  <2>2. /\ call'[c].key = call[c].key /\ call'[c].limit = call[c].limit
        /\ call'[c].phase = "summed" /\ call[c].phase = "locked"
        /\ call'[c].month = call[c].month
        /\ call'[c].used = consumed[call[c].month] + ingested[call[c].month]
    BY <1>4, <1>0 DEF SumUsage, TypeOK, CallState, Used
  <2>3. consumed[call[c].month] \in Nat /\ ingested[call[c].month] \in Nat
    BY <1>0 DEF TypeOK, CallState
  <2>4. (LockInv /\ ReadInv /\ Covers(ceiling, limit))'
    BY <1>c, <2>0, <2>1, <2>2, <2>3 DEF LockInv, ReadInv, Covers
  <2>5. KeyInv'
    BY <1>c, <2>0, <2>1, <2>2 DEF KeyInv, InTransaction
  <2> QED
    BY <2>4, <2>5
<1>5. ASSUME NEW c \in Callers, Exceed(c)
      PROVE  (Covers(ceiling, limit) /\ LockInv /\ ReadInv /\ KeyInv)'
  <2>1. \A d \in Callers : d # c => call'[d] = call[d]
    BY <1>5, <1>0 DEF Exceed, TypeOK
  <2>2. call'[c].phase = "idle"
    BY <1>5, <1>0 DEF Exceed, TypeOK, Answer, Idle
  <2> QED
    BY <1>5, <1>c, <2>1, <2>2
    DEF Exceed, Unlock, LockInv, ReadInv, KeyInv, InTransaction, Covers
\* The committing call leaves its transaction with the record; it held the lock, so no
\* other call is between its SUM and its INSERT.
<1>6. ASSUME NEW c \in Callers, Commit(c)
      PROVE  (Covers(ceiling, limit) /\ LockInv /\ ReadInv /\ KeyInv)'
  <2>1. \A d \in Callers : d # c => call'[d] = call[d]
    BY <1>6, <1>0 DEF Commit, TypeOK
  <2>2. call'[c].phase = "idle"
    BY <1>6, <1>0 DEF Commit, TypeOK, Answer, Idle
  <2>3. holder = c /\ \A d \in Callers : d # c => call[d].phase \notin {"locked", "summed"}
    BY <1>6, <1>c DEF Commit, LockInv
  <2>4. (LockInv /\ ReadInv /\ Covers(ceiling, limit))'
    BY <1>6, <1>c, <2>1, <2>2, <2>3 DEF Commit, LockInv, ReadInv, Covers
  <2>5. KeyInv'
    <3>1. CASE call[c].key = None
      BY <1>6, <1>c, <2>1, <2>2, <3>1 DEF Commit, Charge, KeyInv, InTransaction
    <3>2. CASE call[c].key # None
      <4>0. call[c].key \in Keys /\ call[c].quantity \in Nat /\ call[c].quantity # 0
        BY <1>0, <3>2 DEF TypeOK, CallState, Quantities
      <4>1. /\ record' = [record EXCEPT ![call[c].key] = Finished(c)]
            /\ charged' = [charged EXCEPT ![call[c].key] = @ + call[c].quantity]
        BY <1>6, <3>2 DEF Commit, Charge
      <4>2. InTransaction(c)
        BY <1>6 DEF Commit, InTransaction
      <4>3. \A d \in Callers : d # c /\ InTransaction(d) => call[d].key # call[c].key
        BY <1>c, <4>2, <3>2 DEF KeyInv
      <4>4. Finished(c) # None
        <5>1. Finished(c) \in Record
          BY <1>0 DEF TypeOK, CallState, Finished, Record
        <5> QED
          BY <5>1, NotARecord
      <4>5. \A k \in Keys : (record[k] = None <=> charged[k] = 0)'
        BY SMTT(30), <1>0, <1>c, <4>0, <4>1, <4>4 DEF KeyInv, TypeOK
      <4> QED
        <5>1. \A d \in Callers : InTransaction(d)' => d # c /\ InTransaction(d) /\ call'[d] = call[d]
          BY <2>1, <2>2 DEF InTransaction
        <5>2. \A d \in Callers : call[d].key # None => call[d].key \in Keys
          BY <1>0 DEF TypeOK, CallState
        <5>3. \A d \in Callers : InTransaction(d)' /\ call'[d].key # None
                                  => record'[call'[d].key] = None
          BY <1>c, <1>0, <4>1, <4>3, <5>1, <5>2 DEF KeyInv, TypeOK
        <5>4. \A d, b \in Callers : /\ InTransaction(d)' /\ InTransaction(b)'
                                    /\ call'[d].key # None /\ call'[d].key = call'[b].key
                                    => d = b
          BY <1>c, <5>1 DEF KeyInv
        <5> QED
          BY <4>5, <5>3, <5>4 DEF KeyInv, InTransaction
    <3> QED
      BY <3>1, <3>2
  <2> QED
    BY <2>4, <2>5
<1>7. ASSUME NEW c \in Callers, Resolve(c)
      PROVE  (Covers(ceiling, limit) /\ LockInv /\ ReadInv /\ KeyInv)'
  <2>1. \A d \in Callers : d # c => call'[d] = call[d]
    BY <1>7, <1>0 DEF Resolve, TypeOK
  <2>2. call'[c].phase = "idle"
    BY <1>7, <1>0 DEF Resolve, TypeOK, Answer, Idle
  <2>3. UNCHANGED <<limit, consumed, record, charged, holder, ceiling>>
    BY <1>7 DEF Resolve
  <2>4. Covers(ceiling, limit)' /\ LockInv'
    BY <1>c, <2>1, <2>2, <2>3 DEF LockInv, Covers
  <2>5. ReadInv'
    BY <1>c, <2>1, <2>2, <2>3 DEF ReadInv, Covers
  <2>6. KeyInv'
    BY <1>c, <2>1, <2>2, <2>3 DEF KeyInv, InTransaction
  <2> QED
    BY <2>4, <2>5, <2>6
<1>8. ASSUME NEW c \in Callers, Abort(c)
      PROVE  (Covers(ceiling, limit) /\ LockInv /\ ReadInv /\ KeyInv)'
  <2>1. \A d \in Callers : d # c => call'[d] = call[d]
    BY <1>8, <1>0 DEF Abort, TypeOK
  <2>2. call'[c].phase = "idle"
    BY <1>8, <1>0 DEF Abort, TypeOK, Answer, Idle
  <2>3. /\ UNCHANGED <<limit, consumed, record, charged, ceiling>>
        /\ holder # c => holder' = holder
    BY <1>8 DEF Abort, Unlock
  <2>4. Covers(ceiling, limit)' /\ LockInv'
    BY <1>c, <2>1, <2>2, <2>3 DEF LockInv, Covers
  <2>5. ReadInv'
    BY <1>c, <2>1, <2>2, <2>3 DEF ReadInv, Covers
  <2>6. KeyInv'
    BY <1>c, <2>1, <2>2, <2>3 DEF KeyInv, InTransaction
  <2> QED
    BY <2>4, <2>5, <2>6
<1>9. ASSUME NEW c \in Callers, NEW k \in Keys \cup {None}, NEW q \in Quantities, Call(c, k, q)
      PROVE  (Covers(ceiling, limit) /\ LockInv /\ ReadInv /\ KeyInv)'
  <2>1. \A d \in Callers : d # c => call'[d] = call[d]
    BY <1>9, <1>0 DEF Call, TypeOK
  <2>2. call'[c].phase = "windowed"
    BY <1>9, <1>0 DEF Call, TypeOK, Idle
  <2> QED
    BY <1>9, <1>c, <2>1, <2>2
    DEF Call, LockInv, ReadInv, KeyInv, InTransaction, Covers
<1>10. ASSUME NEW e \in Events, NEW q \in Quantities, NEW m \in Months, IngestUsage(e, q, m)
       PROVE  (Covers(ceiling, limit) /\ LockInv /\ ReadInv /\ KeyInv)'
  BY <1>10, <1>c DEF IngestUsage, LockInv, ReadInv, KeyInv, InTransaction, Covers
<1>11. ASSUME NEW l \in Limits, ChangePlan(l)
       PROVE  (Covers(ceiling, limit) /\ LockInv /\ ReadInv /\ KeyInv)'
  <2>1. \A x \in Limits \cup {None} : Covers(ceiling, x) => Covers(ceiling', x)
    BY <1>11, <1>0 DEF ChangePlan, Top, Covers, TypeOK
  <2>2. Covers(ceiling', l)
    BY <1>11, <1>0 DEF ChangePlan, Top, Covers, TypeOK
  <2>3. \A c \in Callers : call[c].limit \in Limits \cup {None}
    BY <1>0 DEF TypeOK, CallState
  <2>4. (LockInv /\ KeyInv)'
    BY <1>11, <1>c DEF ChangePlan, LockInv, KeyInv, InTransaction
  <2>5. ReadInv'
    <3>1. call' = call /\ consumed' = consumed
      BY <1>11 DEF ChangePlan
    <3> QED
      BY <1>c, <2>1, <2>3, <3>1 DEF ReadInv
  <2> QED
    BY <1>11, <2>2, <2>4, <2>5 DEF ChangePlan
<1>12. CASE NextMonth
  BY <1>12, <1>a DEF NextMonth
<1>13. ASSUME NEW k \in Keys, Expire(k)
       PROVE  (Covers(ceiling, limit) /\ LockInv /\ ReadInv /\ KeyInv)'
  <2>1. \A x \in Keys : record'[x] = None <=> record[x] = None
    <3>1. record' = [record EXCEPT ![k] = [record[k] EXCEPT !.expired = TRUE]] /\ record[k] \in Record
      BY <1>13, <1>0 DEF Expire, TypeOK
    <3>2. [record[k] EXCEPT !.expired = TRUE] \in Record
      BY Zenon, <3>1 DEF Record
    <3> QED
      BY Zenon, <1>0, <3>1, <3>2, NotARecord DEF TypeOK
  <2>2. \A c \in Callers : call[c].key # None => call[c].key \in Keys
    BY <1>0 DEF TypeOK, CallState
  <2> QED
    BY <1>13, <1>c, <2>1, <2>2 DEF Expire, LockInv, ReadInv, KeyInv, InTransaction, Covers
<1>14. CASE PurgeExpired
  <2>1. \A x \in Keys : \/ record'[x] = record[x] /\ charged'[x] = charged[x]
                        \/ record'[x] = None /\ charged'[x] = 0
    BY <1>14 DEF PurgeExpired
  <2>2. \A c \in Callers : call[c].key # None => call[c].key \in Keys
    BY <1>0 DEF TypeOK, CallState
  <2>3. \A x \in Keys : record'[x] = None <=> charged'[x] = 0
    BY <1>c, <2>1 DEF KeyInv
  <2>4. \A c \in Callers : InTransaction(c) /\ call[c].key # None => record'[call[c].key] = None
    BY <1>c, <2>1, <2>2 DEF KeyInv
  <2>5. UNCHANGED <<limit, ceiling, consumed, holder, call>>
    BY <1>14 DEF PurgeExpired
  <2>6. KeyInv'
    BY <1>c, <2>3, <2>4, <2>5 DEF KeyInv, InTransaction
  <2> QED
    BY <1>c, <2>5, <2>6 DEF LockInv, ReadInv, Covers
<1>15. CASE CloseTenant
  BY <1>15, <1>c DEF CloseTenant, LockInv, ReadInv, KeyInv, InTransaction, Covers
<1>16. CASE PurgeTenant
  <2>1. \A c \in Callers : call[c].key # None => call[c].key \in Keys
    BY <1>0 DEF TypeOK, CallState
  <2> QED
    BY <1>16, <1>c, <2>1 DEF PurgeTenant, LockInv, ReadInv, KeyInv, InTransaction, Covers
<1>17. CASE UNCHANGED vars
  BY <1>17, <1>c DEF vars, LockInv, ReadInv, KeyInv, InTransaction, Covers
<1> QED
  BY Zenon, <1>1, <1>2, <1>3, <1>4, <1>5, <1>6, <1>7, <1>8, <1>9, <1>10, <1>11, <1>12, <1>13,
     <1>14, <1>15, <1>16, <1>17 DEF Next, Step
\* The initial states satisfy the inductive invariant.
LEMMA QInvInit == ASSUME LastMonth = 0, Init PROVE QInv
<1> USE QuotaAssumption
<1>1. Idle(MaxCalls) \in CallState
  BY DEF Idle, CallState, Phases, Quantities, Months, Answers
<1>2. TypeOK
  BY <1>1 DEF Init, TypeOK, Months
<1>3. Covers(ceiling, limit)
  BY <1>2 DEF Init, Covers, TypeOK
<1>4. LockInv /\ ReadInv /\ KeyInv
  BY DEF Init, Idle, LockInv, ReadInv, KeyInv, InTransaction
<1> QED
  BY <1>2, <1>3, <1>4 DEF QInv

\* Under the inductive invariant every step is a step of the ledger or changes nothing of it.
LEMMA LedgerStep ==
  ASSUME LastMonth = 0, QInv, [Next]_vars
  PROVE  [Ledger!LedgerNext]_(Ledger!ledgerVars)
<1> USE QuotaAssumption
<1>0. TypeOK /\ Covers(ceiling, limit) /\ LockInv /\ ReadInv /\ KeyInv
  BY DEF QInv
<1>a. ASSUME UNCHANGED <<consumed, charged, ceiling>>
      PROVE  [Ledger!LedgerNext]_(Ledger!ledgerVars)
  BY <1>a DEF Ledger!ledgerVars
<1>1. ASSUME NEW c \in Callers, Commit(c) PROVE Ledger!LedgerNext
  <2>0. /\ call[c] \in CallState /\ month = 0 /\ call[c].month = 0 /\ 0 \in Months
        /\ consumed \in [Months -> Nat] /\ ceiling \in Nat \cup {None}
    BY <1>0 DEF TypeOK, CallState, Months
  <2>1. /\ call[c].quantity \in 1..MaxQuantity /\ call[c].used \in Nat
        /\ call[c].key \in Keys \cup {None} /\ call[c].limit \in Nat \cup {None}
    BY <2>0 DEF CallState, Quantities
  <2>2. /\ consumed' = [consumed EXCEPT ![0] = @ + call[c].quantity] /\ ceiling' = ceiling
        /\ call[c].phase = "summed"
        /\ call[c].limit = None \/ call[c].used + call[c].quantity <= call[c].limit
    BY <1>1, <2>0, <2>1 DEF Commit, Exceeds
  <2>3. Covers(ceiling, call[c].limit) /\ consumed[0] <= call[c].used
    BY <1>0, <2>0, <2>2 DEF ReadInv
  <2>4. Ledger!Within(consumed[0] + call[c].quantity, ceiling)
    BY <2>0, <2>1, <2>2, <2>3 DEF Covers, Ledger!Within
  <2>5. Ledger!Consume(0, call[c].quantity)
    BY <2>2, <2>4 DEF Ledger!Consume
  <2>6. CASE call[c].key = None
    <3>1. UNCHANGED charged
      BY <1>1, <2>6 DEF Commit, Charge
    <3>2. Ledger!ConsumeOnce
      BY <2>0, <2>1, <2>5, <3>1 DEF Ledger!ConsumeOnce
    <3> QED
      BY <3>2 DEF Ledger!LedgerNext
  <2>7. CASE call[c].key # None
    <3>1. call[c].key \in Keys /\ InTransaction(c)
      BY <2>1, <2>2, <2>7 DEF InTransaction
    <3>2. charged[call[c].key] = 0
      BY <1>0, <2>7, <3>1 DEF KeyInv
    <3>3. charged' = [charged EXCEPT ![call[c].key] = call[c].quantity]
      <4>1. charged' = [charged EXCEPT ![call[c].key] = charged[call[c].key] + call[c].quantity]
        BY <1>1, <2>7 DEF Commit, Charge
      <4>2. charged[call[c].key] + call[c].quantity = call[c].quantity
        BY <2>1, <3>2
      <4> QED
        BY Zenon, <4>1, <4>2
    <3>4. Ledger!ConsumeWithKey
      BY Zenon, <2>0, <2>1, <2>5, <3>1, <3>2, <3>3 DEF Ledger!ConsumeWithKey
    <3> QED
      BY <3>4 DEF Ledger!LedgerNext
  <2> QED
    BY <2>6, <2>7
<1>2. ASSUME NEW l \in Limits, ChangePlan(l)
      PROVE  [Ledger!LedgerNext]_(Ledger!ledgerVars)
  <2>1. l \in Nat \cup {None} /\ ceiling \in Nat \cup {None} /\ UNCHANGED <<consumed, charged>>
        /\ ceiling' = Top(ceiling, l)
    BY <1>0, <1>2 DEF ChangePlan, TypeOK
  <2>2. CASE ceiling' = ceiling
    BY <2>1, <2>2, <1>a
  <2>3. CASE ceiling' # ceiling
    <3>1. /\ ceiling # None /\ ceiling' \in Nat \cup {None}
          /\ ceiling' # None => ceiling' > ceiling
      BY <2>1, <2>3 DEF Top
    <3>2. Ledger!Raise
      BY <2>1, <3>1 DEF Ledger!Raise
    <3> QED
      BY <3>2 DEF Ledger!LedgerNext
  <2> QED
    BY <2>2, <2>3
<1>3. CASE PurgeExpired
  <2>1. charged' = [k \in Keys |-> IF k \in {x \in Keys : Stale(x)} THEN 0 ELSE charged[k]]
    BY <1>3 DEF PurgeExpired
  <2>2. Ledger!Forget
    BY Zenon, <1>3, <2>1 DEF PurgeExpired, Ledger!Forget
  <2> QED
    BY <2>2 DEF Ledger!LedgerNext
<1>4. CASE PurgeTenant
  <2>1. charged' = [k \in Keys |-> IF k \in Keys THEN 0 ELSE charged[k]]
    BY <1>4 DEF PurgeTenant
  <2>2. Ledger!Forget
    BY <1>4, <2>1 DEF PurgeTenant, Ledger!Forget
  <2> QED
    BY <2>2 DEF Ledger!LedgerNext
<1>5. ASSUME NEW c \in Callers, Step(c) \/ Abort(c), ~Commit(c)
      PROVE  UNCHANGED <<consumed, charged, ceiling>>
  BY <1>5 DEF Step, ReadLimit, Reserve, LockMetric, SumUsage, Exceed, Resolve, Abort
<1>6. ASSUME NEW c \in Callers, NEW k \in Keys \cup {None}, NEW q \in Quantities, Call(c, k, q)
      PROVE  UNCHANGED <<consumed, charged, ceiling>>
  BY <1>6 DEF Call
<1>7. ASSUME NEW e \in Events, NEW q \in Quantities, NEW m \in Months, IngestUsage(e, q, m)
      PROVE  UNCHANGED <<consumed, charged, ceiling>>
  BY <1>7 DEF IngestUsage
<1>8. ASSUME NextMonth \/ (\E k \in Keys : Expire(k)) \/ CloseTenant \/ UNCHANGED vars
      PROVE  UNCHANGED <<consumed, charged, ceiling>>
  BY <1>8 DEF NextMonth, Expire, CloseTenant, vars
<1> QED
  BY <1>a, <1>1, <1>2, <1>3, <1>4, <1>5, <1>6, <1>7, <1>8 DEF Next

\* The consumptions of one month implement the ledger: concurrent consume_quota() and
\* consume_quota_idempotent() calls behave as atomic ones, stay within a limit that was
\* in force and charge a key once while its record is kept.
THEOREM QuotaImplementsLedger == LastMonth = 0 /\ Spec => ImplementsLedger
<1> SUFFICES ASSUME LastMonth = 0 PROVE Spec => ImplementsLedger
  OBVIOUS
<1>1. Init => QInv
  BY QInvInit
<1>2. QInv /\ [Next]_vars => QInv'
  BY QInvStep
<1>3. QInv /\ [Next]_vars => [Ledger!LedgerNext]_(Ledger!ledgerVars)
  BY LedgerStep
<1>4. Init => Ledger!LedgerInit
  BY QuotaAssumption DEF Init, Ledger!LedgerInit
<1> QED
  BY <1>1, <1>2, <1>3, <1>4, PTL DEF Spec, ImplementsLedger, Ledger!LedgerSpec
-----------------------------------------------------------------------------
\* While the tenant is open, an event that was counted has its consumption record.
CountedInv == \A e \in Events : /\ counted[e] <= 1
                                /\ tenant = "open" /\ e \notin consumption => counted[e] = 0

\* The initial states are well typed and have counted nothing.
LEMMA CountedInit == Init => TypeOK /\ CountedInv
<1> SUFFICES ASSUME Init PROVE TypeOK /\ CountedInv
  OBVIOUS
<1>1. Idle(MaxCalls) \in CallState
  BY QuotaAssumption DEF Idle, CallState, Phases, Quantities, Months, Answers
<1>2. TypeOK
  BY <1>1, QuotaAssumption DEF Init, TypeOK, Months
<1>3. CountedInv
  BY DEF Init, CountedInv
<1> QED
  BY <1>2, <1>3

\* Every step keeps it: a record is only removed when the tenant is open no longer.
LEMMA CountedStep == TypeOK /\ CountedInv /\ [Next]_vars => CountedInv'
<1> SUFFICES ASSUME TypeOK, CountedInv, [Next]_vars PROVE CountedInv'
  OBVIOUS
<1>1. ASSUME NEW e \in Events, NEW q \in Quantities, NEW m \in Months, IngestUsage(e, q, m)
      PROVE CountedInv'
  BY <1>1 DEF IngestUsage, Claimable, CountedInv, TypeOK
<1>2. CASE CloseTenant
  BY <1>2 DEF CloseTenant, CountedInv
<1>3. CASE PurgeTenant
  BY <1>3 DEF PurgeTenant, CountedInv
<1>4. ASSUME UNCHANGED <<tenant, consumption, counted>> PROVE CountedInv'
  BY <1>4 DEF CountedInv
<1>5. ASSUME NEW c \in Callers, Step(c) \/ Abort(c) PROVE CountedInv'
  BY <1>4, <1>5 DEF Step, ReadLimit, Reserve, LockMetric, SumUsage, Exceed, Commit, Resolve, Abort
<1>6. ASSUME NEW c \in Callers, NEW k \in Keys \cup {None}, NEW q \in Quantities, Call(c, k, q)
      PROVE CountedInv'
  BY <1>4, <1>6 DEF Call
<1>7. ASSUME NEW l \in Limits, ChangePlan(l) PROVE CountedInv'
  BY <1>4, <1>7 DEF ChangePlan
<1>8. ASSUME NEW k \in Keys, Expire(k) PROVE CountedInv'
  BY <1>4, <1>8 DEF Expire
<1>9. CASE NextMonth \/ PurgeExpired \/ UNCHANGED vars
  BY <1>4, <1>9 DEF NextMonth, PurgeExpired, vars
<1> QED
  BY Zenon, <1>1, <1>2, <1>3, <1>5, <1>6, <1>7, <1>8, <1>9 DEF Next

\* The state of the calls, the records and the usage is well typed, whatever the months.
THEOREM QuotaTypes == Spec => []TypeOK
<1>1. TypeOK /\ [Next]_vars => TypeOK'
  BY QTypeStep
<1> QED
  BY <1>1, CountedInit, PTL DEF Spec

\* _ingest_usage_event_job(): an event is counted once at most, however often it is delivered
\* and also after the purge has deleted its consumption record.
THEOREM CountsOnce == Spec => []IngestedOnce
<1>1. CountedInv => IngestedOnce
  BY DEF CountedInv, IngestedOnce
<1> QED
  BY <1>1, CountedInit, CountedStep, QuotaTypes, PTL DEF Spec
=============================================================================
