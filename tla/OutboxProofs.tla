---------------------------- MODULE OutboxProofs ----------------------------
(***************************************************************************)
(* Theorems about module Outbox, for every number of events, tenants,      *)
(* dispatchers and workers and every setting of the limits.                *)
(***************************************************************************)
EXTENDS Outbox, TLAPS

-----------------------------------------------------------------------------
(* Type correctness *)

\* Every transition of a row yields a row.
LEMMA RowTransitions ==
  ASSUME NEW r \in Row, NEW t \in Tokens \cup {None}, NEW delay \in Nat, NEW left \in Nat,
         NEW terminal \in BOOLEAN, NEW attested \in BOOLEAN, NEW policy
  PROVE  /\ DeadLetter(r) \in Row
         /\ Retry(r, delay) \in Row
         /\ ClaimRow(r, t) \in Row
         /\ FailEvent(r, t, terminal, delay) \in Row
         /\ RecordConfirmedNotSent(r, t, attested, delay) \in Row
         /\ RecordAmbiguousOutcome(r, t, policy, left, delay) \in Row
         /\ ReleaseClaim(r) \in Row
         /\ CompleteEvent(r) \in Row
         /\ ReplayRow(r) \in Row
  <1>0. MaxAttempts \in Nat /\ Lease \in Nat /\ EnqueueRetry \in Nat
    BY OutboxAssumption
  <1>1. DeadLetter(r) \in Row
    BY Zenon DEF DeadLetter, Row, Statuses
  <1>2. Retry(r, delay) \in Row
    BY Zenon DEF Retry, Row
  <1>3. ClaimRow(r, t) \in Row
    <2>1. CASE r.attempts < MaxAttempts
      <3>1. r.attempts + 1 \in 0..MaxAttempts
        BY <1>0, <2>1 DEF Row
      <3>2. [r EXCEPT !.attempts = @ + 1, !.claim = t, !.due = Lease] \in Row
        BY Zenon, <1>0, <3>1 DEF Row
      <3> QED
        BY <1>1, <3>2 DEF ClaimRow
    <2>2. CASE ~(r.attempts < MaxAttempts)
      <3>1. r.attempts >= MaxAttempts
        BY <1>0, <2>2 DEF Row
      <3> QED
        BY <1>1, <3>1 DEF ClaimRow
    <2> QED
      BY <2>1, <2>2
  <1>4. OrdinaryFailure(r, terminal, delay) \in Row /\ OrdinaryFailure(r, FALSE, delay) \in Row
    BY <1>1, <1>2 DEF OrdinaryFailure
  <1>5. FailEvent(r, t, terminal, delay) \in Row
    BY <1>1, <1>4 DEF FailEvent
  <1>6. RecordConfirmedNotSent(r, t, attested, delay) \in Row
    BY Zenon, <1>1, <1>4 DEF RecordConfirmedNotSent
  <1>7. RecordAmbiguousOutcome(r, t, policy, left, delay) \in Row
    <2> DEFINE again == /\ r.attempts < MaxAttempts
                        /\ \/ policy = "at_least_once"
                           \/ policy = "retry_within" /\ ~MarkedBy(r, t) /\ delay < left
               tagged == r.tagged \/ (policy = "retry_within" /\ ~MarkedBy(r, t))
               base == IF again THEN Retry(r, delay) ELSE DeadLetter(r)
    <2>1. base \in Row
      BY <1>1, <1>2
    <2>2. tagged \in BOOLEAN
      BY DEF Row
    <2> HIDE DEF base, tagged
    <2>3. [base EXCEPT !.tagged = tagged] \in Row
      BY <2>1, <2>2 DEF Row
    <2> QED
      BY <2>3 DEF RecordAmbiguousOutcome, base, tagged
  <1>8. ReleaseClaim(r) \in Row
    <2>1. (IF r.attempts > 0 THEN r.attempts - 1 ELSE 0) \in 0..MaxAttempts
      BY <1>0 DEF Row
    <2> QED
      BY Zenon, <1>0, <2>1 DEF ReleaseClaim, Row
  <1>9. CompleteEvent(r) \in Row
    BY Zenon DEF CompleteEvent, Row, Statuses
  <1>10. ReplayRow(r) \in Row
    <2>1. 0 \in 0..MaxAttempts /\ 0 \in Nat
      BY <1>0
    <2> QED
      BY Zenon, <2>1 DEF ReplayRow, Row, Statuses
  <1> QED
    BY <1>1, <1>2, <1>3, <1>5, <1>6, <1>7, <1>8, <1>9, <1>10

\* What a failure records is a row, whatever the kind of outcome.
LEMMA RecordOutcomeType ==
  ASSUME NEW r \in Row, NEW x \in Exec, NEW delay \in Nat, NEW left \in Nat
  PROVE  RecordOutcome(x, r, left, delay) \in Row
  <1>1. x.t \in Tokens \cup {None}
    BY DEF Exec
  <1>2. (x.result = "attested") \in BOOLEAN
    OBVIOUS
  <1> QED
    BY Zenon, <1>1, <1>2, RowTransitions DEF RecordOutcome

\* Every delay is a natural number.
LEMMA DelaysType ==
  ASSUME NEW r, NEW result, NEW delay \in Delays(r, result)
  PROVE  delay \in Nat
  BY OutboxAssumption DEF Delays

\* The initial outbox is well typed.
LEMMA InitType == Init => TypeOK
  <1>1. NewRow \in Row /\ IdleCycle \in Cycle /\ IdleExec \in Exec /\ NewHist(0) \in Hist
    <2>1. MaxAttempts \in Nat /\ MaxTries \in Nat
      BY OutboxAssumption
    <2>2. /\ 0 \in 0..MaxAttempts /\ 0 \in 0..MaxTries
          /\ 0 \in 0..(MaxAttempts + 1) /\ 0 \in 0..(MaxTries + 1)
      BY <2>1
    <2>3. NewRow \in Row
      BY <2>2 DEF NewRow, Row, Statuses
    <2>4. IdleCycle \in Cycle
      BY DEF IdleCycle, Cycle
    <2>5. IdleExec \in Exec
      BY <2>2 DEF IdleExec, Exec, Result
    <2>6. NewHist(0) \in Hist
      BY <2>2 DEF NewHist, Hist
    <2> QED
      BY <2>3, <2>4, <2>5, <2>6
  <1>2. Window \in Nat
    BY OutboxAssumption
  <1> QED
    BY <1>1, <1>2 DEF Init, TypeOK, IdleCycle, IdleExec

\* The idle records have their types.
LEMMA IdleTypes ==
  /\ IdleCycle \in Cycle /\ IdleExec \in Exec
  /\ NewRow \in Row
  /\ [NewRow EXCEPT !.status = "pending"] \in Row
  /\ [NewRow EXCEPT !.status = "deleted"] \in Row
  <1>1. MaxAttempts \in Nat /\ MaxTries \in Nat
    BY OutboxAssumption
  <1>2. 0 \in 0..MaxAttempts /\ 0 \in 0..MaxTries
    BY <1>1
  <1> QED
    BY Zenon, <1>2 DEF IdleCycle, Cycle, IdleExec, Exec, Result, NewRow, Row, Statuses

\* Every step of the dispatchers, the workers and the operator keeps the types.
LEMMA TypeStep == TypeOK /\ [Next]_vars => TypeOK'
  <1> SUFFICES ASSUME TypeOK, [Next]_vars PROVE TypeOK'
    OBVIOUS
  <1>0. /\ MaxAttempts \in Nat /\ MaxTries \in Nat \ {0} /\ Lease \in Nat
        /\ ConsumerTimeout \in Nat /\ TenantOf \in [Events -> Tenants]
    BY OutboxAssumption
  <1>1. ASSUME NEW e \in Events, Append(e) PROVE TypeOK'
    BY <1>1, IdleTypes DEF Append, TypeOK
  <1>2. ASSUME NEW e \in Events, DeleteAggregateEvents(e) PROVE TypeOK'
    BY <1>2, IdleTypes DEF DeleteAggregateEvents, TypeOK
  <1>3. ASSUME NEW e \in Events, Replay(e) PROVE TypeOK'
    <2>1. ReplayRow(row[e]) \in Row
      BY Zenon, RowTransitions DEF TypeOK
    <2>2. [NewHist(hist[e].gen + 1) EXCEPT !.window = hist[e].window] \in Hist
      <3>1. hist[e] \in Hist
        BY DEF TypeOK
      <3>2. 0 \in 0..(MaxAttempts + 1) /\ 0 \in 0..(MaxTries + 1)
        BY <1>0
      <3>3. hist[e].gen + 1 \in Nat /\ hist[e].window \in BOOLEAN
        BY <3>1 DEF Hist
      <3>4. NewHist(hist[e].gen + 1) \in Hist
        BY <3>2, <3>3 DEF NewHist, Hist
      <3> QED
        BY <3>3, <3>4 DEF Hist
    <2> QED
      BY <1>3, <2>1, <2>2 DEF Replay, TypeOK
  <1>4. ASSUME NEW tn \in Tenants, CloseTenant(tn) PROVE TypeOK'
    BY <1>4 DEF CloseTenant, TypeOK
  <1>5. ASSUME NEW tn \in Tenants, PurgeTenantOutboxEvents(tn) PROVE TypeOK'
    BY <1>5, IdleTypes DEF PurgeTenantOutboxEvents, TypeOK
  <1>6. ASSUME NEW d \in Dispatchers, Dispatch(d) PROVE TypeOK'
    <2>1. CASE ListOpenTenants(d)
      <3>1. [IdleCycle EXCEPT !.pc = "listed", !.tenants = {tn \in Tenants : open[tn]}] \in Cycle
        BY Zenon DEF IdleCycle, Cycle
      <3> QED
        BY <2>1, <3>1 DEF ListOpenTenants, TypeOK, IdleCycle
    <2>2. CASE ClaimDueEvents(d)
      <3>1. PICK S \in SUBSET DueEvents(cycle[d].tenants) :
              \E f \in [{e \in S : ClaimRow(row[e], None).status = "pending"}
                          -> Tokens \ UsedTokens] :
                LET taken == {e \in S : ClaimRow(row[e], None).status = "pending"} IN
                /\ row' = [e \in Events |-> CASE e \in taken -> ClaimRow(row[e], f[e])
                                              [] e \in S \ taken -> ClaimRow(row[e], None)
                                              [] OTHER -> row[e]]
                /\ cycle' = [cycle EXCEPT ![d] =
                     IF taken = {} THEN IdleCycle
                     ELSE [IdleCycle EXCEPT !.pc = "handing",
                             !.claims = {[e |-> e, t |-> f[e]] : e \in taken}]]
        BY ZenonT(60), <2>2 DEF ClaimDueEvents
      <3> DEFINE taken == {e \in S : ClaimRow(row[e], None).status = "pending"}
      <3>2. PICK f \in [taken -> Tokens \ UsedTokens] :
              /\ row' = [e \in Events |-> CASE e \in taken -> ClaimRow(row[e], f[e])
                                            [] e \in S \ taken -> ClaimRow(row[e], None)
                                            [] OTHER -> row[e]]
              /\ cycle' = [cycle EXCEPT ![d] =
                   IF taken = {} THEN IdleCycle
                   ELSE [IdleCycle EXCEPT !.pc = "handing",
                           !.claims = {[e |-> e, t |-> f[e]] : e \in taken}]]
        BY Zenon, <3>1
      <3>3. taken \subseteq Events
        BY DEF DueEvents
      <3> HIDE DEF taken
      <3>4. row' \in [Events -> Row]
        <4>1. \A e \in Events : row[e] \in Row
          BY DEF TypeOK
        <4>2. \A e \in Events : ClaimRow(row[e], None) \in Row
          BY Zenon, <4>1, RowTransitions
        <4>3. \A e \in taken : ClaimRow(row[e], f[e]) \in Row
          <5>1. \A e \in taken : f[e] \in Tokens \cup {None} /\ row[e] \in Row
            BY <3>2, <3>3, <4>1
          <5> QED
            BY Zenon, <5>1, RowTransitions
        <4> QED
          BY <3>2, <4>1, <4>2, <4>3
      <3>5. [IdleCycle EXCEPT !.pc = "handing",
               !.claims = {[e |-> e, t |-> f[e]] : e \in taken}] \in Cycle
        <4>1. {[e |-> e, t |-> f[e]] : e \in taken} \subseteq Claim
          BY <3>2, <3>3 DEF Claim
        <4> QED
          BY Zenon, <4>1 DEF IdleCycle, Cycle
      <3> QED
        BY Zenon, <2>2, <3>2, <3>4, <3>5, IdleTypes DEF ClaimDueEvents, TypeOK, IdleCycle
    <2>3. ASSUME NEW c \in cycle[d].claims, NextClaim(d, c)
          PROVE  /\ cycle' \in [Dispatchers -> Cycle]
                 /\ \A x \in Dispatchers : cycle'[x].pc = "failed" => cycle'[x].bad \in cycle'[x].claims
      <3>1. [IdleCycle EXCEPT !.pc = "handing", !.claims = cycle[d].claims \ {c}] \in Cycle
        BY Zenon DEF IdleCycle, Cycle, TypeOK
      <3> QED
        BY <2>3, <3>1, IdleTypes DEF NextClaim, TypeOK, IdleCycle
    <2>4. ASSUME NEW c \in cycle[d].claims
          PROVE  c \in Claim /\ [e |-> c.e, t |-> c.t, tries |-> MaxTries] \in Job
      <3>1. c \in Claim
        BY DEF TypeOK, Cycle
      <3>2. MaxTries \in 1..MaxTries
        BY <1>0
      <3> QED
        BY <3>1, <3>2 DEF Claim, Job
    <2>5. CASE HandOff(d)
      BY <2>3, <2>4, <2>5 DEF HandOff, TypeOK
    <2>6. CASE HandOffRaises(d)
      <3>1. PICK c \in cycle[d].claims :
              /\ cycle' = [cycle EXCEPT ![d].pc = "failed", ![d].bad = c]
              /\ \/ jobs' = jobs
                 \/ LostAcks /\ jobs' = jobs \cup {[e |-> c.e, t |-> c.t, tries |-> MaxTries]}
        BY Zenon, <2>6 DEF HandOffRaises
      <3>2. [cycle[d] EXCEPT !.pc = "failed", !.bad = c] \in Cycle
        BY Zenon, <2>4 DEF TypeOK, Cycle
      <3>3. cycle' = [cycle EXCEPT ![d] = [cycle[d] EXCEPT !.pc = "failed", !.bad = c]]
        BY Zenon, <3>1 DEF TypeOK
      <3>4. cycle' \in [Dispatchers -> Cycle]
        BY <3>2, <3>3 DEF TypeOK
      <3>5. \A x \in Dispatchers : cycle'[x].pc = "failed" => cycle'[x].bad \in cycle'[x].claims
        BY <3>1 DEF TypeOK, Cycle
      <3>6. jobs' \subseteq Job
        BY <3>1, <2>4 DEF TypeOK
      <3> QED
        BY <2>6, <3>4, <3>5, <3>6 DEF HandOffRaises, TypeOK
    <2>7. CASE GiveBack(d)
      <3> DEFINE c == cycle[d].bad
      <3>1. c \in cycle[d].claims /\ NextClaim(d, c)
        BY <2>7 DEF GiveBack, TypeOK
      <3>2. row' \in [Events -> Row]
        <4>1. c.e \in Events
          BY Zenon, <3>1, <2>4 DEF Claim
        <4>2. ReleaseClaim(row[c.e]) \in Row
          BY Zenon, <4>1, RowTransitions DEF TypeOK
        <4> QED
          BY <2>7, <4>1, <4>2 DEF GiveBack, TypeOK
      <3> QED
        BY <2>7, <3>1, <3>2, <2>3 DEF GiveBack, TypeOK
    <2>8. CASE DispatcherCrash(d)
      BY <2>8, IdleTypes DEF DispatcherCrash, TypeOK, IdleCycle
    <2> QED
      BY <1>6, <2>1, <2>2, <2>5, <2>6, <2>7, <2>8 DEF Dispatch
  <1>7. ASSUME NEW j \in jobs, BeginRaises(j) PROVE TypeOK'
    <2>1. j \in Job
      BY DEF TypeOK
    <2>2. j.tries > 1 => j.tries - 1 \in 1..MaxTries
      BY <1>0, <2>1 DEF Job
    <2>3. j.tries > 1 => [j EXCEPT !.tries = @ - 1] \in Job
      BY <2>1, <2>2 DEF Job
    <2> QED
      BY <1>7, <2>3 DEF BeginRaises, TypeOK
  <1>8. ASSUME NEW w \in Workers, Run(w) PROVE TypeOK'
    <2> DEFINE x == exec[w]
    <2>0. x \in Exec /\ (x.pc # "idle" => x.e \in Events /\ x.t \in Tokens)
      BY DEF TypeOK
    <2>a. ASSUME NEW y \in Exec, y.pc # "idle" => y.e \in Events /\ y.t \in Tokens,
                 exec' = [exec EXCEPT ![w] = y]
          PROVE  /\ exec' \in [Workers -> Exec]
                 /\ \A v \in Workers : exec'[v].pc # "idle" => exec'[v].e \in Events /\ exec'[v].t \in Tokens
      BY <2>a DEF TypeOK
    <2>b. ASSUME exec' = [exec EXCEPT ![w] = IdleExec]
          PROVE  /\ exec' \in [Workers -> Exec]
                 /\ \A v \in Workers : exec'[v].pc # "idle" => exec'[v].e \in Events /\ exec'[v].t \in Tokens
      BY <2>b, IdleTypes DEF TypeOK, IdleExec
    <2>c. x.pc # "idle" => Requeued(x) \subseteq Job
      <3>1. x.tries \in 0..MaxTries
        BY <2>0 DEF Exec
      <3>2. x.tries > 0 => x.tries \in 1..MaxTries
        BY <1>0, <3>1
      <3>3. x.pc # "idle" /\ x.tries > 0 => [e |-> x.e, t |-> x.t, tries |-> x.tries] \in Job
        BY <2>0, <3>2 DEF Job
      <3> QED
        BY <3>3 DEF Requeued, TypeOK
    <2>1. ASSUME NEW j \in jobs, Begin(w, j) PROVE TypeOK'
      <3>1. j \in Job /\ j.e \in Events /\ row[j.e] \in Row /\ hist[j.e] \in Hist
        BY DEF TypeOK, Job
      <3>2. row' \in [Events -> Row]
        <4>1. DeadLetter(row[j.e]) \in Row
          BY Zenon, <3>1, RowTransitions
        <4>2. [row[j.e] EXCEPT !.claim = None] \in Row /\ [row[j.e] EXCEPT !.due = Lease] \in Row
          BY <1>0, <3>1 DEF Row
        <4>3. BeginRow(j.e, j.t) \in Row
          BY <3>1, <4>1, <4>2 DEF BeginRow
        <4> QED
          BY <2>1, <3>1, <4>3 DEF Begin, TypeOK
      <3>3. hist' \in [Events -> Hist]
        <4>1. /\ CountUpTo(hist[j.e].runs, MaxAttempts) \in 0..(MaxAttempts + 1)
              /\ CountUpTo(hist[j.e].deliveries, MaxTries) \in 0..(MaxTries + 1)
              /\ 1 \in 0..(MaxTries + 1)
          BY <1>0, <3>1 DEF Hist, CountUpTo
        <4>2. CountRun(hist[j.e], j.t) \in Hist
          BY Zenon, <3>1, <4>1 DEF CountRun, Hist, Job
        <4> QED
          BY <2>1, <3>1, <4>2 DEF Begin, TypeOK
      <3>4. /\ exec' \in [Workers -> Exec]
            /\ \A v \in Workers : exec'[v].pc # "idle" => exec'[v].e \in Events /\ exec'[v].t \in Tokens
        <4> DEFINE y == [IdleExec EXCEPT !.pc = "running", !.e = j.e, !.t = j.t, !.tries = j.tries - 1,
                                         !.ttl = ConsumerTimeout, !.gen = hist[j.e].gen]
        <4>1. j.tries - 1 \in 0..MaxTries
          BY <1>0, <3>1 DEF Job
        <4>2. y \in Exec /\ y.e \in Events /\ y.t \in Tokens
          BY Zenon, <1>0, <3>1, <4>1, IdleTypes DEF Exec, IdleExec, Job, Hist
        <4>3. exec' = [exec EXCEPT ![w] = y] \/ exec' = exec
          BY <2>1 DEF Begin
        <4> HIDE DEF y
        <4> QED
          BY <4>2, <4>3, <2>a DEF TypeOK
      <3> QED
        BY <2>1, <3>2, <3>3, <3>4 DEF Begin, TypeOK
    <2>2. CASE EnterEffect(w) \/ EnterEffectAckLost(w)
      <3>0. x.pc = "running" /\ x.e \in Events /\ x.t \in Tokens /\ row[x.e] \in Row
        BY <2>0, <2>2 DEF EnterEffect, EnterEffectAckLost, TypeOK
      <3>1. row' \in [Events -> Row]
        <4>1. [row[x.e] EXCEPT !.started = x.t, !.due = Lease] \in Row
          BY Zenon, <1>0, <3>0 DEF Row
        <4>2. row' = row \/ row' = [row EXCEPT ![x.e] = [row[x.e] EXCEPT !.started = x.t, !.due = Lease]]
          BY Zenon, <2>2 DEF EnterEffect, EnterEffectAckLost, TypeOK
        <4> QED
          BY <4>1, <4>2 DEF TypeOK
      <3>2. \/ exec' = [exec EXCEPT ![w] = [x EXCEPT !.pc = "block"]]
            \/ exec' = [exec EXCEPT ![w] = [x EXCEPT !.pc = "block", !.started = TRUE]]
            \/ exec' = [exec EXCEPT ![w] = [x EXCEPT !.pc = "outcome", !.result = "other", !.ttl = 0]]
            \/ exec' = [exec EXCEPT ![w] = IdleExec]
        BY Zenon, <2>2 DEF EnterEffect, EnterEffectAckLost, TypeOK
      <3>3. /\ [x EXCEPT !.pc = "block"] \in Exec
            /\ [x EXCEPT !.pc = "block", !.started = TRUE] \in Exec
            /\ [x EXCEPT !.pc = "outcome", !.result = "other", !.ttl = 0] \in Exec
        BY Zenon, <2>0 DEF Exec, Result
      <3>4. /\ exec' \in [Workers -> Exec]
            /\ \A v \in Workers : exec'[v].pc # "idle" => exec'[v].e \in Events /\ exec'[v].t \in Tokens
        BY Zenon, <3>0, <3>2, <3>3, <2>0, <2>a, <2>b DEF Exec
      <3> QED
        BY <2>2, <3>1, <3>4 DEF EnterEffect, EnterEffectAckLost, TypeOK
    <2>3. ASSUME NEW h \in Hist PROVE CountSend(h, x) \in Hist
      <3>1. h.sends \in 0..2
        BY DEF Hist
      <3>2. h.sends < 2 => h.sends + 1 \in 0..2
        BY <3>1
      <3> QED
        BY <3>2 DEF CountSend, Hist
    <2>4. CASE Send(w)
      <3>1. x.pc # "idle" /\ [x EXCEPT !.sent = TRUE] \in Exec
        BY Zenon, <2>0, <2>4 DEF Send, Exec
      <3>2. exec' = [exec EXCEPT ![w] = [x EXCEPT !.sent = TRUE]]
        BY <2>4 DEF Send, TypeOK
      <3>3. /\ exec' \in [Workers -> Exec]
            /\ \A v \in Workers : exec'[v].pc # "idle" => exec'[v].e \in Events /\ exec'[v].t \in Tokens
        BY Zenon, <3>1, <3>2, <2>0, <2>a DEF Exec
      <3>4. hist' \in [Events -> Hist]
        BY <2>3, <2>4, <2>0, <3>1 DEF Send, TypeOK
      <3> QED
        BY <2>4, <3>3, <3>4 DEF Send, TypeOK
    <2>5. CASE LeaveBlock(w)
      <3>1. x.pc # "idle" /\ [x EXCEPT !.pc = "after"] \in Exec
        BY <2>0, <2>5 DEF LeaveBlock, Exec
      <3>2. exec' = [exec EXCEPT ![w] = [x EXCEPT !.pc = "after"]]
        BY <2>5 DEF LeaveBlock, TypeOK
      <3>3. /\ exec' \in [Workers -> Exec]
            /\ \A v \in Workers : exec'[v].pc # "idle" => exec'[v].e \in Events /\ exec'[v].t \in Tokens
        BY Zenon, <3>1, <3>2, <2>0, <2>a DEF Exec
      <3> QED
        BY <2>5, <3>3 DEF LeaveBlock, TypeOK
    <2>6. ASSUME NEW result \in Outcomes, Finish(w, result) PROVE TypeOK'
      <3>1. result \in Result
        BY OutboxAssumption DEF Result
      <3>2. x.pc # "idle" /\ [x EXCEPT !.pc = "outcome", !.result = result, !.ttl = 0] \in Exec
        BY Zenon, <2>0, <2>6, <3>1 DEF Finish, InConsumer, Exec
      <3>3. exec' = [exec EXCEPT ![w] = [x EXCEPT !.pc = "outcome", !.result = result, !.ttl = 0]]
        BY Zenon, <2>6 DEF Finish, TypeOK
      <3>4. /\ exec' \in [Workers -> Exec]
            /\ \A v \in Workers : exec'[v].pc # "idle" => exec'[v].e \in Events /\ exec'[v].t \in Tokens
        BY Zenon, <3>2, <3>3, <2>0, <2>a DEF Exec
      <3>5. hist' \in [Events -> Hist]
        <4>1. \A b \in BOOLEAN : [hist[x.e] EXCEPT !.returned = b] \in Hist
          BY ZenonT(60), <2>0, <3>2 DEF TypeOK, Hist
        <4>2. hist' = [hist EXCEPT ![x.e] = [hist[x.e] EXCEPT !.returned =
                                               @ \/ (result = "ok" /\ x.gen = hist[x.e].gen)]]
          BY <2>6 DEF Finish, TypeOK
        <4> QED
          BY Zenon, <4>1, <4>2 DEF TypeOK
      <3> QED
        BY <2>6, <3>4, <3>5 DEF Finish, TypeOK
    <2>7. CASE Timeout(w)
      <3>2. x.pc # "idle" /\ [x EXCEPT !.pc = "outcome", !.result = "timeout"] \in Exec
        BY Zenon, <2>0, <2>7 DEF Timeout, InConsumer, Exec, Result
      <3>3. exec' = [exec EXCEPT ![w] = [x EXCEPT !.pc = "outcome", !.result = "timeout"]]
        BY Zenon, <2>7 DEF Timeout, TypeOK
      <3>4. /\ exec' \in [Workers -> Exec]
            /\ \A v \in Workers : exec'[v].pc # "idle" => exec'[v].e \in Events /\ exec'[v].t \in Tokens
        BY Zenon, <3>2, <3>3, <2>0, <2>a DEF Exec
      <3>5. hist' \in [Events -> Hist]
        BY <2>3, <2>7, <2>0, <3>2 DEF Timeout, TypeOK
      <3> QED
        BY <2>7, <3>4, <3>5 DEF Timeout, TypeOK
    <2>8. CASE Complete(w) \/ CompleteRaises(w)
      <3>1. x.pc # "idle" /\ row[x.e] \in Row
        BY <2>0, <2>8 DEF Complete, CompleteRaises, TypeOK
      <3>2. CompleteEvent(row[x.e]) \in Row
        BY Zenon, <3>1, RowTransitions
      <3>3. row' \in [Events -> Row]
        BY <2>8, <3>2 DEF Complete, CompleteRaises, TypeOK
      <3>4. jobs' \subseteq Job
        BY <2>8, <2>c, <3>1 DEF Complete, CompleteRaises, TypeOK
      <3>5. exec' = [exec EXCEPT ![w] = IdleExec]
        BY <2>8 DEF Complete, CompleteRaises
      <3> QED
        BY <2>8, <2>b, <3>3, <3>4, <3>5 DEF Complete, CompleteRaises, TypeOK
    <2>9. CASE RecordFailure(w)
      <3>1. x.pc # "idle" /\ x.e \in Events /\ row[x.e] \in Row /\ window[x.e] \in Nat /\ hist[x.e] \in Hist
        BY <2>0, <2>9 DEF RecordFailure, TypeOK
      <3>2. CASE Owned(row[x.e], x.t)
        <4>1. PICK delay \in Delays(row[x.e], x.result) :
                LET new == RecordOutcome(x, row[x.e], window[x.e], delay)
                    again == new.status = "pending" IN
                /\ row' = [row EXCEPT ![x.e] = new]
                /\ hist' = [hist EXCEPT
                     ![x.e].licensed = @ \/ (again /\ x.result = "at_least_once" /\ MarkedBy(row[x.e], x.t)),
                     ![x.e].window = @ \/ (again /\ x.result = "retry_within")]
          BY <2>9, <3>2 DEF RecordFailure
        <4>2. RecordOutcome(x, row[x.e], window[x.e], delay) \in Row
          BY <2>0, <3>1, DelaysType, RecordOutcomeType
        <4>3. row' \in [Events -> Row]
          BY Zenon, <4>1, <4>2 DEF TypeOK
        <4>4. ASSUME NEW l \in BOOLEAN, NEW a \in BOOLEAN
              PROVE  [hist EXCEPT ![x.e].licensed = @ \/ l, ![x.e].window = @ \/ a] \in [Events -> Hist]
          <5>1. [hist[x.e] EXCEPT !.licensed = @ \/ l, !.window = @ \/ a] \in Hist
            BY Zenon, <3>1 DEF Hist
          <5>2. [hist EXCEPT ![x.e].licensed = @ \/ l, ![x.e].window = @ \/ a]
                  = [hist EXCEPT ![x.e] = [hist[x.e] EXCEPT !.licensed = @ \/ l, !.window = @ \/ a]]
            BY Zenon, <3>1 DEF TypeOK
          <5> QED
            BY Zenon, <5>1, <5>2 DEF TypeOK
        <4>5. hist' \in [Events -> Hist]
          BY Zenon, <4>1, <4>4
        <4>6. UNCHANGED <<open, window, cycle, jobs>> /\ exec' = [exec EXCEPT ![w] = IdleExec]
          BY Zenon, <2>9 DEF RecordFailure
        <4> QED
          BY SMTT(40), <2>b, <4>3, <4>5, <4>6 DEF TypeOK
      <3>3. CASE ~Owned(row[x.e], x.t)
        BY <2>9, <2>b, <3>3 DEF RecordFailure, TypeOK
      <3> QED
        BY <3>2, <3>3
    <2>10. CASE OutcomeUnrecorded(w)
      BY <2>10, <2>b DEF OutcomeUnrecorded, TypeOK
    <2>11. CASE WorkerCrash(w)
      BY <2>11, <2>b, <2>c DEF WorkerCrash, TypeOK
    <2>12. CASE Redeliver(w)
      <3>1. [x EXCEPT !.tries = 0] \in Exec
        <4>1. 0 \in 0..MaxTries
          BY <1>0
        <4> QED
          BY <2>0, <4>1 DEF Exec
      <3>2. exec' = [exec EXCEPT ![w] = [x EXCEPT !.tries = 0]]
        BY <2>12 DEF Redeliver, TypeOK
      <3>3. /\ exec' \in [Workers -> Exec]
            /\ \A v \in Workers : exec'[v].pc # "idle" => exec'[v].e \in Events /\ exec'[v].t \in Tokens
        BY Zenon, <3>1, <3>2, <2>0, <2>a DEF Exec
      <3> QED
        BY <2>12, <2>c, <3>3 DEF Redeliver, TypeOK
    <2> QED
      BY <1>8, <2>1, <2>2, <2>4, <2>5, <2>6, <2>7, <2>8, <2>9, <2>10, <2>11, <2>12 DEF Run
  <1>9. CASE Tick
    <2>1. ASSUME NEW n \in Nat PROVE Left(n) \in Nat
      BY DEF Left
    <2>2. \A e \in Events : [row[e] EXCEPT !.due = Left(@)] \in Row
      BY SMTT(40), <2>1 DEF TypeOK, Row
    <2>3. \A w \in Workers : [exec[w] EXCEPT !.ttl = Left(@)] \in Exec
      BY <2>1 DEF TypeOK, Exec
    <2>4. row' \in [Events -> Row] /\ exec' \in [Workers -> Exec]
      BY <1>9, <2>2, <2>3 DEF Tick
    <2>5. window' \in [Events -> Nat]
      BY <1>9, <2>1 DEF Tick, TypeOK
    <2>6. \A w \in Workers : exec'[w].pc # "idle" => exec'[w].e \in Events /\ exec'[w].t \in Tokens
      BY Zenon, <1>9 DEF Tick, TypeOK, Exec
    <2> QED
      BY <1>9, <2>4, <2>5, <2>6 DEF Tick, TypeOK
  <1>10. CASE UNCHANGED vars
    BY <1>10 DEF vars, TypeOK
  <1> QED
    BY <1>1, <1>2, <1>3, <1>4, <1>5, <1>6, <1>7, <1>8, <1>9, <1>10 DEF Next

\* The outbox rows, hand-offs, jobs and executions always have their shapes.
THEOREM TypeCorrect == Spec => []TypeOK
  BY InitType, TypeStep, PTL DEF Spec

-----------------------------------------------------------------------------
(* The marker of a row that can still run belongs to its claim *)

MarkerRule(r) == r.status = "pending" /\ r.started # None => r.started = r.claim

\* Every transition of a row keeps the rule.
LEMMA MarkerTransitions ==
  ASSUME NEW r \in Row, MarkerRule(r), NEW t \in Tokens \cup {None}, NEW x \in Exec,
         NEW delay \in Nat, NEW left \in Nat
  PROVE  /\ MarkerRule(DeadLetter(r))
         /\ MarkerRule(ClaimRow(r, t))
         /\ MarkerRule(RecordOutcome(x, r, left, delay))
         /\ MarkerRule(ReleaseClaim(r))
         /\ MarkerRule(CompleteEvent(r))
         /\ MarkerRule(ReplayRow(r))
         /\ MarkerRule([r EXCEPT !.due = delay])
  <1>1. DeadLetter(r).status = "dead_lettered" /\ DeadLetter(r) \in Row
    BY Zenon, RowTransitions DEF DeadLetter, Row
  <1>2. Retry(r, delay).started = None
    BY DEF Retry, Row
  <1>3. MarkerRule(DeadLetter(r)) /\ MarkerRule(Retry(r, delay))
    BY <1>1, <1>2 DEF MarkerRule
  <1>4. MarkerRule(ClaimRow(r, t))
    <2>1. CASE r.started = None
      BY <2>1, <1>3 DEF ClaimRow, MarkerRule, Row
    <2>2. CASE r.started # None /\ r.status = "pending"
      BY <2>2, <1>3 DEF ClaimRow, MarkerRule, MarkedBy, Row
    <2>3. CASE r.status # "pending"
      BY <2>3, <1>3 DEF ClaimRow, MarkerRule, Row
    <2> QED
      BY <2>1, <2>2, <2>3
  <1>5. \A b \in BOOLEAN : MarkerRule(FailEvent(r, x.t, b, delay))
                         /\ MarkerRule(RecordConfirmedNotSent(r, x.t, b, delay))
    BY <1>3 DEF FailEvent, RecordConfirmedNotSent, OrdinaryFailure
  <1>6. \A p : MarkerRule(RecordAmbiguousOutcome(r, x.t, p, left, delay))
    <2> TAKE p
    <2> DEFINE again == /\ r.attempts < MaxAttempts
                        /\ \/ p = "at_least_once"
                           \/ p = "retry_within" /\ ~MarkedBy(r, x.t) /\ delay < left
               tagged == r.tagged \/ (p = "retry_within" /\ ~MarkedBy(r, x.t))
               base == IF again THEN Retry(r, delay) ELSE DeadLetter(r)
    <2>1. MarkerRule(base) /\ base \in Row
      BY Zenon, <1>1, <1>3, RowTransitions
    <2> HIDE DEF base, tagged
    <2>2. MarkerRule([base EXCEPT !.tagged = tagged])
      BY <2>1 DEF MarkerRule, Row
    <2> QED
      BY <2>2 DEF RecordAmbiguousOutcome, base, tagged
  <1>7. MarkerRule(RecordOutcome(x, r, left, delay))
    BY Zenon, <1>5, <1>6 DEF RecordOutcome
  <1> QED
    BY <1>3, <1>4, <1>7 DEF MarkerRule, ReleaseClaim, CompleteEvent, ReplayRow, Row

\* Every step keeps a marker with the claim it was committed under.
LEMMA MarkerStep == TypeOK /\ MarkerBelongsToClaim /\ [Next]_vars => MarkerBelongsToClaim'
  <1> SUFFICES ASSUME TypeOK, MarkerBelongsToClaim, [Next]_vars,
                      NEW e \in Events, open'[TenantOf[e]]
               PROVE  MarkerRule(row'[e])
    BY DEF MarkerBelongsToClaim, MarkerRule
  <1>0. /\ row[e] \in Row /\ Lease \in Nat /\ None \notin Tokens /\ TenantOf[e] \in Tenants
        /\ EnqueueRetry \in Nat
    BY OutboxAssumption DEF TypeOK
  <1>a. open[TenantOf[e]]
    <2>1. \/ open' = open
          \/ \E tn \in Tenants : open' = [open EXCEPT ![tn] = FALSE]
      BY ZenonT(60) DEF Next, Append, DeleteAggregateEvents, Replay, CloseTenant, PurgeTenantOutboxEvents,
             Dispatch, ListOpenTenants, ClaimDueEvents, HandOff, HandOffRaises, GiveBack,
             DispatcherCrash, BeginRaises, Run, Begin, EnterEffect, EnterEffectAckLost, Send,
             LeaveBlock, Finish, Timeout, Complete, CompleteRaises, RecordFailure,
             OutcomeUnrecorded, WorkerCrash, Redeliver, Tick, vars
    <2> QED
      BY <1>0, <2>1 DEF TypeOK
  <1>b. MarkerRule(row[e])
    BY <1>a DEF MarkerBelongsToClaim, MarkerRule
  <1>1. ASSUME NEW f \in Events, Append(f) \/ DeleteAggregateEvents(f) \/ Replay(f)
        PROVE  MarkerRule(row'[e])
    <2>1. MarkerRule(ReplayRow(row[e]))
      BY <1>0, <1>b DEF ReplayRow, MarkerRule, Row
    <2>2. \A n : MarkerRule([NewRow EXCEPT !.status = n])
      BY DEF NewRow, MarkerRule
    <2>3. \/ row'[e] = row[e]
          \/ row'[e] = ReplayRow(row[e])
          \/ \E n : row'[e] = [NewRow EXCEPT !.status = n]
      BY ZenonT(60), <1>1 DEF Append, DeleteAggregateEvents, Replay, TypeOK
    <2> QED
      BY Zenon, <1>b, <2>1, <2>2, <2>3
  <1>2. ASSUME NEW tn \in Tenants, CloseTenant(tn) \/ PurgeTenantOutboxEvents(tn)
        PROVE  MarkerRule(row'[e])
    <2>1. \A n : MarkerRule([NewRow EXCEPT !.status = n])
      BY DEF NewRow, MarkerRule
    <2> QED
      BY <1>2, <1>b, <2>1 DEF CloseTenant, PurgeTenantOutboxEvents
  <1>3. ASSUME NEW d \in Dispatchers, Dispatch(d) PROVE MarkerRule(row'[e])
    <2>1. CASE ClaimDueEvents(d)
      <3>1. row'[e] = row[e] \/ \E t \in Tokens \cup {None} : row'[e] = ClaimRow(row[e], t)
        <4>1. PICK S \in SUBSET DueEvents(cycle[d].tenants) :
                \E f \in [{a \in S : ClaimRow(row[a], None).status = "pending"}
                            -> Tokens \ UsedTokens] :
                  LET taken == {a \in S : ClaimRow(row[a], None).status = "pending"} IN
                  row' = [a \in Events |-> CASE a \in taken -> ClaimRow(row[a], f[a])
                                             [] a \in S \ taken -> ClaimRow(row[a], None)
                                             [] OTHER -> row[a]]
          BY Zenon, <2>1 DEF ClaimDueEvents
        <4> DEFINE taken == {a \in S : ClaimRow(row[a], None).status = "pending"}
        <4>2. PICK f \in [taken -> Tokens \ UsedTokens] :
                  row' = [a \in Events |-> CASE a \in taken -> ClaimRow(row[a], f[a])
                                             [] a \in S \ taken -> ClaimRow(row[a], None)
                                             [] OTHER -> row[a]]
          BY Zenon, <4>1
        <4> HIDE DEF taken
        <4>3. e \in taken => f[e] \in Tokens
          BY <4>2
        <4> QED
          BY <4>2, <4>3
      <3>2. \A t \in Tokens \cup {None} : MarkerRule(ClaimRow(row[e], t))
        BY Zenon, <1>0, <1>b, MarkerTransitions, IdleTypes
      <3> QED
        BY <3>1, <3>2, <1>b
    <2>2. CASE GiveBack(d)
      <3>1. MarkerRule(ReleaseClaim(row[e]))
        BY <1>0 DEF ReleaseClaim, MarkerRule, Row
      <3>2. row'[e] = row[e] \/ row'[e] = ReleaseClaim(row[e])
        BY <2>2 DEF GiveBack, TypeOK
      <3> QED
        BY <3>1, <3>2, <1>b
    <2>3. CASE ListOpenTenants(d) \/ HandOff(d) \/ HandOffRaises(d) \/ DispatcherCrash(d)
      BY <2>3, <1>b DEF ListOpenTenants, HandOff, HandOffRaises, DispatcherCrash
    <2> QED
      BY <1>3, <2>1, <2>2, <2>3 DEF Dispatch
  <1>4. ASSUME NEW j \in jobs, BeginRaises(j) PROVE MarkerRule(row'[e])
    BY <1>4, <1>b DEF BeginRaises
  <1>5. ASSUME NEW w \in Workers, Run(w) PROVE MarkerRule(row'[e])
    <2>1. ASSUME NEW j \in jobs, Begin(w, j) PROVE MarkerRule(row'[e])
      <3>1. MarkerRule(BeginRow(e, j.t))
        BY <1>0, <1>a, <1>b DEF BeginRow, MarkerRule, DeadLetter, Row
      <3> QED
        BY <2>1, <3>1, <1>b DEF Begin, TypeOK
    <2>2. CASE EnterEffect(w) \/ EnterEffectAckLost(w)
      <3>1. \/ row'[e] = row[e]
            \/ /\ row[e].claim = exec[w].t
               /\ row'[e] = [row[e] EXCEPT !.started = exec[w].t, !.due = Lease]
        <4>1. \/ row' = row
              \/ /\ Owned(row[exec[w].e], exec[w].t)
                 /\ row' = [row EXCEPT ![exec[w].e] =
                              [row[exec[w].e] EXCEPT !.started = exec[w].t, !.due = Lease]]
          BY Zenon, <2>2 DEF EnterEffect, EnterEffectAckLost, TypeOK
        <4> QED
          BY Zenon, <4>1 DEF Owned, TypeOK
      <3> QED
        BY Zenon, <3>1, <1>0, <1>b DEF MarkerRule, Row
    <2>3. CASE Complete(w) \/ CompleteRaises(w)
      <3>1. MarkerRule(CompleteEvent(row[e]))
        BY <1>0 DEF CompleteEvent, MarkerRule, Row
      <3>2. row'[e] = row[e] \/ row'[e] = CompleteEvent(row[e])
        BY <2>3 DEF Complete, CompleteRaises, TypeOK
      <3> QED
        BY <3>1, <3>2, <1>b
    <2>4. CASE RecordFailure(w)
      <3>1. \/ row'[e] = row[e]
            \/ \E delay \in Delays(row[e], exec[w].result) :
                 row'[e] = RecordOutcome(exec[w], row[e], window[e], delay)
        <4>1. CASE exec[w].e = e /\ Owned(row[e], exec[w].t)
          BY Zenon, <2>4, <4>1 DEF RecordFailure, TypeOK
        <4>2. CASE exec[w].e # e \/ ~Owned(row[e], exec[w].t)
          BY Zenon, <2>4, <4>2 DEF RecordFailure, TypeOK
        <4> QED
          BY <4>1, <4>2
      <3>2. \A delay \in Delays(row[e], exec[w].result) :
              MarkerRule(RecordOutcome(exec[w], row[e], window[e], delay))
        <4>1. exec[w] \in Exec /\ window[e] \in Nat
          BY DEF TypeOK
        <4> QED
          BY Zenon, <4>1, <1>0, <1>b, DelaysType, MarkerTransitions
      <3> QED
        BY <3>1, <3>2, <1>b
    <2>5. CASE UNCHANGED row
      BY <2>5, <1>b
    <2> QED
      BY Zenon, <1>5, <2>1, <2>2, <2>3, <2>4, <2>5
         DEF Run, Send, LeaveBlock, Finish, Timeout, OutcomeUnrecorded, WorkerCrash, Redeliver
  <1>6. CASE Tick
    BY <1>6, <1>0, <1>b DEF Tick, MarkerRule, Row
  <1>7. CASE UNCHANGED vars
    BY <1>7, <1>b DEF vars
  <1> QED
    BY <1>1, <1>2, <1>3, <1>4, <1>5, <1>6, <1>7 DEF Next

\* Whatever the settings and however the queue behaves, no marker survives the
\* claim that wrote it on a pending row of an open tenant.
THEOREM MarkerCorrect == Spec => []MarkerBelongsToClaim
  <1>1. Init => MarkerBelongsToClaim
    BY DEF Init, MarkerBelongsToClaim, NewRow
  <1> QED
    BY <1>1, TypeCorrect, MarkerStep, PTL DEF Spec

-----------------------------------------------------------------------------
(* What can become of the status of a row *)

\* Execution w publishes e: its consumer returned and its claim owns the row.
Publishes(w, e) ==
  /\ exec[w].pc = "outcome" /\ exec[w].result = "ok"
  /\ exec[w].e = e /\ Owned(row[e], exec[w].t)

StatusChange(e) ==
  \/ row'[e].status = row[e].status
  \/ row[e].status # "absent" /\ row'[e].status = "deleted"
  \/ row[e].status = "absent" /\ row'[e].status = "pending" /\ open[TenantOf[e]]
  \/ row[e].status = "pending" /\ row'[e].status = "dead_lettered"
  \/ row'[e].status = "published" /\ \E w \in Workers : Publishes(w, e)
  \/ Replay(e)

\* A failure leaves a row pending or dead-letters it.
LEMMA RecordedOutcome ==
  ASSUME NEW r \in Row, r.status = "pending", NEW x \in Exec, NEW delay \in Nat, NEW left \in Nat
  PROVE  RecordOutcome(x, r, left, delay).status \in {"pending", "dead_lettered"}
  <1>1. DeadLetter(r).status = "dead_lettered" /\ Retry(r, delay).status = "pending"
    BY DEF DeadLetter, Retry, Row
  <1>2. \A b \in BOOLEAN : /\ FailEvent(r, x.t, b, delay).status \in {"pending", "dead_lettered"}
                           /\ RecordConfirmedNotSent(r, x.t, b, delay).status \in {"pending", "dead_lettered"}
    BY <1>1 DEF FailEvent, RecordConfirmedNotSent, OrdinaryFailure
  <1>3. \A p : RecordAmbiguousOutcome(r, x.t, p, left, delay).status \in {"pending", "dead_lettered"}
    <2> TAKE p
    <2> DEFINE again == /\ r.attempts < MaxAttempts
                        /\ \/ p = "at_least_once"
                           \/ p = "retry_within" /\ ~MarkedBy(r, x.t) /\ delay < left
               tagged == r.tagged \/ (p = "retry_within" /\ ~MarkedBy(r, x.t))
               base == IF again THEN Retry(r, delay) ELSE DeadLetter(r)
    <2>1. base.status \in {"pending", "dead_lettered"} /\ base \in Row
      BY Zenon, <1>1, RowTransitions, IdleTypes
    <2> HIDE DEF base, tagged
    <2>2. [base EXCEPT !.tagged = tagged].status = base.status
      BY <2>1 DEF Row
    <2> QED
      BY <2>1, <2>2 DEF RecordAmbiguousOutcome, base, tagged
  <1> QED
    BY Zenon, <1>2, <1>3 DEF RecordOutcome

\* No step changes the status of a row in another way.
LEMMA StatusStep == ASSUME TypeOK, [Next]_vars, NEW e \in Events PROVE StatusChange(e)
  <1>0. /\ row[e] \in Row /\ Lease \in Nat /\ EnqueueRetry \in Nat /\ TenantOf[e] \in Tenants
        /\ window[e] \in Nat
    BY OutboxAssumption DEF TypeOK
  <1>a. ASSUME row'[e] = row[e] PROVE StatusChange(e)
    BY <1>a DEF StatusChange
  <1>1. ASSUME NEW f \in Events, Append(f) \/ DeleteAggregateEvents(f) PROVE StatusChange(e)
    <2>1. \A n : [NewRow EXCEPT !.status = n].status = n
      BY DEF NewRow
    <2>2. \/ row'[e] = row[e]
          \/ /\ row'[e] = [NewRow EXCEPT !.status = "pending"]
             /\ row[e].status = "absent" /\ open[TenantOf[e]]
          \/ row'[e] = [NewRow EXCEPT !.status = "deleted"] /\ row[e].status # "absent"
      BY Zenon, <1>1 DEF Append, DeleteAggregateEvents, TypeOK
    <2> QED
      BY Zenon, <2>1, <2>2 DEF StatusChange
  <1>2. ASSUME NEW f \in Events, Replay(f) PROVE StatusChange(e)
    <2>1. CASE f = e
      BY <1>2, <2>1 DEF StatusChange
    <2>2. CASE f # e
      BY <1>2, <2>2, <1>a DEF Replay, TypeOK
    <2> QED
      BY <2>1, <2>2
  <1>3. ASSUME NEW tn \in Tenants, CloseTenant(tn) \/ PurgeTenantOutboxEvents(tn)
        PROVE  StatusChange(e)
    <2>1. [NewRow EXCEPT !.status = "deleted"].status = "deleted"
      BY DEF NewRow
    <2> QED
      BY Zenon, <1>3, <2>1 DEF CloseTenant, PurgeTenantOutboxEvents, StatusChange
  <1>4. ASSUME NEW d \in Dispatchers, Dispatch(d) PROVE StatusChange(e)
    <2>1. CASE ClaimDueEvents(d)
      <3>1. PICK S \in SUBSET DueEvents(cycle[d].tenants) :
              \E f \in [{a \in S : ClaimRow(row[a], None).status = "pending"}
                          -> Tokens \ UsedTokens] :
                LET taken == {a \in S : ClaimRow(row[a], None).status = "pending"} IN
                row' = [a \in Events |-> CASE a \in taken -> ClaimRow(row[a], f[a])
                                           [] a \in S \ taken -> ClaimRow(row[a], None)
                                           [] OTHER -> row[a]]
        BY Zenon, <2>1 DEF ClaimDueEvents
      <3> DEFINE taken == {a \in S : ClaimRow(row[a], None).status = "pending"}
      <3>2. PICK f \in [taken -> Tokens \ UsedTokens] :
                row' = [a \in Events |-> CASE a \in taken -> ClaimRow(row[a], f[a])
                                           [] a \in S \ taken -> ClaimRow(row[a], None)
                                           [] OTHER -> row[a]]
        BY Zenon, <3>1
      <3> HIDE DEF taken
      <3>3. CASE e \notin S
        <4>1. e \notin taken
          BY <3>3 DEF taken
        <4> QED
          BY <3>2, <3>3, <4>1, <1>a
      <3>4. CASE e \in S
        <4>1. row[e].status = "pending"
          BY <3>4 DEF DueEvents
        <4>2. \A t : ClaimRow(row[e], t).status \in {"pending", "dead_lettered"}
          BY <1>0, <4>1 DEF ClaimRow, DeadLetter, Row
        <4>3. \E t : row'[e] = ClaimRow(row[e], t)
          BY <3>2, <3>4
        <4> QED
          BY Zenon, <4>1, <4>2, <4>3 DEF StatusChange
      <3> QED
        BY <3>3, <3>4
    <2>2. CASE GiveBack(d)
      <3>1. ReleaseClaim(row[e]).status = row[e].status
        BY <1>0 DEF ReleaseClaim, Row
      <3>2. row'[e] = row[e] \/ row'[e] = ReleaseClaim(row[e])
        BY <2>2 DEF GiveBack, TypeOK
      <3> QED
        BY <3>1, <3>2 DEF StatusChange
    <2>3. CASE ListOpenTenants(d) \/ HandOff(d) \/ HandOffRaises(d) \/ DispatcherCrash(d)
      BY <2>3, <1>a DEF ListOpenTenants, HandOff, HandOffRaises, DispatcherCrash
    <2> QED
      BY <1>4, <2>1, <2>2, <2>3 DEF Dispatch
  <1>5. ASSUME NEW j \in jobs, BeginRaises(j) PROVE StatusChange(e)
    BY <1>5, <1>a DEF BeginRaises
  <1>6. ASSUME NEW w \in Workers, Run(w) PROVE StatusChange(e)
    <2>1. ASSUME NEW j \in jobs, Begin(w, j) PROVE StatusChange(e)
      <3>1. \/ BeginRow(e, j.t).status = row[e].status
            \/ row[e].status = "pending" /\ BeginRow(e, j.t).status = "dead_lettered"
        BY <1>0 DEF BeginRow, DeadLetter, Owned, Row
      <3>2. row'[e] = row[e] \/ row'[e] = BeginRow(e, j.t)
        BY Zenon, <2>1 DEF Begin, TypeOK
      <3> QED
        BY Zenon, <3>1, <3>2 DEF StatusChange
    <2>2. CASE EnterEffect(w) \/ EnterEffectAckLost(w)
      <3>1. \/ row' = row
            \/ row' = [row EXCEPT ![exec[w].e] =
                         [row[exec[w].e] EXCEPT !.started = exec[w].t, !.due = Lease]]
        BY Zenon, <2>2 DEF EnterEffect, EnterEffectAckLost, TypeOK
      <3>2. row'[e] = row[e] \/ row'[e] = [row[e] EXCEPT !.started = exec[w].t, !.due = Lease]
        BY Zenon, <3>1 DEF TypeOK
      <3> QED
        BY Zenon, <3>2, <1>0 DEF StatusChange, Row
    <2>3. CASE Complete(w) \/ CompleteRaises(w)
      <3>1. row'[e] = row[e] \/ (Publishes(w, e) /\ row'[e] = CompleteEvent(row[e]))
        BY <2>3 DEF Complete, CompleteRaises, Publishes, TypeOK
      <3>2. CompleteEvent(row[e]).status = "published"
        BY <1>0 DEF CompleteEvent, Row
      <3> QED
        BY Zenon, <3>1, <3>2 DEF StatusChange
    <2>4. CASE RecordFailure(w)
      <3>1. \/ row'[e] = row[e]
            \/ /\ row[e].status = "pending"
               /\ \E delay \in Delays(row[e], exec[w].result) :
                    row'[e] = RecordOutcome(exec[w], row[e], window[e], delay)
        <4>1. CASE exec[w].e = e /\ Owned(row[e], exec[w].t)
          <5>1. \E delay \in Delays(row[e], exec[w].result) :
                    row'[e] = RecordOutcome(exec[w], row[e], window[e], delay)
            BY Zenon, <2>4, <4>1 DEF RecordFailure, TypeOK
          <5> QED
            BY <4>1, <5>1 DEF Owned
        <4>2. CASE exec[w].e # e \/ ~Owned(row[e], exec[w].t)
          BY Zenon, <2>4, <4>2 DEF RecordFailure, TypeOK
        <4> QED
          BY <4>1, <4>2
      <3>2. exec[w] \in Exec
        BY DEF TypeOK
      <3>3. row[e].status = "pending" =>
              \A delay \in Delays(row[e], exec[w].result) :
                RecordOutcome(exec[w], row[e], window[e], delay).status
                  \in {"pending", "dead_lettered"}
        BY Zenon, <1>0, <3>2, DelaysType, RecordedOutcome
      <3> QED
        BY Zenon, <3>1, <3>3 DEF StatusChange
    <2>5. CASE UNCHANGED row
      BY <2>5, <1>a
    <2> QED
      BY Zenon, <1>6, <2>1, <2>2, <2>3, <2>4, <2>5
         DEF Run, Send, LeaveBlock, Finish, Timeout, OutcomeUnrecorded, WorkerCrash, Redeliver
  <1>7. CASE Tick
    BY <1>7, <1>0 DEF Tick, StatusChange, Row
  <1>8. CASE UNCHANGED vars
    BY <1>8, <1>a DEF vars
  <1> QED
    BY <1>1, <1>2, <1>3, <1>4, <1>5, <1>6, <1>7, <1>8 DEF Next

\* A published row is final, and only an operator's replay takes an event out of the
\* dead letters: no late worker, expired lease or dispatcher revives either.
THEOREM TerminalRows == Spec => TerminalStays
  <1>1. ASSUME TypeOK, [Next]_vars, NEW e \in Events
        PROVE  /\ row[e].status = "published" => row'[e].status \in {"published", "deleted"}
               /\ row[e].status = "dead_lettered" =>
                    \/ row'[e].status \in {"dead_lettered", "deleted"}
                    \/ row'[e].status = "pending" /\ hist'[e].gen = hist[e].gen + 1
    <2>1. StatusChange(e)
      BY <1>1, StatusStep
    <2>2. Replay(e) => /\ row[e].status = "dead_lettered" /\ row'[e].status = "pending"
                       /\ hist'[e].gen = hist[e].gen + 1
      BY <1>1 DEF Replay, ReplayRow, NewHist, TypeOK, Row, Hist
    <2>3. \A w \in Workers : Publishes(w, e) => row[e].status = "pending"
      BY DEF Publishes, Owned
    <2> QED
      BY Zenon, <2>1, <2>2, <2>3 DEF StatusChange
  <1> DEFINE Stays ==
        \A e \in Events :
          /\ row[e].status = "published" => row'[e].status \in {"published", "deleted"}
          /\ row[e].status = "dead_lettered" =>
               \/ row'[e].status \in {"dead_lettered", "deleted"}
               \/ row'[e].status = "pending" /\ hist'[e].gen = hist[e].gen + 1
  <1>2. TypeOK /\ [Next]_vars => [Stays]_vars
    BY Zenon, <1>1
  <1> QED
    BY <1>2, TypeCorrect, PTL DEF Spec, TerminalStays

\* The purge of a closed tenant and the erasure of an event are final: whatever a
\* producer, a late worker, a hand-off given back, a stale list of tenants or an
\* operator does, the row is not written again and its consumer does not start.
THEOREM PurgesAreFinal == Spec => PurgeIsFinal
  <1>1. ASSUME TypeOK, [Next]_vars, NEW w \in Workers, exec[w].pc = "idle", exec'[w].pc # "idle"
        PROVE  row[exec'[w].e].status = "pending"
    <2>1. ASSUME NEW v \in Workers, NEW j \in jobs, Begin(v, j)
          PROVE  row[exec'[w].e].status = "pending"
      <3> DEFINE x == [IdleExec EXCEPT !.pc = "running", !.e = j.e, !.t = j.t,
                                       !.tries = j.tries - 1, !.ttl = ConsumerTimeout,
                                       !.gen = hist[j.e].gen]
      <3>1. x.e = j.e
        BY DEF IdleExec
      <3> HIDE DEF x
      <3>2. exec' # exec
        BY <1>1
      <3>3. MayRun(j.e, j.t) /\ exec' = [exec EXCEPT ![v] = x]
        BY Zenon, <2>1, <3>2 DEF Begin, x
      <3>4. exec'[w] = x
        BY <1>1, <3>3 DEF TypeOK
      <3> QED
        BY <3>1, <3>3, <3>4 DEF MayRun, Owned
    <2>2. ASSUME NEW v \in Workers, exec[v].pc # "idle" \/ exec'[v].pc = "idle",
                 \A u \in Workers : u # v => exec'[u] = exec[u]
          PROVE  FALSE
      BY <1>1, <2>2
    <2>3. ASSUME NEW v \in Workers, Run(v), ~\E j \in jobs : Begin(v, j) PROVE FALSE
      <3>1. exec[v].pc # "idle"
        BY Zenon, <2>3 DEF Run, EnterEffect, EnterEffectAckLost, Send, LeaveBlock, Finish, Timeout,
               Complete, CompleteRaises, RecordFailure, OutcomeUnrecorded, WorkerCrash,
               Redeliver, InConsumer
      <3>2. \E x : exec' = [exec EXCEPT ![v] = x]
        BY Zenon, <2>3 DEF Run, EnterEffect, EnterEffectAckLost, Send, LeaveBlock, Finish, Timeout,
               Complete, CompleteRaises, RecordFailure, OutcomeUnrecorded, WorkerCrash,
               Redeliver, TypeOK
      <3>3. \A u \in Workers : u # v => exec'[u] = exec[u]
        BY <3>2 DEF TypeOK
      <3> QED
        BY <2>2, <3>1, <3>3
    <2>4. CASE Tick
      BY <1>1, <2>4 DEF Tick, TypeOK, Exec
    <2>5. CASE UNCHANGED exec
      BY <1>1, <2>5
    <2> QED
      BY Zenon, <1>1, <2>1, <2>3, <2>4, <2>5
         DEF Next, Append, DeleteAggregateEvents, Replay, CloseTenant, PurgeTenantOutboxEvents,
             Dispatch, ListOpenTenants, ClaimDueEvents, HandOff, HandOffRaises, GiveBack,
             DispatcherCrash, BeginRaises, vars
  <1> DEFINE Gone(e) == {"deleted"} \cup IF open[TenantOf[e]] THEN {} ELSE {"absent"}
             Final ==
               \A e \in Events :
                 row[e].status \in Gone(e) =>
                   /\ row'[e].status = row[e].status
                   /\ \A w \in Workers :
                        exec[w].pc = "idle" /\ exec'[w].pc # "idle" => exec'[w].e # e
  <1>2. ASSUME TypeOK, [Next]_vars, NEW e \in Events, row[e].status \in Gone(e)
        PROVE  row'[e].status = row[e].status
    <2>1. row[e].status = "deleted" \/ (row[e].status = "absent" /\ ~open[TenantOf[e]])
      BY <1>2
    <2>2. StatusChange(e)
      BY <1>2, StatusStep
    <2>3. ~Replay(e) /\ \A w \in Workers : ~Publishes(w, e)
      BY <2>1 DEF Replay, Publishes, Owned
    <2> QED
      BY <2>1, <2>2, <2>3 DEF StatusChange
  <1>3. \A e \in Events : row[e].status \in Gone(e) => row[e].status # "pending"
    OBVIOUS
  <1> HIDE DEF Gone
  <1>4. TypeOK /\ [Next]_vars => [Final]_vars
    BY Zenon, <1>1, <1>2, <1>3
  <1> QED
    BY <1>4, TypeCorrect, PTL DEF Spec, PurgeIsFinal, Gone

=============================================================================
