-------------------------- MODULE OutboxExecProofs --------------------------
(***************************************************************************)
(* Two invariants of module Outbox about who carries which claim token:    *)
(* the control state of the executions, and the claims still in a          *)
(* dispatcher's hands.  Two theorems rest on them: only a run whose        *)
(* consumer returned publishes, and, with started markers on and a queue   *)
(* that acknowledges the hand-offs it accepts, nothing is sent twice.      *)
(***************************************************************************)
EXTENDS OutboxProofs

\* The tokens that left the dispatcher.
Carried == {j.t : j \in jobs} \cup {exec[w].t : w \in Workers} \cup {row[e].started : e \in Events}

\* A hand-off's token is nowhere else: no job, no execution, no marker and no
\* other hand-off carries it.
HandOffInv ==
  \A d \in Dispatchers :
    \A c \in cycle[d].claims :
      /\ c.t \notin Carried
      /\ \A x \in Dispatchers : \A b \in cycle[x].claims : b.t = c.t => x = d /\ b = c

\* The control state of an execution; an execution begun before the last
\* replay does not own its event.
ExecInv ==
  \A w \in Workers :
    LET x == exec[w] IN
    IF x.pc = "idle" THEN x.e = None /\ x.t = None /\ ~x.started
    ELSE /\ x.e \in Events /\ x.t \in Tokens
         /\ x.gen <= hist[x.e].gen
         /\ x.gen < hist[x.e].gen => row[x.e].claim # x.t
         /\ x.started => x.pc \in {"block", "after", "outcome"}
         /\ Markers /\ x.pc \in {"block", "after"} => x.started
         /\ x.pc \in {"running", "block", "after"} => x.result = "none"
         /\ x.result = "attested" => ~x.sent

-----------------------------------------------------------------------------
(* What the claim transaction does to each row *)

ClaimEffect(d, taken, f) ==
  /\ \A a, b \in taken : f[a] = f[b] => a = b
  /\ \A e \in taken : /\ row[e].status = "pending"
                      /\ ~(row[e].claim # None /\ MarkedBy(row[e], row[e].claim))
                      /\ row'[e].claim = f[e] /\ row'[e].started = row[e].started
                      /\ row'[e].status = "pending"
  /\ \A e \in Events \ taken : row'[e] = row[e] \/ row'[e] = DeadLetter(row[e])
  /\ cycle' = [cycle EXCEPT ![d] =
       IF taken = {} THEN IdleCycle
       ELSE [IdleCycle EXCEPT !.pc = "handing",
               !.claims = {[e |-> e, t |-> f[e]] : e \in taken}]]

\* A claimed row gets a token nobody carries and every due row that is not
\* claimed but touched is dead-lettered.
LEMMA ClaimedRows ==
  ASSUME TypeOK, NEW d \in Dispatchers, ClaimDueEvents(d)
  PROVE  \E taken \in SUBSET Events : \E f \in [taken -> Tokens \ UsedTokens] :
           ClaimEffect(d, taken, f)
  <1>1. PICK S \in SUBSET DueEvents(cycle[d].tenants) :
          LET taken == {e \in S : ClaimRow(row[e], None).status = "pending"} IN
          \E f \in [taken -> Tokens \ UsedTokens] :
            /\ \A a, b \in taken : f[a] = f[b] => a = b
            /\ row' = [e \in Events |-> CASE e \in taken -> ClaimRow(row[e], f[e])
                                          [] e \in S \ taken -> ClaimRow(row[e], None)
                                          [] OTHER -> row[e]]
            /\ cycle' = [cycle EXCEPT ![d] =
                 IF taken = {} THEN IdleCycle
                 ELSE [IdleCycle EXCEPT !.pc = "handing",
                         !.claims = {[e |-> e, t |-> f[e]] : e \in taken}]]
    BY Zenon DEF ClaimDueEvents
  <1> DEFINE taken == {e \in S : ClaimRow(row[e], None).status = "pending"}
  <1>2. PICK f \in [taken -> Tokens \ UsedTokens] :
            /\ \A a, b \in taken : f[a] = f[b] => a = b
            /\ row' = [e \in Events |-> CASE e \in taken -> ClaimRow(row[e], f[e])
                                          [] e \in S \ taken -> ClaimRow(row[e], None)
                                          [] OTHER -> row[e]]
            /\ cycle' = [cycle EXCEPT ![d] =
                 IF taken = {} THEN IdleCycle
                 ELSE [IdleCycle EXCEPT !.pc = "handing",
                         !.claims = {[e |-> e, t |-> f[e]] : e \in taken}]]
    BY Zenon, <1>1
  <1>3. S \subseteq Events /\ \A e \in S : row[e].status = "pending" /\ row[e] \in Row
    BY DEF DueEvents, TypeOK
  <1>4. \A e \in S : ClaimRow(row[e], None).status = "pending" =>
          /\ ~(row[e].claim # None /\ MarkedBy(row[e], row[e].claim))
          /\ \A t : /\ ClaimRow(row[e], t).claim = t
                    /\ ClaimRow(row[e], t).started = row[e].started
                    /\ ClaimRow(row[e], t).status = "pending"
    BY <1>3 DEF ClaimRow, DeadLetter, Row
  <1>5. \A e \in S : ClaimRow(row[e], None).status # "pending" =>
          ClaimRow(row[e], None) = DeadLetter(row[e])
    BY <1>3 DEF ClaimRow, Row
  <1>6. /\ taken \subseteq Events
        /\ \A e \in taken : e \in S /\ ClaimRow(row[e], None).status = "pending"
        /\ \A e \in S \ taken : ClaimRow(row[e], None).status # "pending"
    BY <1>3
  <1> HIDE DEF taken
  <1>7. \A e \in taken : row'[e] = ClaimRow(row[e], f[e])
    BY <1>2, <1>6
  <1>8. \A e \in Events \ taken : row'[e] = row[e] \/ row'[e] = DeadLetter(row[e])
    <2> SUFFICES ASSUME NEW e \in Events \ taken
                 PROVE  row'[e] = row[e] \/ row'[e] = DeadLetter(row[e])
      OBVIOUS
    <2>1. CASE e \in S
      BY <2>1, <1>2, <1>5, <1>6
    <2>2. CASE e \notin S
      BY <2>2, <1>2
    <2> QED
      BY <2>1, <2>2
  <1>9. \A e \in taken : /\ row[e].status = "pending"
                         /\ ~(row[e].claim # None /\ MarkedBy(row[e], row[e].claim))
                         /\ row'[e].claim = f[e] /\ row'[e].started = row[e].started
                         /\ row'[e].status = "pending"
    <2> TAKE e \in taken
    <2>1. e \in S /\ ClaimRow(row[e], None).status = "pending" /\ row[e].status = "pending"
      BY <1>3, <1>6
    <2>2. ~(row[e].claim # None /\ MarkedBy(row[e], row[e].claim))
      BY <1>4, <2>1
    <2>3. /\ ClaimRow(row[e], f[e]).claim = f[e]
          /\ ClaimRow(row[e], f[e]).started = row[e].started
          /\ ClaimRow(row[e], f[e]).status = "pending"
      BY <1>4, <2>1
    <2> QED
      BY <2>1, <2>2, <2>3, <1>7
  <1>10. taken \in SUBSET Events /\ f \in [taken -> Tokens \ UsedTokens]
    BY <1>2, <1>6
  <1>11. ClaimEffect(d, taken, f)
    BY SMTT(30), <1>2, <1>8, <1>9 DEF ClaimEffect
  <1> QED
    BY <1>10, <1>11

\* What RecordFailure does to a row, and that it always gives the claim up.
LEMMA RecordFailureRows ==
  ASSUME TypeOK, NEW v \in Workers, RecordFailure(v)
  PROVE  \A a \in Events : \/ row'[a] = row[a]
                           \/ /\ exec[v].e = a /\ Owned(row[a], exec[v].t)
                              /\ \E delay \in Delays(row[a], exec[v].result) :
                                   row'[a] = RecordOutcome(exec[v], row[a], window[a], delay)
  <1> TAKE a \in Events
  <1>1. CASE exec[v].e = a /\ Owned(row[a], exec[v].t)
    BY Zenon, <1>1 DEF RecordFailure, TypeOK
  <1>2. CASE exec[v].e # a \/ ~Owned(row[a], exec[v].t)
    BY Zenon, <1>2 DEF RecordFailure, TypeOK
  <1> QED
    BY <1>1, <1>2

\* Whatever outcome is recorded, the row is no longer claimed.
LEMMA RecordedClaim ==
  ASSUME NEW r \in Row, NEW x \in Exec, NEW delay \in Nat, NEW left \in Nat
  PROVE  RecordOutcome(x, r, left, delay).claim = None
  <1>1. DeadLetter(r).claim = None /\ Retry(r, delay).claim = None
    BY DEF DeadLetter, Retry, Row
  <1>2. \A b \in BOOLEAN : /\ FailEvent(r, x.t, b, delay).claim = None
                          /\ RecordConfirmedNotSent(r, x.t, b, delay).claim = None
    BY <1>1 DEF FailEvent, RecordConfirmedNotSent, OrdinaryFailure
  <1>3. \A p : RecordAmbiguousOutcome(r, x.t, p, left, delay).claim = None
    <2> TAKE p
    <2> DEFINE again == /\ r.attempts < MaxAttempts
                        /\ \/ p = "at_least_once"
                           \/ p = "retry_within" /\ ~MarkedBy(r, x.t) /\ delay < left
               tagged == r.tagged \/ (p = "retry_within" /\ ~MarkedBy(r, x.t))
               base == IF again THEN Retry(r, delay) ELSE DeadLetter(r)
    <2>1. base.claim = None /\ base \in Row
      BY Zenon, <1>1, RowTransitions
    <2> HIDE DEF base, tagged
    <2>2. [base EXCEPT !.tagged = tagged].claim = None
      BY <2>1 DEF Row
    <2> QED
      BY <2>2 DEF RecordAmbiguousOutcome, base, tagged
  <1> QED
    BY Zenon, <1>2, <1>3 DEF RecordOutcome

-----------------------------------------------------------------------------
(* Executions *)

\* Every step keeps what an execution knows of its event and its token.
LEMMA ExecStep == TypeOK /\ ExecInv /\ [Next]_vars => ExecInv'
  <1> DEFINE At(x, r, h) ==
        IF x.pc = "idle" THEN x.e = None /\ x.t = None /\ ~x.started
        ELSE /\ x.e \in Events /\ x.t \in Tokens
             /\ x.gen <= h[x.e].gen
             /\ x.gen < h[x.e].gen => r[x.e].claim # x.t
             /\ x.started => x.pc \in {"block", "after", "outcome"}
             /\ Markers /\ x.pc \in {"block", "after"} => x.started
             /\ x.pc \in {"running", "block", "after"} => x.result = "none"
             /\ x.result = "attested" => ~x.sent
  <1> SUFFICES ASSUME TypeOK, ExecInv, [Next]_vars, NEW w \in Workers
               PROVE  At(exec'[w], row', hist')
    BY DEF ExecInv
  <1>0. At(exec[w], row, hist) /\ exec[w] \in Exec /\ None \notin Tokens
    BY OutboxAssumption DEF ExecInv, TypeOK
  <1>i. \A r, h : At(IdleExec, r, h)
    BY DEF IdleExec
  \* Enough: w unchanged, its event's generation only grows, and its claim is
  \* not given to it again.
  <1>a. ASSUME exec'[w] = exec[w],
               exec[w].pc # "idle" =>
                 /\ hist'[exec[w].e].gen = hist[exec[w].e].gen
                 /\ row'[exec[w].e].claim \in {row[exec[w].e].claim, None}
        PROVE  At(exec'[w], row', hist')
    BY <1>a, <1>0
  <1> HIDE DEF At
  <1>1. ASSUME NEW e \in Events, Append(e) \/ DeleteAggregateEvents(e) PROVE At(exec'[w], row', hist')
    <2>1. \A a \in Events : row'[a].claim \in {row[a].claim, None}
      BY <1>1 DEF Append, DeleteAggregateEvents, NewRow, TypeOK
    <2> QED
      BY <1>1, <2>1, <1>0, <1>a DEF Append, DeleteAggregateEvents, At
  <1>2. ASSUME NEW e \in Events, Replay(e) PROVE At(exec'[w], row', hist')
    <2>1. \A a \in Events : a # e => row'[a] = row[a] /\ hist'[a] = hist[a]
      BY <1>2 DEF Replay, TypeOK
    <2>2. row'[e].claim = None /\ hist'[e].gen = hist[e].gen + 1 /\ hist[e].gen \in Nat
      BY <1>2 DEF Replay, ReplayRow, NewHist, TypeOK, Row, Hist
    <2>3. exec'[w] = exec[w] /\ exec[w].gen \in Nat
      BY <1>2, <1>0 DEF Replay, Exec
    <2> QED
      BY <2>1, <2>2, <2>3, <1>0 DEF At
  <1>3. ASSUME NEW tn \in Tenants, CloseTenant(tn) \/ PurgeTenantOutboxEvents(tn)
        PROVE  At(exec'[w], row', hist')
    <2>1. \A a \in Events : row'[a].claim \in {row[a].claim, None}
      BY <1>3 DEF CloseTenant, PurgeTenantOutboxEvents, NewRow, TypeOK
    <2> QED
      BY <1>3, <2>1, <1>0, <1>a DEF CloseTenant, PurgeTenantOutboxEvents, At
  <1>4. ASSUME NEW d \in Dispatchers, Dispatch(d) PROVE At(exec'[w], row', hist')
    <2>0. exec' = exec /\ hist' = hist
      BY Zenon, <1>4
         DEF Dispatch, ListOpenTenants, ClaimDueEvents, HandOff, HandOffRaises, GiveBack,
                  DispatcherCrash
    <2>1. CASE ClaimDueEvents(d)
      <3>1. \A a \in Events : row'[a].claim \in {row[a].claim, None} \cup (Tokens \ UsedTokens)
        <4>1. \A a \in Events : DeadLetter(row[a]).claim = None
          BY DEF TypeOK, DeadLetter, Row
        <4>t. PICK taken \in SUBSET Events :
                \E f \in [taken -> Tokens \ UsedTokens] : ClaimEffect(d, taken, f)
          BY <2>1, ClaimedRows
        <4>2. PICK f \in [taken -> Tokens \ UsedTokens] : ClaimEffect(d, taken, f)
          BY <4>t
        <4>3. \A a \in taken : row'[a].claim \in Tokens \ UsedTokens
          BY <4>2 DEF ClaimEffect
        <4>4. \A a \in Events \ taken : row'[a].claim \in {row[a].claim, None}
          BY <4>1, <4>2 DEF ClaimEffect
        <4> QED
          BY <4>3, <4>4
      <3>2. exec[w].t \in UsedTokens
        BY DEF UsedTokens
      <3> QED
        BY <2>0, <3>1, <3>2, <1>0 DEF At
    <2>2. CASE ~ClaimDueEvents(d)
      <3>1. \A a \in Events : row'[a].claim \in {row[a].claim, None}
        <4>1. CASE GiveBack(d)
          <5>1. \A a \in Events : row'[a] = row[a] \/ row'[a] = ReleaseClaim(row[a])
            BY <4>1 DEF GiveBack, TypeOK
          <5>2. \A a \in Events : ReleaseClaim(row[a]).claim = None
            BY DEF ReleaseClaim, TypeOK, Row
          <5> QED
            BY <5>1, <5>2
        <4>2. CASE row' = row
          BY <4>2
        <4> QED
          BY <1>4, <2>2, <4>1, <4>2
             DEF Dispatch, ListOpenTenants, HandOff, HandOffRaises, DispatcherCrash
      <3> QED
        BY <2>0, <3>1, <1>0, <1>a DEF At
    <2> QED
      BY <2>1, <2>2
  <1>5. ASSUME NEW j \in jobs, BeginRaises(j) PROVE At(exec'[w], row', hist')
    BY <1>5, <1>0, <1>a DEF BeginRaises, At
  <1>6. ASSUME NEW v \in Workers, Run(v) PROVE At(exec'[w], row', hist')
    <2> DEFINE x == exec[v]
    <2>0. x \in Exec /\ (x.pc # "idle" => x.e \in Events /\ x.t \in Tokens)
      BY DEF TypeOK
    <2>a. \A a \in Events : row'[a].claim \in {row[a].claim, None}
      <3>1. ASSUME NEW j \in jobs, Begin(v, j) PROVE \A a \in Events : row'[a].claim \in {row[a].claim, None}
        <4>1. j.e \in Events => BeginRow(j.e, j.t).claim \in {row[j.e].claim, None}
          BY DEF BeginRow, DeadLetter, TypeOK, Row
        <4> QED
          BY <3>1, <4>1 DEF Begin, TypeOK
      <3>2. CASE EnterEffect(v) \/ EnterEffectAckLost(v)
        <4>1. \/ row' = row
              \/ row' = [row EXCEPT ![x.e] = [row[x.e] EXCEPT !.started = x.t, !.due = Lease]]
          BY Zenon, <3>2 DEF EnterEffect, EnterEffectAckLost, TypeOK
        <4>2. \A a \in Events : \/ row'[a] = row[a]
                               \/ row'[a] = [row[a] EXCEPT !.started = x.t, !.due = Lease]
          BY Zenon, <4>1 DEF TypeOK
        <4>3. \A a \in Events : [row[a] EXCEPT !.started = x.t, !.due = Lease].claim = row[a].claim
          BY DEF TypeOK, Row
        <4> QED
          BY Zenon, <4>2, <4>3
      <3>3. CASE Complete(v) \/ CompleteRaises(v)
        <4>1. \A a \in Events : row'[a] = row[a] \/ row'[a] = CompleteEvent(row[a])
          BY <3>3 DEF Complete, CompleteRaises, TypeOK
        <4>2. \A a \in Events : CompleteEvent(row[a]).claim = None
          BY DEF CompleteEvent, TypeOK, Row
        <4> QED
          BY <4>1, <4>2
      <3>4. CASE RecordFailure(v)
        <4>1. \A a \in Events : \/ row'[a] = row[a]
                               \/ \E delay \in Delays(row[a], x.result) :
                                    row'[a] = RecordOutcome(x, row[a], window[a], delay)
          BY <3>4, RecordFailureRows
        <4>2. \A a \in Events : \A delay \in Nat :
                RecordOutcome(x, row[a], window[a], delay).claim = None
          <5> TAKE a \in Events, delay \in Nat
          <5>1. row[a] \in Row /\ window[a] \in Nat
            BY DEF TypeOK
          <5> QED
            BY <5>1, <2>0, RecordedClaim
        <4> QED
          BY <4>1, <4>2, DelaysType
      <3>5. CASE row' = row
        BY <3>5
      <3> QED
        BY Zenon, <1>6, <3>1, <3>2, <3>3, <3>4, <3>5
           DEF Run, Send, LeaveBlock, Finish, Timeout, OutcomeUnrecorded, WorkerCrash, Redeliver
    <2>b. \A a \in Events : hist'[a].gen = hist[a].gen
      <3>1. ASSUME NEW j \in jobs, Begin(v, j) PROVE \A a \in Events : hist'[a].gen = hist[a].gen
        <4>1. \A a \in Events : hist'[a] = hist[a] \/ hist'[a] = CountRun(hist[a], j.t)
          BY <3>1 DEF Begin, TypeOK
        <4>2. \A a \in Events : CountRun(hist[a], j.t).gen = hist[a].gen
          BY DEF CountRun, TypeOK, Hist
        <4> QED
          BY <4>1, <4>2
      <3>2. CASE Send(v) \/ Timeout(v)
        BY SMTT(40), <3>2 DEF Send, Timeout, CountSend, TypeOK, Hist
      <3>3. ASSUME NEW result \in Outcomes, Finish(v, result)
            PROVE  \A a \in Events : hist'[a].gen = hist[a].gen
        BY <3>3 DEF Finish, TypeOK, Hist
      <3>4. CASE RecordFailure(v)
        <4>1. \/ hist' = hist
              \/ \E l, a : hist' = [hist EXCEPT ![x.e].licensed = l, ![x.e].window = a]
          BY Zenon, <3>4 DEF RecordFailure
        <4>2. CASE \E l, a : hist' = [hist EXCEPT ![x.e].licensed = l, ![x.e].window = a]
          <5>1. PICK l, m : hist' = [hist EXCEPT ![x.e].licensed = l, ![x.e].window = m]
            BY Zenon, <4>2
          <5>2. hist' = [hist EXCEPT ![x.e] = [hist[x.e] EXCEPT !.licensed = l, !.window = m]]
            BY Zenon, <5>1 DEF TypeOK
          <5>3. \A a \in Events : [hist[a] EXCEPT !.licensed = l, !.window = m].gen = hist[a].gen
            BY DEF TypeOK, Hist
          <5> QED
            BY <5>2, <5>3 DEF TypeOK
        <4> QED
          BY Zenon, <4>1, <4>2
      <3>5. CASE hist' = hist
        BY <3>5
      <3> QED
        BY Zenon, <1>6, <3>1, <3>2, <3>3, <3>4, <3>5
           DEF Run, EnterEffect, EnterEffectAckLost, LeaveBlock, Complete, CompleteRaises,
               OutcomeUnrecorded, WorkerCrash, Redeliver
    <2>c. exec' \in [Workers -> Exec]
      BY TypeStep DEF TypeOK
    <2>1. CASE w # v
      <3>1. exec'[w] = exec[w]
        BY ZenonT(40), <1>6, <2>1
           DEF Run, Begin, EnterEffect, EnterEffectAckLost, Send, LeaveBlock, Finish,
             Timeout, Complete, CompleteRaises, RecordFailure, OutcomeUnrecorded, WorkerCrash,
             Redeliver, TypeOK
      <3> QED
        BY <3>1, <2>a, <2>b, <1>0, <1>a DEF At
    <2>2. CASE w = v
      <3>a. ASSUME NEW y, exec'[v] = y, x.pc # "idle", y.pc # "idle",
                   y.e = x.e, y.t = x.t, y.gen = x.gen,
                   y.started => y.pc \in {"block", "after", "outcome"},
                   Markers /\ y.pc \in {"block", "after"} => y.started,
                   y.pc \in {"running", "block", "after"} => y.result = "none",
                   y.result = "attested" => ~y.sent
            PROVE  At(exec'[v], row', hist')
        BY SMTT(40), <3>a, <2>0, <2>2, <2>a, <2>b, <1>0 DEF At
      <3>1. CASE exec'[v] = IdleExec
        BY <2>2, <3>1, <1>i
      <3>2. ASSUME NEW j \in jobs, Begin(v, j), exec'[v] # IdleExec PROVE At(exec'[v], row', hist')
        <4>1. CASE MayRun(j.e, j.t)
          <5>1. j.e \in Events /\ j.t \in Tokens
            BY DEF TypeOK, Job
          <5>2. exec'[v] = [IdleExec EXCEPT !.pc = "running", !.e = j.e, !.t = j.t,
                              !.tries = j.tries - 1, !.ttl = ConsumerTimeout, !.gen = hist[j.e].gen]
            BY <3>2, <4>1 DEF Begin, TypeOK
          <5>3. hist[j.e].gen \in Nat
            BY <5>1 DEF TypeOK, Hist
          <5> QED
            BY <5>1, <5>2, <5>3, <2>b DEF At, IdleExec
        <4>2. CASE ~MayRun(j.e, j.t)
          BY <3>2, <4>2, <2>2, <2>a, <2>b, <1>0, <1>a DEF Begin, At
        <4> QED
          BY <4>1, <4>2
      <3>3. CASE EnterEffect(v) \/ EnterEffectAckLost(v)
        <4>1. \/ exec'[v] = [x EXCEPT !.pc = "block"] /\ ~Markers
              \/ exec'[v] = [x EXCEPT !.pc = "block", !.started = TRUE]
              \/ exec'[v] = [x EXCEPT !.pc = "outcome", !.result = "other", !.ttl = 0]
              \/ exec'[v] = IdleExec
          BY Zenon, <3>3 DEF EnterEffect, EnterEffectAckLost, TypeOK
        <4>2. x.pc = "running"
          BY <3>3 DEF EnterEffect, EnterEffectAckLost
        <4>3. x.result = "none" /\ ~x.started
          BY <4>2, <2>2, <1>0 DEF At
        <4>4. CASE exec'[v] = [x EXCEPT !.pc = "block"] /\ ~Markers
          BY <4>2, <4>3, <4>4, <2>0, <2>2, <3>a DEF Exec
        <4>5. CASE exec'[v] = [x EXCEPT !.pc = "block", !.started = TRUE]
          BY ZenonT(60), <4>2, <4>3, <4>5, <2>0, <2>2, <3>a DEF Exec
        <4>6. CASE exec'[v] = [x EXCEPT !.pc = "outcome", !.result = "other", !.ttl = 0]
          BY Zenon, <4>2, <4>3, <4>6, <2>0, <2>2, <3>a DEF Exec
        <4> QED
          BY <4>1, <4>4, <4>5, <4>6, <3>1
      <3>4. CASE Send(v) \/ LeaveBlock(v) \/ Redeliver(v)
        <4>1. \/ exec'[v] = [x EXCEPT !.sent = TRUE] /\ x.pc = "block"
              \/ exec'[v] = [x EXCEPT !.pc = "after"] /\ x.pc = "block"
              \/ exec'[v] = [x EXCEPT !.tries = 0] /\ x.pc # "idle"
          BY Zenon, <3>4 DEF Send, LeaveBlock, Redeliver, TypeOK
        <4> QED
          BY <4>1, <2>0, <2>2, <2>a, <2>b, <1>0 DEF At, Exec
      <3>5. ASSUME NEW result \in Outcomes, Finish(v, result) PROVE At(exec'[v], row', hist')
        <4>1. /\ exec'[v] = [x EXCEPT !.pc = "outcome", !.result = result, !.ttl = 0]
              /\ x.pc \in {"running", "block", "after"}
              /\ result = "attested" => ~x.sent
          BY <3>5 DEF Finish, InConsumer, TypeOK
        <4> QED
          BY <4>1, <2>0, <2>2, <2>a, <2>b, <1>0 DEF At, Exec
      <3>6. CASE Timeout(v)
        <4>1. /\ exec'[v] = [x EXCEPT !.pc = "outcome", !.result = "timeout"]
              /\ x.pc \in {"running", "block", "after"}
          BY <3>6 DEF Timeout, InConsumer, TypeOK
        <4>2. x.started => x.pc \in {"block", "after", "outcome"}
          BY <2>2, <1>0, <4>1 DEF At
        <4> QED
          BY ZenonT(60), <4>1, <4>2, <2>0, <2>2, <3>a DEF Exec
      <3>7. CASE Complete(v) \/ CompleteRaises(v) \/ RecordFailure(v) \/ OutcomeUnrecorded(v)
                   \/ WorkerCrash(v)
        BY Zenon, <3>7, <3>1
           DEF Complete, CompleteRaises, RecordFailure, OutcomeUnrecorded, WorkerCrash,
                          TypeOK
      <3> QED
        BY <1>6, <2>2, <3>1, <3>2, <3>3, <3>4, <3>5, <3>6, <3>7 DEF Run
    <2> QED
      BY <2>1, <2>2
  <1>7. CASE Tick
    <2>1. exec'[w] = [exec[w] EXCEPT !.ttl = Left(@)]
      BY <1>7 DEF Tick
    <2>2. \A a \in Events : row'[a].claim = row[a].claim
      BY <1>7 DEF Tick, TypeOK, Row
    <2>3. hist' = hist
      BY <1>7 DEF Tick
    <2> QED
      BY <2>1, <2>2, <2>3, <1>0 DEF At, Exec
  <1>8. CASE UNCHANGED vars
    BY <1>8, <1>0 DEF vars
  <1> QED
    BY <1>1, <1>2, <1>3, <1>4, <1>5, <1>6, <1>7, <1>8 DEF Next

-----------------------------------------------------------------------------
(* Hand-offs *)

\* Enough for most steps: hand-offs only go away and no new token is carried.
LEMMA HandOffFrame ==
  ASSUME TypeOK, HandOffInv,
         \A d \in Dispatchers : cycle'[d].claims \subseteq cycle[d].claims,
         Carried' \subseteq Carried \cup {None}
  PROVE  HandOffInv'
  <1>1. \A d \in Dispatchers : \A c \in cycle[d].claims : c.t # None
    BY OutboxAssumption DEF TypeOK, Cycle, Claim
  <1> QED
    BY <1>1 DEF HandOffInv

\* No new token is carried if jobs, executions and markers get none.
LEMMA CarriedFrame ==
  ASSUME \A j \in jobs' : j.t \in Carried,
         \A w \in Workers : exec'[w].t \in Carried \cup {None},
         \A e \in Events : row'[e].started \in Carried \cup {None}
  PROVE  Carried' \subseteq Carried \cup {None}
  BY DEF Carried

\* The tokens of jobs, executions and markers are the ones carried.
LEMMA CarriedHolds ==
  /\ \A j \in jobs : j.t \in Carried
  /\ \A w \in Workers : exec[w].t \in Carried
  /\ \A e \in Events : row[e].started \in Carried
  BY DEF Carried

\* Whatever outcome is recorded, the row keeps its marker or loses it.
LEMMA RecordedMarker ==
  ASSUME NEW r \in Row, NEW x \in Exec, NEW delay \in Nat, NEW left \in Nat
  PROVE  RecordOutcome(x, r, left, delay).started \in {r.started, None}
  <1>1. DeadLetter(r).started = r.started /\ Retry(r, delay).started = None
    BY DEF DeadLetter, Retry, Row
  <1>2. \A b \in BOOLEAN : /\ FailEvent(r, x.t, b, delay).started \in {r.started, None}
                          /\ RecordConfirmedNotSent(r, x.t, b, delay).started \in {r.started, None}
    BY <1>1 DEF FailEvent, RecordConfirmedNotSent, OrdinaryFailure
  <1>3. \A p : RecordAmbiguousOutcome(r, x.t, p, left, delay).started \in {r.started, None}
    <2> TAKE p
    <2> DEFINE again == /\ r.attempts < MaxAttempts
                        /\ \/ p = "at_least_once"
                           \/ p = "retry_within" /\ ~MarkedBy(r, x.t) /\ delay < left
               tagged == r.tagged \/ (p = "retry_within" /\ ~MarkedBy(r, x.t))
               base == IF again THEN Retry(r, delay) ELSE DeadLetter(r)
    <2>1. base.started \in {r.started, None} /\ base \in Row
      BY Zenon, <1>1, RowTransitions
    <2> HIDE DEF base, tagged
    <2>2. [base EXCEPT !.tagged = tagged].started \in {r.started, None}
      BY <2>1 DEF Row
    <2> QED
      BY <2>2 DEF RecordAmbiguousOutcome, base, tagged
  <1> QED
    BY Zenon, <1>2, <1>3 DEF RecordOutcome

\* Without lost acknowledgements no step carries a token the dispatcher still hands off.
LEMMA HandOffStep == ~LostAcks /\ TypeOK /\ HandOffInv /\ [Next]_vars => HandOffInv'
  <1> SUFFICES ASSUME ~LostAcks, TypeOK, HandOffInv, [Next]_vars PROVE HandOffInv'
    OBVIOUS
  <1> USE CarriedHolds
  <1>f. ASSUME \A d \in Dispatchers : cycle'[d].claims \subseteq cycle[d].claims,
               \A j \in jobs' : j.t \in Carried,
               \A w \in Workers : exec'[w].t \in Carried \cup {None},
               \A e \in Events : row'[e].started \in Carried \cup {None}
        PROVE  HandOffInv'
    BY <1>f, HandOffFrame, CarriedFrame
  <1>1. ASSUME NEW e \in Events, Append(e) \/ DeleteAggregateEvents(e) \/ Replay(e)
        PROVE  HandOffInv'
    <2>1. \A a \in Events : row'[a].started \in {row[a].started, None}
      <3>1. CASE Replay(e)
        <4>1. \A a \in Events : row'[a] = row[a] \/ row'[a] = ReplayRow(row[a])
          BY <3>1 DEF Replay, TypeOK
        <4>2. \A a \in Events : ReplayRow(row[a]).started = None
          BY DEF ReplayRow, TypeOK, Row
        <4> QED
          BY <4>1, <4>2
      <3>2. CASE Append(e) \/ DeleteAggregateEvents(e)
        BY <3>2 DEF Append, DeleteAggregateEvents, NewRow, TypeOK
      <3> QED
        BY <1>1, <3>1, <3>2
    <2> QED
      BY <1>1, <2>1, <1>f DEF Append, DeleteAggregateEvents, Replay
  <1>2. ASSUME NEW tn \in Tenants, CloseTenant(tn) \/ PurgeTenantOutboxEvents(tn)
        PROVE  HandOffInv'
    <2>1. \A a \in Events : row'[a].started \in {row[a].started, None}
      BY <1>2 DEF CloseTenant, PurgeTenantOutboxEvents, NewRow, TypeOK
    <2> QED
      BY <1>2, <2>1, <1>f DEF CloseTenant, PurgeTenantOutboxEvents
  <1>3. ASSUME NEW d \in Dispatchers, Dispatch(d) PROVE HandOffInv'
    <2>1. CASE ListOpenTenants(d) \/ DispatcherCrash(d)
      <3>1. \A x \in Dispatchers : cycle'[x].claims \subseteq cycle[x].claims
        <4>1. \A x \in Dispatchers : x # d => cycle'[x] = cycle[x]
          BY <2>1 DEF ListOpenTenants, DispatcherCrash, TypeOK
        <4>2. cycle'[d].claims = {}
          <5>1. CASE ListOpenTenants(d)
            BY <5>1 DEF ListOpenTenants, IdleCycle, TypeOK
          <5>2. CASE DispatcherCrash(d)
            BY <5>2 DEF DispatcherCrash, IdleCycle, TypeOK
          <5> QED
            BY <2>1, <5>1, <5>2
        <4> QED
          BY <4>1, <4>2
      <3> QED
        BY <2>1, <3>1, <1>f DEF ListOpenTenants, DispatcherCrash
    <2>2. CASE HandOffRaises(d)
      <3>1. \A x \in Dispatchers : cycle'[x].claims = cycle[x].claims
        BY <2>2 DEF HandOffRaises, TypeOK, Cycle
      <3>2. jobs' = jobs
        BY <2>2 DEF HandOffRaises
      <3> QED
        BY Zenon, <2>2, <3>1, <3>2, <1>f DEF HandOffRaises
    <2>3. CASE GiveBack(d)
      <3>1. \A x \in Dispatchers : cycle'[x].claims \subseteq cycle[x].claims
        BY <2>3 DEF GiveBack, NextClaim, IdleCycle, TypeOK
      <3>2. \A a \in Events : row'[a] = row[a] \/ row'[a] = ReleaseClaim(row[a])
        BY <2>3 DEF GiveBack, TypeOK
      <3>3. \A a \in Events : ReleaseClaim(row[a]).started = None
        BY DEF ReleaseClaim, TypeOK, Row
      <3> QED
        BY <2>3, <3>1, <3>2, <3>3, <1>f DEF GiveBack
    <2>4. CASE HandOff(d)
      <3>1. PICK c \in cycle[d].claims :
              /\ jobs' = jobs \cup {[e |-> c.e, t |-> c.t, tries |-> MaxTries]}
              /\ NextClaim(d, c)
        BY <2>4 DEF HandOff
      <3>2. /\ \A x \in Dispatchers : cycle'[x].claims \subseteq cycle[x].claims
            /\ c \notin cycle'[d].claims
        BY <3>1 DEF NextClaim, IdleCycle, TypeOK
      <3>3. Carried' \subseteq Carried \cup {c.t}
        BY <2>4, <3>1 DEF Carried, HandOff
      <3>4. \A x \in Dispatchers : \A b \in cycle'[x].claims : b.t # c.t
        BY <3>2 DEF HandOffInv
      <3> QED
        BY <3>2, <3>3, <3>4 DEF HandOffInv
    <2>5. CASE ClaimDueEvents(d)
      <3>1. PICK taken \in SUBSET Events :
              \E f \in [taken -> Tokens \ UsedTokens] : ClaimEffect(d, taken, f)
        BY <2>5, ClaimedRows
      <3>2. PICK f \in [taken -> Tokens \ UsedTokens] : ClaimEffect(d, taken, f)
        BY <3>1
      <3>3. \A a \in Events : row'[a].started = row[a].started
        <4>1. \A a \in Events : DeadLetter(row[a]).started = row[a].started
          BY DEF DeadLetter, TypeOK, Row
        <4> QED
          BY <3>2, <4>1 DEF ClaimEffect
      <3>4. Carried' = Carried
        BY <2>5, <3>3 DEF Carried, ClaimDueEvents
      <3>5. Carried \subseteq UsedTokens
        BY DEF Carried, UsedTokens
      <3>6. \A x \in Dispatchers : \A b \in cycle[x].claims : b.t \in UsedTokens
        BY DEF UsedTokens
      <3>7. \A x \in Dispatchers : x # d => cycle'[x] = cycle[x]
        BY <3>2 DEF ClaimEffect, TypeOK
      <3>8. \A c \in cycle'[d].claims : \E e \in taken : c = [e |-> e, t |-> f[e]]
        BY <3>2 DEF ClaimEffect, TypeOK, IdleCycle
      <3>9. \A c \in cycle'[d].claims :
              /\ c.t \notin UsedTokens
              /\ \A b \in cycle'[d].claims : b.t = c.t => b = c
        BY <3>2, <3>8 DEF ClaimEffect
      <3> QED
        BY <3>4, <3>5, <3>6, <3>7, <3>9 DEF HandOffInv
    <2> QED
      BY <1>3, <2>1, <2>2, <2>3, <2>4, <2>5 DEF Dispatch
  <1>4. ASSUME NEW j \in jobs, BeginRaises(j) PROVE HandOffInv'
    <2>1. \A i \in jobs' : i.t \in Carried
      BY <1>4 DEF BeginRaises, TypeOK, Job
    <2> QED
      BY <1>4, <2>1, <1>f DEF BeginRaises
  <1>5. ASSUME NEW v \in Workers, Run(v) PROVE HandOffInv'
    <2> DEFINE x == exec[v]
    <2>0. x \in Exec /\ cycle' = cycle
      BY Zenon, <1>5
         DEF TypeOK, Run, Begin, EnterEffect, EnterEffectAckLost, Send, LeaveBlock, Finish,
             Timeout, Complete, CompleteRaises, RecordFailure, OutcomeUnrecorded, WorkerCrash, Redeliver
    <2>1. \A j \in jobs' : j.t \in Carried
      <3>1. jobs' \subseteq jobs \/ jobs' = Requeued(x)
        BY Zenon, <1>5 DEF Run, Begin, EnterEffect, EnterEffectAckLost, Send, LeaveBlock, Finish,
             Timeout, Complete, CompleteRaises, RecordFailure, OutcomeUnrecorded, WorkerCrash,
             Redeliver
      <3>2. \A j \in Requeued(x) : j \in jobs \/ j.t = x.t
        BY DEF Requeued
      <3> QED
        BY <3>1, <3>2
    <2>2. \A w \in Workers : exec'[w].t \in Carried \cup {None}
      <3>1. ASSUME NEW j \in jobs, Begin(v, j)
            PROVE  \A w \in Workers : exec'[w].t \in Carried \cup {None}
        <4>1. \A w \in Workers :
                exec'[w] = exec[w] \/ exec'[w] = [IdleExec EXCEPT !.pc = "running", !.e = j.e, !.t = j.t,
                     !.tries = j.tries - 1, !.ttl = ConsumerTimeout, !.gen = hist[j.e].gen]
          BY <3>1 DEF Begin, TypeOK
        <4>2. [IdleExec EXCEPT !.pc = "running", !.e = j.e, !.t = j.t, !.tries = j.tries - 1,
                 !.ttl = ConsumerTimeout, !.gen = hist[j.e].gen].t = j.t
          BY DEF IdleExec
        <4> QED
          BY Zenon, <4>1, <4>2
      <3>2. CASE ~\E j \in jobs : Begin(v, j)
        <4>1. \/ exec'[v] = IdleExec
              \/ exec'[v].t = x.t
          <5>1. CASE EnterEffect(v) \/ EnterEffectAckLost(v)
            BY <5>1, <2>0 DEF EnterEffect, EnterEffectAckLost, TypeOK, Exec
          <5>2. CASE Send(v) \/ LeaveBlock(v) \/ Timeout(v) \/ Redeliver(v)
            BY <5>2, <2>0 DEF Send, LeaveBlock, Timeout, Redeliver, TypeOK, Exec
          <5>3. ASSUME NEW result \in Outcomes, Finish(v, result) PROVE exec'[v].t = x.t
            BY <5>3, <2>0 DEF Finish, TypeOK, Exec
          <5>4. CASE Complete(v) \/ CompleteRaises(v) \/ RecordFailure(v) \/ OutcomeUnrecorded(v)
                       \/ WorkerCrash(v)
            BY Zenon, <5>4
               DEF Complete, CompleteRaises, RecordFailure, OutcomeUnrecorded, WorkerCrash, TypeOK
          <5> QED
            BY <1>5, <3>2, <5>1, <5>2, <5>3, <5>4 DEF Run
        <4>2. \A w \in Workers : w # v => exec'[w] = exec[w]
          BY Zenon, <1>5, <3>2 DEF Run, EnterEffect, EnterEffectAckLost, Send, LeaveBlock, Finish,
             Timeout, Complete, CompleteRaises, RecordFailure, OutcomeUnrecorded, WorkerCrash,
             Redeliver, TypeOK
        <4> QED
          BY <4>1, <4>2 DEF IdleExec
      <3> QED
        BY <3>1, <3>2
    <2>3. \A a \in Events : row'[a].started \in Carried \cup {None}
      <3>1. ASSUME NEW j \in jobs, Begin(v, j)
            PROVE  \A a \in Events : row'[a].started \in Carried \cup {None}
        <4>1. \A a \in Events : BeginRow(a, j.t).started = row[a].started
          BY DEF BeginRow, DeadLetter, TypeOK, Row
        <4>2. \A a \in Events : row'[a] \in {row[a], BeginRow(a, j.t)}
          BY <3>1 DEF Begin, TypeOK
        <4> QED
          BY <4>1, <4>2
      <3>2. CASE EnterEffect(v) \/ EnterEffectAckLost(v)
        <4>1. \/ row' = row
              \/ row' = [row EXCEPT ![x.e] = [row[x.e] EXCEPT !.started = x.t, !.due = Lease]]
          BY Zenon, <3>2 DEF EnterEffect, EnterEffectAckLost, TypeOK
        <4>2. \A a \in Events : \/ row'[a] = row[a]
                               \/ row'[a] = [row[a] EXCEPT !.started = x.t, !.due = Lease]
          BY Zenon, <4>1 DEF TypeOK
        <4>3. \A a \in Events : [row[a] EXCEPT !.started = x.t, !.due = Lease].started = x.t
          BY DEF TypeOK, Row
        <4> QED
          BY Zenon, <4>2, <4>3
      <3>3. CASE Complete(v) \/ CompleteRaises(v)
        <4>1. \A a \in Events : row'[a] = row[a] \/ row'[a] = CompleteEvent(row[a])
          BY <3>3 DEF Complete, CompleteRaises, TypeOK
        <4>2. \A a \in Events : CompleteEvent(row[a]).started = None
          BY DEF CompleteEvent, TypeOK, Row
        <4> QED
          BY <4>1, <4>2
      <3>4. CASE RecordFailure(v)
        <4>1. \A a \in Events : \/ row'[a] = row[a]
                               \/ \E delay \in Delays(row[a], x.result) :
                                    row'[a] = RecordOutcome(x, row[a], window[a], delay)
          BY <3>4, RecordFailureRows
        <4>2. \A a \in Events : \A delay \in Nat :
                RecordOutcome(x, row[a], window[a], delay).started \in {row[a].started, None}
          <5> TAKE a \in Events, delay \in Nat
          <5>1. row[a] \in Row /\ window[a] \in Nat
            BY DEF TypeOK
          <5> QED
            BY <5>1, <2>0, RecordedMarker
        <4> QED
          BY <4>1, <4>2, DelaysType
      <3>5. CASE row' = row
        BY <3>5
      <3> QED
        BY Zenon, <1>5, <3>1, <3>2, <3>3, <3>4, <3>5
           DEF Run, Send, LeaveBlock, Finish, Timeout, OutcomeUnrecorded, WorkerCrash, Redeliver
    <2> QED
      BY <2>0, <2>1, <2>2, <2>3, <1>f
  <1>6. CASE Tick
    <2>1. /\ \A a \in Events : row'[a].started = row[a].started
          /\ \A w \in Workers : exec'[w].t = exec[w].t
      BY <1>6 DEF Tick, TypeOK, Row, Exec
    <2> QED
      BY Zenon, <1>6, <2>1, <1>f DEF Tick
  <1>7. CASE UNCHANGED vars
    BY <1>7, <1>f DEF vars
  <1> QED
    BY <1>1, <1>2, <1>3, <1>4, <1>5, <1>6, <1>7 DEF Next

-----------------------------------------------------------------------------
(* Published means returned *)

\* An execution that is about to publish has had its consumer return, unless a
\* replay has begun a new history since.
ReturnInv ==
  \A w \in Workers :
    LET x == exec[w] IN
    x.pc = "outcome" /\ x.result = "ok" /\ x.gen = hist[x.e].gen => hist[x.e].returned

\* Only a replay begins a new history or forgets that a consumer returned.
LEMMA HistStep ==
  ASSUME TypeOK, [Next]_vars, NEW e \in Events
  PROVE  \/ Replay(e)
         \/ hist'[e].gen = hist[e].gen /\ (hist[e].returned => hist'[e].returned)
  <1>0. hist[e] \in Hist
    BY Zenon DEF TypeOK
  <1>a. ASSUME hist'[e] = hist[e]
        PROVE  hist'[e].gen = hist[e].gen /\ (hist[e].returned => hist'[e].returned)
    BY Zenon, <1>a
  <1>1. ASSUME NEW f \in Events, Replay(f)
        PROVE  Replay(e) \/ hist'[e] = hist[e]
    BY Zenon, <1>1 DEF Replay, TypeOK
  <1>2. ASSUME NEW v \in Workers, Run(v)
        PROVE  hist'[e].gen = hist[e].gen /\ (hist[e].returned => hist'[e].returned)
    <2> DEFINE x == exec[v]
    <2>1. ASSUME NEW j \in jobs, Begin(v, j)
          PROVE  hist'[e].gen = hist[e].gen /\ (hist[e].returned => hist'[e].returned)
      <3>1. hist'[e] = hist[e] \/ hist'[e] = CountRun(hist[e], j.t)
        BY Zenon, <2>1 DEF Begin, TypeOK
      <3>2. CountRun(hist[e], j.t).gen = hist[e].gen /\ CountRun(hist[e], j.t).returned = hist[e].returned
        BY Zenon, <1>0 DEF CountRun, Hist
      <3> QED
        BY Zenon, <3>1, <3>2
    <2>2. CASE Send(v) \/ Timeout(v)
      <3>1. hist'[e] = hist[e] \/ hist'[e] = CountSend(hist[e], x)
        BY Zenon, <2>2 DEF Send, Timeout, TypeOK
      <3>2. CountSend(hist[e], x).gen = hist[e].gen /\ CountSend(hist[e], x).returned = hist[e].returned
        BY Zenon, <1>0 DEF CountSend, Hist
      <3> QED
        BY Zenon, <3>1, <3>2
    <2>3. ASSUME NEW result \in Outcomes, Finish(v, result)
          PROVE  hist'[e].gen = hist[e].gen /\ (hist[e].returned => hist'[e].returned)
      BY Zenon, <2>3, <1>0 DEF Finish, TypeOK, Hist
    <2>4. CASE RecordFailure(v)
      <3>1. \/ hist' = hist
            \/ \E l, a : hist' = [hist EXCEPT ![x.e].licensed = l, ![x.e].window = a]
        BY Zenon, <2>4 DEF RecordFailure
      <3>2. CASE \E l, a : hist' = [hist EXCEPT ![x.e].licensed = l, ![x.e].window = a]
        <4>1. PICK l, m : hist' = [hist EXCEPT ![x.e].licensed = l, ![x.e].window = m]
          BY Zenon, <3>2
        <4>2. hist' = [hist EXCEPT ![x.e] = [hist[x.e] EXCEPT !.licensed = l, !.window = m]]
          BY Zenon, <4>1 DEF TypeOK
        <4>3. /\ [hist[e] EXCEPT !.licensed = l, !.window = m].gen = hist[e].gen
              /\ [hist[e] EXCEPT !.licensed = l, !.window = m].returned = hist[e].returned
          BY Zenon, <1>0 DEF Hist
        <4> QED
          BY Zenon, <4>2, <4>3 DEF TypeOK
      <3> QED
        BY Zenon, <3>1, <3>2, <1>a
    <2>5. CASE hist' = hist
      BY Zenon, <2>5
    <2> QED
      BY Zenon, <1>2, <2>1, <2>2, <2>3, <2>4, <2>5
         DEF Run, EnterEffect, EnterEffectAckLost, LeaveBlock, Complete, CompleteRaises,
             OutcomeUnrecorded, WorkerCrash, Redeliver
  <1>3. CASE hist' = hist
    BY Zenon, <1>3
  <1> QED
    BY Zenon, <1>1, <1>2, <1>3, <1>a
       DEF Next, Append, DeleteAggregateEvents, CloseTenant, PurgeTenantOutboxEvents, Dispatch,
           ListOpenTenants, ClaimDueEvents, HandOff, HandOffRaises, GiveBack, DispatcherCrash,
           BeginRaises, Tick, vars

\* An execution reaches the outcome "ok" only by its consumer's return, which
\* counts for the history the execution began in.
LEMMA OkStep ==
  ASSUME TypeOK, [Next]_vars, NEW w \in Workers, exec'[w].pc = "outcome", exec'[w].result = "ok"
  PROVE  \/ exec'[w].gen = hist'[exec'[w].e].gen => hist'[exec'[w].e].returned
         \/ /\ exec[w].pc = "outcome" /\ exec[w].result = "ok"
            /\ exec'[w].e = exec[w].e /\ exec'[w].gen = exec[w].gen
  <1> DEFINE Goal == \/ exec'[w].gen = hist'[exec'[w].e].gen => hist'[exec'[w].e].returned
                     \/ /\ exec[w].pc = "outcome" /\ exec[w].result = "ok"
                        /\ exec'[w].e = exec[w].e /\ exec'[w].gen = exec[w].gen
  <1>0. exec[w] \in Exec
    BY Zenon DEF TypeOK
  <1>a. ASSUME exec'[w] = exec[w] PROVE Goal
    BY Zenon, <1>a
  <1>b. IdleExec.pc = "idle"
    BY Zenon DEF IdleExec
  <1>1. CASE Run(w)
    <2>1. ASSUME NEW j \in jobs, Begin(w, j) PROVE Goal
      <3> DEFINE x == [IdleExec EXCEPT !.pc = "running", !.e = j.e, !.t = j.t,
                                       !.tries = j.tries - 1, !.ttl = ConsumerTimeout,
                                       !.gen = hist[j.e].gen]
      <3>1. x.pc = "running"
        BY Zenon DEF IdleExec
      <3> HIDE DEF x
      <3>2. exec' = exec \/ exec' = [exec EXCEPT ![w] = x]
        BY Zenon, <2>1 DEF Begin, x
      <3>3. exec'[w] = exec[w] \/ exec'[w] = x
        BY Zenon, <3>2 DEF TypeOK
      <3> QED
        BY Zenon, <3>1, <3>3
    <2>2. CASE \/ EnterEffect(w) \/ EnterEffectAckLost(w) \/ Timeout(w)
      <3>1. exec'[w].pc # "outcome" \/ exec'[w].result \in {"other", "timeout"}
        BY <2>2, <1>0 DEF EnterEffect, EnterEffectAckLost, Timeout, TypeOK, Exec, IdleExec
      <3> QED
        BY Zenon, <3>1
    <2>3. CASE Send(w) \/ LeaveBlock(w)
      BY <2>3, <1>0 DEF Send, LeaveBlock, TypeOK, Exec
    <2>4. CASE Redeliver(w)
      <3>1. exec'[w] = [exec[w] EXCEPT !.tries = 0]
        BY Zenon, <2>4 DEF Redeliver, TypeOK
      <3> QED
        BY Zenon, <3>1, <1>0 DEF Exec
    <2>5. ASSUME NEW result \in Outcomes, Finish(w, result) PROVE Goal
      <3>1. /\ exec'[w].e = exec[w].e /\ exec'[w].gen = exec[w].gen
            /\ exec'[w].result = result /\ exec[w].pc # "idle"
        BY Zenon, <2>5, <1>0 DEF Finish, InConsumer, TypeOK, Exec
      <3>2. result = "ok" /\ exec[w].e \in Events
        BY Zenon, <3>1 DEF TypeOK
      <3> DEFINE h == hist[exec[w].e]
                 b == h.returned \/ (result = "ok" /\ exec[w].gen = h.gen)
      <3>3. hist'[exec[w].e] = [h EXCEPT !.returned = b] /\ h \in Hist
        BY Zenon, <2>5, <3>2 DEF Finish, TypeOK
      <3>4. h \in Hist => [h EXCEPT !.returned = b].returned = b /\ [h EXCEPT !.returned = b].gen = h.gen
        BY DEF Hist
      <3>5. exec[w].gen = h.gen => b
        BY Zenon, <3>2
      <3>6. hist'[exec[w].e].returned = b /\ hist'[exec[w].e].gen = h.gen
        BY Zenon, <3>3, <3>4
      <3> HIDE DEF b, h
      <3> QED
        BY Zenon, <3>1, <3>5, <3>6
    <2>6. CASE \/ Complete(w) \/ CompleteRaises(w) \/ RecordFailure(w) \/ OutcomeUnrecorded(w)
               \/ WorkerCrash(w)
      <3>1. exec'[w] = IdleExec
        BY Zenon, <2>6
           DEF Complete, CompleteRaises, RecordFailure, OutcomeUnrecorded, WorkerCrash, TypeOK
      <3> QED
        BY Zenon, <3>1, <1>b
    <2> QED
      BY Zenon, <1>1, <2>1, <2>2, <2>3, <2>4, <2>5, <2>6 DEF Run
  <1>2. ASSUME NEW v \in Workers, v # w, Run(v) PROVE exec'[w] = exec[w]
    BY Zenon, <1>2
       DEF Run, Begin, EnterEffect, EnterEffectAckLost, Send, LeaveBlock, Finish,
           Timeout, Complete, CompleteRaises, RecordFailure, OutcomeUnrecorded, WorkerCrash,
           Redeliver, TypeOK
  <1>3. CASE Tick
    <2>1. exec'[w] = [exec[w] EXCEPT !.ttl = Left(@)]
      BY Zenon, <1>3 DEF Tick
    <2> QED
      BY Zenon, <2>1, <1>0 DEF Exec
  <1>4. CASE exec' = exec
    BY Zenon, <1>4, <1>a
  <1> QED
    BY Zenon, <1>1, <1>2, <1>3, <1>4, <1>a
       DEF Next, Append, DeleteAggregateEvents, Replay, CloseTenant, PurgeTenantOutboxEvents,
           Dispatch, ListOpenTenants, ClaimDueEvents, HandOff, HandOffRaises, GiveBack,
           DispatcherCrash, BeginRaises, vars

PublishInv == TypeOK /\ ExecInv /\ ReturnInv /\ PublishedMeansReturned

\* Every step keeps that a published event has a consumer that returned.
LEMMA PublishStep == PublishInv /\ [Next]_vars => PublishInv'
  <1> SUFFICES ASSUME TypeOK, ExecInv, ReturnInv, PublishedMeansReturned, [Next]_vars
               PROVE  PublishInv'
    BY Zenon DEF PublishInv
  <1>1. TypeOK' /\ ExecInv'
    BY Zenon, TypeStep, ExecStep
  <1>2. \A e \in Events : Replay(e) => row'[e].status = "pending" /\ hist'[e].gen = hist[e].gen + 1
    BY DEF Replay, ReplayRow, NewHist, TypeOK, Row, Hist
  <1>3. ReturnInv'
    <2> SUFFICES ASSUME NEW w \in Workers, exec'[w].pc = "outcome", exec'[w].result = "ok",
                        exec'[w].gen = hist'[exec'[w].e].gen, ~hist'[exec'[w].e].returned
                 PROVE  FALSE
      BY Zenon DEF ReturnInv
    <2>1. /\ exec[w].pc = "outcome" /\ exec[w].result = "ok"
          /\ exec'[w].e = exec[w].e /\ exec'[w].gen = exec[w].gen
      BY Zenon, OkStep
    <2> DEFINE e == exec[w].e
    <2>2. e \in Events /\ exec[w].gen <= hist[e].gen
      BY Zenon, <2>1 DEF ExecInv
    <2>3. exec[w].gen \in Nat /\ hist[e].gen \in Nat
      BY Zenon, <2>2 DEF TypeOK, Exec, Hist
    <2>4. CASE Replay(e)
      BY <1>2, <2>1, <2>2, <2>3, <2>4
    <2>5. CASE ~Replay(e)
      <3>1. hist'[e].gen = hist[e].gen /\ (hist[e].returned => hist'[e].returned)
        BY Zenon, <2>2, <2>5, HistStep
      <3> QED
        BY Zenon, <2>1, <3>1 DEF ReturnInv
    <2> QED
      BY Zenon, <2>4, <2>5
  <1>4. PublishedMeansReturned'
    <2> SUFFICES ASSUME NEW e \in Events, row'[e].status = "published"
                 PROVE  hist'[e].returned
      BY Zenon DEF PublishedMeansReturned
    <2>1. ~Replay(e)
      BY Zenon, <1>2
    <2>2. hist[e].returned => hist'[e].returned
      BY Zenon, <2>1, HistStep
    <2>3. row[e].status = "published" \/ \E w \in Workers : Publishes(w, e)
      BY Zenon, <2>1, StatusStep DEF StatusChange
    <2>4. ASSUME NEW w \in Workers, Publishes(w, e) PROVE hist[e].returned
      <3>1. /\ exec[w].pc = "outcome" /\ exec[w].result = "ok" /\ exec[w].e = e
            /\ row[e].claim = exec[w].t
        BY Zenon, <2>4 DEF Publishes, Owned
      <3>2. exec[w].gen <= hist[e].gen /\ (exec[w].gen < hist[e].gen => row[e].claim # exec[w].t)
        BY Zenon, <3>1 DEF ExecInv
      <3>3. exec[w].gen \in Nat /\ hist[e].gen \in Nat
        BY Zenon DEF TypeOK, Exec, Hist
      <3> QED
        BY <3>1, <3>2, <3>3 DEF ReturnInv
    <2> QED
      BY Zenon, <2>2, <2>3, <2>4 DEF PublishedMeansReturned
  <1> QED
    BY Zenon, <1>1, <1>3, <1>4 DEF PublishInv

\* "Nothing marks an event published unless its consumer returned": for every
\* number of workers and dispatchers, with any queue, a published row had a run
\* since its last replay whose consumer returned.  A worker that started before
\* the replay cannot publish the row: it does not own it.
THEOREM PublishedRan == Spec => []PublishedMeansReturned
  <1>1. Init => PublishInv
    <2> SUFFICES ASSUME Init PROVE PublishInv
      OBVIOUS
    <2>1. TypeOK
      BY Zenon, InitType
    <2>2. ExecInv /\ ReturnInv
      BY Zenon DEF Init, ExecInv, ReturnInv, IdleExec
    <2>3. PublishedMeansReturned
      BY Zenon DEF Init, PublishedMeansReturned, NewRow
    <2> QED
      BY Zenon, <2>1, <2>2, <2>3 DEF PublishInv
  <1>2. PublishInv => PublishedMeansReturned
    BY Zenon DEF PublishInv
  <1> QED
    BY <1>1, <1>2, PublishStep, PTL DEF Spec

-----------------------------------------------------------------------------
(* NoSilentRepeat, with started markers on and an acknowledging queue. *)

\* No execution can be granted a started marker on e.
Fenced(e) ==
  \/ row[e].status # "pending"
  \/ row[e].claim # None /\ row[e].started = row[e].claim
  \/ ~open[TenantOf[e]] /\ \A w \in Workers : exec[w].e = e => exec[w].t # row[e].claim

\* w marked e since its last replay.
Marked(w, e) == exec[w].e = e /\ exec[w].started /\ exec[w].gen = hist[e].gen

\* Nothing of an event that is not recorded yet has run or been sent; without a
\* licence at most one request was sent, and once one may have been sent, or one
\* execution has marked the event, no other execution can mark it.
SendInvAt(e) ==
  /\ row[e].status = "absent" =>
       hist[e].sends = 0 /\ \A w \in Workers : exec[w].e # e
  /\ ~hist[e].licensed =>
       /\ hist[e].sends <= 1
       /\ hist[e].sends >= 1 => Fenced(e)
       /\ \A w \in Workers : Marked(w, e) =>
            /\ Fenced(e)
            /\ ~exec[w].sent /\ exec[w].result # "timeout" => hist[e].sends = 0
            /\ \A v \in Workers : Marked(v, e) => v = w

SendInv == \A e \in Events : SendInvAt(e)

\* The inductive invariant behind NoSilentRepeat.
IInv == TypeOK /\ HandOffInv /\ ExecInv /\ SendInv

-----------------------------------------------------------------------------
(* Requests *)

\* A claim recorded as failed after its marker runs again only when its consumer
\* declared at_least_once or the request is attested unsent.
LEMMA MarkedOutcome ==
  ASSUME NEW r \in Row, NEW x \in Exec, NEW delay \in Nat, NEW left \in Nat, MarkedBy(r, x.t)
  PROVE  \/ RecordOutcome(x, r, left, delay).status = "dead_lettered"
         \/ x.result = "at_least_once"
         \/ x.result = "attested" /\ x.started
  <1>1. DeadLetter(r).status = "dead_lettered" /\ DeadLetter(r) \in Row
    BY Zenon, RowTransitions DEF DeadLetter, Row
  <1>2. \A b \in BOOLEAN : FailEvent(r, x.t, b, delay).status = "dead_lettered"
    BY Zenon, <1>1 DEF FailEvent
  <1>3. RecordConfirmedNotSent(r, x.t, FALSE, delay).status = "dead_lettered"
    BY Zenon, <1>1 DEF RecordConfirmedNotSent
  <1>4. \A p : p # "at_least_once" =>
          RecordAmbiguousOutcome(r, x.t, p, left, delay) = [DeadLetter(r) EXCEPT !.tagged = r.tagged]
    BY Zenon DEF RecordAmbiguousOutcome, Row
  <1>5. [DeadLetter(r) EXCEPT !.tagged = r.tagged].status = "dead_lettered"
    BY Zenon, <1>1 DEF Row
  <1> QED
    BY Zenon, <1>2, <1>3, <1>4, <1>5 DEF RecordOutcome

\* No recorded outcome deletes the row (fail_event, record_ambiguous_outcome,
\* record_confirmed_not_sent).
LEMMA RecordedStatus ==
  ASSUME NEW r \in Row, NEW x \in Exec, NEW delay \in Nat, NEW left \in Nat, r.status # "absent"
  PROVE  RecordOutcome(x, r, left, delay).status # "absent"
  <1>1. DeadLetter(r).status # "absent" /\ Retry(r, delay).status # "absent"
    BY Zenon DEF DeadLetter, Retry, Row
  <1>2. \A b \in BOOLEAN : /\ FailEvent(r, x.t, b, delay).status # "absent"
                          /\ RecordConfirmedNotSent(r, x.t, b, delay).status # "absent"
    BY Zenon, <1>1 DEF FailEvent, RecordConfirmedNotSent, OrdinaryFailure
  <1>3. \A p : RecordAmbiguousOutcome(r, x.t, p, left, delay).status # "absent"
    <2> TAKE p
    <2> DEFINE again == /\ r.attempts < MaxAttempts
                        /\ \/ p = "at_least_once"
                           \/ p = "retry_within" /\ ~MarkedBy(r, x.t) /\ delay < left
               tagged == r.tagged \/ (p = "retry_within" /\ ~MarkedBy(r, x.t))
               base == IF again THEN Retry(r, delay) ELSE DeadLetter(r)
    <2>1. base.status # "absent" /\ base \in Row
      BY Zenon, <1>1, RowTransitions
    <2> HIDE DEF base, tagged
    <2>2. [base EXCEPT !.tagged = tagged].status # "absent"
      BY Zenon, <2>1 DEF Row
    <2> QED
      BY Zenon, <2>2 DEF RecordAmbiguousOutcome, base, tagged
  <1> QED
    BY Zenon, <1>2, <1>3 DEF RecordOutcome

\* Whatever w has marked of e after the step it had marked before, and if it has
\* not sent after the step it had not before.
Follows(w, e) ==
  exec'[w].e = e /\ exec'[w].started =>
    /\ exec[w].e = e /\ exec[w].started /\ exec'[w].gen = exec[w].gen
    /\ ~exec'[w].sent /\ exec'[w].result # "timeout" => ~exec[w].sent /\ exec[w].result # "timeout"

\* Enough for most steps: e's requests are unchanged, no execution newly marks e
\* and a fence stays.
LEMMA SendFrame ==
  ASSUME NEW e \in Events, SendInvAt(e),
         hist'[e].gen = hist[e].gen, hist'[e].sends = hist[e].sends,
         hist[e].licensed => hist'[e].licensed,
         \A w \in Workers : Follows(w, e),
         Fenced(e) => Fenced(e)',
         row'[e].status = "absent" => row[e].status = "absent" /\ \A w \in Workers : exec'[w].e # e
  PROVE  SendInvAt(e)'
  <1>1. \A w \in Workers : Marked(w, e)' => Marked(w, e)
    BY Zenon DEF Marked, Follows
  <1>2. \A w \in Workers : Marked(w, e)' /\ ~exec'[w].sent /\ exec'[w].result # "timeout"
           => ~exec[w].sent /\ exec[w].result # "timeout"
    BY Zenon DEF Marked, Follows
  <1> QED
    BY Zenon, <1>1, <1>2 DEF SendInvAt

\* A fence stays when the row keeps its claim and marker, no tenant reopens and
\* no execution newly takes the claim.
LEMMA FenceFrame ==
  ASSUME NEW e \in Events, Fenced(e),
         \/ row'[e].status # "pending"
         \/ /\ row'[e].status = row[e].status /\ row'[e].claim = row[e].claim
            /\ row'[e].started = row[e].started,
         open'[TenantOf[e]] => open[TenantOf[e]],
         ~open[TenantOf[e]] => \A w \in Workers :
           exec'[w].e = e => exec[w].e = e /\ exec'[w].t = exec[w].t
  PROVE  Fenced(e)'
  BY Zenon DEF Fenced

\* Steps of producers, tenants and operators.
LEMMA SendStepRows ==
  ASSUME TypeOK, ExecInv, NEW e \in Events, SendInvAt(e), NEW a \in Events,
         Append(a) \/ DeleteAggregateEvents(a) \/ Replay(a)
  PROVE  SendInvAt(e)'
  <1>0. exec' = exec /\ open' = open
    BY Zenon DEF Append, DeleteAggregateEvents, Replay
  <1>1. CASE a # e
    <2>1. row'[e] = row[e] /\ hist'[e] = hist[e]
      BY Zenon, <1>1 DEF Append, DeleteAggregateEvents, Replay, TypeOK
    <2> QED
      BY Zenon, <1>0, <2>1, SendFrame, FenceFrame DEF Follows, SendInvAt
  <1>2. CASE a = e /\ Append(a)
    <2>1. row[e].status = "absent" /\ row'[e].status # "absent" /\ hist' = hist
      BY Zenon, <1>2 DEF Append, NewRow, TypeOK
    <2>2. hist[e].sends = 0 /\ \A w \in Workers : exec[w].e # e
      BY Zenon, <2>1 DEF SendInvAt
    <2> QED
      BY <1>0, <2>1, <2>2 DEF SendInvAt, Marked
  <1>3. CASE a = e /\ DeleteAggregateEvents(a)
    <2>1. row'[e].status = "deleted" /\ hist' = hist
      BY Zenon, <1>3 DEF DeleteAggregateEvents, NewRow, TypeOK
    <2> QED
      BY Zenon, <1>0, <2>1, SendFrame DEF Follows, Fenced
  <1>4. CASE a = e /\ Replay(a)
    <2>1. /\ hist'[e].sends = 0 /\ hist'[e].gen = hist[e].gen + 1 /\ hist[e].gen \in Nat
          /\ row'[e].status = "pending"
      BY <1>4 DEF Replay, ReplayRow, NewHist, TypeOK, Row, Hist
    <2>2. \A w \in Workers : exec[w].e = e => exec[w].gen <= hist[e].gen /\ exec[w].gen \in Nat
      BY SMTT(30), OutboxAssumption DEF ExecInv, TypeOK, Exec
    <2>3. \A w \in Workers : ~Marked(w, e)'
      BY <1>0, <2>1, <2>2 DEF Marked
    <2> QED
      BY <2>1, <2>3 DEF SendInvAt
  <1> QED
    BY Zenon, <1>1, <1>2, <1>3, <1>4

\* Closing or purging the tenant keeps what is known of the sends of an event.
LEMMA SendStepTenant ==
  ASSUME TypeOK, NEW e \in Events, SendInvAt(e), NEW tn \in Tenants,
         CloseTenant(tn) \/ PurgeTenantOutboxEvents(tn)
  PROVE  SendInvAt(e)'
  <1>0. /\ exec' = exec /\ hist' = hist
        /\ open'[TenantOf[e]] => open[TenantOf[e]]
    BY Zenon, OutboxAssumption DEF CloseTenant, PurgeTenantOutboxEvents, TypeOK
  <1>1. row'[e] = row[e] \/ row'[e].status = "deleted"
    BY Zenon DEF CloseTenant, PurgeTenantOutboxEvents, NewRow, TypeOK
  <1>2. Fenced(e) => Fenced(e)'
    BY Zenon, <1>0, <1>1, FenceFrame
  <1> QED
    BY Zenon, <1>0, <1>1, <1>2, SendFrame DEF Follows, SendInvAt

\* An execution of e carries a token, never None.
LEMMA ExecToken ==
  ASSUME ExecInv, NEW w \in Workers, NEW e \in Events, exec[w].e = e
  PROVE  exec[w].pc # "idle" /\ exec[w].t \in Tokens /\ exec[w].t # None
  BY Zenon, OutboxAssumption DEF ExecInv

\* A dispatcher cycle keeps what is known of the sends of an event.
LEMMA SendStepDispatch ==
  ASSUME TypeOK, HandOffInv, ExecInv, NEW e \in Events, SendInvAt(e), NEW d \in Dispatchers, Dispatch(d)
  PROVE  SendInvAt(e)'
  <1>0. exec' = exec /\ hist' = hist /\ open' = open
    BY Zenon DEF Dispatch, ListOpenTenants, ClaimDueEvents, HandOff, HandOffRaises, GiveBack,
           DispatcherCrash
  <1>1. CASE ClaimDueEvents(d)
    <2>1. PICK taken \in SUBSET Events :
            \E f \in [taken -> Tokens \ UsedTokens] : ClaimEffect(d, taken, f)
      BY Zenon, <1>1, ClaimedRows
    <2>2. PICK f \in [taken -> Tokens \ UsedTokens] : ClaimEffect(d, taken, f)
      BY Zenon, <2>1
    <2>3. \A w \in Workers : exec[w].t \in UsedTokens
      BY Zenon DEF UsedTokens
    <2>4. CASE e \in taken
      <3>1. /\ row[e].status = "pending"
            /\ ~(row[e].claim # None /\ row[e].started = row[e].claim)
            /\ row'[e].claim \notin UsedTokens /\ row'[e].status = "pending"
        BY Zenon, <2>2, <2>4 DEF ClaimEffect, MarkedBy
      <3>2. Fenced(e) => Fenced(e)'
        BY Zenon, <1>0, <3>1, <2>3 DEF Fenced
      <3> QED
        BY Zenon, <1>0, <3>1, <3>2, SendFrame DEF Follows
    <2>5. CASE e \notin taken
      <3>1. row'[e] = row[e] \/ row'[e].status = "dead_lettered"
        <4>1. row'[e] = row[e] \/ row'[e] = DeadLetter(row[e])
          BY Zenon, <2>2, <2>5 DEF ClaimEffect
        <4>2. DeadLetter(row[e]).status = "dead_lettered"
          BY ZenonT(40) DEF DeadLetter, TypeOK, Row
        <4> QED
          BY Zenon, <4>1, <4>2
      <3>2. Fenced(e) => Fenced(e)'
        BY Zenon, <1>0, <3>1, FenceFrame
      <3> QED
        BY Zenon, <1>0, <3>1, <3>2, SendFrame DEF Follows, SendInvAt
    <2> QED
      BY Zenon, <2>4, <2>5
  <1>2. CASE GiveBack(d)
    <2> DEFINE c == cycle[d].bad
    <2>1. c.t \notin Carried
      BY <1>2 DEF GiveBack, TypeOK, HandOffInv
    <2>2. CASE row'[e] = row[e]
      <3>1. Fenced(e) => Fenced(e)'
        BY Zenon, <1>0, <2>2, FenceFrame
      <3> QED
        BY Zenon, <1>0, <2>2, <3>1, SendFrame DEF Follows, SendInvAt
    <2>3. CASE row'[e] # row[e]
      <3>1. Owned(row[e], c.t) /\ row'[e] = ReleaseClaim(row[e])
        BY Zenon, <1>2, <2>3 DEF GiveBack, TypeOK
      <3>2. row'[e].claim = None /\ row'[e].status = row[e].status
        BY <3>1 DEF ReleaseClaim, TypeOK, Row
      <3>3. row[e].status = "pending" /\ row[e].started # row[e].claim
        BY Zenon, <3>1, <2>1 DEF Owned, Carried
      <3>4. Fenced(e) => Fenced(e)'
        BY Zenon, <1>0, <3>2, <3>3, ExecToken DEF Fenced
      <3> QED
        BY Zenon, <1>0, <3>2, <3>3, <3>4, SendFrame DEF Follows
    <2> QED
      BY Zenon, <2>2, <2>3
  <1>3. CASE row' = row
    <2>1. Fenced(e) => Fenced(e)'
      BY Zenon, <1>0, <1>3, FenceFrame
    <2> QED
      BY Zenon, <1>0, <1>3, <2>1, SendFrame DEF Follows, SendInvAt
  <1> QED
    BY Zenon, <1>1, <1>2, <1>3 DEF Dispatch, ListOpenTenants, HandOff, HandOffRaises, DispatcherCrash

\* An execution that begins keeps what is known of the sends of an event.
LEMMA SendStepBegin ==
  ASSUME TypeOK, ExecInv, ExecInv', NEW e \in Events, SendInvAt(e),
         NEW v \in Workers, NEW j \in jobs, Begin(v, j)
  PROVE  SendInvAt(e)'
  <1>0. j.e \in Events /\ row[e] \in Row /\ open' = open
    BY Zenon DEF TypeOK, Job, Begin
  <1>1. hist'[e].gen = hist[e].gen /\ hist'[e].sends = hist[e].sends /\ hist'[e].licensed = hist[e].licensed
    <2>1. hist'[e] = hist[e] \/ hist'[e] = CountRun(hist[e], j.t)
      BY Zenon DEF Begin, TypeOK
    <2>2. /\ CountRun(hist[e], j.t).gen = hist[e].gen
          /\ CountRun(hist[e], j.t).sends = hist[e].sends
          /\ CountRun(hist[e], j.t).licensed = hist[e].licensed
      BY Zenon DEF CountRun, TypeOK, Hist
    <2> QED
      BY Zenon, <2>1, <2>2
  <1>2. \A w \in Workers :
          \/ exec'[w] = exec[w]
          \/ /\ exec'[w].e = j.e /\ ~exec'[w].started
             /\ open[TenantOf[j.e]] /\ row[j.e].status = "pending"
    <2> DEFINE y == [IdleExec EXCEPT !.pc = "running", !.e = j.e, !.t = j.t, !.tries = j.tries - 1,
                                     !.ttl = ConsumerTimeout, !.gen = hist[j.e].gen]
    <2>1. y.e = j.e /\ ~y.started
      BY Zenon DEF IdleExec
    <2>2. \/ exec' = exec
          \/ /\ exec' = [exec EXCEPT ![v] = y]
             /\ open[TenantOf[j.e]] /\ row[j.e].status = "pending"
      BY Zenon DEF Begin, MayRun, Owned
    <2> HIDE DEF y
    <2> QED
      BY Zenon, <2>1, <2>2 DEF TypeOK
  <1>3. \A w \in Workers : Follows(w, e)
    BY Zenon, <1>2 DEF Follows
  <1>4. \/ row'[e].status = row[e].status /\ row'[e].claim = row[e].claim /\ row'[e].started = row[e].started
        \/ row'[e].status = "dead_lettered"
        \/ row'[e].claim = None /\ ~open[TenantOf[e]] /\ row'[e].status = row[e].status
    <2>1. row'[e] = row[e] \/ row'[e] = BeginRow(e, j.t)
      BY Zenon, <1>0 DEF Begin, TypeOK
    <2> QED
      BY Zenon, <2>1, <1>0 DEF BeginRow, DeadLetter, Row
  <1>5. ~open[TenantOf[e]] => \A w \in Workers : exec'[w].e = e => exec[w].e = e /\ exec'[w].t = exec[w].t
    BY Zenon, <1>2
  <1>6. Fenced(e) => Fenced(e)'
    <2>1. CASE row'[e].claim = None /\ ~open[TenantOf[e]]
      <3>1. \A w \in Workers : exec'[w].e = e => exec'[w].t # None
        BY Zenon, OutboxAssumption DEF ExecInv
      <3> QED
        BY Zenon, <1>0, <2>1, <3>1 DEF Fenced
    <2>2. CASE ~(row'[e].claim = None /\ ~open[TenantOf[e]])
      BY Zenon, <1>0, <1>4, <1>5, <2>2, FenceFrame
    <2> QED
      BY Zenon, <2>1, <2>2
  <1>7. row'[e].status = "absent" => row[e].status = "absent" /\ \A w \in Workers : exec'[w].e # e
    BY Zenon, <1>2, <1>4 DEF SendInvAt
  <1> QED
    BY Zenon, <1>1, <1>3, <1>6, <1>7, SendFrame

\* Entering context.external_effect(): a marker is granted only when nothing
\* has been sent or marked.
LEMMA SendStepEnter ==
  ASSUME Markers, TypeOK, ExecInv, NEW e \in Events, SendInvAt(e), NEW v \in Workers,
         EnterEffect(v) \/ EnterEffectAckLost(v)
  PROVE  SendInvAt(e)'
  <1> DEFINE x == exec[v]
  <1>0. /\ hist' = hist /\ open' = open /\ x.pc = "running" /\ ~x.started
        /\ x \in Exec /\ x.e \in Events /\ x.t \in Tokens /\ x.t # None
    BY ZenonT(60), OutboxAssumption DEF EnterEffect, EnterEffectAckLost, ExecInv, TypeOK
  <1>1. \A w \in Workers : w # v => exec'[w] = exec[w]
    BY Zenon DEF EnterEffect, EnterEffectAckLost, TypeOK
  <1>2. \/ exec'[v] = IdleExec /\ row' = row
        \/ /\ Owned(row[x.e], x.t) /\ row[x.e].started # x.t
           /\ row' = [row EXCEPT ![x.e] = [row[x.e] EXCEPT !.started = x.t, !.due = Lease]]
           /\ \/ exec'[v] = [x EXCEPT !.pc = "block", !.started = TRUE]
              \/ exec'[v] = [x EXCEPT !.pc = "outcome", !.result = "other", !.ttl = 0]
    BY Zenon DEF EnterEffect, EnterEffectAckLost, TypeOK
  <1>3. \/ exec'[v] = IdleExec
        \/ exec'[v].e = x.e /\ exec'[v].t = x.t
    BY ZenonT(60), <1>0, <1>2 DEF Exec
  <1>4. IdleExec.e # e /\ ~IdleExec.started
    BY Zenon, OutboxAssumption DEF IdleExec
  <1>5. CASE row'[e] = row[e] /\ (exec'[v] = IdleExec \/ x.e # e)
    <2>1. \A w \in Workers : Follows(w, e)
      BY Zenon, <1>1, <1>3, <1>4, <1>5 DEF Follows
    <2>2. Fenced(e) => Fenced(e)'
      BY ZenonT(40), <1>0, <1>1, <1>3, <1>4, <1>5, FenceFrame
    <2>3. row'[e].status = "absent" => row[e].status = "absent" /\ \A w \in Workers : exec'[w].e # e
      BY SMTT(40), <1>1, <1>3, <1>4, <1>5 DEF SendInvAt
    <2> QED
      BY Zenon, <1>0, <2>1, <2>2, <2>3, SendFrame
  <1>6. CASE /\ x.e = e /\ Owned(row[e], x.t) /\ row[e].started # x.t
             /\ row'[e] = [row[e] EXCEPT !.started = x.t, !.due = Lease]
             /\ exec'[v].e = e
    <2>1. ~Fenced(e)
      BY Zenon, <1>0, <1>6 DEF Fenced, Owned
    <2>2. /\ row'[e].status = "pending" /\ row'[e].claim = x.t /\ row'[e].started = x.t
      BY <1>6 DEF Owned, TypeOK, Row
    <2>3. Fenced(e)'
      BY Zenon, <1>0, <2>2 DEF Fenced
    <2>4. ~hist[e].licensed => /\ hist[e].sends <= 1 /\ ~(hist[e].sends >= 1)
                               /\ \A w \in Workers : ~Marked(w, e)
      BY Zenon, <2>1 DEF SendInvAt
    <2>5. ~hist[e].licensed => hist[e].sends = 0
      BY <2>4 DEF TypeOK, Hist
    <2>6. \A w \in Workers : w # v => (Marked(w, e)' => Marked(w, e))
      BY Zenon, <1>0, <1>1 DEF Marked
    <2> QED
      BY Zenon, <1>0, <2>2, <2>3, <2>4, <2>5, <2>6 DEF SendInvAt
  <1> QED
    <2>1. CASE exec'[v] = IdleExec /\ row' = row
      BY Zenon, <2>1, <1>5
    <2>2. CASE /\ Owned(row[x.e], x.t) /\ row[x.e].started # x.t
               /\ row' = [row EXCEPT ![x.e] = [row[x.e] EXCEPT !.started = x.t, !.due = Lease]]
               /\ exec'[v].e = x.e
      <3>1. CASE x.e # e
        BY <2>2, <3>1, <1>5
      <3>2. CASE x.e = e
        BY Zenon, <2>2, <3>2, <1>6 DEF TypeOK
      <3> QED
        BY Zenon, <3>1, <3>2
    <2> QED
      BY Zenon, <1>0, <1>2, <2>1, <2>2 DEF Exec

\* A request leaves: the sender marked the event, so it is the first.
LEMMA SendStepSend ==
  ASSUME Markers, TypeOK, ExecInv, NEW e \in Events, SendInvAt(e), NEW v \in Workers,
         Send(v) \/ Timeout(v)
  PROVE  SendInvAt(e)'
  <1> DEFINE x == exec[v]
  <1>0. /\ row' = row /\ open' = open
        /\ \A w \in Workers : w # v => exec'[w] = exec[w]
    BY Zenon DEF Send, Timeout, TypeOK
  <1>1. /\ x \in Exec /\ x.pc \in {"running", "block", "after"} /\ x.e \in Events /\ x.result = "none"
        /\ x.pc = "block" => x.started
    BY Zenon DEF Send, Timeout, InConsumer, TypeOK, ExecInv
  <1>2. /\ exec'[v].e = x.e /\ exec'[v].t = x.t /\ exec'[v].gen = x.gen /\ exec'[v].started = x.started
        /\ exec'[v].sent \/ exec'[v].result = "timeout"
    <2>1. CASE Send(v)
      BY Zenon, <1>1, <2>1 DEF Send, TypeOK, Exec
    <2>2. CASE Timeout(v)
      BY Zenon, <1>1, <2>2 DEF Timeout, TypeOK, Exec
    <2> QED
      BY Zenon, <2>1, <2>2
  <1>3. \/ hist'[e] = hist[e]
        \/ /\ x.e = e /\ x.pc = "block" /\ ~x.sent
           /\ hist'[e] = CountSend(hist[e], x)
    BY Zenon, <1>1 DEF Send, Timeout, TypeOK
  <1>4. \A w \in Workers : Follows(w, e)
    BY Zenon, <1>0, <1>2 DEF Follows
  <1>5. Fenced(e) => Fenced(e)'
    BY Zenon, <1>0, <1>2, FenceFrame
  <1>6. row'[e].status = "absent" => row[e].status = "absent" /\ \A w \in Workers : exec'[w].e # e
    BY ZenonT(40), <1>0, <1>2 DEF SendInvAt
  <1>7. CASE hist'[e] = hist[e]
    BY Zenon, <1>4, <1>5, <1>6, <1>7, SendFrame
  <1>8. CASE /\ x.e = e /\ x.pc = "block" /\ ~x.sent /\ hist'[e] # hist[e]
             /\ hist'[e] = CountSend(hist[e], x)
    <2>1. /\ x.gen = hist[e].gen /\ hist'[e].sends = hist[e].sends + 1 /\ hist[e].sends \in 0..2
          /\ hist'[e].gen = hist[e].gen /\ hist'[e].licensed = hist[e].licensed
      BY Zenon, <1>8 DEF CountSend, TypeOK, Hist
    <2>2. Marked(v, e)
      BY Zenon, <1>1, <1>8, <2>1 DEF Marked
    <2>3. ~hist[e].licensed => /\ Fenced(e) /\ hist[e].sends = 0
                               /\ \A w \in Workers : Marked(w, e) => w = v
      BY Zenon, <1>1, <1>8, <2>2 DEF SendInvAt
    <2>4. \A w \in Workers : Marked(w, e)' => Marked(w, e)
      BY Zenon, <1>4, <2>1 DEF Marked, Follows
    <2>5. row'[e].status # "absent"
      BY Zenon, <1>0, <1>8 DEF SendInvAt
    <2> QED
      BY SMTT(40), <1>2, <1>5, <2>1, <2>3, <2>4, <2>5 DEF SendInvAt
  <1> QED
    BY Zenon, <1>3, <1>7, <1>8

\* The other steps of an execution whose row keeps its claim or is finished.
LEMMA SendStepRun ==
  ASSUME TypeOK, ExecInv, NEW e \in Events, SendInvAt(e), NEW v \in Workers,
         \/ LeaveBlock(v) \/ Complete(v) \/ CompleteRaises(v)
         \/ OutcomeUnrecorded(v) \/ WorkerCrash(v) \/ Redeliver(v)
         \/ \E result \in Outcomes : Finish(v, result)
  PROVE  SendInvAt(e)'
  <1> DEFINE x == exec[v]
  <1>0. /\ open' = open /\ x \in Exec
        /\ \A w \in Workers : w # v => exec'[w] = exec[w]
    BY Zenon
       DEF LeaveBlock, Complete, CompleteRaises, OutcomeUnrecorded, WorkerCrash, Redeliver, Finish, TypeOK
  <1> DEFINE Kept == /\ exec'[v].e = x.e /\ exec'[v].t = x.t /\ exec'[v].gen = x.gen
                     /\ exec'[v].started = x.started /\ exec'[v].sent = x.sent
                     /\ exec'[v].result # "timeout" => x.result # "timeout"
  <1>1. exec'[v] = IdleExec \/ Kept
    <2>1. CASE Complete(v) \/ CompleteRaises(v) \/ OutcomeUnrecorded(v) \/ WorkerCrash(v)
      BY Zenon, <2>1 DEF Complete, CompleteRaises, OutcomeUnrecorded, WorkerCrash, TypeOK
    <2>2. CASE LeaveBlock(v) \/ Redeliver(v)
      BY <1>0, <2>2 DEF LeaveBlock, Redeliver, TypeOK, Exec
    <2>3. ASSUME NEW result \in Outcomes, Finish(v, result)
          PROVE  Kept
      <3>1. x.result = "none"
        BY Zenon, <2>3 DEF Finish, InConsumer, ExecInv
      <3> QED
        BY Zenon, <1>0, <2>3, <3>1 DEF Finish, TypeOK, Exec
    <2> HIDE DEF Kept
    <2>4. CASE \E result \in Outcomes : Finish(v, result)
      BY Zenon, <2>3, <2>4
    <2> QED
      BY Zenon, <2>1, <2>2, <2>4
  <1>2. IdleExec.e # e
    BY Zenon, OutboxAssumption DEF IdleExec
  <1>3. hist'[e].gen = hist[e].gen /\ hist'[e].sends = hist[e].sends /\ hist'[e].licensed = hist[e].licensed
    <2>1. hist'[e] = hist[e] \/ \E b : hist'[e] = [hist[e] EXCEPT !.returned = b]
      <3>1. CASE \E result \in Outcomes : Finish(v, result)
        <4>1. PICK result \in Outcomes :
                hist' = [hist EXCEPT ![x.e].returned =
                           @ \/ (result = "ok" /\ x.gen = hist[x.e].gen)]
          BY Zenon, <3>1 DEF Finish
        <4>2. CASE x.e = e
          BY Zenon, <4>1, <4>2 DEF TypeOK
        <4>3. CASE x.e # e
          BY Zenon, <4>1, <4>3 DEF TypeOK
        <4> QED
          BY Zenon, <4>2, <4>3
      <3>2. CASE hist' = hist
        BY Zenon, <3>2
      <3> QED
        BY Zenon, <3>1, <3>2
           DEF LeaveBlock, Complete, CompleteRaises, OutcomeUnrecorded, WorkerCrash, Redeliver
    <2> QED
      BY Zenon, <2>1 DEF TypeOK, Hist
  <1>4. row'[e] = row[e] \/ row'[e].status = "published"
    <2>1. row'[e] = row[e] \/ row'[e] = CompleteEvent(row[e])
      BY Zenon
         DEF LeaveBlock, Complete, CompleteRaises, OutcomeUnrecorded, WorkerCrash, Redeliver, Finish,
             TypeOK
    <2>2. CompleteEvent(row[e]).status = "published"
      BY Zenon DEF CompleteEvent, TypeOK, Row
    <2> QED
      BY Zenon, <2>1, <2>2
  <1>5. \A w \in Workers : Follows(w, e)
    BY Zenon, <1>0, <1>1, <1>2 DEF Follows
  <1>6. Fenced(e) => Fenced(e)'
    <2>1. \A w \in Workers : exec'[w].e = e => exec[w].e = e /\ exec'[w].t = exec[w].t
      BY Zenon, <1>0, <1>1, <1>2
    <2>2. row'[e] = row[e] \/ row'[e].status # "pending"
      BY Zenon, <1>4
    <2> QED
      BY Zenon, <1>0, <2>1, <2>2, FenceFrame
  <1>7. row'[e].status = "absent" => row[e].status = "absent" /\ \A w \in Workers : exec'[w].e # e
    BY Zenon, <1>0, <1>1, <1>2, <1>4 DEF SendInvAt
  <1> QED
    BY Zenon, <1>3, <1>5, <1>6, <1>7, SendFrame

\* The failure of a claim that may have sent ends the event, is licensed, or is
\* attested unsent by the only execution that marked it.
LEMMA SendStepFailure ==
  ASSUME TypeOK, ExecInv, NEW e \in Events, SendInvAt(e), NEW v \in Workers, RecordFailure(v)
  PROVE  SendInvAt(e)'
  <1> DEFINE x == exec[v]
  <1>0. /\ open' = open /\ x \in Exec /\ exec'[v] = IdleExec /\ row[e] \in Row /\ window[e] \in Nat
        /\ \A w \in Workers : w # v => exec'[w] = exec[w]
        /\ x.pc = "outcome" /\ x.e \in Events /\ x.t \in Tokens
    BY Zenon DEF RecordFailure, TypeOK
  <1>1. IdleExec.e # e /\ ~IdleExec.started
    BY Zenon, OutboxAssumption DEF IdleExec
  <1>2. \A w \in Workers : Follows(w, e) /\ (exec'[w].e = e => w # v /\ exec'[w] = exec[w])
    BY SMTT(30), <1>0, <1>1 DEF Follows
  <1>3. CASE ~(x.e = e /\ Owned(row[e], x.t))
    <2>1. row'[e] = row[e] /\ hist'[e] = hist[e]
      BY ZenonT(60), <1>0, <1>3 DEF RecordFailure, TypeOK
    <2>2. Fenced(e) => Fenced(e)'
      BY Zenon, <1>0, <1>2, <2>1, FenceFrame
    <2> QED
      BY Zenon, <1>2, <2>1, <2>2, SendFrame DEF SendInvAt
  <1>4. CASE x.e = e /\ Owned(row[e], x.t)
    <2>1. PICK delay \in Delays(row[e], x.result) :
            LET new == RecordOutcome(x, row[e], window[e], delay)
                again == new.status = "pending" IN
            /\ row' = [row EXCEPT ![e] = new]
            /\ hist' = [hist EXCEPT
                 ![e].licensed = @ \/ (again /\ x.result = "at_least_once" /\ MarkedBy(row[e], x.t)),
                 ![e].window = @ \/ (again /\ x.result = "retry_within")]
      BY <1>4 DEF RecordFailure
    <2>2. delay \in Nat
      BY Zenon, <1>0, DelaysType
    <2> DEFINE new == RecordOutcome(x, row[e], window[e], delay)
               lic == hist[e].licensed
                        \/ (new.status = "pending" /\ x.result = "at_least_once" /\ MarkedBy(row[e], x.t))
               win == hist[e].window \/ (new.status = "pending" /\ x.result = "retry_within")
    <2>3. row'[e] = new /\ hist'[e] = [hist[e] EXCEPT !.licensed = lic, !.window = win]
      BY Zenon, <2>1 DEF TypeOK
    <2>4. new.status # "absent"
      BY Zenon, <1>0, <1>4, <2>2, RecordedStatus DEF Owned
    <2>5. MarkedBy(row[e], x.t) => \/ new.status = "dead_lettered"
                                   \/ x.result = "at_least_once"
                                   \/ x.result = "attested" /\ x.started
      BY <1>0, <2>2, MarkedOutcome
    <2>6. new \in Row
      BY Zenon, <1>0, <2>2, RecordOutcomeType
    <2> HIDE DEF new, win
    <2>7. /\ hist'[e].gen = hist[e].gen /\ hist'[e].sends = hist[e].sends /\ hist'[e].licensed = lic
      BY <2>3 DEF TypeOK, Hist
    <2>8. \A w \in Workers : Marked(w, e)' => w # v /\ Marked(w, e)
      BY Zenon, <1>2, <2>7 DEF Marked
    <2>9. Fenced(e) => MarkedBy(row[e], x.t)
      BY Zenon, <1>0, <1>4, OutboxAssumption DEF Fenced, Owned, MarkedBy
    <2>10. CASE new.status # "pending" \/ ~Fenced(e)
      <3>1. Fenced(e) => Fenced(e)'
        BY Zenon, <2>3, <2>10 DEF Fenced
      <3> QED
        BY Zenon, <1>2, <2>3, <2>4, <2>7, <3>1, SendFrame
    <2>11. CASE new.status = "pending" /\ Fenced(e) /\ x.result = "at_least_once"
      BY Zenon, <2>3, <2>4, <2>7, <2>9, <2>11 DEF SendInvAt
    <2>12. CASE new.status = "pending" /\ Fenced(e) /\ x.result = "attested" /\ x.started
      <3>1. x.gen <= hist[e].gen /\ (x.gen < hist[e].gen => row[e].claim # x.t) /\ ~x.sent
        BY Zenon, <1>0, <1>4, <2>12 DEF ExecInv
      <3>2. x.gen = hist[e].gen
        <4>1. x.gen \in Nat /\ hist[e].gen \in Nat /\ row[e].claim = x.t
          BY Zenon, <1>0, <1>4 DEF Owned, TypeOK, Exec, Hist
        <4> QED
          BY <3>1, <4>1
      <3>3. Marked(v, e)
        BY Zenon, <1>4, <2>12, <3>2 DEF Marked
      <3>4. ~hist[e].licensed => hist[e].sends = 0 /\ \A w \in Workers : Marked(w, e) => w = v
        BY Zenon, <2>12, <3>1, <3>3 DEF SendInvAt
      <3>5. ~hist'[e].licensed => hist'[e].sends = 0 /\ \A w \in Workers : ~Marked(w, e)'
        BY Zenon, <2>7, <2>8, <3>4
      <3>6. row'[e].status # "absent"
        BY Zenon, <2>3, <2>4
      <3>7. ~hist'[e].licensed => hist'[e].sends <= 1 /\ ~(hist'[e].sends >= 1)
        BY <3>5
      <3> QED
        BY Zenon, <3>5, <3>6, <3>7 DEF SendInvAt
    <2> QED
      BY Zenon, <2>5, <2>9, <2>10, <2>11, <2>12
  <1> QED
    BY Zenon, <1>3, <1>4

\* Every step keeps SendInv: what was sent stays fenced whichever actor moves (dispatch.py).
LEMMA SendStep ==
  Markers /\ IInv /\ ExecInv' /\ [Next]_vars => SendInv'
  <1> SUFFICES ASSUME Markers, TypeOK, HandOffInv, ExecInv, ExecInv', [Next]_vars,
                      NEW e \in Events, SendInvAt(e)
               PROVE  SendInvAt(e)'
    BY Zenon DEF IInv, SendInv
  <1>1. ASSUME NEW a \in Events, Append(a) \/ DeleteAggregateEvents(a) \/ Replay(a)
        PROVE  SendInvAt(e)'
    BY Zenon, <1>1, SendStepRows
  <1>2. ASSUME NEW tn \in Tenants, CloseTenant(tn) \/ PurgeTenantOutboxEvents(tn)
        PROVE  SendInvAt(e)'
    BY Zenon, <1>2, SendStepTenant
  <1>3. ASSUME NEW d \in Dispatchers, Dispatch(d) PROVE SendInvAt(e)'
    BY Zenon, <1>3, SendStepDispatch
  <1>4. CASE \/ \E j \in jobs : BeginRaises(j)
             \/ UNCHANGED vars
    <2>1. row' = row /\ exec' = exec /\ hist' = hist /\ open' = open
      BY Zenon, <1>4 DEF BeginRaises, vars
    <2> QED
      BY Zenon, <2>1 DEF SendInvAt, Fenced, Marked
  <1>5. ASSUME NEW v \in Workers, Run(v) PROVE SendInvAt(e)'
    <2>1. ASSUME NEW j \in jobs, Begin(v, j) PROVE SendInvAt(e)'
      BY Zenon, <2>1, SendStepBegin
    <2>2. CASE EnterEffect(v) \/ EnterEffectAckLost(v)
      BY Zenon, <2>2, SendStepEnter
    <2>3. CASE Send(v) \/ Timeout(v)
      BY Zenon, <2>3, SendStepSend
    <2>4. CASE RecordFailure(v)
      BY Zenon, <2>4, SendStepFailure
    <2>5. CASE \/ LeaveBlock(v) \/ Complete(v) \/ CompleteRaises(v)
               \/ OutcomeUnrecorded(v) \/ WorkerCrash(v) \/ Redeliver(v)
               \/ \E result \in Outcomes : Finish(v, result)
      BY SMTT(30), <2>5, SendStepRun
    <2> QED
      BY Zenon, <1>5, <2>1, <2>2, <2>3, <2>4, <2>5 DEF Run
  <1>6. CASE Tick
    <2>1. /\ row'[e].status = row[e].status /\ row'[e].claim = row[e].claim
          /\ row'[e].started = row[e].started /\ hist' = hist /\ open' = open
      BY Zenon, <1>6 DEF Tick, TypeOK, Row
    <2>2. \A w \in Workers : /\ exec'[w].e = exec[w].e /\ exec'[w].t = exec[w].t
                            /\ exec'[w].started = exec[w].started /\ exec'[w].gen = exec[w].gen
                            /\ exec'[w].sent = exec[w].sent /\ exec'[w].result = exec[w].result
      BY Zenon, <1>6 DEF Tick, TypeOK, Exec
    <2>3. Fenced(e) => Fenced(e)'
      BY Zenon, <2>1, <2>2, FenceFrame
    <2>4. \A w \in Workers : Follows(w, e)
      BY Zenon, <2>2 DEF Follows
    <2>5. row'[e].status = "absent" => row[e].status = "absent" /\ \A w \in Workers : exec'[w].e # e
      BY Zenon, <2>1, <2>2 DEF SendInvAt
    <2> QED
      BY Zenon, <2>1, <2>3, <2>4, <2>5, SendFrame
  <1> QED
    BY Zenon, <1>1, <1>2, <1>3, <1>4, <1>5, <1>6 DEF Next

\* At the start nothing is recorded, run or sent.
LEMMA SendInit == Init => IInv
  <1> SUFFICES ASSUME Init PROVE IInv
    OBVIOUS
  <1>1. TypeOK
    BY Zenon, InitType
  <1>2. HandOffInv
    BY Zenon DEF Init, HandOffInv, IdleCycle
  <1>3. ExecInv
    BY Zenon DEF Init, ExecInv, IdleExec
  <1>4. SendInv
    <2> SUFFICES ASSUME NEW e \in Events PROVE SendInvAt(e)
      BY Zenon DEF SendInv
    <2>1. hist[e].sends = 0 /\ \A w \in Workers : exec[w].e # e
      BY Zenon, OutboxAssumption DEF Init, NewHist, IdleExec
    <2>2. hist[e].sends <= 1 /\ ~(hist[e].sends >= 1)
      BY <2>1
    <2>3. \A w \in Workers : ~Marked(w, e)
      BY Zenon, <2>1 DEF Marked
    <2> QED
      BY Zenon, <2>1, <2>2, <2>3 DEF SendInvAt
  <1> QED
    BY Zenon, <1>1, <1>2, <1>3, <1>4 DEF IInv

\* "No ambiguous attempt is ever retried automatically" (dispatch.py) for any
\* number of events, tenants, dispatchers, workers and attempts, with any queue
\* that may deliver twice: when started markers are on and an enqueue that raised
\* left no job behind, the runs of an event between two replays send at most one
\* external request unless its consumer declared at_least_once.
THEOREM SendsAtMostOnce == Markers /\ ~LostAcks /\ Spec => []NoSilentRepeat
  <1>1. ~LostAcks /\ Markers /\ IInv /\ [Next]_vars => IInv'
    BY Zenon, TypeStep, HandOffStep, ExecStep, SendStep DEF IInv
  <1>2. IInv => NoSilentRepeat
    BY DEF IInv, SendInv, SendInvAt, NoSilentRepeat, TypeOK, Hist
  <1>3. CASE Markers /\ ~LostAcks
    <2>1. IInv /\ [Next]_vars => IInv'
      BY Zenon, <1>1, <1>3
    <2> QED
      BY <2>1, <1>2, SendInit, PTL DEF Spec
  <1>4. CASE ~(Markers /\ ~LostAcks)
    BY Zenon, <1>4
  <1> QED
    BY Zenon, <1>3, <1>4

=============================================================================
