-------------------------- MODULE OutboxClaimProofs -------------------------
(***************************************************************************)
(* What a claim is worth (module Outbox).  Three lemmas say who may change *)
(* a row, an execution and the history of an event; from them follow, for  *)
(* every number of events, dispatchers and workers: the lease outlasts the *)
(* consumer, so that no two consumers run one event; a claim is in one     *)
(* place; the attempts bound the runs; and an ambiguous attempt is retried *)
(* only inside its window.                                                 *)
(***************************************************************************)
EXTENDS OutboxExecProofs

-----------------------------------------------------------------------------
(* Who may change what *)

\* The claim transaction found e due: it is dead-lettered or claimed anew.
Reclaimed(e) ==
  /\ row[e].status = "pending" /\ row[e].due = 0
  /\ \/ row'[e] = DeadLetter(row[e])
     \/ \E t \in Tokens \ UsedTokens :
          /\ row[e].attempts < MaxAttempts
          /\ row'[e] = [row[e] EXCEPT !.attempts = @ + 1, !.claim = t, !.due = Lease]

\* Worker v records how its execution of e ended, as the owner of the claim.
Recorded(v, e) ==
  /\ exec[v].pc = "outcome" /\ exec[v].e = e /\ Owned(row[e], exec[v].t)
  /\ \/ row'[e] = CompleteEvent(row[e])
     \/ \E delay \in Nat : row'[e] = RecordOutcome(exec[v], row[e], window[e], delay)

\* Worker v writes its started marker, as the owner of the claim.
Marks(v, e) ==
  /\ exec[v].pc = "running" /\ exec[v].e = e /\ Owned(row[e], exec[v].t)
  /\ row'[e] = [row[e] EXCEPT !.started = exec[v].t, !.due = Lease]

\* Dispatcher d gives back the claim it could not hand off.
GivesBack(d, e) ==
  /\ cycle[d].pc = "failed" /\ cycle[d].bad.e = e /\ Owned(row[e], cycle[d].bad.t)
  /\ row'[e] = ReleaseClaim(row[e])

RowChange(e) ==
  \/ row'[e] = row[e]
  \/ row[e].status = "absent" /\ row'[e] = [NewRow EXCEPT !.status = "pending"]
  \/ row'[e] = [NewRow EXCEPT !.status = "deleted"]
  \/ Replay(e)
  \/ Reclaimed(e)
  \/ \E d \in Dispatchers : GivesBack(d, e)
  \/ \E v \in Workers : \E j \in jobs :
       Begin(v, j) /\ j.e = e /\ Owned(row[e], j.t) /\ row'[e] = BeginRow(e, j.t)
  \/ \E v \in Workers : Marks(v, e) \/ Recorded(v, e)
  \/ Tick /\ row'[e] = [row[e] EXCEPT !.due = Left(@)]

\* Between two claims a row changes only by the holder of its claim, an
\* operator, a deletion or the passing of time (dispatch.py locks the row and
\* compares the claim in every other transaction).
LEMMA RowStep ==
  ASSUME TypeOK, [Next]_vars, NEW e \in Events
  PROVE  RowChange(e)
  <1>0. row[e] \in Row
    BY Zenon DEF TypeOK
  <1>1. ASSUME NEW a \in Events, Append(a) \/ DeleteAggregateEvents(a) \/ Replay(a)
        PROVE  RowChange(e)
    BY Zenon, <1>1 DEF Append, DeleteAggregateEvents, Replay, TypeOK, RowChange
  <1>2. ASSUME NEW tn \in Tenants, CloseTenant(tn) \/ PurgeTenantOutboxEvents(tn)
        PROVE  RowChange(e)
    BY Zenon, <1>2 DEF CloseTenant, PurgeTenantOutboxEvents, TypeOK, RowChange
  <1>3. ASSUME NEW d \in Dispatchers, Dispatch(d) PROVE RowChange(e)
    <2>1. CASE ClaimDueEvents(d)
      <3>1. PICK S \in SUBSET DueEvents(cycle[d].tenants) :
              LET taken == {a \in S : ClaimRow(row[a], None).status = "pending"} IN
              \E f \in [taken -> Tokens \ UsedTokens] :
                row' = [a \in Events |-> CASE a \in taken -> ClaimRow(row[a], f[a])
                                           [] a \in S \ taken -> ClaimRow(row[a], None)
                                           [] OTHER -> row[a]]
        BY Zenon, <2>1 DEF ClaimDueEvents
      <3> DEFINE taken == {a \in S : ClaimRow(row[a], None).status = "pending"}
      <3>2. PICK f \in [taken -> Tokens \ UsedTokens] :
                row' = [a \in Events |-> CASE a \in taken -> ClaimRow(row[a], f[a])
                                           [] a \in S \ taken -> ClaimRow(row[a], None)
                                           [] OTHER -> row[a]]
        BY Zenon, <3>1
      <3>3. e \in S => row[e].status = "pending" /\ row[e].due = 0
        BY Zenon DEF DueEvents
      <3>4. taken \subseteq S /\ \A a \in taken : ClaimRow(row[a], None).status = "pending"
        BY Zenon
      <3>5. DeadLetter(row[e]).status = "dead_lettered"
        BY Zenon, <1>0 DEF DeadLetter, Row
      <3>6. \A a \in S \ taken : ClaimRow(row[a], None).status # "pending"
        BY Zenon
      <3> HIDE DEF taken
      <3>7. CASE e \in taken
        <4>1. row'[e] = ClaimRow(row[e], f[e]) /\ f[e] \in Tokens \ UsedTokens
          BY Zenon, <3>2, <3>7
        <4>2. ~(row[e].claim # None /\ MarkedBy(row[e], row[e].claim)) /\ ~(row[e].attempts >= MaxAttempts)
          BY Zenon, <3>4, <3>5, <3>7 DEF ClaimRow
        <4>3. row'[e] = [row[e] EXCEPT !.attempts = @ + 1, !.claim = f[e], !.due = Lease]
          BY Zenon, <4>1, <4>2 DEF ClaimRow
        <4>4. row[e].attempts < MaxAttempts
          <5>1. row[e].attempts \in Int /\ MaxAttempts \in Int
            BY <1>0, OutboxAssumption DEF Row
          <5> QED
            BY <5>1, <4>2
        <4> QED
          BY Zenon, <4>1, <4>3, <4>4, <3>3, <3>4, <3>7 DEF RowChange, Reclaimed
      <3>8. CASE e \in S \ taken
        <4>1. row'[e] = ClaimRow(row[e], None)
          BY Zenon, <3>2, <3>8
        <4>2. [row[e] EXCEPT !.attempts = @ + 1, !.claim = None, !.due = Lease].status = row[e].status
          BY Zenon, <1>0 DEF Row
        <4>3. row'[e] = DeadLetter(row[e])
          BY Zenon, <4>1, <4>2, <3>3, <3>6, <3>8 DEF ClaimRow
        <4> QED
          BY Zenon, <4>3, <3>3, <3>8 DEF RowChange, Reclaimed
      <3>9. CASE e \notin S
        BY Zenon, <3>2, <3>4, <3>9 DEF RowChange
      <3> QED
        BY Zenon, <3>7, <3>8, <3>9
    <2>2. CASE GiveBack(d)
      BY Zenon, <2>2 DEF GiveBack, TypeOK, RowChange, GivesBack
    <2> QED
      BY Zenon, <1>3, <2>1, <2>2
         DEF Dispatch, ListOpenTenants, HandOff, HandOffRaises, DispatcherCrash, RowChange
  <1>4. ASSUME NEW j \in jobs, BeginRaises(j) PROVE RowChange(e)
    BY Zenon, <1>4 DEF BeginRaises, RowChange
  <1>5. ASSUME NEW v \in Workers, Run(v) PROVE RowChange(e)
    <2> DEFINE x == exec[v]
    <2>1. ASSUME NEW j \in jobs, Begin(v, j) PROVE RowChange(e)
      <3>1. row'[e] = row[e] \/ (j.e = e /\ row'[e] = BeginRow(e, j.t))
        BY Zenon, <2>1 DEF Begin, TypeOK
      <3>2. ~Owned(row[e], j.t) => BeginRow(e, j.t) = row[e]
        BY DEF BeginRow
      <3> QED
        BY Zenon, <2>1, <3>1, <3>2 DEF RowChange
    <2>2. CASE EnterEffect(v) \/ EnterEffectAckLost(v)
      <3>1. \/ row' = row
            \/ /\ row' = [row EXCEPT ![x.e] = [row[x.e] EXCEPT !.started = x.t, !.due = Lease]]
               /\ Owned(row[x.e], x.t)
        BY Zenon, <2>2 DEF EnterEffect, EnterEffectAckLost, TypeOK
      <3>2. x.pc = "running"
        BY Zenon, <2>2 DEF EnterEffect, EnterEffectAckLost
      <3>3. row'[e] = row[e] \/ Marks(v, e)
        BY Zenon, <3>1, <3>2 DEF TypeOK, Marks
      <3> QED
        BY Zenon, <3>3 DEF RowChange
    <2>3. CASE Complete(v) \/ CompleteRaises(v)
      <3>1. row'[e] = row[e] \/ Recorded(v, e)
        BY Zenon, <2>3 DEF Complete, CompleteRaises, TypeOK, Recorded
      <3> QED
        BY Zenon, <3>1 DEF RowChange
    <2>4. CASE RecordFailure(v)
      <3>1. \/ row'[e] = row[e]
            \/ /\ x.e = e /\ Owned(row[e], x.t)
               /\ \E delay \in Delays(row[e], x.result) :
                    row'[e] = RecordOutcome(x, row[e], window[e], delay)
        BY Zenon, <2>4, RecordFailureRows
      <3>2. x.pc = "outcome"
        BY Zenon, <2>4 DEF RecordFailure
      <3>3. row'[e] = row[e] \/ Recorded(v, e)
        BY Zenon, <3>1, <3>2, DelaysType, <1>0 DEF Recorded
      <3> QED
        BY Zenon, <3>3 DEF RowChange
    <2>5. CASE row' = row
      BY Zenon, <2>5 DEF RowChange
    <2> QED
      BY Zenon, <1>5, <2>1, <2>2, <2>3, <2>4, <2>5
         DEF Run, Send, LeaveBlock, Finish, Timeout, OutcomeUnrecorded, WorkerCrash, Redeliver
  <1>6. CASE Tick
    BY Zenon, <1>6 DEF Tick, RowChange
  <1>7. CASE UNCHANGED vars
    BY Zenon, <1>7 DEF vars, RowChange
  <1> QED
    BY Zenon, <1>1, <1>2, <1>3, <1>4, <1>5, <1>6, <1>7 DEF Next

\* What Begin makes of worker w's execution.
Started(j) ==
  [IdleExec EXCEPT !.pc = "running", !.e = j.e, !.t = j.t, !.tries = j.tries - 1,
                   !.ttl = ConsumerTimeout, !.gen = hist[j.e].gen]

\* The execution goes on or ends, with the same event, claim and deadline and
\* the retries its job has left, or none.
Continues(x, y) ==
  /\ x.pc # "idle" /\ y.pc # "idle" /\ y.e = x.e /\ y.t = x.t /\ y.tries \in {x.tries, 0}
  /\ \/ y.pc = "outcome"
     \/ x.pc \in {"running", "block", "after"} /\ y.ttl = x.ttl

ExecChange(w) ==
  \/ exec'[w] = exec[w]
  \/ exec'[w] = IdleExec /\ exec[w].pc # "idle"
  \/ \E j \in jobs : Begin(w, j) /\ MayRun(j.e, j.t) /\ exec'[w] = Started(j)
  \/ Continues(exec[w], exec'[w])
  \/ Tick /\ exec'[w] = [exec[w] EXCEPT !.ttl = Left(@)]

\* An execution is changed by its own worker and by the passing of time only.
LEMMA ExecChanges ==
  ASSUME TypeOK, [Next]_vars, NEW w \in Workers
  PROVE  ExecChange(w)
  <1>0. exec[w] \in Exec
    BY Zenon DEF TypeOK
  <1>1. CASE Run(w)
    <2>1. ASSUME NEW j \in jobs, Begin(w, j) PROVE ExecChange(w)
      <3>1. CASE MayRun(j.e, j.t)
        <4>1. exec' = [exec EXCEPT ![w] = Started(j)]
          BY Zenon, <2>1, <3>1 DEF Begin, Started
        <4>2. exec'[w] = Started(j)
          BY Zenon, <4>1 DEF TypeOK
        <4> QED
          BY Zenon, <2>1, <3>1, <4>2 DEF ExecChange
      <3>2. CASE ~MayRun(j.e, j.t)
        BY Zenon, <2>1, <3>2 DEF Begin, ExecChange
      <3> QED
        BY Zenon, <3>1, <3>2
    <2>2. CASE EnterEffect(w) \/ EnterEffectAckLost(w)
      <3>1. \/ exec'[w] = [exec[w] EXCEPT !.pc = "block"]
            \/ exec'[w] = [exec[w] EXCEPT !.pc = "block", !.started = TRUE]
            \/ exec'[w] = [exec[w] EXCEPT !.pc = "outcome", !.result = "other", !.ttl = 0]
            \/ exec'[w] = IdleExec
        BY Zenon, <2>2 DEF EnterEffect, EnterEffectAckLost, TypeOK
      <3>2. exec[w].pc = "running"
        BY Zenon, <2>2 DEF EnterEffect, EnterEffectAckLost
      <3>3. /\ Continues(exec[w], [exec[w] EXCEPT !.pc = "block"])
            /\ Continues(exec[w], [exec[w] EXCEPT !.pc = "block", !.started = TRUE])
            /\ Continues(exec[w], [exec[w] EXCEPT !.pc = "outcome", !.result = "other", !.ttl = 0])
        BY ZenonT(40), <3>2, <1>0 DEF Continues, Exec
      <3> QED
        BY Zenon, <3>1, <3>2, <3>3 DEF ExecChange
    <2>3. CASE Send(w) \/ LeaveBlock(w)
      <3>1. exec[w].pc = "block"
        BY Zenon, <2>3 DEF Send, LeaveBlock
      <3>2. exec'[w] = [exec[w] EXCEPT !.sent = TRUE] \/ exec'[w] = [exec[w] EXCEPT !.pc = "after"]
        BY Zenon, <2>3 DEF Send, LeaveBlock, TypeOK
      <3>3. /\ Continues(exec[w], [exec[w] EXCEPT !.sent = TRUE])
            /\ Continues(exec[w], [exec[w] EXCEPT !.pc = "after"])
        BY ZenonT(40), <3>1, <1>0 DEF Continues, Exec
      <3> QED
        BY Zenon, <3>2, <3>3 DEF ExecChange
    <2>4. CASE Redeliver(w)
      <3>1. exec[w].pc # "idle" /\ exec'[w] = [exec[w] EXCEPT !.tries = 0]
        BY Zenon, <2>4 DEF Redeliver, TypeOK
      <3>2. Continues(exec[w], [exec[w] EXCEPT !.tries = 0])
        <4>1. exec[w].pc \in {"running", "block", "after", "outcome"}
          BY Zenon, <3>1, <1>0 DEF Exec
        <4> QED
          BY ZenonT(40), <4>1, <1>0 DEF Continues, Exec
      <3> QED
        BY Zenon, <3>1, <3>2 DEF ExecChange
    <2>5. ASSUME NEW result \in Outcomes, Finish(w, result) PROVE ExecChange(w)
      <3>1. /\ exec[w].pc \in {"running", "block", "after"}
            /\ exec'[w] = [exec[w] EXCEPT !.pc = "outcome", !.result = result, !.ttl = 0]
        BY Zenon, <2>5 DEF Finish, InConsumer, TypeOK
      <3>2. Continues(exec[w], [exec[w] EXCEPT !.pc = "outcome", !.result = result, !.ttl = 0])
        BY ZenonT(40), <3>1, <1>0 DEF Continues, Exec
      <3> QED
        BY Zenon, <3>1, <3>2 DEF ExecChange
    <2>6. CASE Timeout(w)
      <3>1. /\ exec[w].pc \in {"running", "block", "after"}
            /\ exec'[w] = [exec[w] EXCEPT !.pc = "outcome", !.result = "timeout"]
        BY Zenon, <2>6 DEF Timeout, InConsumer, TypeOK
      <3>2. Continues(exec[w], [exec[w] EXCEPT !.pc = "outcome", !.result = "timeout"])
        BY ZenonT(40), <3>1, <1>0 DEF Continues, Exec
      <3> QED
        BY Zenon, <3>1, <3>2 DEF ExecChange
    <2>7. CASE \/ Complete(w) \/ CompleteRaises(w) \/ RecordFailure(w) \/ OutcomeUnrecorded(w)
               \/ WorkerCrash(w)
      BY Zenon, <2>7
         DEF Complete, CompleteRaises, RecordFailure, OutcomeUnrecorded, WorkerCrash, TypeOK,
             ExecChange
    <2> QED
      BY Zenon, <1>1, <2>1, <2>2, <2>3, <2>4, <2>5, <2>6, <2>7 DEF Run
  <1>2. ASSUME NEW v \in Workers, v # w, Run(v) PROVE ExecChange(w)
    BY Zenon, <1>2
       DEF Run, Begin, EnterEffect, EnterEffectAckLost, Send, LeaveBlock, Finish,
           Timeout, Complete, CompleteRaises, RecordFailure, OutcomeUnrecorded, WorkerCrash,
           Redeliver, TypeOK, ExecChange
  <1>3. CASE Tick
    BY Zenon, <1>3 DEF Tick, ExecChange
  <1>4. CASE exec' = exec
    BY Zenon, <1>4 DEF ExecChange
  <1> QED
    BY Zenon, <1>1, <1>2, <1>3, <1>4
       DEF Next, Append, DeleteAggregateEvents, Replay, CloseTenant, PurgeTenantOutboxEvents,
           Dispatch, ListOpenTenants, ClaimDueEvents, HandOff, HandOffRaises, GiveBack,
           DispatcherCrash, BeginRaises, vars

-----------------------------------------------------------------------------
(* The lease *)

\* A token that left its dispatcher is in one place: one job or one execution.
UniqueInv ==
  /\ \A i, j \in jobs : i.t = j.t => i = j
  /\ \A j \in jobs : \A w \in Workers : exec[w].t # j.t
  /\ \A v, w \in Workers : exec[v].t = exec[w].t /\ exec[v].t # None => v = w

\* Enough for the steps that leave the queue alone.
LEMMA UniqueFrame ==
  ASSUME UniqueInv, TypeOK, jobs' \subseteq jobs,
         \A w \in Workers : exec'[w].t \in {exec[w].t, None}
  PROVE  UniqueInv'
  <1>1. \A j \in jobs : j.t # None
    BY OutboxAssumption DEF TypeOK, Job
  <1> QED
    BY Zenon, <1>1 DEF UniqueInv

\* A job that is delivered to one live worker at a time, and a hand-off that
\* raises only if the queue did not take the job, never duplicate a token
\* (api/outbox_dispatcher.py, infra/jobs/queue.py).
LEMMA UniqueStep ==
  ~LostAcks /\ ~Redelivery /\ TypeOK /\ HandOffInv /\ UniqueInv /\ [Next]_vars => UniqueInv'
  <1> SUFFICES ASSUME ~LostAcks, ~Redelivery, TypeOK, HandOffInv, UniqueInv, [Next]_vars
               PROVE  UniqueInv'
    OBVIOUS
  <1>0. \A w \in Workers : exec[w] \in Exec
    BY Zenon DEF TypeOK
  <1>i. IdleExec.t = None
    BY Zenon DEF IdleExec
  <1>k. \A j \in jobs : j.t # None
    BY OutboxAssumption DEF TypeOK, Job
  <1>e. ASSUME ~\E v \in Workers : \E j \in jobs : Begin(v, j)
        PROVE  \A w \in Workers : exec'[w].t \in {exec[w].t, None}
    <2> TAKE w \in Workers
    <2>1. ExecChange(w)
      BY Zenon, ExecChanges
    <2>2. [exec[w] EXCEPT !.ttl = Left(@)].t = exec[w].t
      BY Zenon, <1>0 DEF Exec
    <2> QED
      BY Zenon, <2>1, <2>2, <1>e, <1>i DEF ExecChange, Continues
  <1>f. ASSUME jobs' \subseteq jobs, ~\E v \in Workers : \E j \in jobs : Begin(v, j)
        PROVE  UniqueInv'
    BY Zenon, <1>e, <1>f, UniqueFrame
  <1>1. ASSUME NEW v \in Workers, NEW j \in jobs, Begin(v, j) PROVE UniqueInv'
    <2>1. jobs' = jobs \ {j} /\ \A w \in Workers : w # v => exec'[w] = exec[w]
      BY Zenon, <1>1 DEF Begin, TypeOK
    <2>2. exec' = exec \/ exec' = [exec EXCEPT ![v] = Started(j)]
      BY Zenon, <1>1 DEF Begin, Started
    <2>3. Started(j).t = j.t
      BY Zenon DEF Started, IdleExec
    <2>4. exec'[v] = exec[v] \/ exec'[v].t = j.t
      BY Zenon, <2>2, <2>3 DEF TypeOK
    <2>5. \A i, k \in jobs' : i.t = k.t => i = k
      BY Zenon, <2>1 DEF UniqueInv
    <2>6. \A i \in jobs' : i.t # j.t /\ \A w \in Workers : exec[w].t # i.t
      BY Zenon, <2>1 DEF UniqueInv
    <2>7. \A i \in jobs' : \A w \in Workers : exec'[w].t # i.t
      BY Zenon, <2>1, <2>4, <2>6
    <2>8. \A u, w \in Workers : exec'[u].t = exec'[w].t /\ exec'[u].t # None => u = w
      <3> SUFFICES ASSUME NEW u \in Workers, NEW w \in Workers, exec'[u].t = exec'[w].t,
                          exec'[u].t # None, u # w
                   PROVE  FALSE
        BY Zenon
      <3>1. \A a \in Workers : exec[a].t # j.t
        BY Zenon DEF UniqueInv
      <3>2. CASE exec'[v] = exec[v]
        <4>1. exec'[u] = exec[u] /\ exec'[w] = exec[w]
          BY Zenon, <3>2, <2>1
        <4> QED
          BY Zenon, <4>1 DEF UniqueInv
      <3>3. CASE exec'[v].t = j.t
        <4>1. CASE u = v
          BY Zenon, <4>1, <3>1, <3>3, <2>1
        <4>2. CASE w = v
          BY Zenon, <4>2, <3>1, <3>3, <2>1
        <4>3. CASE u # v /\ w # v
          BY Zenon, <4>3, <2>1 DEF UniqueInv
        <4> QED
          BY Zenon, <4>1, <4>2, <4>3
      <3> QED
        BY Zenon, <3>2, <3>3, <2>4
    <2> QED
      BY Zenon, <2>5, <2>7, <2>8 DEF UniqueInv
  <1>2. ASSUME NEW d \in Dispatchers, HandOff(d) PROVE UniqueInv'
    <2>1. PICK c \in cycle[d].claims : jobs' = jobs \cup {[e |-> c.e, t |-> c.t, tries |-> MaxTries]}
      BY Zenon, <1>2 DEF HandOff
    <2>2. c.t \notin Carried
      BY Zenon DEF HandOffInv
    <2>3. (\A i \in jobs : i.t # c.t) /\ (\A w \in Workers : exec[w].t # c.t)
      BY Zenon, <2>2, CarriedHolds
    <2>4. exec' = exec
      BY Zenon, <1>2 DEF HandOff
    <2>5. [e |-> c.e, t |-> c.t, tries |-> MaxTries].t = c.t
      BY Zenon
    <2> QED
      BY Zenon, <2>1, <2>3, <2>4, <2>5 DEF UniqueInv
  <1>3. ASSUME NEW j \in jobs, BeginRaises(j) PROVE UniqueInv'
    <2> DEFINE n == [j EXCEPT !.tries = @ - 1]
    <2>1. jobs' \subseteq (jobs \ {j}) \cup {n} /\ exec' = exec
      BY Zenon, <1>3 DEF BeginRaises
    <2>2. n.t = j.t
      BY Zenon DEF TypeOK, Job
    <2> HIDE DEF n
    <2> QED
      BY Zenon, <2>1, <2>2 DEF UniqueInv
  <1>4. ASSUME NEW v \in Workers, CompleteRaises(v) \/ WorkerCrash(v) PROVE UniqueInv'
    <2> DEFINE x == exec[v]
               n == [e |-> x.e, t |-> x.t, tries |-> x.tries]
    <2>1. jobs' \subseteq jobs \cup {n}
      BY Zenon, <1>4 DEF CompleteRaises, WorkerCrash, Requeued
    <2>2. exec'[v].t = None /\ \A w \in Workers : w # v => exec'[w] = exec[w]
      BY Zenon, <1>4, <1>i DEF CompleteRaises, WorkerCrash, TypeOK
    <2>3. n.t = x.t
      BY Zenon
    <2>4. x.t # None
      BY Zenon, <1>4, OutboxAssumption DEF CompleteRaises, WorkerCrash, TypeOK
    <2> HIDE DEF n
    <2>5. \A i \in jobs : i.t # x.t /\ i.t # None
      BY Zenon, <1>k DEF UniqueInv
    <2>6. \A w \in Workers : exec'[w].t # x.t
      BY Zenon, <2>2, <2>4 DEF UniqueInv
    <2>7. \A i, k \in jobs' : i.t = k.t => i = k
      <3> TAKE i, k \in jobs'
      <3>1. (i \in jobs \/ i = n) /\ (k \in jobs \/ k = n)
        BY Zenon, <2>1
      <3> QED
        BY Zenon, <3>1, <2>3, <2>5 DEF UniqueInv
    <2>8. \A i \in jobs' : \A w \in Workers : exec'[w].t # i.t
      <3> TAKE i \in jobs'
      <3> TAKE w \in Workers
      <3>1. i \in jobs \/ i = n
        BY Zenon, <2>1
      <3> QED
        BY Zenon, <3>1, <2>2, <2>3, <2>5, <2>6 DEF UniqueInv
    <2>9. \A u, w \in Workers : exec'[u].t = exec'[w].t /\ exec'[u].t # None => u = w
      BY Zenon, <2>2 DEF UniqueInv
    <2> QED
      BY Zenon, <2>7, <2>8, <2>9 DEF UniqueInv
  <1>5. CASE \E w \in Workers : Run(w)
    <2>1. PICK w \in Workers : Run(w)
      BY Zenon, <1>5
    <2>2. CASE jobs' = jobs
      BY Zenon, <2>2, <1>1, <1>f
    <2> QED
      BY Zenon, <2>1, <2>2, <1>1, <1>4
         DEF Run, EnterEffect, EnterEffectAckLost, Send, LeaveBlock, Finish, Timeout, Complete,
             RecordFailure, OutcomeUnrecorded, Redeliver
  <1>6. CASE jobs' = jobs
    BY Zenon, <1>6, <1>1, <1>f
  <1> QED
    BY Zenon, <1>2, <1>3, <1>5, <1>6
       DEF Next, Append, DeleteAggregateEvents, Replay, CloseTenant, PurgeTenantOutboxEvents,
           Dispatch, ListOpenTenants, ClaimDueEvents, HandOffRaises, GiveBack,
           DispatcherCrash, Tick, vars

\* A consumer that runs owns its event, if it still exists, for longer than its
\* own deadline.
LeaseInv ==
  \A w \in Workers : InConsumer(w) =>
    LET x == exec[w] IN
    /\ x.ttl <= ConsumerTimeout
    /\ \/ row[x.e].status = "deleted"
       \/ Owned(row[x.e], x.t) /\ row[x.e].due > x.ttl

\* A running consumer was running before, with its event, its claim and (unless
\* time passed) its deadline, or it is begun by this step.
LEMMA ConsumerStep ==
  ASSUME TypeOK, [Next]_vars, NEW w \in Workers, InConsumer(w)'
  PROVE  \/ \E j \in jobs : Begin(w, j) /\ MayRun(j.e, j.t) /\ exec'[w] = Started(j)
         \/ /\ InConsumer(w) /\ exec'[w].e = exec[w].e /\ exec'[w].t = exec[w].t
            /\ exec'[w].ttl = exec[w].ttl \/ (Tick /\ exec'[w].ttl = Left(exec[w].ttl))
  <1>0. exec[w] \in Exec
    BY Zenon DEF TypeOK
  <1>1. ExecChange(w)
    BY Zenon, ExecChanges
  <1>2. IdleExec.pc = "idle"
    BY Zenon DEF IdleExec
  <1>3. /\ [exec[w] EXCEPT !.ttl = Left(@)].e = exec[w].e
        /\ [exec[w] EXCEPT !.ttl = Left(@)].t = exec[w].t
        /\ [exec[w] EXCEPT !.ttl = Left(@)].pc = exec[w].pc
        /\ [exec[w] EXCEPT !.ttl = Left(@)].ttl = Left(exec[w].ttl)
    BY Zenon, <1>0 DEF Exec
  <1>4. exec'[w].pc \in {"running", "block", "after"}
    BY Zenon DEF InConsumer
  <1> QED
    BY Zenon, <1>1, <1>2, <1>3, <1>4 DEF ExecChange, Continues, InConsumer

\* The row of a running consumer is changed by a deletion, by its own marker and
\* by the passing of time only.
LEMMA HeldRow ==
  ASSUME TypeOK, HandOffInv, UniqueInv, LeaseInv, [Next]_vars, NEW w \in Workers, InConsumer(w)
  PROVE  LET e == exec[w].e IN
         \/ row'[e] = row[e]
         \/ row'[e] = [NewRow EXCEPT !.status = "deleted"]
         \/ row'[e] = [row[e] EXCEPT !.started = exec[w].t, !.due = Lease]
         \/ Tick /\ row'[e] = [row[e] EXCEPT !.due = Left(@)]
  <1> DEFINE x == exec[w]
             e == x.e
  <1>1. x.pc \in {"running", "block", "after"} /\ x.pc # "idle"
    BY Zenon DEF InConsumer
  <1>2. e \in Events /\ x.t \in Tokens /\ x \in Exec /\ row[e] \in Row
    BY Zenon, <1>1 DEF TypeOK
  <1>3. x.t # None
    BY Zenon, <1>2, OutboxAssumption
  <1>4. row[e].status = "deleted" \/ (Owned(row[e], x.t) /\ row[e].due > x.ttl)
    BY Zenon DEF LeaseInv
  <1>5. RowChange(e)
    BY Zenon, <1>2, RowStep
  <1>6. row[e].status # "absent" /\ ~Replay(e)
    BY Zenon, <1>4 DEF Owned, Replay
  <1>7. ~Reclaimed(e)
    <2>1. row[e].due \in Nat /\ x.ttl \in Nat
      BY Zenon, <1>2 DEF Row, Exec
    <2>2. row[e].due > x.ttl => row[e].due # 0
      BY <2>1
    <2> QED
      BY Zenon, <2>2, <1>4 DEF Reclaimed
  <1>8. ASSUME NEW d \in Dispatchers, GivesBack(d, e) PROVE FALSE
    <2>1. cycle[d].bad \in cycle[d].claims
      BY Zenon, <1>8 DEF GivesBack, TypeOK
    <2>2. cycle[d].bad.t \notin Carried
      BY Zenon, <2>1 DEF HandOffInv
    <2>3. row[e].status = "pending" /\ row[e].claim = cycle[d].bad.t
      BY Zenon, <1>8 DEF GivesBack, Owned
    <2>4. x.t = cycle[d].bad.t
      BY Zenon, <2>3, <1>4 DEF Owned
    <2> QED
      BY Zenon, <2>2, <2>4, CarriedHolds
  <1>9. ASSUME NEW j \in jobs, Owned(row[e], j.t) PROVE FALSE
    <2>1. x.t = j.t
      BY Zenon, <1>9, <1>4 DEF Owned
    <2> QED
      BY Zenon, <2>1 DEF UniqueInv
  <1>10. ASSUME NEW v \in Workers, Owned(row[e], exec[v].t) PROVE v = w
    <2>1. x.t = exec[v].t
      BY Zenon, <1>10, <1>4 DEF Owned
    <2> QED
      BY Zenon, <2>1, <1>3 DEF UniqueInv
  <1>11. ASSUME NEW v \in Workers, Recorded(v, e) PROVE FALSE
    <2>1. v = w /\ exec[v].pc = "outcome"
      BY Zenon, <1>10, <1>11 DEF Recorded
    <2> QED
      BY Zenon, <2>1, <1>1
  <1>12. ASSUME NEW v \in Workers, Marks(v, e)
         PROVE  row'[e] = [row[e] EXCEPT !.started = x.t, !.due = Lease]
    BY Zenon, <1>10, <1>12 DEF Marks
  <1> QED
    BY Zenon, <1>5, <1>6, <1>7, <1>8, <1>9, <1>11, <1>12 DEF RowChange

\* Every step leaves a running consumer a lease that outlasts its deadline.
LEMMA LeaseStep ==
  TypeOK /\ HandOffInv /\ UniqueInv /\ LeaseInv /\ [Next]_vars => LeaseInv'
  <1> SUFFICES ASSUME TypeOK, HandOffInv, UniqueInv, LeaseInv, [Next]_vars,
                      NEW w \in Workers, InConsumer(w)'
               PROVE  LET y == exec'[w] IN
                      /\ y.ttl <= ConsumerTimeout
                      /\ \/ row'[y.e].status = "deleted"
                         \/ Owned(row'[y.e], y.t) /\ row'[y.e].due > y.ttl
    BY Zenon DEF LeaseInv
  <1> DEFINE x == exec[w]
             y == exec'[w]
  <1>c. ConsumerTimeout \in Nat /\ Lease \in Nat /\ ConsumerTimeout < Lease
    BY Zenon, OutboxAssumption
  <1>1. ASSUME NEW j \in jobs, Begin(w, j), MayRun(j.e, j.t), y = Started(j)
        PROVE  /\ y.ttl <= ConsumerTimeout
               /\ Owned(row'[y.e], y.t) /\ row'[y.e].due > y.ttl
    <2>1. y.e = j.e /\ y.t = j.t /\ y.ttl = ConsumerTimeout
      BY Zenon, <1>1 DEF Started, IdleExec
    <2>2. j.e \in Events /\ row[j.e] \in Row
      BY Zenon DEF TypeOK, Job
    <2>3. BeginRow(j.e, j.t) = [row[j.e] EXCEPT !.due = Lease]
      BY Zenon, <1>1 DEF MayRun, BeginRow
    <2>4. row'[j.e] = [row[j.e] EXCEPT !.due = Lease]
      BY Zenon, <1>1, <2>2, <2>3 DEF Begin, TypeOK
    <2>5. row'[j.e].due = Lease /\ Owned(row'[j.e], j.t)
      BY Zenon, <1>1, <2>2, <2>4 DEF MayRun, Owned, Row
    <2>6. ConsumerTimeout <= ConsumerTimeout /\ Lease > ConsumerTimeout
      BY <1>c
    <2> QED
      BY Zenon, <2>1, <2>5, <2>6
  <1>2. ASSUME InConsumer(w), y.e = x.e, y.t = x.t,
               y.ttl = x.ttl \/ (Tick /\ y.ttl = Left(x.ttl))
        PROVE  /\ y.ttl <= ConsumerTimeout
               /\ \/ row'[y.e].status = "deleted"
                  \/ Owned(row'[y.e], y.t) /\ row'[y.e].due > y.ttl
    <2> DEFINE e == x.e
    <2>1. e \in Events /\ x \in Exec /\ row[e] \in Row
      BY Zenon, <1>2 DEF InConsumer, TypeOK
    <2>2. /\ x.ttl <= ConsumerTimeout
          /\ row[e].status = "deleted" \/ (Owned(row[e], x.t) /\ row[e].due > x.ttl)
      BY Zenon, <1>2 DEF LeaseInv
    <2>3. x.ttl \in Nat /\ row[e].due \in Nat
      BY Zenon, <2>1 DEF Exec, Row
    <2>4. y.ttl \in Nat /\ y.ttl <= x.ttl
      BY <2>3, <1>2 DEF Left
    <2>5. y.ttl <= ConsumerTimeout /\ y.ttl < Lease
      BY <2>2, <2>3, <2>4, <1>c
    <2>6. \/ row'[e] = row[e]
          \/ row'[e] = [NewRow EXCEPT !.status = "deleted"]
          \/ row'[e] = [row[e] EXCEPT !.started = x.t, !.due = Lease]
          \/ Tick /\ row'[e] = [row[e] EXCEPT !.due = Left(@)]
      BY Zenon, <1>2, HeldRow
    <2>7. CASE row'[e] = row[e]
      <3>1. row[e].due > x.ttl => row[e].due > y.ttl
        BY <2>3, <2>4
      <3> QED
        BY Zenon, <3>1, <2>2, <2>5, <2>7, <1>2
    <2>8. CASE row'[e] = [NewRow EXCEPT !.status = "deleted"]
      <3>1. row'[e].status = "deleted"
        BY Zenon, <2>8 DEF NewRow
      <3> QED
        BY Zenon, <3>1, <2>5, <1>2
    <2>9. CASE row'[e] = [row[e] EXCEPT !.started = x.t, !.due = Lease]
      <3>1. row'[e].due = Lease /\ row'[e].status = row[e].status /\ row'[e].claim = row[e].claim
        BY Zenon, <2>1, <2>9 DEF Row
      <3>2. Lease > y.ttl
        BY <2>4, <2>5, <1>c
      <3> QED
        BY Zenon, <3>1, <3>2, <2>2, <2>5, <1>2 DEF Owned
    <2>10. CASE Tick /\ row'[e] = [row[e] EXCEPT !.due = Left(@)]
      <3>1. row'[e].due = Left(row[e].due) /\ row'[e].status = row[e].status
              /\ row'[e].claim = row[e].claim
        BY Zenon, <2>1, <2>10 DEF Row
      <3>2. x.ttl > 0
        BY Zenon, <1>2, <2>10 DEF Tick
      <3>3. y.ttl = Left(x.ttl)
        BY Zenon, <2>10, <2>1 DEF Tick, Exec
      <3>4. row[e].due > x.ttl => Left(row[e].due) > y.ttl
        BY <2>3, <3>2, <3>3 DEF Left
      <3> QED
        BY Zenon, <3>1, <3>4, <2>2, <2>5, <1>2 DEF Owned
    <2> QED
      BY Zenon, <2>6, <2>7, <2>8, <2>9, <2>10
  <1> QED
    BY Zenon, <1>1, <1>2, ConsumerStep

\* A second consumer of an event could begin only under the event's current
\* claim, which the first one holds.
LEMMA OverlapStep ==
  TypeOK /\ UniqueInv /\ LeaseInv /\ NoOverlap /\ [Next]_vars => NoOverlap'
  <1> SUFFICES ASSUME TypeOK, UniqueInv, LeaseInv, NoOverlap, [Next]_vars,
                      NEW v \in Workers, NEW w \in Workers,
                      InConsumer(v)', InConsumer(w)', v # w, exec'[v].e = exec'[w].e
               PROVE  FALSE
    BY Zenon DEF NoOverlap
  <1>a. ASSUME NEW p \in Workers, NEW q \in Workers, p # q, NEW j \in jobs, Begin(p, j),
               MayRun(j.e, j.t), exec'[p] = Started(j), InConsumer(q)'
        PROVE  exec'[q].e # exec'[p].e
    <2>1. exec'[p].e = j.e
      BY Zenon, <1>a DEF Started, IdleExec
    <2>2. exec'[q] = exec[q]
      BY Zenon, <1>a DEF Begin, TypeOK
    <2>3. InConsumer(q)
      BY Zenon, <1>a, <2>2 DEF InConsumer
    <2>4. \/ row[exec[q].e].status = "deleted"
          \/ Owned(row[exec[q].e], exec[q].t)
      BY Zenon, <2>3 DEF LeaseInv
    <2>5. Owned(row[j.e], j.t)
      BY Zenon, <1>a DEF MayRun
    <2>6. exec[q].t # j.t
      BY Zenon DEF UniqueInv
    <2> QED
      BY Zenon, <2>1, <2>2, <2>4, <2>5, <2>6 DEF Owned
  <1>1. \/ \E j \in jobs : Begin(v, j) /\ MayRun(j.e, j.t) /\ exec'[v] = Started(j)
        \/ InConsumer(v) /\ exec'[v].e = exec[v].e
    BY Zenon, ConsumerStep
  <1>2. \/ \E j \in jobs : Begin(w, j) /\ MayRun(j.e, j.t) /\ exec'[w] = Started(j)
        \/ InConsumer(w) /\ exec'[w].e = exec[w].e
    BY Zenon, ConsumerStep
  <1>3. InConsumer(v) /\ exec'[v].e = exec[v].e
    BY Zenon, <1>1, <1>a
  <1>4. InConsumer(w) /\ exec'[w].e = exec[w].e
    BY Zenon, <1>2, <1>a
  <1> QED
    BY Zenon, <1>3, <1>4 DEF NoOverlap

\* The inductive invariant of the claims.
ClaimInv == TypeOK /\ HandOffInv /\ UniqueInv /\ LeaseInv /\ NoOverlap

\* An outbox nobody has claimed from satisfies the invariant of the claims.
LEMMA ClaimInit == Init => ClaimInv
  <1> SUFFICES ASSUME Init PROVE ClaimInv
    OBVIOUS
  <1>1. TypeOK
    BY Zenon, InitType
  <1>2. HandOffInv
    BY Zenon DEF Init, HandOffInv, IdleCycle
  <1>3. \A w \in Workers : exec[w].t = None /\ ~InConsumer(w)
    BY Zenon DEF Init, IdleExec, InConsumer
  <1>4. jobs = {}
    BY Zenon DEF Init
  <1> QED
    BY Zenon, <1>1, <1>2, <1>3, <1>4 DEF ClaimInv, UniqueInv, LeaseInv, NoOverlap

\* Without lost acknowledgements and redelivery every step keeps the invariant of the claims.
LEMMA ClaimStep == ~LostAcks /\ ~Redelivery /\ ClaimInv /\ [Next]_vars => ClaimInv'
  BY Zenon, TypeStep, HandOffStep, UniqueStep, LeaseStep, OverlapStep DEF ClaimInv

\* The lease outlasts the deadline (config.py MIN_LEASE_SECONDS): for any lease
\* and deadline so configured and any number of workers, two consumers inside
\* their deadlines never run the same event, as long as the queue delivers a job
\* to one live worker at a time and an enqueue that raised left no job behind.
\* Without the second condition a claim can be released under its consumer.
THEOREM OneConsumer == ~LostAcks /\ ~Redelivery /\ Spec => []NoOverlap
  <1>1. ClaimInv => NoOverlap
    BY Zenon DEF ClaimInv
  <1>2. CASE ~LostAcks /\ ~Redelivery
    <2>1. ClaimInv /\ [Next]_vars => ClaimInv'
      BY Zenon, <1>2, ClaimStep
    <2> QED
      BY <2>1, <1>1, ClaimInit, PTL DEF Spec
  <1>3. CASE ~(~LostAcks /\ ~Redelivery)
    BY Zenon, <1>3
  <1> QED
    BY Zenon, <1>2, <1>3

-----------------------------------------------------------------------------
(* Runs and attempts *)

\* Recording an outcome keeps the attempts and a retry deadline, and an attempt
\* that is retried within its window gets one (last_error, dispatch.py).
LEMMA RecordedRow ==
  ASSUME NEW r \in Row, NEW x \in Exec, NEW delay \in Nat, NEW left \in Nat
  PROVE  LET n == RecordOutcome(x, r, left, delay) IN
         /\ n.attempts = r.attempts
         /\ n.status \in {r.status, "dead_lettered"}
         /\ r.tagged => n.tagged
         /\ x.result = "retry_within" /\ n.status = "pending" => n.tagged
  <1> DEFINE Kept(n) == n.attempts = r.attempts /\ n.status \in {r.status, "dead_lettered"}
  <1>1. /\ Kept(DeadLetter(r)) /\ DeadLetter(r).tagged = r.tagged
        /\ Kept(Retry(r, delay)) /\ Retry(r, delay).tagged = r.tagged
        /\ DeadLetter(r).status = "dead_lettered"
    BY Zenon DEF DeadLetter, Retry, Row
  <1>2. \A b \in BOOLEAN :
          /\ Kept(FailEvent(r, x.t, b, delay)) /\ FailEvent(r, x.t, b, delay).tagged = r.tagged
          /\ Kept(RecordConfirmedNotSent(r, x.t, b, delay))
          /\ RecordConfirmedNotSent(r, x.t, b, delay).tagged = r.tagged
    <2> HIDE DEF Kept
    <2> QED
      BY Zenon, <1>1 DEF FailEvent, RecordConfirmedNotSent, OrdinaryFailure
  <1>3. ASSUME NEW p
        PROVE  LET n == RecordAmbiguousOutcome(r, x.t, p, left, delay) IN
               /\ Kept(n) /\ (r.tagged => n.tagged)
               /\ p = "retry_within" /\ n.status = "pending" => n.tagged
    <2> DEFINE again == /\ r.attempts < MaxAttempts
                        /\ \/ p = "at_least_once"
                           \/ p = "retry_within" /\ ~MarkedBy(r, x.t) /\ delay < left
               tagged == r.tagged \/ (p = "retry_within" /\ ~MarkedBy(r, x.t))
               base == IF again THEN Retry(r, delay) ELSE DeadLetter(r)
               n == RecordAmbiguousOutcome(r, x.t, p, left, delay)
    <2>1. Kept(base) /\ base \in Row
      BY Zenon, <1>1, RowTransitions
    <2>2. ~again => base.status = "dead_lettered"
      BY Zenon, <1>1
    <2>3. p = "retry_within" /\ again => tagged
      BY Zenon
    <2>4. r.tagged => tagged
      BY Zenon
    <2>5. n = [base EXCEPT !.tagged = tagged]
      BY Zenon DEF RecordAmbiguousOutcome
    <2> HIDE DEF base, tagged, n, again
    <2>6. n.attempts = base.attempts /\ n.status = base.status /\ n.tagged = tagged
      BY Zenon, <2>1, <2>5 DEF Row
    <2> QED
      BY Zenon, <2>1, <2>2, <2>3, <2>4, <2>6 DEF n
  <1> HIDE DEF Kept
  <1>4. CASE x.result \in {"ambiguous", "retry_within", "at_least_once"}
    <2>1. RecordOutcome(x, r, left, delay) = RecordAmbiguousOutcome(r, x.t, x.result, left, delay)
      BY Zenon, <1>4 DEF RecordOutcome
    <2> QED
      BY Zenon, <2>1, <1>3 DEF Kept
  <1>5. CASE x.result \notin {"ambiguous", "retry_within", "at_least_once"}
    <2>1. \E b \in BOOLEAN : \/ RecordOutcome(x, r, left, delay) = FailEvent(r, x.t, b, delay)
                            \/ RecordOutcome(x, r, left, delay) = RecordConfirmedNotSent(r, x.t, b, delay)
      BY Zenon, <1>5 DEF RecordOutcome
    <2> QED
      BY Zenon, <2>1, <1>2, <1>5 DEF Kept
  <1> QED
    BY Zenon, <1>4, <1>5

\* Worker v records that e is retried within its window.
Postponed(v, e) ==
  /\ exec[v].e = e /\ exec[v].result = "retry_within" /\ row'[e].status = "pending"
  /\ \E delay \in Nat : row'[e] = RecordOutcome(exec[v], row[e], window[e], delay)

HistChange(e) ==
  \/ Replay(e)
  \/ \E v \in Workers : \E j \in jobs :
       Begin(v, j) /\ j.e = e /\ MayRun(e, j.t) /\ hist'[e] = CountRun(hist[e], j.t)
  \/ /\ hist'[e].runs = hist[e].runs /\ hist'[e].begun = hist[e].begun
     /\ hist'[e].deliveries = hist[e].deliveries
     /\ hist'[e].window => hist[e].window \/ \E v \in Workers : Postponed(v, e)

\* Runs are counted where a consumer begins, and forgotten by a replay.
LEMMA HistChanges ==
  ASSUME TypeOK, [Next]_vars, NEW e \in Events
  PROVE  HistChange(e)
  <1>0. hist[e] \in Hist
    BY Zenon DEF TypeOK
  <1>a. ASSUME hist'[e] = hist[e] PROVE HistChange(e)
    BY Zenon, <1>a DEF HistChange
  <1>1. ASSUME NEW f \in Events, Replay(f) PROVE HistChange(e)
    <2>1. Replay(e) \/ hist'[e] = hist[e]
      BY Zenon, <1>1 DEF Replay, TypeOK
    <2> QED
      BY Zenon, <2>1, <1>a DEF HistChange
  <1>2. ASSUME NEW v \in Workers, Run(v) PROVE HistChange(e)
    <2> DEFINE x == exec[v]
    <2>1. ASSUME NEW j \in jobs, Begin(v, j) PROVE HistChange(e)
      <3>1. \/ hist'[e] = hist[e]
            \/ j.e = e /\ MayRun(e, j.t) /\ hist'[e] = CountRun(hist[e], j.t)
        BY Zenon, <2>1 DEF Begin, TypeOK
      <3> QED
        BY Zenon, <3>1, <2>1, <1>a DEF HistChange
    <2>2. CASE Send(v) \/ Timeout(v)
      <3>1. hist'[e] = hist[e] \/ hist'[e] = CountSend(hist[e], x)
        BY Zenon, <2>2 DEF Send, Timeout, TypeOK
      <3>2. /\ CountSend(hist[e], x).runs = hist[e].runs
            /\ CountSend(hist[e], x).begun = hist[e].begun
            /\ CountSend(hist[e], x).deliveries = hist[e].deliveries
            /\ CountSend(hist[e], x).window = hist[e].window
        BY Zenon, <1>0 DEF CountSend, Hist
      <3> QED
        BY Zenon, <3>1, <3>2 DEF HistChange
    <2>3. ASSUME NEW result \in Outcomes, Finish(v, result) PROVE HistChange(e)
      <3>1. /\ hist'[e].runs = hist[e].runs /\ hist'[e].begun = hist[e].begun
            /\ hist'[e].deliveries = hist[e].deliveries
            /\ hist'[e].window = hist[e].window
        BY Zenon, <2>3, <1>0 DEF Finish, TypeOK, Hist
      <3> QED
        BY Zenon, <3>1 DEF HistChange
    <2>4. CASE RecordFailure(v)
      <3>1. CASE ~Owned(row[x.e], x.t)
        BY Zenon, <2>4, <3>1, <1>a DEF RecordFailure
      <3>2. CASE Owned(row[x.e], x.t)
        <4>1. PICK delay \in Delays(row[x.e], x.result) :
                LET new == RecordOutcome(x, row[x.e], window[x.e], delay)
                    again == new.status = "pending" IN
                /\ row' = [row EXCEPT ![x.e] = new]
                /\ hist' = [hist EXCEPT
                     ![x.e].licensed = @ \/ (again /\ x.result = "at_least_once" /\ MarkedBy(row[x.e], x.t)),
                     ![x.e].window = @ \/ (again /\ x.result = "retry_within")]
          BY Zenon, <2>4, <3>2 DEF RecordFailure
        <4> DEFINE new == RecordOutcome(x, row[x.e], window[x.e], delay)
                   l == hist[x.e].licensed \/ (new.status = "pending" /\ x.result = "at_least_once" /\ MarkedBy(row[x.e], x.t))
                   m == hist[x.e].window \/ (new.status = "pending" /\ x.result = "retry_within")
        <4>2. x.e \in Events /\ delay \in Nat
          BY Zenon, <2>4, DelaysType DEF RecordFailure, TypeOK
        <4>3. row' = [row EXCEPT ![x.e] = new]
          BY Zenon, <4>1
        <4>4. hist' = [hist EXCEPT ![x.e] = [hist[x.e] EXCEPT !.licensed = l, !.window = m]]
          BY Zenon, <4>1, <4>2 DEF TypeOK
        <4> HIDE DEF l
        <4>5. CASE e # x.e
          BY Zenon, <4>4, <4>5, <1>a DEF TypeOK
        <4>6. CASE e = x.e
          <5>1. hist'[e] = [hist[e] EXCEPT !.licensed = l, !.window = m] /\ row'[e] = new
            BY Zenon, <4>2, <4>3, <4>4, <4>6 DEF TypeOK
          <5>2. /\ [hist[e] EXCEPT !.licensed = l, !.window = m].runs = hist[e].runs
                /\ [hist[e] EXCEPT !.licensed = l, !.window = m].begun = hist[e].begun
                /\ [hist[e] EXCEPT !.licensed = l, !.window = m].deliveries = hist[e].deliveries
                /\ [hist[e] EXCEPT !.licensed = l, !.window = m].window = m
            <6> HIDE DEF m
            <6> QED
              BY Zenon, <1>0 DEF Hist
          <5>3. m => hist[e].window \/ Postponed(v, e)
            BY Zenon, <4>2, <4>6, <5>1 DEF Postponed
          <5> HIDE DEF m
          <5> QED
            BY Zenon, <5>1, <5>2, <5>3 DEF HistChange
        <4> QED
          BY Zenon, <4>5, <4>6
      <3> QED
        BY Zenon, <3>1, <3>2
    <2>5. CASE hist' = hist
      BY Zenon, <2>5, <1>a
    <2> QED
      BY Zenon, <1>2, <2>1, <2>2, <2>3, <2>4, <2>5
         DEF Run, EnterEffect, EnterEffectAckLost, LeaveBlock, Complete, CompleteRaises,
             OutcomeUnrecorded, WorkerCrash, Redeliver
  <1>3. CASE hist' = hist
    BY Zenon, <1>3, <1>a
  <1> QED
    BY Zenon, <1>1, <1>2, <1>3
       DEF Next, Append, DeleteAggregateEvents, CloseTenant, PurgeTenantOutboxEvents, Dispatch,
           ListOpenTenants, ClaimDueEvents, HandOff, HandOffRaises, GiveBack, DispatcherCrash,
           BeginRaises, Tick, vars

\* A claim still in a dispatcher's hands has begun no run.
FreshInv ==
  \A d \in Dispatchers : \A c \in cycle[d].claims : \A e \in Events : hist[e].begun # c.t

\* The runs of an event were paid for by its attempts, the run its current claim
\* has not begun yet included.
RunOK(r, h) ==
  /\ r.status = "absent" => h.runs = 0
  /\ r.status = "pending" =>
       /\ h.runs <= r.attempts
       /\ r.claim # None /\ h.begun # r.claim => h.runs < r.attempts
  /\ h.runs <= MaxAttempts

RunInv == \A e \in Events : RunOK(row[e], hist[e])

\* An event that was retried within its window keeps its deadline for good.
WindowOK(r, h) ==
  /\ r.status = "absent" => ~h.window
  /\ h.window => r.tagged \/ r.status = "deleted"

WindowInv == \A e \in Events : WindowOK(row[e], hist[e])

\* No step begins a run under a claim the dispatcher still holds.
LEMMA FreshStep == TypeOK /\ HandOffInv /\ FreshInv /\ [Next]_vars => FreshInv'
  <1> SUFFICES ASSUME TypeOK, HandOffInv, FreshInv, [Next]_vars, NEW d \in Dispatchers,
                      NEW c \in cycle'[d].claims, NEW e \in Events
               PROVE  hist'[e].begun # c.t
    BY Zenon DEF FreshInv
  <1>1. CASE ClaimDueEvents(d)
    <2>1. PICK taken \in SUBSET Events :
            \E f \in [taken -> Tokens \ UsedTokens] : ClaimEffect(d, taken, f)
      BY Zenon, <1>1, ClaimedRows
    <2>2. PICK f \in [taken -> Tokens \ UsedTokens] : ClaimEffect(d, taken, f)
      BY Zenon, <2>1
    <2>3. \E a \in taken : c = [e |-> a, t |-> f[a]]
      BY <2>2 DEF ClaimEffect, TypeOK, IdleCycle
    <2>4. c.t \notin UsedTokens
      <3>1. PICK a \in taken : c = [e |-> a, t |-> f[a]]
        BY Zenon, <2>3
      <3>2. c.t = f[a]
        BY Zenon, <3>1
      <3> QED
        BY Zenon, <3>2
    <2>5. hist' = hist /\ hist[e].begun \in UsedTokens
      BY Zenon, <1>1 DEF ClaimDueEvents, UsedTokens
    <2> QED
      BY Zenon, <2>4, <2>5
  <1>2. CASE ~ClaimDueEvents(d)
    <2>1. c \in cycle[d].claims
      <3>1. IdleCycle.claims = {}
        BY Zenon DEF IdleCycle
      <3>2. [IdleCycle EXCEPT !.pc = "listed", !.tenants = {tn \in Tenants : open[tn]}].claims = {}
        BY Zenon DEF IdleCycle
      <3>3. \A b : [IdleCycle EXCEPT !.pc = "handing", !.claims = cycle[d].claims \ {b}].claims
                     = cycle[d].claims \ {b}
        BY Zenon DEF IdleCycle
      <3>4. \A b : [cycle[d] EXCEPT !.pc = "failed", !.bad = b].claims = cycle[d].claims
        BY Zenon DEF TypeOK, Cycle
      <3>5. ASSUME NEW x \in Dispatchers, Dispatch(x) PROVE c \in cycle[d].claims
        <4>1. CASE x # d
          <5>1. cycle'[d] = cycle[d]
            BY Zenon, <3>5, <4>1 DEF Dispatch, ListOpenTenants, ClaimDueEvents, HandOff,
               HandOffRaises, GiveBack, DispatcherCrash, NextClaim, TypeOK
          <5> QED
            BY Zenon, <5>1
        <4>2. CASE x = d
          <5>1. \/ cycle'[d] = IdleCycle
                \/ cycle'[d] = [IdleCycle EXCEPT !.pc = "listed", !.tenants = {tn \in Tenants : open[tn]}]
                \/ \E b : cycle'[d] = [IdleCycle EXCEPT !.pc = "handing", !.claims = cycle[d].claims \ {b}]
                \/ \E b : cycle'[d] = [cycle[d] EXCEPT !.pc = "failed", !.bad = b]
            <6>1. CASE ListOpenTenants(d) \/ DispatcherCrash(d)
              BY Zenon, <6>1 DEF ListOpenTenants, DispatcherCrash, TypeOK
            <6>2. ASSUME NEW b, NextClaim(d, b)
                  PROVE  \/ cycle'[d] = IdleCycle
                         \/ cycle'[d] = [IdleCycle EXCEPT !.pc = "handing", !.claims = cycle[d].claims \ {b}]
              BY Zenon, <6>2 DEF NextClaim, TypeOK
            <6>3. CASE HandOff(d) \/ GiveBack(d)
              BY Zenon, <6>2, <6>3 DEF HandOff, GiveBack
            <6>4. CASE HandOffRaises(d)
              <7>1. PICK b \in cycle[d].claims : cycle' = [cycle EXCEPT ![d].pc = "failed", ![d].bad = b]
                BY Zenon, <6>4 DEF HandOffRaises
              <7>2. cycle'[d] = [cycle[d] EXCEPT !.pc = "failed", !.bad = b]
                BY Zenon, <7>1 DEF TypeOK
              <7> QED
                BY Zenon, <7>2
            <6> QED
              BY Zenon, <3>5, <4>2, <1>2, <6>1, <6>3, <6>4 DEF Dispatch
          <5> QED
            BY Zenon, <5>1, <3>1, <3>2, <3>3, <3>4
        <4> QED
          BY Zenon, <4>1, <4>2
      <3>6. CASE cycle' = cycle
        BY Zenon, <3>6
      <3> QED
        BY Zenon, <3>5, <3>6
           DEF Next, Append, DeleteAggregateEvents, Replay, CloseTenant, PurgeTenantOutboxEvents,
               BeginRaises, Run, Begin, EnterEffect, EnterEffectAckLost, Send, LeaveBlock, Finish,
               Timeout, Complete, CompleteRaises, RecordFailure, OutcomeUnrecorded, WorkerCrash,
               Redeliver, Tick, vars
    <2>2. hist[e].begun # c.t /\ c.t \notin Carried /\ c.t # None
      <3>1. cycle[d] \in Cycle
        BY Zenon DEF TypeOK
      <3>2. cycle[d].claims \in SUBSET Claim
        BY Zenon, <3>1 DEF Cycle
      <3>3. c.t \in Tokens
        BY Zenon, <2>1, <3>2 DEF Claim
      <3> QED
        BY Zenon, <2>1, <3>3, OutboxAssumption DEF FreshInv, HandOffInv
    <2>3. CASE Replay(e)
      <3>1. hist'[e] = [NewHist(hist[e].gen + 1) EXCEPT !.window = hist[e].window]
        BY Zenon, <2>3 DEF Replay, TypeOK
      <3>2. hist'[e].begun = None
        BY Zenon, <3>1 DEF NewHist
      <3> QED
        BY Zenon, <3>2, <2>2
    <2>4. ASSUME NEW j \in jobs, hist'[e] = CountRun(hist[e], j.t) PROVE hist'[e].begun # c.t
      <3>1. hist'[e].begun \in {hist[e].begun, j.t}
        BY Zenon, <2>4 DEF CountRun, TypeOK, Hist
      <3> QED
        BY Zenon, <3>1, <2>2, CarriedHolds
    <2> QED
      BY Zenon, <2>2, <2>3, <2>4, HistChanges DEF HistChange
  <1> QED
    BY Zenon, <1>1, <1>2

\* The row loses at most its claim: its attempts and its deadline stay.
Keeps(r, n) ==
  /\ n.status = "absent" => r.status = "absent"
  /\ n.status = "pending" =>
       r.status = "pending" /\ n.attempts = r.attempts /\ n.claim \in {r.claim, None}
  /\ r.tagged => n.tagged \/ n.status = "deleted"

Claimed(r, t) == [r EXCEPT !.attempts = @ + 1, !.claim = t, !.due = Lease]

\* Only the claim transaction counts an attempt, and only release_claim() and a
\* replay take one back.
LEMMA AttemptsKept ==
  ASSUME TypeOK, [Next]_vars, NEW e \in Events
  PROVE  \/ row[e].status = "absent" /\ row'[e] = [NewRow EXCEPT !.status = "pending"]
         \/ Replay(e)
         \/ \E t \in Tokens \ UsedTokens :
              /\ row[e].status = "pending" /\ row[e].attempts < MaxAttempts
              /\ row'[e] = Claimed(row[e], t)
         \/ \E d \in Dispatchers : GivesBack(d, e)
         \/ Keeps(row[e], row'[e])
  <1>0. row[e] \in Row /\ window[e] \in Nat
    BY Zenon DEF TypeOK
  <1>1. CASE row'[e] = row[e]
    BY Zenon, <1>1 DEF Keeps
  <1>2. CASE row'[e] = [NewRow EXCEPT !.status = "deleted"]
    <2>1. row'[e].status = "deleted"
      BY Zenon, <1>2 DEF NewRow
    <2> QED
      BY Zenon, <2>1 DEF Keeps
  <1>3. ASSUME row'[e] = DeadLetter(row[e]) PROVE Keeps(row[e], row'[e])
    <2>1. row'[e].status = "dead_lettered" /\ row'[e].tagged = row[e].tagged
      BY Zenon, <1>0, <1>3 DEF DeadLetter, Row
    <2> QED
      BY Zenon, <2>1 DEF Keeps
  <1>4. ASSUME NEW j \in jobs, Owned(row[e], j.t), row'[e] = BeginRow(e, j.t)
        PROVE  Keeps(row[e], row'[e])
    <2>1. \/ row'[e] = [row[e] EXCEPT !.claim = None]
          \/ row'[e] = DeadLetter(row[e])
          \/ row'[e] = [row[e] EXCEPT !.due = Lease]
      BY Zenon, <1>4 DEF BeginRow
    <2>2. Keeps(row[e], [row[e] EXCEPT !.claim = None])
      BY ZenonT(40), <1>0 DEF Keeps, Row
    <2>3. Keeps(row[e], [row[e] EXCEPT !.due = Lease])
      BY ZenonT(40), <1>0 DEF Keeps, Row
    <2> QED
      BY Zenon, <2>1, <2>2, <2>3, <1>3
  <1>5. ASSUME NEW v \in Workers, Marks(v, e) PROVE Keeps(row[e], row'[e])
    <2>1. row'[e] = [row[e] EXCEPT !.started = exec[v].t, !.due = Lease]
      BY Zenon, <1>5 DEF Marks
    <2>2. /\ row'[e].status = row[e].status /\ row'[e].attempts = row[e].attempts
          /\ row'[e].claim = row[e].claim /\ row'[e].tagged = row[e].tagged
      BY Zenon, <2>1, <1>0 DEF Row
    <2> QED
      BY Zenon, <2>2 DEF Keeps
  <1>6. ASSUME NEW v \in Workers, Recorded(v, e) PROVE Keeps(row[e], row'[e])
    <2>0. row[e].status = "pending" /\ exec[v] \in Exec
      BY Zenon, <1>6 DEF Recorded, Owned, TypeOK
    <2>1. CASE row'[e] = CompleteEvent(row[e])
      <3>1. row'[e].status = "published" /\ row'[e].tagged = row[e].tagged
        BY Zenon, <2>1, <1>0 DEF CompleteEvent, Row
      <3> QED
        BY Zenon, <3>1 DEF Keeps
    <2>2. ASSUME NEW delay \in Nat, row'[e] = RecordOutcome(exec[v], row[e], window[e], delay)
          PROVE  Keeps(row[e], row'[e])
      <3> DEFINE n == RecordOutcome(exec[v], row[e], window[e], delay)
      <3>1. n.claim = None
        BY <2>0, <1>0, RecordedClaim
      <3>2. /\ n.attempts = row[e].attempts
            /\ n.status \in {row[e].status, "dead_lettered"}
            /\ row[e].tagged => n.tagged
        BY <2>0, <1>0, RecordedRow
      <3> HIDE DEF n
      <3>3. row'[e] = n
        BY Zenon, <2>2 DEF n
      <3> QED
        BY Zenon, <2>0, <3>1, <3>2, <3>3 DEF Keeps
    <2> QED
      BY Zenon, <1>6, <2>1, <2>2 DEF Recorded
  <1>7. CASE row'[e] = [row[e] EXCEPT !.due = Left(@)]
    <2>1. /\ row'[e].status = row[e].status /\ row'[e].attempts = row[e].attempts
          /\ row'[e].claim = row[e].claim /\ row'[e].tagged = row[e].tagged
      BY Zenon, <1>7, <1>0 DEF Row
    <2> QED
      BY Zenon, <2>1 DEF Keeps
  <1>8. RowChange(e)
    BY Zenon, RowStep
  <1> QED
    BY Zenon, <1>1, <1>2, <1>3, <1>4, <1>5, <1>6, <1>7, <1>8 DEF RowChange, Reclaimed, Claimed

\* Every step counts an attempt for each run it begins (claim_due_events).
LEMMA RunStep == TypeOK /\ FreshInv /\ RunInv /\ [Next]_vars => RunInv'
  <1> SUFFICES ASSUME TypeOK, FreshInv, RunInv, [Next]_vars, NEW e \in Events
               PROVE  RunOK(row'[e], hist'[e])
    BY Zenon DEF RunInv
  <1> DEFINE r == row[e]
             h == hist[e]
             n == row'[e]
             g == hist'[e]
  <1>0. r \in Row /\ h \in Hist /\ RunOK(r, h)
    BY Zenon DEF TypeOK, RunInv
  <1>i. /\ r.attempts \in Nat /\ r.attempts <= MaxAttempts /\ h.runs \in Nat
        /\ MaxAttempts \in Nat
    BY <1>0, OutboxAssumption DEF Row, Hist
  <1>z. 0 <= 0 /\ 0 <= MaxAttempts
    BY <1>i
  <1>1. CASE Replay(e)
    <2>1. n = ReplayRow(r) /\ g = [NewHist(h.gen + 1) EXCEPT !.window = h.window]
      BY Zenon, <1>1 DEF Replay, TypeOK
    <2>2. n.status = "pending" /\ n.attempts = 0 /\ n.claim = None
      BY Zenon, <2>1, <1>0 DEF ReplayRow, Row
    <2>3. g.runs = 0
      BY Zenon, <2>1 DEF NewHist
    <2> QED
      BY Zenon, <2>2, <2>3, <1>z DEF RunOK
  <1>2. ASSUME NEW v \in Workers, NEW j \in jobs, Begin(v, j), j.e = e, MayRun(e, j.t),
               g = CountRun(h, j.t)
        PROVE  RunOK(n, g)
    <2>1. n = [r EXCEPT !.due = Lease]
      BY Zenon, <1>2 DEF Begin, TypeOK, MayRun, BeginRow
    <2>2. n.status = "pending" /\ n.claim = j.t /\ n.attempts = r.attempts
      BY Zenon, <2>1, <1>0, <1>2 DEF MayRun, Owned, Row
    <2>3. r.status = "pending" /\ r.claim = j.t /\ j.t # None
      <3>1. j.t \in Tokens
        BY Zenon DEF TypeOK, Job
      <3> QED
        BY Zenon, <1>2, <3>1, OutboxAssumption DEF MayRun, Owned
    <2>4. CASE h.begun = j.t
      <3>1. g.runs = h.runs /\ g.begun = h.begun
        BY Zenon, <2>4, <1>2, <1>0 DEF CountRun, Hist
      <3> QED
        BY Zenon, <3>1, <2>2, <2>3, <2>4, <1>0 DEF RunOK
    <2>5. CASE h.begun # j.t
      <3>1. h.runs < r.attempts
        BY Zenon, <2>3, <2>5, <1>0 DEF RunOK
      <3>2. ~(h.runs > MaxAttempts) /\ h.runs + 1 <= r.attempts /\ h.runs + 1 <= MaxAttempts
        BY <3>1, <1>i
      <3>3. g = [h EXCEPT !.begun = j.t, !.deliveries = 1, !.runs = h.runs + 1]
        BY Zenon, <2>5, <3>2, <1>2, <1>0 DEF CountRun, CountUpTo, Hist
      <3>4. g.begun = j.t /\ g.runs = h.runs + 1
        BY Zenon, <3>3, <1>0 DEF Hist
      <3> QED
        BY Zenon, <3>2, <3>4, <2>2 DEF RunOK
    <2> QED
      BY Zenon, <2>4, <2>5
  <1>3. ASSUME g.runs = h.runs, g.begun = h.begun, ~Replay(e) PROVE RunOK(n, g)
    <2>1. CASE r.status = "absent" /\ n = [NewRow EXCEPT !.status = "pending"]
      <3>1. n.status = "pending" /\ n.attempts = 0 /\ n.claim = None
        BY Zenon, <2>1 DEF NewRow
      <3>2. g.runs = 0
        BY Zenon, <2>1, <1>0, <1>3 DEF RunOK
      <3> QED
        BY Zenon, <3>1, <3>2, <1>z DEF RunOK
    <2>2. ASSUME NEW t \in Tokens \ UsedTokens, r.status = "pending", r.attempts < MaxAttempts,
                 n = Claimed(r, t)
          PROVE  RunOK(n, g)
      <3>1. n.status = "pending" /\ n.attempts = r.attempts + 1
        BY Zenon, <2>2, <1>0 DEF Claimed, Row
      <3>2. h.runs <= r.attempts
        BY Zenon, <2>2, <1>0 DEF RunOK
      <3>3. h.runs <= r.attempts + 1 /\ h.runs < r.attempts + 1 /\ h.runs <= MaxAttempts
        BY <3>2, <1>i
      <3> QED
        BY Zenon, <3>1, <3>3, <1>3 DEF RunOK
    <2>3. ASSUME NEW d \in Dispatchers, GivesBack(d, e) PROVE RunOK(n, g)
      <3>1. /\ cycle[d].bad \in cycle[d].claims /\ r.status = "pending"
            /\ r.claim = cycle[d].bad.t /\ n = ReleaseClaim(r)
        BY Zenon, <2>3 DEF GivesBack, Owned, TypeOK
      <3>2. h.begun # r.claim
        BY Zenon, <3>1 DEF FreshInv
      <3>3. r.claim # None
        <4>1. cycle[d].claims \in SUBSET Claim
          <5>1. cycle[d] \in Cycle
            BY Zenon DEF TypeOK
          <5> QED
            BY Zenon, <5>1 DEF Cycle
        <4> QED
          BY Zenon, <4>1, <3>1, OutboxAssumption DEF Claim
      <3>4. h.runs < r.attempts
        BY Zenon, <3>1, <3>2, <3>3, <1>0 DEF RunOK
      <3>5. n.attempts = r.attempts - 1 /\ n.claim = None /\ n.status = "pending"
        <4>1. r.attempts > 0
          BY <3>4, <1>i
        <4> QED
          BY Zenon, <4>1, <3>1, <1>0 DEF ReleaseClaim, Row
      <3>6. h.runs <= r.attempts - 1 /\ h.runs <= MaxAttempts
        BY <3>4, <1>i
      <3> QED
        BY Zenon, <3>5, <3>6, <1>3 DEF RunOK
    <2>4. CASE Keeps(r, n)
      BY Zenon, <2>4, <1>0, <1>3 DEF Keeps, RunOK
    <2> QED
      BY Zenon, <2>1, <2>2, <2>3, <2>4, <1>3, AttemptsKept
  <1> QED
    BY Zenon, <1>1, <1>2, <1>3, HistChanges DEF HistChange

\* No step forgets the deadline of an event that was retried within its window.
LEMMA WindowStep == TypeOK /\ WindowInv /\ [Next]_vars => WindowInv'
  <1> SUFFICES ASSUME TypeOK, WindowInv, [Next]_vars, NEW e \in Events
               PROVE  WindowOK(row'[e], hist'[e])
    BY Zenon DEF WindowInv
  <1> DEFINE r == row[e]
             h == hist[e]
             n == row'[e]
             g == hist'[e]
  <1>0. r \in Row /\ h \in Hist /\ WindowOK(r, h)
    BY Zenon DEF TypeOK, WindowInv
  <1>1. CASE Replay(e)
    <2>1. n = ReplayRow(r) /\ g = [NewHist(h.gen + 1) EXCEPT !.window = h.window]
      BY Zenon, <1>1 DEF Replay, TypeOK
    <2>2. ReplayRow(r).status = "pending" /\ ReplayRow(r).tagged = r.tagged
      BY Zenon, <1>0 DEF ReplayRow, Row
    <2>3. r.status = "dead_lettered"
      BY Zenon, <1>1 DEF Replay
    <2>4. g.window = h.window
      BY Zenon, <2>1 DEF NewHist
    <2> QED
      BY Zenon, <2>1, <2>2, <2>3, <2>4, <1>0 DEF WindowOK
  <1>2. ASSUME NEW v \in Workers, Postponed(v, e), ~Replay(e) PROVE WindowOK(n, g)
    <2>1. PICK delay \in Nat : n = RecordOutcome(exec[v], r, window[e], delay)
      BY Zenon, <1>2 DEF Postponed
    <2>2. exec[v] \in Exec /\ window[e] \in Nat
      BY Zenon DEF TypeOK
    <2> DEFINE o == RecordOutcome(exec[v], r, window[e], delay)
    <2>3. exec[v].result = "retry_within" /\ o.status = "pending" => o.tagged
      BY <2>2, <1>0, RecordedRow
    <2> HIDE DEF o
    <2>4. n = o
      BY Zenon, <2>1 DEF o
    <2> QED
      BY Zenon, <1>2, <2>3, <2>4 DEF Postponed, WindowOK
  <1>3. ASSUME g.window => h.window, ~Replay(e) PROVE WindowOK(n, g)
    <2>1. CASE r.status = "absent" /\ n = [NewRow EXCEPT !.status = "pending"]
      <3>1. n.status = "pending"
        BY Zenon, <2>1 DEF NewRow
      <3> QED
        BY Zenon, <2>1, <3>1, <1>0, <1>3 DEF WindowOK
    <2>2. ASSUME NEW t \in Tokens \ UsedTokens, r.status = "pending", n = Claimed(r, t)
          PROVE  WindowOK(n, g)
      <3>1. n.status = "pending" /\ n.tagged = r.tagged
        BY Zenon, <2>2, <1>0 DEF Claimed, Row
      <3> QED
        BY Zenon, <3>1, <2>2, <1>0, <1>3 DEF WindowOK
    <2>3. ASSUME NEW d \in Dispatchers, GivesBack(d, e) PROVE WindowOK(n, g)
      <3>1. r.status = "pending" /\ n = ReleaseClaim(r)
        BY Zenon, <2>3 DEF GivesBack, Owned
      <3>2. n.status = "pending" /\ n.tagged = r.tagged
        BY Zenon, <3>1, <1>0 DEF ReleaseClaim, Row
      <3> QED
        BY Zenon, <3>1, <3>2, <1>0, <1>3 DEF WindowOK
    <2>4. CASE Keeps(r, n)
      <3>1. r.status = "deleted" => n = r \/ n.status = "deleted"
        <4>1. CASE row'[e] = [NewRow EXCEPT !.status = "deleted"]
          BY Zenon, <4>1 DEF NewRow
        <4>2. CASE Tick /\ row'[e] = [row[e] EXCEPT !.due = Left(@)]
          BY Zenon, <4>2, <1>0 DEF Row
        <4> QED
          BY Zenon, <4>1, <4>2, <1>3, RowStep
             DEF RowChange, Reclaimed, GivesBack, Marks, Recorded, Owned
      <3>2. n.status = "absent" => ~g.window
        BY Zenon, <2>4, <1>0, <1>3 DEF Keeps, WindowOK
      <3>3. r.tagged => n.tagged \/ n.status = "deleted"
        BY Zenon, <2>4 DEF Keeps
      <3>4. g.window => r.tagged \/ r.status = "deleted"
        BY Zenon, <1>0, <1>3 DEF WindowOK
      <3>5. r.status = "deleted" => n.status = "deleted"
        BY Zenon, <3>1
      <3> QED
        BY Zenon, <3>2, <3>3, <3>4, <3>5 DEF WindowOK
    <2> QED
      BY Zenon, <2>1, <2>2, <2>3, <2>4, <1>3, AttemptsKept
  <1>4. ASSUME NEW j \in jobs, g = CountRun(h, j.t) PROVE g.window = h.window
    BY Zenon, <1>0, <1>4 DEF CountRun, Hist
  <1> QED
    BY Zenon, <1>1, <1>2, <1>3, <1>4, HistChanges DEF HistChange

-----------------------------------------------------------------------------
(* The deliveries of one claim *)

\* A job, or the execution that may be retried, is alone in holding its token.
TriesInv ==
  /\ \A i, j \in jobs : i.t = j.t => i = j
  /\ \A j \in jobs : \A w \in Workers : exec[w].t = j.t => exec[w].tries = 0
  /\ \A v, w \in Workers : exec[v].t = exec[w].t /\ exec[v].tries # 0 /\ exec[w].tries # 0 => v = w

\* The starts of a claim, and the tries its job has left, stay within the tries
\* the job began with.
Within(h, tries) == h.deliveries + tries <= MaxTries
BudgetOK(h) ==
  /\ Within(h, 0)
  /\ h.begun # None =>
       /\ \A j \in jobs : j.t = h.begun => Within(h, j.tries)
       /\ \A w \in Workers : exec[w].t = h.begun => Within(h, exec[w].tries)

BudgetInv == \A e \in Events : BudgetOK(hist[e])

\* Nothing is added to the queue, and no execution gains a try.
Shrinks ==
  /\ jobs' \subseteq jobs
  /\ \A w \in Workers : /\ exec'[w].t \in {exec[w].t, None}
                        /\ \/ exec'[w].tries = 0
                           \/ exec'[w].t = exec[w].t /\ exec'[w].tries = exec[w].tries

\* Enough for the steps that leave the queue alone.
LEMMA TriesFrame ==
  ASSUME TypeOK, TriesInv, Shrinks
  PROVE  TriesInv'
  <1>1. \A j \in jobs : j.t # None
    BY OutboxAssumption DEF TypeOK, Job
  <1>2. \A i, j \in jobs' : i.t = j.t => i = j
    BY Zenon DEF TriesInv, Shrinks
  <1>3. \A j \in jobs' : \A w \in Workers : exec'[w].t = j.t => exec'[w].tries = 0
    BY <1>1 DEF TriesInv, Shrinks
  <1>4. \A v, w \in Workers :
          exec'[v].t = exec'[w].t /\ exec'[v].tries # 0 /\ exec'[w].tries # 0 => v = w
    BY DEF TriesInv, Shrinks
  <1> QED
    BY Zenon, <1>2, <1>3, <1>4 DEF TriesInv

\* A history that says as much of the deliveries as before.
SameDeliveries(g, h) ==
  \/ g.begun = h.begun /\ g.deliveries = h.deliveries
  \/ g.begun = None /\ g.deliveries = 0

\* No event's budget is overdrawn by a step that only takes tries away.
LEMMA BudgetFrame ==
  ASSUME TypeOK, BudgetInv, Shrinks, NEW e \in Events, SameDeliveries(hist'[e], hist[e])
  PROVE  BudgetOK(hist[e])'
  <1>1. Within(hist'[e], 0)
    <2>1. CASE hist'[e].deliveries = hist[e].deliveries
      BY Zenon, <2>1 DEF BudgetInv, BudgetOK, Within
    <2>2. CASE hist'[e].deliveries = 0
      <3>1. 0 + 0 <= MaxTries
        BY OutboxAssumption
      <3> QED
        BY Zenon, <2>2, <3>1 DEF Within
    <2> QED
      BY Zenon, <2>1, <2>2 DEF SameDeliveries
  <1>2. ASSUME hist'[e].begun # None
        PROVE  hist'[e].begun = hist[e].begun /\ hist'[e].deliveries = hist[e].deliveries
    BY Zenon, <1>2 DEF SameDeliveries
  <1>3. ASSUME hist'[e].begun # None, NEW j \in jobs', j.t = hist'[e].begun
        PROVE  Within(hist'[e], j.tries)
    BY Zenon, <1>2, <1>3 DEF Shrinks, BudgetInv, BudgetOK, Within
  <1>4. ASSUME hist'[e].begun # None, NEW w \in Workers, exec'[w].t = hist'[e].begun
        PROVE  Within(hist'[e], exec'[w].tries)
    <2>1. CASE exec'[w].tries = 0
      BY Zenon, <2>1, <1>1
    <2>2. CASE exec'[w].t = exec[w].t /\ exec'[w].tries = exec[w].tries
      BY Zenon, <2>2, <1>2, <1>4 DEF BudgetInv, BudgetOK, Within
    <2> QED
      BY Zenon, <2>1, <2>2 DEF Shrinks
  <1> QED
    BY Zenon, <1>1, <1>3, <1>4 DEF BudgetOK

\* Worker v, whose job has a try left, loses it to the queue.
Requeues(v) ==
  /\ (CompleteRaises(v) \/ WorkerCrash(v) \/ Redeliver(v)) /\ exec[v].tries # 0

\* A try is moved by the queue in four ways, and otherwise only lost.
LEMMA TriesMoves ==
  ASSUME TypeOK, [Next]_vars, ~LostAcks
  PROVE  \/ Shrinks /\ \A e \in Events : SameDeliveries(hist'[e], hist[e])
         \/ \E v \in Workers : \E j \in jobs : Begin(v, j) /\ MayRun(j.e, j.t)
         \/ \E d \in Dispatchers : HandOff(d)
         \/ \E j \in jobs : BeginRaises(j)
         \/ \E v \in Workers : Requeues(v)
  <1> SUFFICES ASSUME ~\E v \in Workers : \E j \in jobs : Begin(v, j) /\ MayRun(j.e, j.t),
                      ~\E d \in Dispatchers : HandOff(d),
                      ~\E j \in jobs : BeginRaises(j),
                      ~\E v \in Workers : Requeues(v)
               PROVE  Shrinks /\ \A e \in Events : SameDeliveries(hist'[e], hist[e])
    BY Zenon
  <1>1. \A w \in Workers : /\ exec'[w].t \in {exec[w].t, None}
                           /\ \/ exec'[w].tries = 0
                              \/ exec'[w].t = exec[w].t /\ exec'[w].tries = exec[w].tries
    <2> TAKE w \in Workers
    <2>1. exec[w] \in Exec /\ IdleExec.t = None /\ IdleExec.tries = 0
      BY Zenon DEF TypeOK, IdleExec
    <2>2. /\ [exec[w] EXCEPT !.ttl = Left(@)].t = exec[w].t
          /\ [exec[w] EXCEPT !.ttl = Left(@)].tries = exec[w].tries
      BY Zenon, <2>1 DEF Exec
    <2> QED
      BY Zenon, <2>1, <2>2, ExecChanges DEF ExecChange, Continues
  <1>2. jobs' \subseteq jobs
    <2>1. ASSUME NEW v \in Workers, CompleteRaises(v) \/ WorkerCrash(v) \/ Redeliver(v)
          PROVE  jobs' \subseteq jobs
      <3>1. exec[v].tries = 0
        BY Zenon, <2>1 DEF Requeues
      <3>2. ~(exec[v].tries > 0)
        BY <3>1
      <3> QED
        BY Zenon, <2>1, <3>2 DEF CompleteRaises, WorkerCrash, Redeliver, Requeued
    <2>2. ASSUME NEW v \in Workers, Run(v) PROVE jobs' \subseteq jobs
      BY Zenon, <2>1, <2>2
         DEF Run, Begin, EnterEffect, EnterEffectAckLost, Send, LeaveBlock, Finish, Timeout,
             Complete, RecordFailure, OutcomeUnrecorded
    <2> QED
      BY Zenon, <2>2
         DEF Next, Append, DeleteAggregateEvents, Replay, CloseTenant, PurgeTenantOutboxEvents,
             Dispatch, ListOpenTenants, ClaimDueEvents, HandOffRaises, GiveBack,
             DispatcherCrash, Tick, vars
  <1>3. ASSUME NEW e \in Events PROVE SameDeliveries(hist'[e], hist[e])
    <2>1. CASE Replay(e)
      <3>1. hist'[e] = [NewHist(hist[e].gen + 1) EXCEPT !.window = hist[e].window]
        BY Zenon, <2>1 DEF Replay, TypeOK
      <3> QED
        BY Zenon, <3>1 DEF NewHist, SameDeliveries
    <2> QED
      BY Zenon, <2>1, HistChanges DEF HistChange, SameDeliveries
  <1> QED
    BY Zenon, <1>1, <1>2, <1>3 DEF Shrinks

\* What the start of a consumer does to the tries and the deliveries.
LEMMA BeginMoves ==
  ASSUME TypeOK, NEW v \in Workers, NEW j \in jobs, Begin(v, j), MayRun(j.e, j.t)
  PROVE  /\ jobs' = jobs \ {j}
         /\ exec'[v].t = j.t /\ exec'[v].tries = j.tries - 1
         /\ \A w \in Workers : w # v => exec'[w] = exec[w]
         /\ \A e \in Events : hist'[e] = IF e = j.e THEN CountRun(hist[e], j.t) ELSE hist[e]
  <1>1. Started(j).t = j.t /\ Started(j).tries = j.tries - 1
    BY Zenon DEF Started, IdleExec
  <1>2. exec' = [exec EXCEPT ![v] = Started(j)]
    BY Zenon DEF Begin, Started
  <1>3. jobs' = jobs \ {j} /\ hist' = [hist EXCEPT ![j.e] = CountRun(@, j.t)]
    BY Zenon DEF Begin
  <1>4. exec'[v] = Started(j) /\ \A w \in Workers : w # v => exec'[w] = exec[w]
    BY Zenon, <1>2 DEF TypeOK
  <1>5. \A e \in Events : hist'[e] = IF e = j.e THEN CountRun(hist[e], j.t) ELSE hist[e]
    BY Zenon, <1>3 DEF TypeOK
  <1> QED
    BY Zenon, <1>1, <1>3, <1>4, <1>5

\* What giving a job back to the queue does to the tries.
LEMMA RequeueMoves ==
  ASSUME TypeOK, NEW v \in Workers, Requeues(v)
  PROVE  \E n \in Job :
           /\ n.t = exec[v].t /\ n.tries = exec[v].tries
           /\ jobs' \subseteq jobs \cup {n} /\ hist' = hist
           /\ exec'[v].t \in {exec[v].t, None} /\ exec'[v].tries = 0
           /\ \A w \in Workers : w # v => exec'[w] = exec[w]
  <1> DEFINE x == exec[v]
             n == [e |-> x.e, t |-> x.t, tries |-> x.tries]
  <1>0. x \in Exec /\ x.pc # "idle"
    BY Zenon DEF TypeOK, Requeues, CompleteRaises, WorkerCrash, Redeliver
  <1>1. x.e \in Events /\ x.t \in Tokens
    BY Zenon, <1>0 DEF TypeOK
  <1>2. x.tries \in 1..MaxTries
    <2>1. x.tries \in 0..MaxTries /\ x.tries # 0
      BY Zenon, <1>0 DEF Exec, Requeues
    <2> QED
      BY <2>1, OutboxAssumption
  <1>3. n \in Job /\ n.t = x.t /\ n.tries = x.tries
    BY Zenon, <1>1, <1>2 DEF Job
  <1>4. jobs' \subseteq jobs \cup {n} /\ hist' = hist
    BY Zenon DEF Requeues, CompleteRaises, WorkerCrash, Redeliver, Requeued
  <1>5. exec'[v] = IdleExec \/ exec'[v] = [x EXCEPT !.tries = 0]
    BY Zenon DEF Requeues, CompleteRaises, WorkerCrash, Redeliver, TypeOK
  <1>6. \A w \in Workers : w # v => exec'[w] = exec[w]
    BY Zenon DEF Requeues, CompleteRaises, WorkerCrash, Redeliver, TypeOK
  <1>7. exec'[v].t \in {exec[v].t, None} /\ exec'[v].tries = 0
    BY <1>0, <1>5 DEF Exec, IdleExec
  <1> HIDE DEF n
  <1> QED
    BY Zenon, <1>3, <1>4, <1>6, <1>7

\* A try is held once: the queue takes it from the worker it gives the job to
\* again (infra/jobs/queue.py), and a dispatcher hands a token off once.
LEMMA TriesStep ==
  ~LostAcks /\ TypeOK /\ HandOffInv /\ TriesInv /\ [Next]_vars => TriesInv'
  <1> SUFFICES ASSUME ~LostAcks, TypeOK, HandOffInv, TriesInv, [Next]_vars
               PROVE  TriesInv'
    OBVIOUS
  <1>1. CASE Shrinks
    BY Zenon, <1>1, TriesFrame
  <1>2. ASSUME NEW v \in Workers, NEW j \in jobs, Begin(v, j), MayRun(j.e, j.t)
        PROVE  TriesInv'
    <2>1. /\ jobs' = jobs \ {j} /\ exec'[v].t = j.t
          /\ \A w \in Workers : w # v => exec'[w] = exec[w]
      BY Zenon, <1>2, BeginMoves
    <2>2. \A i \in jobs' : i \in jobs /\ i.t # j.t
      BY Zenon, <2>1 DEF TriesInv
    <2>3. \A w \in Workers : w # v /\ exec'[w].t = j.t => exec'[w].tries = 0
      BY Zenon, <2>1 DEF TriesInv
    <2>4. \A i \in jobs' : \A w \in Workers : exec'[w].t = i.t => exec'[w].tries = 0
      BY <2>1, <2>2 DEF TriesInv
    <2>5. \A u, w \in Workers :
            exec'[u].t = exec'[w].t /\ exec'[u].tries # 0 /\ exec'[w].tries # 0 => u = w
      BY <2>1, <2>3 DEF TriesInv
    <2> QED
      BY Zenon, <2>2, <2>4, <2>5 DEF TriesInv
  <1>3. ASSUME NEW d \in Dispatchers, HandOff(d) PROVE TriesInv'
    <2>1. PICK c \in cycle[d].claims : jobs' = jobs \cup {[e |-> c.e, t |-> c.t, tries |-> MaxTries]}
      BY Zenon, <1>3 DEF HandOff
    <2>2. c.t \notin Carried
      BY Zenon DEF HandOffInv
    <2>3. (\A i \in jobs : i.t # c.t) /\ (\A w \in Workers : exec[w].t # c.t)
      BY Zenon, <2>2, CarriedHolds
    <2>4. exec' = exec
      BY Zenon, <1>3 DEF HandOff
    <2>5. [e |-> c.e, t |-> c.t, tries |-> MaxTries].t = c.t
      BY Zenon
    <2> QED
      BY Zenon, <2>1, <2>3, <2>4, <2>5 DEF TriesInv
  <1>4. ASSUME NEW j \in jobs, BeginRaises(j) PROVE TriesInv'
    <2> DEFINE n == [j EXCEPT !.tries = @ - 1]
    <2>1. jobs' \subseteq (jobs \ {j}) \cup {n} /\ exec' = exec
      BY Zenon, <1>4 DEF BeginRaises
    <2>2. n.t = j.t
      BY Zenon DEF TypeOK, Job
    <2> HIDE DEF n
    <2> QED
      BY Zenon, <2>1, <2>2 DEF TriesInv
  <1>5. ASSUME NEW v \in Workers, Requeues(v) PROVE TriesInv'
    <2>1. PICK n \in Job :
            /\ n.t = exec[v].t
            /\ jobs' \subseteq jobs \cup {n}
            /\ exec'[v].t \in {exec[v].t, None} /\ exec'[v].tries = 0
            /\ \A w \in Workers : w # v => exec'[w] = exec[w]
      BY Zenon, <1>5, RequeueMoves
    <2>2. exec[v].tries # 0
      BY Zenon, <1>5 DEF Requeues
    <2>3. \A i \in jobs : i.t # n.t
      BY Zenon, <2>1, <2>2 DEF TriesInv
    <2>4. \A w \in Workers : w # v /\ exec[w].t = n.t => exec[w].tries = 0
      BY Zenon, <2>1, <2>2 DEF TriesInv
    <2>5. \A i, k \in jobs' : i.t = k.t => i = k
      BY Zenon, <2>1, <2>3 DEF TriesInv
    <2>6. \A i \in jobs' : \A w \in Workers : exec'[w].t = i.t => exec'[w].tries = 0
      BY <2>1, <2>4 DEF TriesInv
    <2>7. \A u, w \in Workers :
            exec'[u].t = exec'[w].t /\ exec'[u].tries # 0 /\ exec'[w].tries # 0 => u = w
      BY <2>1 DEF TriesInv
    <2> QED
      BY Zenon, <2>5, <2>6, <2>7 DEF TriesInv
  <1> QED
    BY Zenon, <1>1, <1>2, <1>3, <1>4, <1>5, TriesMoves

\* Every start of the consumer is paid for by a try of the job its claim was
\* handed off with (infra/jobs/queue.py caps the tries; a claim that has begun
\* is never handed off again).
LEMMA BudgetStep ==
  ~LostAcks /\ TypeOK /\ HandOffInv /\ FreshInv /\ TriesInv /\ BudgetInv /\ [Next]_vars
    => BudgetInv'
  <1> SUFFICES ASSUME ~LostAcks, TypeOK, HandOffInv, FreshInv, TriesInv, BudgetInv, [Next]_vars,
                      NEW e \in Events
               PROVE  BudgetOK(hist[e])'
    BY Zenon DEF BudgetInv
  <1> DEFINE h == hist[e]
             g == hist'[e]
  <1>0. BudgetOK(h) /\ h \in Hist
    BY Zenon DEF BudgetInv, TypeOK
  <1>m. h.deliveries \in Nat /\ MaxTries \in Nat /\ MaxTries >= 1
    BY <1>0, OutboxAssumption DEF Hist
  <1>1. CASE Shrinks /\ SameDeliveries(g, h)
    BY Zenon, <1>1, BudgetFrame
  <1>2. ASSUME NEW v \in Workers, NEW j \in jobs, Begin(v, j), MayRun(j.e, j.t)
        PROVE  BudgetOK(hist[e])'
    <2>0. j.tries \in 1..MaxTries /\ j.t \in Tokens /\ j.t # None
      BY OutboxAssumption DEF TypeOK, Job
    <2>1. /\ jobs' = jobs \ {j} /\ exec'[v].t = j.t /\ exec'[v].tries = j.tries - 1
          /\ \A w \in Workers : w # v => exec'[w] = exec[w]
          /\ g = IF e = j.e THEN CountRun(h, j.t) ELSE h
      BY Zenon, <1>2, BeginMoves
    <2>2. \A i \in jobs' : i \in jobs /\ i.t # j.t
      BY Zenon, <2>1 DEF TriesInv
    <2>3. \A w \in Workers : w # v /\ exec'[w].t = j.t => exec'[w].tries = 0
      BY <2>1 DEF TriesInv
    <2>4. CASE g = h
      <3>1. CASE h.begun = j.t
        <4>1. Within(h, j.tries) /\ Within(h, 0)
          BY Zenon, <3>1, <2>0, <1>0 DEF BudgetOK
        <4>2. Within(h, j.tries - 1)
          BY <4>1, <1>m, <2>0 DEF Within
        <4>3. \A w \in Workers : exec'[w].t = g.begun => Within(g, exec'[w].tries)
          BY Zenon, <4>1, <4>2, <3>1, <2>1, <2>3, <2>4
        <4> QED
          BY Zenon, <4>1, <4>3, <3>1, <2>2, <2>4 DEF BudgetOK
      <3>2. CASE h.begun # j.t
        BY Zenon, <3>2, <2>1, <2>2, <2>4, <1>0 DEF BudgetOK
      <3> QED
        BY Zenon, <3>1, <3>2
    <2>5. CASE g = CountRun(h, j.t)
      <3>1. g.begun = j.t /\ Within(g, j.tries - 1)
        <4>1. CASE h.begun = j.t
          <5>1. Within(h, j.tries)
            BY Zenon, <4>1, <2>0, <1>0 DEF BudgetOK
          <5>2. CountUpTo(h.deliveries, MaxTries) = h.deliveries + 1
            BY <5>1, <2>0, <1>m DEF Within, CountUpTo
          <5>3. g = [h EXCEPT !.deliveries = CountUpTo(h.deliveries, MaxTries)]
            BY Zenon, <2>5, <4>1, <1>0 DEF CountRun, Hist
          <5>4. g.begun = j.t /\ g.deliveries = h.deliveries + 1
            BY Zenon, <5>2, <5>3, <4>1, <1>0 DEF Hist
          <5> QED
            BY <5>1, <5>4, <2>0, <1>m DEF Within
        <4>2. CASE h.begun # j.t
          <5>1. g.begun = j.t /\ g.deliveries = 1
            BY Zenon, <2>5, <4>2, <1>0 DEF CountRun, Hist
          <5> QED
            BY <5>1, <2>0, <1>m DEF Within
        <4> QED
          BY Zenon, <4>1, <4>2
      <3>2. Within(g, 0)
        <4>1. g.deliveries \in Nat
          <5>1. h.deliveries + 1 \in Nat /\ 1 \in Nat
            BY <1>m
          <5>2. CountUpTo(h.deliveries, MaxTries) \in Nat
            BY Zenon, <5>1, <1>m DEF CountUpTo
          <5> QED
            BY Zenon, <2>5, <5>1, <5>2, <1>0 DEF CountRun, Hist
        <4> QED
          BY <4>1, <3>1, <2>0, <1>m DEF Within
      <3>3. \A w \in Workers : exec'[w].t = g.begun => Within(g, exec'[w].tries)
        BY Zenon, <3>1, <3>2, <2>1, <2>3
      <3>4. \A i \in jobs' : i.t # g.begun
        BY Zenon, <3>1, <2>2
      <3> QED
        BY Zenon, <3>2, <3>3, <3>4 DEF BudgetOK
    <2> QED
      BY Zenon, <2>1, <2>4, <2>5
  <1>3. ASSUME NEW d \in Dispatchers, HandOff(d) PROVE BudgetOK(hist[e])'
    <2>1. PICK c \in cycle[d].claims : jobs' = jobs \cup {[e |-> c.e, t |-> c.t, tries |-> MaxTries]}
      BY Zenon, <1>3 DEF HandOff
    <2>2. exec' = exec /\ hist' = hist
      BY Zenon, <1>3 DEF HandOff
    <2>3. [e |-> c.e, t |-> c.t, tries |-> MaxTries].t = c.t /\ h.begun # c.t
      BY Zenon DEF FreshInv
    <2> QED
      BY Zenon, <2>1, <2>2, <2>3, <1>0 DEF BudgetOK
  <1>4. ASSUME NEW j \in jobs, BeginRaises(j) PROVE BudgetOK(hist[e])'
    <2> DEFINE n == [j EXCEPT !.tries = @ - 1]
    <2>1. jobs' \subseteq (jobs \ {j}) \cup {n} /\ exec' = exec /\ hist' = hist
      BY Zenon, <1>4 DEF BeginRaises
    <2>2. n.t = j.t /\ n.tries = j.tries - 1 /\ j.tries \in 1..MaxTries
      BY Zenon DEF TypeOK, Job
    <2> HIDE DEF n
    <2>3. Within(h, j.tries) => Within(h, n.tries)
      BY <2>2, <1>m DEF Within
    <2> QED
      BY Zenon, <2>1, <2>2, <2>3, <1>0 DEF BudgetOK
  <1>5. ASSUME NEW v \in Workers, Requeues(v) PROVE BudgetOK(hist[e])'
    <2>1. PICK n \in Job :
            /\ n.t = exec[v].t /\ n.tries = exec[v].tries
            /\ jobs' \subseteq jobs \cup {n} /\ hist' = hist
            /\ exec'[v].tries = 0
            /\ \A w \in Workers : w # v => exec'[w] = exec[w]
      BY Zenon, <1>5, RequeueMoves
    <2>2. \A w \in Workers : exec'[w].t = h.begun /\ h.begun # None => Within(h, exec'[w].tries)
      BY Zenon, <2>1, <1>0 DEF BudgetOK
    <2>3. \A i \in jobs' : i.t = h.begun /\ h.begun # None => Within(h, i.tries)
      BY Zenon, <2>1, <1>0 DEF BudgetOK
    <2> QED
      BY Zenon, <2>1, <2>2, <2>3, <1>0 DEF BudgetOK
  <1> QED
    BY Zenon, <1>1, <1>2, <1>3, <1>4, <1>5, TriesMoves

-----------------------------------------------------------------------------
(* With a queue that acknowledges the hand-offs it accepts *)

\* The inductive invariant of the runs.
AttemptInv ==
  /\ TypeOK /\ HandOffInv /\ FreshInv /\ RunInv /\ WindowInv
  /\ TriesInv /\ BudgetInv

\* An outbox nobody has claimed from satisfies the invariant of the runs.
LEMMA AttemptInit == Init => AttemptInv
  <1> SUFFICES ASSUME Init PROVE AttemptInv
    OBVIOUS
  <1>1. TypeOK
    BY Zenon, InitType
  <1>2. HandOffInv /\ FreshInv
    BY Zenon DEF Init, HandOffInv, FreshInv, IdleCycle
  <1>3. \A e \in Events : row[e].status = "absent" /\ hist[e].runs = 0 /\ ~hist[e].window
    BY Zenon DEF Init, NewRow, NewHist
  <1>4. 0 <= MaxAttempts
    BY OutboxAssumption
  <1>5. RunInv /\ WindowInv
    BY Zenon, <1>3, <1>4 DEF RunInv, RunOK, WindowInv, WindowOK
  <1>6. TriesInv
    BY Zenon DEF Init, IdleExec, TriesInv
  <1>7. BudgetInv
    <2>1. 0 + 0 <= MaxTries
      BY OutboxAssumption
    <2>2. \A e \in Events : hist[e].begun = None /\ hist[e].deliveries = 0
      BY Zenon DEF Init, NewHist
    <2> QED
      BY Zenon, <2>1, <2>2 DEF BudgetInv, BudgetOK, Within
  <1> QED
    BY Zenon, <1>1, <1>2, <1>5, <1>6, <1>7 DEF AttemptInv

\* Without lost acknowledgements every step keeps the invariant of the runs.
LEMMA AttemptStep == ~LostAcks /\ AttemptInv /\ [Next]_vars => AttemptInv'
  BY Zenon, TypeStep, HandOffStep, FreshStep, RunStep, WindowStep, TriesStep, BudgetStep
     DEF AttemptInv

\* OUTBOX_MAX_ATTEMPTS bounds the claims under which the consumer of an event is
\* started between two replays, and not only the counter that release_claim()
\* turns back; and the tries of the run job bound the starts under one claim,
\* the jobs the queue delivers twice included: for any number of attempts, tries,
\* workers and dispatchers, if an enqueue that raised left no job behind.
THEOREM AttemptsBoundRuns == ~LostAcks /\ Spec => []RunsBounded
  <1>1. AttemptInv => RunsBounded
    <2> SUFFICES ASSUME AttemptInv, NEW e \in Events
                 PROVE  hist[e].runs <= MaxAttempts /\ hist[e].deliveries <= MaxTries
      BY Zenon DEF RunsBounded
    <2>1. hist[e].runs <= MaxAttempts
      BY Zenon DEF AttemptInv, RunInv, RunOK
    <2>2. Within(hist[e], 0) /\ hist[e] \in Hist
      BY Zenon DEF AttemptInv, BudgetInv, BudgetOK, TypeOK
    <2>3. hist[e].deliveries \in Nat
      BY <2>2, OutboxAssumption DEF Hist
    <2>4. hist[e].deliveries <= MaxTries
      BY <2>2, <2>3 DEF Within
    <2> QED
      BY Zenon, <2>1, <2>4
  <1>2. CASE ~LostAcks
    <2>1. AttemptInv /\ [Next]_vars => AttemptInv'
      BY Zenon, <1>2, AttemptStep
    <2> QED
      BY <2>1, <1>1, AttemptInit, PTL DEF Spec
  <1>3. CASE LostAcks
    BY Zenon, <1>3
  <1> QED
    BY Zenon, <1>2, <1>3

\* An attempt whose outcome is unknown is run again only inside its consumer's
\* window (begin_event_execution() looks at the deadline when attempts > 1): the
\* counter exceeds 1 on every such run, because each run of an earlier claim has
\* been paid for by an attempt of its own.
THEOREM RetriedInWindow == ~LostAcks /\ Spec => RetriedInsideWindow
  <1> DEFINE Late(w) ==
        exec[w].pc = "idle" /\ exec'[w].pc = "running" =>
          LET e == exec'[w].e IN
          hist[e].window /\ hist[e].runs > 0 /\ hist[e].begun # exec'[w].t => window[e] > 0
  <1>1. AttemptInv /\ [Next]_vars => \A w \in Workers : Late(w)
    <2> SUFFICES ASSUME AttemptInv, [Next]_vars, NEW w \in Workers, exec[w].pc = "idle",
                        exec'[w].pc = "running", hist[exec'[w].e].window,
                        hist[exec'[w].e].runs > 0, hist[exec'[w].e].begun # exec'[w].t
                 PROVE  window[exec'[w].e] > 0
      BY Zenon
    <2>0. TypeOK /\ RunInv /\ WindowInv
      BY Zenon DEF AttemptInv
    <2>1. PICK j \in jobs : Begin(w, j) /\ MayRun(j.e, j.t) /\ exec'[w] = Started(j)
      <3>1. InConsumer(w)' /\ ~InConsumer(w)
        BY Zenon DEF InConsumer
      <3> QED
        BY Zenon, <3>1, <2>0, ConsumerStep
    <2> DEFINE e == j.e
    <2>2. exec'[w].e = e /\ exec'[w].t = j.t
      <3>1. Started(j).e = j.e /\ Started(j).t = j.t
        BY Zenon DEF Started, IdleExec
      <3> QED
        BY Zenon, <2>1, <3>1
    <2>3. e \in Events /\ j.t \in Tokens
      BY Zenon, <2>0 DEF TypeOK, Job
    <2>4. row[e].status = "pending" /\ row[e].claim = j.t /\ ~WindowClosed(e) /\ j.t # None
      BY Zenon, <2>1, <2>3, OutboxAssumption DEF MayRun, Owned
    <2>5. row[e].tagged
      BY Zenon, <2>0, <2>2, <2>3, <2>4 DEF WindowInv, WindowOK
    <2>6. hist[e].runs < row[e].attempts
      BY Zenon, <2>0, <2>2, <2>3, <2>4 DEF RunInv, RunOK
    <2>7. hist[e].runs \in Nat /\ row[e].attempts \in Int /\ window[e] \in Nat
      BY <2>0, <2>3 DEF TypeOK, Row, Hist
    <2>8. hist[e].runs > 0
      BY Zenon, <2>2
    <2>9. row[e].attempts > 1
      BY <2>6, <2>7, <2>8
    <2>10. window[e] # 0
      BY Zenon, <2>4, <2>5, <2>9 DEF WindowClosed
    <2>11. window[e] > 0
      BY <2>7, <2>10
    <2> QED
      BY Zenon, <2>2, <2>11
  <1>2. CASE ~LostAcks
    <2>1. AttemptInv /\ [Next]_vars => AttemptInv'
      BY Zenon, <1>2, AttemptStep
    <2>2. AttemptInv /\ [Next]_vars => [\A w \in Workers : Late(w)]_vars
      BY Zenon, <1>1
    <2>3. Spec => [][\A w \in Workers : Late(w)]_vars
      <3> HIDE DEF Late
      <3> QED
        BY <2>1, <2>2, AttemptInit, PTL DEF Spec
    <2> QED
      BY Zenon, <2>3 DEF RetriedInsideWindow
  <1>3. CASE LostAcks
    BY Zenon, <1>3
  <1> QED
    BY Zenon, <1>2, <1>3

\* "It never ran" (release_claim()) is true of every claim given back when an
\* enqueue that raised left no job behind.  The run outbox_lost_ack shows that it
\* is not true without that condition.
THEOREM ReleaseIsRight == ~LostAcks /\ Spec => ReleasedNeverRan
  <1> DEFINE Right(d) ==
        cycle[d].pc = "failed" /\ cycle'[d].pc # "failed" =>
          LET c == cycle[d].bad IN
          row'[c.e].attempts < row[c.e].attempts => hist[c.e].begun # c.t
  <1>1. AttemptInv => \A d \in Dispatchers : Right(d)
    <2> SUFFICES ASSUME AttemptInv, NEW d \in Dispatchers, cycle[d].pc = "failed"
                 PROVE  hist[cycle[d].bad.e].begun # cycle[d].bad.t
      BY Zenon
    <2>1. cycle[d].bad \in cycle[d].claims /\ cycle[d] \in Cycle
      BY Zenon DEF AttemptInv, TypeOK
    <2>2. cycle[d].bad \in Claim
      BY Zenon, <2>1 DEF Cycle
    <2>3. cycle[d].bad.e \in Events
      BY Zenon, <2>2 DEF Claim
    <2> QED
      BY Zenon, <2>1, <2>3 DEF AttemptInv, FreshInv
  <1>2. CASE ~LostAcks
    <2>1. AttemptInv /\ [Next]_vars => AttemptInv'
      BY Zenon, <1>2, AttemptStep
    <2>2. AttemptInv => [\A d \in Dispatchers : Right(d)]_vars
      BY Zenon, <1>1
    <2>3. Spec => [][\A d \in Dispatchers : Right(d)]_vars
      <3> HIDE DEF Right
      <3> QED
        BY <2>1, <2>2, AttemptInit, PTL DEF Spec
    <2> QED
      BY Zenon, <2>3 DEF ReleasedNeverRan
  <1>3. CASE LostAcks
    BY Zenon, <1>3
  <1> QED
    BY Zenon, <1>2, <1>3

-----------------------------------------------------------------------------
INSTANCE FiniteSetTheorems

\* A set without two different elements has at most one.
LEMMA AtMostOne ==
  ASSUME NEW S, \A a, b \in S : a = b
  PROVE  (S = {} /\ Cardinality(S) = 0) \/ (S # {} /\ Cardinality(S) = 1)
  <1>1. CASE S = {}
    BY Zenon, <1>1, FS_EmptySet
  <1>2. CASE S # {}
    <2>1. PICK a \in S : TRUE
      BY Zenon, <1>2
    <2>2. S = {a}
      BY Zenon, <2>1
    <2> QED
      BY Zenon, <2>2, <1>2, FS_Singleton
  <1> QED
    BY Zenon, <1>1, <1>2

\* Two dispatchers never hand out one claim, a hand-off that failed left nothing
\* behind, and the queue and the workers hold a claim once: the current claim of
\* an event is in one place (outbox_dispatcher.py, any number of processes).
THEOREM HeldOnce == Spec => []ClaimHeldOnce
  <1>1. ClaimInv => ClaimHeldOnce
    <2> SUFFICES ASSUME ClaimInv, NEW e \in Events, row[e].claim # None
                 PROVE  LET c == [e |-> e, t |-> row[e].claim] IN
                        Cardinality({d \in Dispatchers : c \in cycle[d].claims})
                          + Cardinality({j \in jobs : j.e = c.e /\ j.t = c.t})
                          + Cardinality({w \in Workers : exec[w].e = c.e /\ exec[w].t = c.t}) <= 1
      BY Zenon DEF ClaimHeldOnce
    <2> DEFINE c == [e |-> e, t |-> row[e].claim]
               D == {d \in Dispatchers : c \in cycle[d].claims}
               J == {j \in jobs : j.e = c.e /\ j.t = c.t}
               W == {w \in Workers : exec[w].e = c.e /\ exec[w].t = c.t}
    <2>0. c.t = row[e].claim
      BY Zenon
    <2>1. \A a, b \in D : a = b
      <3> TAKE a, b \in D
      <3>1. a \in Dispatchers /\ c \in cycle[a].claims /\ b \in Dispatchers /\ c \in cycle[b].claims
        BY Zenon
      <3> HIDE DEF c, D
      <3> QED
        BY Zenon, <3>1 DEF ClaimInv, HandOffInv
    <2>2. \A a, b \in J : a = b
      BY Zenon DEF ClaimInv, UniqueInv
    <2>3. \A a, b \in W : a = b
      BY Zenon, <2>0 DEF ClaimInv, UniqueInv
    <2>4. D # {} => J = {} /\ W = {}
      <3> SUFFICES ASSUME NEW d \in D PROVE J = {} /\ W = {}
        BY Zenon
      <3>1. c.t \notin Carried
        BY Zenon DEF ClaimInv, HandOffInv
      <3> QED
        BY Zenon, <3>1, CarriedHolds
    <2>5. J # {} => W = {}
      <3> SUFFICES ASSUME NEW j \in J, NEW w \in W PROVE FALSE
        BY Zenon
      <3>1. j \in jobs /\ w \in Workers /\ j.t = exec[w].t
        BY Zenon
      <3> QED
        BY Zenon, <3>1 DEF ClaimInv, UniqueInv
    <2> HIDE DEF D, J, W, c
    <2>6. (D = {} /\ Cardinality(D) = 0) \/ (D # {} /\ Cardinality(D) = 1)
      BY Zenon, <2>1, AtMostOne
    <2>7. (J = {} /\ Cardinality(J) = 0) \/ (J # {} /\ Cardinality(J) = 1)
      BY Zenon, <2>2, AtMostOne
    <2>8. (W = {} /\ Cardinality(W) = 0) \/ (W # {} /\ Cardinality(W) = 1)
      BY Zenon, <2>3, AtMostOne
    <2>9. \/ Cardinality(D) = 1 /\ Cardinality(J) = 0 /\ Cardinality(W) = 0
          \/ Cardinality(D) = 0 /\ Cardinality(J) = 1 /\ Cardinality(W) = 0
          \/ Cardinality(D) = 0 /\ Cardinality(J) = 0 /\ Cardinality(W) \in {0, 1}
      BY Zenon, <2>4, <2>5, <2>6, <2>7, <2>8
    <2>10. Cardinality(D) + Cardinality(J) + Cardinality(W) <= 1
      BY <2>9
    <2> QED
      BY Zenon, <2>10 DEF D, J, W, c
  <1>2. CASE ~LostAcks /\ ~Redelivery
    <2>1. ClaimInv /\ [Next]_vars => ClaimInv'
      BY Zenon, <1>2, ClaimStep
    <2> QED
      BY <2>1, <1>1, ClaimInit, PTL DEF Spec
  <1>3. CASE ~(~LostAcks /\ ~Redelivery)
    <2>1. ClaimHeldOnce
      BY Zenon, <1>3 DEF ClaimHeldOnce
    <2> QED
      BY <2>1, PTL
  <1> QED
    BY Zenon, <1>2, <1>3

=============================================================================
