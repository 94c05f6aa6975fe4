-------------------------- MODULE SubscribeProofs --------------------------
(***************************************************************************)
(* For any number of callers and plans and any lengths of time: what a     *)
(* record or an answer says was done is committed, and the undisturbed     *)
(* retries of a key reach the provider once.                               *)
(***************************************************************************)
EXTENDS Subscribe, TLAPS

Working == {"check", "provider", "write", "audit", "succeed", "fail"}

\* A call that holds a reservation holds one of its own plan, and what it reports or is
\* about to report is committed.
RealAt(c) ==
    /\ call[c].id <= records
    /\ call[c].phase \in Working \cup {"reset"} /\ Held(c) => record.plan = call[c].plan
    /\ call[c].phase # "idle" => call[c].plan \in Plans /\ call[c].answer = None
    /\ call[c].phase \in {"audit", "succeed"} => Backed(call[c].sub, call[c].plan)
    /\ call[c].answer \in {"subscribed", "replayed"} => Backed(call[c].sub, call[c].plan)

HeldInv == /\ record # None => record.id <= records
           /\ \A c \in Callers : RealAt(c)

RealInv == TypeOK /\ HeldInv /\ SuccessIsReal

\* Before the first failure, the key has one reservation, and its holder alone works.
OnceInv ==
    /\ \A c \in Callers : call[c].now <= clock
    /\ ~excused =>
          /\ created <= 1
          /\ record = None => created = 0 /\ \A c \in Callers : call[c].phase \notin Working
          /\ record # None => record.status # "failed"
          /\ \A c \in Callers : /\ call[c].phase \notin {"reset", "fail"}
                                /\ call[c].phase \in {"check", "provider"} => created = 0
          /\ \A c, d \in Callers : call[c].phase \in Working /\ call[d].phase \in Working
                                      => c = d

\* None is no record.
LEMMA NotARecord == None \notin Record
  <1>1. Record \subseteq [id : Nat, plan : Plans, status : Statuses, result : Nat,
                          updated : Nat, expires : Nat]
    BY SubscribeAssumption DEF Record, Times
  <1> QED
    BY <1>1, SubscribeAssumption

\* The states a step gives a call are call states.
LEMMA CallStates ==
  ASSUME TypeOK, NEW c \in Callers
  PROVE  /\ Idle \in CallState
         /\ \A a \in Answers, n \in Nat : Answer(c, a, n) \in CallState
         /\ \A n \in Nat : Reserved(c, n) \in CallState
         /\ \A p \in Phases : [call[c] EXCEPT !.phase = p] \in CallState
<1>0. call[c] \in CallState /\ clock \in Times
  BY DEF TypeOK
<1>1. Idle \in CallState
  BY SubscribeAssumption DEF Idle, CallState, Phases, Answers, Times
<1>2. ASSUME NEW a \in Answers, NEW n \in Nat PROVE Answer(c, a, n) \in CallState
  BY Zenon, <1>0, <1>1 DEF Answer, CallState
<1>3. ASSUME NEW n \in Nat PROVE Reserved(c, n) \in CallState
  BY Zenon, <1>0 DEF Reserved, CallState, Phases
<1>4. ASSUME NEW p \in Phases PROVE [call[c] EXCEPT !.phase = p] \in CallState
  BY <1>0 DEF CallState
<1> QED
  BY <1>1, <1>2, <1>3, <1>4

\* The row a reservation inserts is a record.
LEMMA NewIsRecord ==
  ASSUME TypeOK, NEW c \in Callers, call[c].plan \in Plans
  PROVE  NewRecord(c) \in Record /\ NewRecord(c) # None
<1>1. NewRecord(c) \in Record
  BY SubscribeAssumption DEF NewRecord, Record, Statuses, TypeOK, CallState, Times
<1> QED
  BY <1>1, NotARecord

\* A jump within a call keeps the type of its state.
LEMMA GotoType ==
  ASSUME TypeOK, NEW c \in Callers, NEW p \in Phases, Goto(c, p)
  PROVE  call' \in [Callers -> CallState]
<1>1. call' = [call EXCEPT ![c] = [call[c] EXCEPT !.phase = p]]
  BY DEF Goto, TypeOK
<1>2. [call[c] EXCEPT !.phase = p] \in CallState
  BY CallStates
<1> QED
  BY <1>1, <1>2 DEF TypeOK

\* The end of a call keeps the type of its state.
LEMMA AnswerType ==
  ASSUME TypeOK, NEW c \in Callers, NEW a \in Answers, NEW n \in Nat,
         call' = [call EXCEPT ![c] = Answer(c, a, n)]
  PROVE  call' \in [Callers -> CallState]
<1>1. Answer(c, a, n) \in CallState
  BY CallStates
<1> QED
  BY <1>1 DEF TypeOK

\* Every step keeps the types.
LEMMA STypeStep == ASSUME TypeOK, HeldInv, [Next]_vars PROVE TypeOK'
<1> USE SubscribeAssumption
<1>f. /\ {"insert", "read", "reset", "check", "provider", "write", "audit", "succeed", "fail"}
            \subseteq Phases
      /\ {"subscribed", "replayed", "reused", "in progress", "failed"} \subseteq Answers
  BY DEF Phases, Answers
<1>r. record # None => /\ record \in Record
                       /\ record.result \in Nat /\ record.id \in Nat
  BY DEF TypeOK, Record
<1>1. ASSUME NEW c \in Callers, NEW p \in Plans, Begin(c, p) PROVE TypeOK'
  <2>0. Idle \in CallState /\ clock \in Times /\ p \in Plans \cup {None}
    BY CallStates DEF TypeOK
  <2>p. (IF open THEN "insert" ELSE "idle") \in Phases
        /\ (IF open THEN None ELSE "refused") \in Answers
    BY DEF Phases, Answers
  <2>1. [Idle EXCEPT !.plan = p, !.now = clock, !.phase = IF open THEN "insert" ELSE "idle",
                     !.answer = IF open THEN None ELSE "refused"] \in CallState
    BY Zenon, <2>0, <2>p DEF CallState
  <2>2. call' \in [Callers -> CallState]
    BY <1>1, <2>1 DEF Begin, TypeOK
  <2> QED
    BY <1>1, <2>2 DEF Begin, TypeOK
<1>2. ASSUME NEW c \in Callers, InsertRecord(c) PROVE TypeOK'
  <2>0. call[c] \in CallState /\ call[c].plan \in Plans /\ records + 1 \in Nat
    BY <1>2 DEF TypeOK, HeldInv, RealAt, InsertRecord
  <2>1. CASE record = None
    <3>1. NewRecord(c) \in Record
      BY <2>0, NewIsRecord
    <3>2. Reserved(c, records + 1) \in CallState
      BY <2>0, CallStates
    <3> QED
      BY <1>2, <2>0, <2>1, <3>1, <3>2 DEF InsertRecord, TypeOK
  <2>2. CASE record # None
    <3>1. call' \in [Callers -> CallState]
      BY Zenon, <1>2, <2>2, <1>f, GotoType DEF InsertRecord
    <3> QED
      BY <1>2, <2>2, <3>1 DEF InsertRecord, TypeOK
  <2> QED
    BY <2>1, <2>2
<1>3. ASSUME NEW c \in Callers, ReadRecord(c) PROVE TypeOK'
  <2>0. call[c] \in CallState
    BY DEF TypeOK
  <2>1. record # None => [call[c] EXCEPT !.phase = "reset", !.id = record.id] \in CallState
    BY Zenon, <2>0, <1>f, <1>r DEF CallState
  <2>2. /\ \A a \in {"failed", "reused", "in progress"} : Answer(c, a, 0) \in CallState
        /\ record # None => Answer(c, "replayed", record.result) \in CallState
    BY Zenon, <1>f, <1>r, CallStates
  <2>3. call' \in [Callers -> CallState]
    BY Zenon, <1>3, <2>1, <2>2 DEF ReadRecord, TypeOK
  <2> QED
    BY Zenon, <1>3, <2>3 DEF ReadRecord, TypeOK
<1>4. ASSUME NEW c \in Callers, ResetRecord(c) PROVE TypeOK'
  <2>0. call[c] \in CallState /\ call[c].now + Retention \in Nat /\ clock \in Times
    BY DEF TypeOK, CallState, Times
  <2>1. CASE Held(c)
    <3>1. record \in Record /\ record.id \in Nat
      BY <2>1, <1>r DEF Held
    <3>2. [record EXCEPT !.status = "pending", !.updated = clock,
                         !.expires = call[c].now + Retention] \in Record
      BY Zenon, <2>0, <3>1 DEF Record, Statuses
    <3>3. Reserved(c, record.id) \in CallState
      BY <3>1, CallStates
    <3> QED
      BY <1>4, <2>1, <3>2, <3>3 DEF ResetRecord, TypeOK
  <2>2. CASE ~Held(c)
    <3>1. call' \in [Callers -> CallState]
      BY Zenon, <1>4, <2>2, <1>f, AnswerType DEF ResetRecord
    <3> QED
      BY <1>4, <2>2, <3>1 DEF ResetRecord, TypeOK
  <2> QED
    BY <2>1, <2>2
<1>5. ASSUME NEW c \in Callers, CheckPlan(c) PROVE TypeOK'
  <2>1. call' \in [Callers -> CallState]
    BY Zenon, <1>5, <1>f, GotoType DEF CheckPlan, Raise
  <2> QED
    BY Zenon, <1>5, <2>1 DEF CheckPlan, Raise, TypeOK
<1>6. ASSUME NEW c \in Callers, ProviderCreates(c) PROVE TypeOK'
  <2>0. call[c] \in CallState /\ created + 1 \in Nat
    BY DEF TypeOK
  <2>1. [call[c] EXCEPT !.phase = "write", !.sub = created + 1] \in CallState
    BY Zenon, <2>0, <1>f DEF CallState
  <2>2. call' = [call EXCEPT ![c] = [call[c] EXCEPT !.phase = "write", !.sub = created + 1]]
    BY Zenon, <1>6 DEF ProviderCreates, TypeOK
  <2> QED
    BY <1>6, <2>1, <2>2 DEF ProviderCreates, TypeOK
<1>7. ASSUME NEW c \in Callers, ProviderRaises(c) PROVE TypeOK'
  <2>1. call' \in [Callers -> CallState]
    BY Zenon, <1>7, <1>f, GotoType DEF ProviderRaises, Raise
  <2> QED
    BY <1>7, <2>1 DEF ProviderRaises, Raise, TypeOK
<1>8. ASSUME NEW c \in Callers, WriteRow(c) PROVE TypeOK'
  <2>1. call[c].plan \in Plans /\ call[c].sub \in Nat
    BY <1>8 DEF WriteRow, HeldInv, RealAt, TypeOK, CallState
  <2>2. [sub |-> call[c].sub, plan |-> call[c].plan] \in Row
    BY <2>1 DEF Row
  <2>3. call' \in [Callers -> CallState]
    BY Zenon, <1>8, <1>f, GotoType DEF WriteRow, Raise
  <2>4. rows' \subseteq Row /\ excused' \in BOOLEAN
    BY Zenon, <1>8, <2>2 DEF WriteRow, Raise, TypeOK
  <2> QED
    BY <1>8, <2>3, <2>4 DEF WriteRow, TypeOK
<1>9. ASSUME NEW c \in Callers, RecordAudit(c) PROVE TypeOK'
  <2>1. call' \in [Callers -> CallState]
    BY Zenon, <1>9, <1>f, GotoType DEF RecordAudit
  <2> QED
    BY <1>9, <2>1 DEF RecordAudit, TypeOK
<1>10. ASSUME NEW c \in Callers, StatementFails(c) PROVE TypeOK'
  <2>1. call' \in [Callers -> CallState]
    BY Zenon, <1>10, <1>f, GotoType DEF StatementFails, Raise
  <2> QED
    BY <1>10, <2>1 DEF StatementFails, Raise, TypeOK
<1>11. ASSUME NEW c \in Callers, Finalize(c) PROVE TypeOK'
  <2>0. call[c].sub \in Nat
    BY DEF TypeOK, CallState
  <2>1. record' \in Record \cup {None}
    BY Zenon, <1>11, <2>0 DEF Finalize, Owns, Held, TypeOK, Record, Statuses
  <2> QED
    <3>1. Answer(c, "subscribed", call[c].sub) \in CallState
          /\ Answer(c, "failed", 0) \in CallState
      BY Zenon, <2>0, <1>f, CallStates
    <3>2. call' \in [Callers -> CallState]
      BY <1>11, <3>1 DEF Finalize, TypeOK
    <3> QED
      BY <1>11, <2>1, <3>2 DEF Finalize, TypeOK
<1>12. ASSUME NEW c \in Callers, Crash(c) PROVE TypeOK'
  <2>1. call' \in [Callers -> CallState]
    BY Zenon, <1>12, <1>f, AnswerType DEF Crash
  <2> QED
    BY <1>12, <2>1 DEF Crash, TypeOK
<1>13. CASE Tick
  BY <1>13 DEF Tick, TypeOK, Times
<1>14. CASE PurgeExpired
  BY <1>14 DEF PurgeExpired, TypeOK
<1>15. ASSUME NEW p \in Plans, WithdrawPlan(p) PROVE TypeOK'
  BY <1>15 DEF WithdrawPlan, TypeOK
<1>16. CASE CloseTenant
  BY Zenon, <1>16 DEF CloseTenant, TypeOK
<1>17. CASE UNCHANGED vars
  BY <1>17 DEF vars, TypeOK
<1> QED
  BY <1>1, <1>2, <1>3, <1>4, <1>5, <1>6, <1>7, <1>8, <1>9, <1>10, <1>11, <1>12, <1>13,
     <1>14, <1>15, <1>16, <1>17 DEF Next, Step

\* What a jump leaves of the states of all calls.
LEMMA GotoFields ==
  ASSUME TypeOK, NEW c \in Callers, NEW p \in Phases, Goto(c, p)
  PROVE  /\ \A d \in Callers \ {c} : call'[d] = call[d]
         /\ \A d \in Callers : /\ call'[d].phase = IF d = c THEN p ELSE call[d].phase
                            /\ call'[d].plan = call[d].plan /\ call'[d].id = call[d].id
                            /\ call'[d].now = call[d].now /\ call'[d].sub = call[d].sub
                            /\ call'[d].answer = call[d].answer
  BY DEF Goto, TypeOK, CallState

\* What the end of a call leaves of the states of all calls.
LEMMA AnswerFields ==
  ASSUME TypeOK, NEW c \in Callers, NEW a, NEW n,
         call' = [call EXCEPT ![c] = Answer(c, a, n)]
  PROVE  /\ \A d \in Callers \ {c} : call'[d] = call[d]
         /\ call'[c].phase = "idle" /\ call'[c].plan = call[c].plan
         /\ call'[c].id = 0 /\ call'[c].now = 0
         /\ call'[c].sub = n /\ call'[c].answer = a
  BY DEF Answer, Idle, TypeOK

\* What a reservation leaves of the states of all calls.
LEMMA ReservedFields ==
  ASSUME TypeOK, NEW c \in Callers, NEW n, call' = [call EXCEPT ![c] = Reserved(c, n)]
  PROVE  /\ \A d \in Callers \ {c} : call'[d] = call[d]
         /\ call'[c].phase = "check" /\ call'[c].plan = call[c].plan
         /\ call'[c].id = n /\ call'[c].now = call[c].now
         /\ call'[c].sub = call[c].sub /\ call'[c].answer = call[c].answer
  BY DEF Reserved, TypeOK, CallState

\* A step of one call keeps what is true of the others, unless it gives the record away.
LEMMA OthersReal ==
  ASSUME RealInv, NEW c \in Callers, NEW d \in Callers, d # c, call'[d] = call[d],
         records' \in Nat, records <= records', rows \subseteq rows',
         Held(d)' => Held(d) /\ record'.plan = record.plan
  PROVE  RealAt(d)'
<1>1. RealAt(d) /\ records \in Nat /\ call[d].id \in Nat
  BY DEF RealInv, HeldInv, TypeOK, CallState
<1>2. Backed(call[d].sub, call[d].plan) => Backed(call[d].sub, call[d].plan)'
  BY DEF Backed
<1> QED
  BY <1>1, <1>2 DEF RealAt, Backed, Held

\* Every step keeps what records and answers say true.
LEMMA RealStep ==
  ASSUME RealInv, [Next]_vars
  PROVE  HeldInv' /\ SuccessIsReal'
<1> USE SubscribeAssumption
<1>t. /\ TypeOK /\ HeldInv /\ SuccessIsReal
      /\ \A d \in Callers : RealAt(d)
  BY DEF RealInv, HeldInv
<1>f. {"insert", "read", "reset", "check", "provider", "write", "audit", "succeed", "fail"}
         \subseteq Phases
  BY DEF Phases
<1>n. records \in Nat /\ \A d \in Callers : call[d].id \in Nat /\ call[d].id <= records
  BY <1>t DEF TypeOK, CallState, RealAt
<1>r. record # None => record \in Record /\ record.id \in Nat /\ record.id <= records
  BY <1>t DEF TypeOK, Record, HeldInv
<1>c. clock \in Nat /\ \A d \in Callers : call[d].now \in Nat /\ call[d].sub \in Nat
  BY <1>t DEF TypeOK, CallState, Times
<1>m. record # None => record \in [id : Nat, plan : Plans, status : Statuses, result : Nat,
                                   updated : Nat, expires : Nat]
  BY <1>r DEF Record, Times
<1>h. ASSUME NEW c \in Callers, RealAt(c)',
             \A d \in Callers \ {c} : call'[d] = call[d],
             rows \subseteq rows', records' = records,
             record # None => /\ record'.id = record.id /\ record'.plan = record.plan
                              /\ record' # None,
             record = None => record' = None,
             record' # None /\ record'.status = "succeeded"
                => [sub |-> record'.result, plan |-> record'.plan] \in rows'
      PROVE  HeldInv' /\ SuccessIsReal'
  <2>1. ASSUME NEW d \in Callers PROVE RealAt(d)'
    <3>1. CASE d = c
      BY <1>h, <3>1
    <3>2. CASE d # c
      <4>1. Held(d)' => Held(d) /\ record'.plan = record.plan
        BY <1>h, <3>2 DEF Held
      <4> QED
        BY <1>h, <1>n, <3>2, <4>1, OthersReal
    <3> QED
      BY <3>1, <3>2
  <2>2. SuccessIsReal'
    BY <1>h DEF SuccessIsReal, Backed
  <2>3. record' # None => record'.id <= records'
    BY <1>h, <1>n, <1>r
  <2> QED
    BY <2>1, <2>2, <2>3 DEF HeldInv
<1>u. ASSUME NEW c \in Callers, RealAt(c)',
             \A d \in Callers \ {c} : call'[d] = call[d],
             rows \subseteq rows', UNCHANGED <<record, records>>
      PROVE  HeldInv' /\ SuccessIsReal'
  <2>1. record' # None /\ record'.status = "succeeded"
           => [sub |-> record'.result, plan |-> record'.plan] \in rows'
    BY <1>t, <1>u DEF SuccessIsReal, Backed
  <2> QED
    BY <1>h, <1>u, <2>1
<1>s. \A a \in {"failed", "reused", "in progress"} : a \notin {"subscribed", "replayed"}
  BY Zenon
<1>a. ASSUME NEW c \in Callers, NEW a, a \notin {"subscribed", "replayed"},
             call' = [call EXCEPT ![c] = Answer(c, a, 0)], records' = records
      PROVE  RealAt(c)' /\ \A d \in Callers \ {c} : call'[d] = call[d]
  <2>1. /\ \A d \in Callers \ {c} : call'[d] = call[d]
        /\ call'[c].phase = "idle" /\ call'[c].id = 0 /\ call'[c].answer = a
    BY Zenon, <1>t, <1>a, AnswerFields
  <2>0. records' \in Nat
    BY <1>a, <1>n
  <2>2. call'[c].id <= records'
    <3>1. call'[c].id = 0
      BY <2>1
    <3>2. 0 <= records'
      BY <2>0
    <3> QED
      BY <3>1, <3>2
  <2> QED
    BY <1>a, <2>1, <2>2 DEF RealAt, Working
<1>1. ASSUME NEW c \in Callers, NEW p \in Plans, Begin(c, p)
      PROVE HeldInv' /\ SuccessIsReal'
  <2>1. /\ \A d \in Callers \ {c} : call'[d] = call[d]
        /\ call'[c].phase \in {"insert", "idle"} /\ call'[c].plan = p /\ call'[c].id = 0
        /\ call'[c].phase = "insert" => call'[c].answer = None
        /\ call'[c].answer \in {None, "refused"}
    BY <1>1, <1>t DEF Begin, Idle, TypeOK
  <2>2. UNCHANGED <<record, records, rows>>
    BY <1>1 DEF Begin
  <2>3. RealAt(c)'
    BY <1>n, <2>1, <2>2 DEF RealAt, Working
  <2> QED
    BY <1>u, <2>1, <2>2, <2>3
<1>2. ASSUME NEW c \in Callers, InsertRecord(c)
      PROVE HeldInv' /\ SuccessIsReal'
  <2>1. CASE record = None
    <3>1. /\ record' = NewRecord(c) /\ records' = records + 1 /\ UNCHANGED rows
          /\ call' = [call EXCEPT ![c] = Reserved(c, records + 1)]
          /\ call[c].phase = "insert"
      BY <1>2, <2>1 DEF InsertRecord
    <3>2. record'.id = records + 1 /\ record'.plan = call[c].plan /\ record'.status = "pending"
      BY <3>1 DEF NewRecord
    <3>3. /\ \A d \in Callers \ {c} : call'[d] = call[d]
          /\ call'[c].phase = "check" /\ call'[c].plan = call[c].plan
          /\ call'[c].id = records + 1 /\ call'[c].answer = call[c].answer
      BY ZenonT(60), <1>t, <3>1, ReservedFields
    <3>4. RealAt(c)'
      BY <1>t, <1>n, <3>1, <3>2, <3>3 DEF RealAt, Working
    <3>5. ASSUME NEW d \in Callers, d # c PROVE RealAt(d)'
      <4>1. ~Held(d)'
        BY <1>n, <3>2, <3>3, <3>5 DEF Held
      <4> QED
        BY <1>n, <3>1, <3>3, <3>5, <4>1, OthersReal
    <3> QED
      BY <1>n, <3>1, <3>2, <3>4, <3>5 DEF HeldInv, SuccessIsReal
  <2>2. CASE record # None
    <3>1. Goto(c, "read") /\ UNCHANGED <<record, records, rows>> /\ call[c].phase = "insert"
      BY <1>2, <2>2 DEF InsertRecord
    <3>2. RealAt(c)' /\ \A d \in Callers \ {c} : call'[d] = call[d]
      BY <1>t, <3>1 DEF Goto, RealAt, Working, TypeOK, CallState
    <3> QED
      BY <1>u, <3>1, <3>2
  <2> QED
    BY <2>1, <2>2
<1>3. ASSUME NEW c \in Callers, ReadRecord(c)
      PROVE HeldInv' /\ SuccessIsReal'
  <2>0. UNCHANGED <<record, records, rows>> /\ call[c].phase = "read"
    BY Zenon, <1>3 DEF ReadRecord
  <2>1. CASE \E a \in {"failed", "reused", "in progress"} :
                call' = [call EXCEPT ![c] = Answer(c, a, 0)]
    BY Zenon, <1>a, <1>s, <1>u, <2>0, <2>1
  <2>2. CASE /\ record # None /\ record.plan = call[c].plan /\ record.status = "succeeded"
             /\ call' = [call EXCEPT ![c] = Answer(c, "replayed", record.result)]
    <3>1. record.result \in Nat
      BY <1>r, <2>2 DEF Record
    <3>2. /\ \A d \in Callers \ {c} : call'[d] = call[d]
          /\ call'[c].phase = "idle" /\ call'[c].id = 0 /\ call'[c].plan = call[c].plan
          /\ call'[c].sub = record.result
      BY ZenonT(60), <1>t, <2>2, <3>1, AnswerFields
    <3>3. [sub |-> record.result, plan |-> call[c].plan] \in rows'
      BY <1>t, <2>0, <2>2 DEF SuccessIsReal, Backed
    <3>4. RealAt(c)'
      BY <1>n, <2>0, <3>2, <3>3 DEF RealAt, Working, Backed
    <3> QED
      BY <1>u, <2>0, <3>2, <3>4
  <2>3. CASE /\ record # None /\ record.plan = call[c].plan
             /\ call' = [call EXCEPT ![c] = [call[c] EXCEPT !.phase = "reset",
                                                           !.id = record.id]]
    <3>1. /\ \A d \in Callers \ {c} : call'[d] = call[d]
          /\ call'[c].phase = "reset" /\ call'[c].id = record.id
          /\ call'[c].plan = call[c].plan /\ call'[c].answer = call[c].answer
      BY <1>t, <2>3 DEF TypeOK, CallState
    <3>2. RealAt(c)'
      BY <1>t, <1>n, <1>r, <2>0, <2>3, <3>1 DEF RealAt, Working
    <3> QED
      BY <1>u, <2>0, <3>1, <3>2
  <2> QED
    BY Zenon, <1>3, <2>1, <2>2, <2>3 DEF ReadRecord
<1>4. ASSUME NEW c \in Callers, ResetRecord(c)
      PROVE HeldInv' /\ SuccessIsReal'
  <2>0. UNCHANGED <<records, rows>> /\ call[c].phase = "reset"
    BY <1>4 DEF ResetRecord
  <2>1. CASE Held(c)
    <3>1. /\ record' = [record EXCEPT !.status = "pending", !.updated = clock,
                                      !.expires = call[c].now + Retention]
          /\ call' = [call EXCEPT ![c] = Reserved(c, record.id)]
          /\ record # None
      BY <1>4, <2>1 DEF ResetRecord, Held
    <3>0. call[c].now + Retention \in Nat
      BY <1>c
    <3>2. /\ record'.id = record.id /\ record'.plan = record.plan
          /\ record'.status = "pending" /\ record' \in
                [id : Nat, plan : Plans, status : Statuses, result : Nat,
                 updated : Nat, expires : Nat]
      BY Zenon, <1>m, <1>c, <3>0, <3>1 DEF Statuses
    <3>3. /\ \A d \in Callers \ {c} : call'[d] = call[d]
          /\ call'[c].phase = "check" /\ call'[c].plan = call[c].plan
          /\ call'[c].id = record.id /\ call'[c].answer = call[c].answer
      BY ZenonT(60), <1>t, <1>r, <3>1, ReservedFields
    <3>4. RealAt(c)'
      BY <1>t, <1>n, <1>r, <2>0, <2>1, <3>1, <3>2, <3>3 DEF RealAt, Working, Held
    <3> QED
      BY Zenon, <1>h, <2>0, <3>1, <3>2, <3>3, <3>4
  <2>2. CASE ~Held(c)
    <3>1. call' = [call EXCEPT ![c] = Answer(c, "failed", 0)] /\ UNCHANGED record
      BY <1>4, <2>2 DEF ResetRecord
    <3> QED
      BY Zenon, <1>a, <1>s, <1>u, <2>0, <3>1
  <2> QED
    BY <2>1, <2>2
<1>5. ASSUME NEW c \in Callers, NEW p \in {"provider", "succeed", "fail"}, Goto(c, p),
             UNCHANGED <<record, records, rows>>,
             call[c].phase \in Working, p = "succeed" => call[c].phase = "audit"
      PROVE  HeldInv' /\ SuccessIsReal'
  <2>1. /\ \A d \in Callers \ {c} : call'[d] = call[d]
        /\ call'[c].phase = p /\ call'[c].id = call[c].id /\ call'[c].sub = call[c].sub
        /\ call'[c].plan = call[c].plan /\ call'[c].answer = call[c].answer
    BY <1>t, <1>5, <1>f, GotoFields
  <2>2. RealAt(c)'
    BY <1>t, <1>5, <2>1 DEF RealAt, Working, Held, Backed
  <2> QED
    BY <1>u, <1>5, <2>1, <2>2
<1>6. ASSUME NEW c \in Callers, ProviderCreates(c)
      PROVE HeldInv' /\ SuccessIsReal'
  <2>1. /\ \A d \in Callers \ {c} : call'[d] = call[d]
        /\ call'[c].phase = "write" /\ call'[c].id = call[c].id
        /\ call'[c].plan = call[c].plan /\ call'[c].answer = call[c].answer
    BY <1>t, <1>6 DEF ProviderCreates, TypeOK, CallState
  <2>2. UNCHANGED <<record, records, rows>> /\ call[c].phase = "provider"
    BY <1>6 DEF ProviderCreates
  <2>3. RealAt(c)'
    BY <1>t, <2>1, <2>2 DEF RealAt, Working, Held
  <2> QED
    BY <1>u, <2>1, <2>2, <2>3
<1>7. ASSUME NEW c \in Callers, WriteRow(c)
      PROVE HeldInv' /\ SuccessIsReal'
  <2>0. UNCHANGED <<record, records>> /\ call[c].phase = "write"
    BY <1>7 DEF WriteRow
  <2>1. CASE Eligible(c)
    <3>1. /\ rows' = rows \cup {[sub |-> call[c].sub, plan |-> call[c].plan]}
          /\ Goto(c, "audit")
      BY <1>7, <2>1 DEF WriteRow
    <3>2. /\ \A d \in Callers \ {c} : call'[d] = call[d]
          /\ call'[c].phase = "audit" /\ call'[c].id = call[c].id /\ call'[c].sub = call[c].sub
          /\ call'[c].plan = call[c].plan /\ call'[c].answer = call[c].answer
      BY <1>t, <3>1, <1>f, GotoFields
    <3>3. RealAt(c)'
      BY Zenon, <1>t, <2>0, <3>1, <3>2 DEF RealAt, Working, Held, Backed
    <3> QED
      BY <1>u, <2>0, <3>1, <3>2, <3>3
  <2>2. CASE ~Eligible(c)
    BY <1>5, <1>7, <2>0, <2>2 DEF WriteRow, Raise, Working
  <2> QED
    BY <2>1, <2>2
<1>8. ASSUME NEW c \in Callers, Finalize(c)
      PROVE HeldInv' /\ SuccessIsReal'
  <2>0. UNCHANGED <<records, rows>>
    BY <1>8 DEF Finalize
  <2>1. CASE call[c].phase = "succeed"
    <3>1. /\ record' = IF ~Held(c) THEN record
                       ELSE [record EXCEPT !.status = "succeeded", !.result = call[c].sub,
                                           !.updated = clock]
          /\ call' = [call EXCEPT ![c] = Answer(c, "subscribed", call[c].sub)]
      BY <1>8, <2>1 DEF Finalize, Owns
    <3>2. call[c].sub \in Nat /\ clock \in Nat
      BY <1>c
    <3>3. /\ \A d \in Callers \ {c} : call'[d] = call[d]
          /\ call'[c].phase = "idle" /\ call'[c].id = 0 /\ call'[c].plan = call[c].plan
          /\ call'[c].sub = call[c].sub
      BY ZenonT(60), <1>t, <3>1, <3>2, AnswerFields
    <3>4. Backed(call[c].sub, call[c].plan)
      BY <1>t, <2>1 DEF RealAt
    <3>5. RealAt(c)'
      BY <1>n, <2>0, <3>3, <3>4 DEF RealAt, Working, Backed
    <3>6. record # None => /\ record'.id = record.id /\ record'.plan = record.plan
                           /\ record' \in [id : Nat, plan : Plans, status : Statuses,
                                            result : Nat, updated : Nat, expires : Nat]
      BY Zenon, <1>m, <3>1, <3>2 DEF Statuses
    <3>7. Held(c) => record.plan = call[c].plan /\ record'.result = call[c].sub
      BY <1>t, <1>r, <2>1, <3>1 DEF RealAt, Working, Held, Record
    <3>8. record' # None /\ record'.status = "succeeded"
             => [sub |-> record'.result, plan |-> record'.plan] \in rows'
      BY <1>t, <2>0, <3>1, <3>4, <3>6, <3>7 DEF SuccessIsReal, Backed, Held
    <3> QED
      BY Zenon, <1>h, <2>0, <3>1, <3>3, <3>5, <3>6, <3>8 DEF Held
  <2>2. CASE call[c].phase = "fail"
    <3>1. /\ record' = IF ~Held(c) THEN record
                       ELSE [record EXCEPT !.status = "failed", !.result = 0,
                                           !.updated = clock]
          /\ call' = [call EXCEPT ![c] = Answer(c, "failed", 0)]
      BY <1>8, <2>2 DEF Finalize, Owns
    <3>2. RealAt(c)' /\ \A d \in Callers \ {c} : call'[d] = call[d]
      BY Zenon, <1>a, <1>s, <2>0, <3>1
    <3>3. clock \in Nat
      BY <1>c
    <3>4. record # None => /\ record'.id = record.id /\ record'.plan = record.plan
                           /\ record' \in [id : Nat, plan : Plans, status : Statuses,
                                            result : Nat, updated : Nat, expires : Nat]
                           /\ record' = record \/ record'.status = "failed"
      BY Zenon, <1>m, <3>1, <3>3 DEF Statuses
    <3>5. record' # None /\ record'.status = "succeeded"
             => [sub |-> record'.result, plan |-> record'.plan] \in rows'
      BY <1>t, <2>0, <3>1, <3>4 DEF SuccessIsReal, Backed, Held
    <3> QED
      BY Zenon, <1>h, <2>0, <3>1, <3>2, <3>4, <3>5 DEF Held
  <2> QED
    BY <1>8, <2>1, <2>2 DEF Finalize
<1>9. ASSUME NEW c \in Callers, Step(c) PROVE HeldInv' /\ SuccessIsReal'
  <2>1. CASE CheckPlan(c)
    BY <1>5, <2>1 DEF CheckPlan, Raise, Working
  <2>2. CASE ProviderRaises(c)
    BY <1>5, <2>2 DEF ProviderRaises, Raise, Working
  <2>3. CASE RecordAudit(c)
    BY <1>5, <2>3 DEF RecordAudit, Working
  <2>4. CASE StatementFails(c)
    BY <1>5, <2>4 DEF StatementFails, Raise, Working
  <2>5. CASE Crash(c)
    BY Zenon, <1>a, <1>s, <1>u, <2>5 DEF Crash
  <2> QED
    BY <1>2, <1>3, <1>4, <1>6, <1>7, <1>8, <1>9, <2>1, <2>2, <2>3, <2>4, <2>5 DEF Step
<1>10. CASE PurgeExpired
  <2>1. record' = None /\ UNCHANGED <<records, rows, call>>
    BY <1>10 DEF PurgeExpired
  <2> QED
    BY <1>t, <2>1 DEF HeldInv, RealAt, Held, Backed, SuccessIsReal
<1>11. CASE UNCHANGED <<record, records, rows, call>>
  BY <1>t, <1>11 DEF HeldInv, RealAt, Held, Backed, SuccessIsReal
<1> QED
  BY <1>1, <1>9, <1>10, <1>11 DEF Next, Tick, CloseTenant, WithdrawPlan, vars

\* Every step keeps what holds of a key before its first failure.
LEMMA OnceStep ==
  ASSUME RealInv, OnceInv, [Next]_vars
  PROVE  OnceInv'
<1> USE SubscribeAssumption
<1>t. TypeOK /\ \A d \in Callers : call[d].phase \in Phases
  BY DEF RealInv, TypeOK, CallState
<1>c. clock \in Nat /\ created \in Nat /\ \A d \in Callers : call[d].now \in Nat
  BY <1>t DEF TypeOK, CallState, Times
<1>f. {"insert", "read", "reset", "check", "provider", "write", "audit", "succeed", "fail"}
         \subseteq Phases
  BY DEF Phases
<1>x. ASSUME excused', clock' = clock, \A d \in Callers : call'[d].now \in {0, clock, call[d].now}
      PROVE OnceInv'
  BY <1>x, <1>c DEF OnceInv
<1>1. ASSUME NEW c \in Callers, NEW p \in Plans, Begin(c, p) PROVE OnceInv'
  <2>1. /\ \A d \in Callers \ {c} : call'[d] = call[d]
        /\ call'[c].phase \in {"insert", "idle"} /\ call'[c].now = clock
    BY <1>1, <1>t DEF Begin, Idle, TypeOK
  <2>2. UNCHANGED <<clock, record, created, excused>>
    BY <1>1 DEF Begin
  <2> QED
    BY <1>c, <2>1, <2>2 DEF OnceInv, Working
\* A call ends without touching the record.
<1>a. ASSUME NEW c \in Callers, NEW a, NEW n,
             call' = [call EXCEPT ![c] = Answer(c, a, n)],
             UNCHANGED <<clock, record, created, excused>>
      PROVE  OnceInv'
  <2>1. /\ \A d \in Callers \ {c} : call'[d] = call[d]
        /\ call'[c].phase = "idle" /\ call'[c].now = 0
    BY Zenon, <1>t, <1>a, AnswerFields
  <2> QED
    BY <1>a, <1>c, <2>1 DEF OnceInv, Working
<1>2. ASSUME NEW c \in Callers, InsertRecord(c) PROVE OnceInv'
  <2>0. UNCHANGED <<clock, created, excused>> /\ call[c].phase = "insert"
    BY <1>2 DEF InsertRecord
  <2>1. CASE record = None
    <3>1. /\ record' = NewRecord(c)
          /\ call' = [call EXCEPT ![c] = Reserved(c, records + 1)]
      BY <1>2, <2>1 DEF InsertRecord
    <3>2. record'.status = "pending"
      BY <3>1 DEF NewRecord
    <3>3. /\ \A d \in Callers \ {c} : call'[d] = call[d]
          /\ call'[c].phase = "check" /\ call'[c].now = call[c].now
      BY Zenon, <1>t, <3>1, ReservedFields
    <3>4. call[c].plan \in Plans
      BY <2>0 DEF RealInv, HeldInv, RealAt
    <3>5. record' # None
      BY <1>t, <3>1, <3>4, NewIsRecord
    <3> QED
      BY <1>c, <2>0, <2>1, <3>2, <3>3, <3>5 DEF OnceInv, Working
  <2>2. CASE record # None
    <3>1. Goto(c, "read") /\ UNCHANGED record
      BY <1>2, <2>2 DEF InsertRecord
    <3>2. /\ \A d \in Callers \ {c} : call'[d] = call[d]
          /\ call'[c].phase = "read" /\ call'[c].now = call[c].now
      BY <1>t, <3>1, <1>f, GotoFields
    <3> QED
      BY <1>c, <2>0, <2>2, <3>1, <3>2 DEF OnceInv, Working
  <2> QED
    BY <2>1, <2>2
<1>3. ASSUME NEW c \in Callers, ReadRecord(c) PROVE OnceInv'
  <2>0. UNCHANGED <<clock, record, created>> /\ call[c].phase = "read"
    BY Zenon, <1>3 DEF ReadRecord
  <2>1. ASSUME NEW a, NEW n, call' = [call EXCEPT ![c] = Answer(c, a, n)]
        PROVE  OnceInv'
    <3>2. call'[c].phase = "idle"
      BY Zenon, <1>t, <2>1, AnswerFields
    <3>3. excused' = excused
      BY Zenon, <1>3, <1>t, <3>2 DEF ReadRecord, TypeOK
    <3> QED
      BY Zenon, <1>a, <2>0, <2>1, <3>3
  <2>2. CASE /\ record # None
             /\ record.status = "failed" \/ (record.status = "pending" /\ Abandoned(c))
             /\ call' = [call EXCEPT ![c] = [call[c] EXCEPT !.phase = "reset",
                                                           !.id = record.id]]
    <3>1. /\ \A d \in Callers \ {c} : call'[d] = call[d]
          /\ call'[c].phase = "reset" /\ call'[c].now = call[c].now
      BY <1>t, <2>2 DEF TypeOK, CallState
    <3>2. record.updated \in Nat
      BY <1>t, <2>2 DEF TypeOK, Record, Times
    <3>3. record.status = "pending" => clock - record.updated >= PendingTTL
      BY <1>c, <2>2, <3>2 DEF OnceInv, Abandoned
    <3>4. excused'
      BY Zenon, <1>3, <2>2, <3>1, <3>3 DEF ReadRecord, OnceInv
    <3> QED
      BY <1>x, <2>0, <3>1, <3>4
  <2>3. record # None => record.status \in Statuses
    BY <1>t DEF TypeOK, Record
  <2>4. CASE record = None
    <3>1. call' = [call EXCEPT ![c] = Answer(c, "failed", 0)]
      BY <1>3, <2>4 DEF ReadRecord
    <3> QED
      BY Zenon, <2>1, <3>1
  <2>5. CASE record # None /\ record.plan # call[c].plan
    <3>1. call' = [call EXCEPT ![c] = Answer(c, "reused", 0)]
      BY <1>3, <2>5 DEF ReadRecord
    <3> QED
      BY Zenon, <2>1, <3>1
  <2>6. CASE record # None /\ record.plan = call[c].plan /\ record.status = "succeeded"
    <3>1. call' = [call EXCEPT ![c] = Answer(c, "replayed", record.result)]
      BY <1>3, <2>6 DEF ReadRecord
    <3> QED
      BY Zenon, <2>1, <3>1
  <2>7. CASE /\ record # None /\ record.plan = call[c].plan
             /\ record.status = "pending" /\ ~Abandoned(c)
    <3>1. call' = [call EXCEPT ![c] = Answer(c, "in progress", 0)]
      BY Zenon, <1>3, <2>7 DEF ReadRecord
    <3> QED
      BY Zenon, <2>1, <3>1
  <2>8. CASE /\ record # None /\ record.plan = call[c].plan /\ record.status # "succeeded"
             /\ ~(record.status = "pending" /\ ~Abandoned(c))
    <3>1. call' = [call EXCEPT ![c] = [call[c] EXCEPT !.phase = "reset", !.id = record.id]]
      BY Zenon, <1>3, <1>t, <2>8 DEF ReadRecord, TypeOK
    <3>2. record.status = "failed" \/ (record.status = "pending" /\ Abandoned(c))
      BY <2>3, <2>8 DEF Statuses
    <3> QED
      BY <2>2, <2>8, <3>1, <3>2
  <2> QED
    BY <2>4, <2>5, <2>6, <2>7, <2>8
<1>4. ASSUME NEW c \in Callers, ResetRecord(c) PROVE OnceInv'
  <2>0. UNCHANGED <<clock, created, excused>> /\ excused
    BY <1>4 DEF ResetRecord, OnceInv
  <2>1. CASE Held(c)
    <3>1. call' = [call EXCEPT ![c] = Reserved(c, record.id)]
      BY <1>4, <2>1 DEF ResetRecord
    <3>2. \A d \in Callers : call'[d].now = call[d].now
      BY <1>t, <3>1 DEF Reserved, TypeOK, CallState
    <3> QED
      BY <1>x, <2>0, <3>2
  <2>2. CASE ~Held(c)
    <3>1. call' = [call EXCEPT ![c] = Answer(c, "failed", 0)]
      BY <1>4, <2>2 DEF ResetRecord
    <3>2. /\ \A d \in Callers \ {c} : call'[d] = call[d]
          /\ call'[c].now = 0
      BY Zenon, <1>t, <3>1, AnswerFields
    <3> QED
      BY <1>x, <2>0, <3>2
  <2> QED
    BY <2>1, <2>2
\* The holder of the reservation goes on, or raises.
<1>5. ASSUME NEW c \in Callers, NEW p \in {"provider", "audit", "succeed"}, Goto(c, p),
             call[c].phase \in Working, p = "provider" => call[c].phase = "check",
             UNCHANGED <<clock, record, created, excused>>
      PROVE  OnceInv'
  <2>1. /\ \A d \in Callers \ {c} : call'[d] = call[d]
        /\ call'[c].phase = p /\ call'[c].now = call[c].now
    BY <1>t, <1>5, <1>f, GotoFields
  <2> QED
    BY <1>5, <2>1 DEF OnceInv, Working
<1>6. ASSUME NEW c \in Callers, Raise(c), clock' = clock PROVE OnceInv'
  <2>1. \A d \in Callers : call'[d].now = call[d].now
    BY <1>t, <1>6, <1>f, GotoFields DEF Raise
  <2> QED
    BY <1>6, <1>x, <2>1 DEF Raise
<1>7. ASSUME NEW c \in Callers, ProviderCreates(c) PROVE OnceInv'
  <2>1. /\ \A d \in Callers \ {c} : call'[d] = call[d]
        /\ call'[c].phase = "write" /\ call'[c].now = call[c].now
    BY <1>t, <1>7 DEF ProviderCreates, TypeOK, CallState
  <2>2. UNCHANGED <<clock, record, excused>> /\ call[c].phase = "provider"
        /\ created' = created + 1
    BY <1>7 DEF ProviderCreates
  <2> QED
    BY <1>c, <2>1, <2>2 DEF OnceInv, Working
<1>8. ASSUME NEW c \in Callers, Finalize(c) PROVE OnceInv'
  <2>0. UNCHANGED <<clock, created, excused>>
    BY <1>8 DEF Finalize
  <2>1. PICK a, n : call' = [call EXCEPT ![c] = Answer(c, a, n)]
    BY Zenon, <1>8 DEF Finalize
  <2>2. /\ \A d \in Callers \ {c} : call'[d] = call[d]
        /\ call'[c].phase = "idle" /\ call'[c].now = 0
    BY ZenonT(60), <1>t, <2>1, AnswerFields
  <2>3. CASE call[c].phase = "fail"
    BY <1>x, <2>0, <2>2, <2>3 DEF OnceInv
  <2>4. CASE call[c].phase = "succeed"
    <3>1. record' = IF ~Held(c) THEN record
                    ELSE [record EXCEPT !.status = "succeeded", !.result = call[c].sub,
                                        !.updated = clock]
      BY <1>8, <2>4 DEF Finalize, Owns
    <3>2. record # None => record' # None /\ record'.status \in {record.status, "succeeded"}
      <4>1. record # None => record \in [id : Nat, plan : Plans, status : Statuses,
                                         result : Nat, updated : Nat, expires : Nat]
        BY <1>t DEF TypeOK, Record, Times
      <4>2. call[c].sub \in Nat
        BY <1>t DEF TypeOK, CallState
      <4> QED
        BY Zenon, <1>c, <3>1, <4>1, <4>2 DEF Statuses
    <3>3. ~excused => record # None
      BY <2>4 DEF OnceInv, Working
    <3> QED
      BY <1>c, <2>0, <2>2, <3>2, <3>3 DEF OnceInv, Working
  <2> QED
    BY <1>8, <2>3, <2>4 DEF Finalize
<1>9. ASSUME NEW c \in Callers, Step(c) PROVE OnceInv'
  <2>1. CASE CheckPlan(c)
    BY <1>5, <1>6, <2>1 DEF CheckPlan, Working
  <2>2. CASE ProviderRaises(c)
    BY <1>6, <2>2 DEF ProviderRaises
  <2>3. CASE WriteRow(c)
    BY <1>5, <1>6, <2>3 DEF WriteRow, Working
  <2>4. CASE RecordAudit(c)
    BY <1>5, <2>4 DEF RecordAudit, Working
  <2>5. CASE StatementFails(c)
    BY <1>6, <2>5 DEF StatementFails
  <2>6. CASE Crash(c)
    BY Zenon, <1>a, <2>6 DEF Crash
  <2> QED
    BY <1>2, <1>3, <1>4, <1>7, <1>8, <1>9, <2>1, <2>2, <2>3, <2>4, <2>5, <2>6 DEF Step
<1>10. CASE PurgeExpired
  BY <1>x, <1>10 DEF PurgeExpired
<1>11. CASE Tick
  BY <1>c, <1>11 DEF Tick, OnceInv, Working
<1>12. CASE UNCHANGED <<clock, record, created, call, excused>>
  BY <1>12 DEF OnceInv, Working
<1> QED
  BY <1>1, <1>9, <1>10, <1>11, <1>12 DEF Next, CloseTenant, WithdrawPlan, vars

\* The initial state satisfies both invariants.
LEMMA SInit == Init => RealInv /\ OnceInv
<1> SUFFICES ASSUME Init PROVE RealInv /\ OnceInv
  OBVIOUS
<1>1. /\ \A c \in Callers : /\ call[c] = Idle /\ call[c].phase = "idle" /\ call[c].id = 0
                            /\ call[c].answer = None /\ call[c].now = 0
      /\ record = None /\ records = 0 /\ created = 0 /\ clock = 0
  BY DEF Init, Idle
<1>2. Idle \in CallState
  BY SubscribeAssumption DEF Idle, CallState, Phases, Answers, Times
<1>3. TypeOK
  <2>1. call \in [Callers -> CallState]
    BY <1>2 DEF Init
  <2>2. clock \in Times /\ records \in Nat /\ created \in Nat /\ calls \in 0..MaxCalls
    BY SubscribeAssumption DEF Init, Times
  <2>3. open \in BOOLEAN /\ excused \in BOOLEAN
    BY Zenon DEF Init
  <2>4. withdrawn \subseteq Plans /\ record \in Record \cup {None} /\ rows \subseteq Row
    BY DEF Init
  <2> QED
    BY <2>1, <2>2, <2>3, <2>4 DEF TypeOK
<1>4. HeldInv /\ SuccessIsReal
  BY <1>1, SubscribeAssumption DEF HeldInv, RealAt, SuccessIsReal, Working
<1> QED
  BY <1>1, <1>3, <1>4 DEF RealInv, OnceInv, Working

\* subscribe_idempotent(): the state is well typed; a succeeded record and every
\* subscription handed to a caller are backed by a committed row of the plan that was asked
\* for, whatever crashes, failures, purges and superseded attempts came before.
THEOREM SubscribeReal == Spec => [](TypeOK /\ SuccessIsReal /\ AnswerIsReal)
<1>1. Init => RealInv
  BY SInit
<1>2. RealInv /\ [Next]_vars => RealInv'
  BY STypeStep, RealStep DEF RealInv
<1>3. RealInv => TypeOK /\ SuccessIsReal /\ AnswerIsReal
  BY DEF RealInv, HeldInv, RealAt, AnswerIsReal
<1> QED
  BY <1>1, <1>2, <1>3, PTL DEF Spec

\* subscribe_idempotent(): whoever is handed a subscription, new or replayed, is handed a
\* committed one to the plan they asked for.
THEOREM AnswersAreReal == Spec => []AnswerIsReal
<1> QED
  BY SubscribeReal, PTL

\* The idempotency reservation: the retries of a key create one subscription at the provider
\* at most, until an attempt fails, outlives the pending TTL or its record is purged.
THEOREM SubscribeOnce == Spec => []SubscribedOnce
<1>1. Init => RealInv /\ OnceInv
  BY SInit
<1>2. RealInv /\ OnceInv /\ [Next]_vars => RealInv' /\ OnceInv'
  BY STypeStep, RealStep, OnceStep DEF RealInv
<1>3. OnceInv => SubscribedOnce
  BY DEF OnceInv, SubscribedOnce
<1> QED
  BY <1>1, <1>2, <1>3, PTL DEF Spec

\* Retrying subscribe_idempotent() is safe for any number of callers, plans, calls and ticks.
THEOREM SubscribeSafe == Spec => []RetriesAreSafe
<1>1. TypeOK /\ SuccessIsReal /\ AnswerIsReal /\ SubscribedOnce => RetriesAreSafe
  BY DEF RetriesAreSafe
<1> QED
  BY <1>1, SubscribeReal, SubscribeOnce, PTL
=============================================================================
