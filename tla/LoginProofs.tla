----------------------------- MODULE LoginProofs -----------------------------
(***************************************************************************)
(* For every set of browsers and callbacks and however many logins: a      *)
(* login is attempted once, with its own code, every session is the one    *)
(* linked user's, and a browser returns to where the settings say.         *)
(*                                                                         *)
(* The inductive invariant says what the lock on the login row and the     *)
(* unique link are for.  The holder of a row is alone and has counted its  *)
(* attempt; a callback past Consume answers the login it locked; one about *)
(* to issue a session has the linked user; and every user was made by a    *)
(* callback of its own, so there are no more users than callbacks.         *)
(***************************************************************************)
EXTENDS Login, TLAPS

(* The steps of a callback, and a callback. *)
Pcs == {"none", "consume", "held", "provider", "exchange", "find", "create", "link", "again",
        "issue", "answered"}

Callbacks ==
    [pc : Pcs, browser : Browsers \cup {None}, login : 0 .. MaxLogins, returned : 0 .. MaxLogins,
     at : Nat, user : Nat, answer : Nat]

(* The shapes of the variables.  A code was given, and an answer returned, only for a login   *)
(* that was begun, and a login that was begun has its browser.                                *)
LoginShape ==
    /\ minute \in 0 .. LastMinute
    /\ logins \in [Logins -> [row : {"none", "waiting", "gone"}, browser : Browsers \cup {None},
                              expires : Nat]]
    /\ cookie \in [Browsers -> 0 .. MaxLogins]
    /\ codes \in [Logins -> {"none", "given", "spent"}]
    /\ callback \in [Visits -> Callbacks]
    /\ people \in [count : Nat, linked : Nat]
    /\ attempts \in [Logins -> Nat]
    /\ \A l \in Logins : codes[l] # "none" => logins[l].row # "none"
    /\ \A l \in Logins : logins[l].row # "none" => logins[l].browser \in Browsers
    /\ \A v \in Visits :
          callback[v].returned \in Logins => logins[callback[v].returned].row # "none"

(* The callback of one visit goes on to pc, with the user it found. *)
Moved(v, pc, user) ==
    /\ callback' \in [Visits -> Callbacks]
    /\ \A w \in Visits \ {v} : callback'[w] = callback[w]
    /\ callback'[v].pc = pc /\ callback'[v].user = user
    /\ callback'[v].login = callback[v].login /\ callback'[v].returned = callback[v].returned
    /\ callback'[v].browser = callback[v].browser

(* Going on to the next step moves one callback. *)
LEMMA GotoMoves ==
    ASSUME callback \in [Visits -> Callbacks], NEW v \in Visits, NEW pc \in Pcs, Goto(v, pc)
    PROVE  Moved(v, pc, callback[v].user)
<1> DEFINE c == [callback[v] EXCEPT !.pc = pc]
<1>1. callback[v] \in Callbacks
  OBVIOUS
<1>2. c \in Callbacks
  BY <1>1 DEF Callbacks
<1>3. callback' = [callback EXCEPT ![v] = c]
  BY DEF Goto
<1>4. c.pc = pc /\ c.user = callback[v].user /\ c.login = callback[v].login
      /\ c.returned = callback[v].returned /\ c.browser = callback[v].browser
  BY <1>1 DEF Callbacks
<1> HIDE DEF c
<1> QED
  BY <1>2, <1>3, <1>4 DEF Moved

(* Answering the request moves one callback. *)
LEMMA AnswerMoves ==
    ASSUME callback \in [Visits -> Callbacks], NEW v \in Visits, NEW status \in Nat,
           Answer(v, status)
    PROVE  Moved(v, "answered", callback[v].user)
<1> DEFINE c == [callback[v] EXCEPT !.pc = "answered", !.answer = status]
<1>1. callback[v] \in Callbacks
  OBVIOUS
<1>2. c \in Callbacks
  BY Zenon, <1>1 DEF Callbacks, Pcs
<1>3. callback' = [callback EXCEPT ![v] = c]
  BY Zenon DEF Answer
<1>4. c.pc = "answered" /\ c.user = callback[v].user /\ c.login = callback[v].login
      /\ c.returned = callback[v].returned /\ c.browser = callback[v].browser
  BY <1>1 DEF Callbacks
<1> HIDE DEF c
<1> QED
  BY <1>2, <1>3, <1>4 DEF Moved

(* Finding or creating the user moves one callback. *)
LEMMA UserMoves ==
    ASSUME callback \in [Visits -> Callbacks], NEW v \in Visits, NEW pc \in Pcs, NEW user \in Nat,
           callback' = [callback EXCEPT ![v].user = user, ![v].pc = pc]
    PROVE  Moved(v, pc, user)
<1> DEFINE c == [callback[v] EXCEPT !.user = user, !.pc = pc]
<1>1. callback[v] \in Callbacks
  OBVIOUS
<1>2. c \in Callbacks
  BY Zenon, <1>1 DEF Callbacks
<1>3. callback' = [callback EXCEPT ![v] = c]
  BY Zenon
<1>4. c.pc = pc /\ c.user = user /\ c.login = callback[v].login
      /\ c.returned = callback[v].returned /\ c.browser = callback[v].browser
  BY <1>1 DEF Callbacks
<1> HIDE DEF c
<1> QED
  BY Zenon, <1>2, <1>3, <1>4 DEF Moved

(* What a handler does to the callback it serves. *)
Handled(v) ==
    LET user == callback[v].user
        known == people.linked # None
        answered == Moved(v, "answered", user)
    IN  \/ LockLogin(v) /\ At(v, "consume") /\ (Moved(v, "held", user) \/ answered)
        \/ Consume(v) /\ At(v, "held") /\ (Moved(v, "provider", user) \/ answered)
        \/ Provider(v) /\ At(v, "provider") /\ (Moved(v, "exchange", user) \/ answered)
        \/ Exchange(v) /\ At(v, "exchange") /\ (Moved(v, "find", user) \/ answered)
        \/ Find(v) /\ At(v, "find") /\ Moved(v, IF known THEN "issue" ELSE "create", people.linked)
        \/ CreateUser(v) /\ At(v, "create") /\ Moved(v, "link", people.count + 1)
        \/ Link(v) /\ At(v, "link") /\ Moved(v, IF known THEN "again" ELSE "issue", user)
        \/ FindAgain(v) /\ At(v, "again") /\ Moved(v, "issue", people.linked)
        \/ Issue(v) /\ At(v, "issue") /\ answered

(* Every handler moves its own callback, along the steps of GET /auth/callback. *)
LEMMA HandlerMoves ==
    ASSUME LoginShape, NEW v \in Visits, Handle(v)
    PROVE  Handled(v)
<1>0. callback \in [Visits -> Callbacks] /\ people.linked \in Nat /\ people.count + 1 \in Nat
  BY DEF LoginShape
<1> DEFINE user == callback[v].user
<1>1. CASE LockLogin(v)
  <2>1. At(v, "consume") /\ (Goto(v, "held") \/ Answer(v, 400))
    BY <1>1 DEF LockLogin
  <2>2. Moved(v, "held", user) \/ Moved(v, "answered", user)
    BY <1>0, <2>1, GotoMoves, AnswerMoves DEF Pcs
  <2> QED
    BY Zenon, <1>1, <2>1, <2>2 DEF Handled
<1>2. CASE Consume(v)
  <2>1. At(v, "held") /\ (Goto(v, "provider") \/ Answer(v, 400))
    BY <1>2 DEF Consume
  <2>2. Moved(v, "provider", user) \/ Moved(v, "answered", user)
    BY <1>0, <2>1, GotoMoves, AnswerMoves DEF Pcs
  <2> QED
    BY Zenon, <1>2, <2>1, <2>2 DEF Handled
<1>3. CASE Provider(v)
  <2>1. At(v, "provider") /\ (Goto(v, "exchange") \/ Answer(v, 503))
    BY <1>3 DEF Provider
  <2>2. Moved(v, "exchange", user) \/ Moved(v, "answered", user)
    BY <1>0, <2>1, GotoMoves, AnswerMoves DEF Pcs
  <2> QED
    BY Zenon, <1>3, <2>1, <2>2 DEF Handled
<1>4. CASE Exchange(v)
  <2>1. At(v, "exchange")
    BY <1>4 DEF Exchange
  <2>2. Goto(v, "find") \/ Answer(v, 401) \/ Answer(v, 502) \/ Answer(v, 503)
    BY Zenon, <1>4 DEF Exchange
  <2>3. Moved(v, "find", user) \/ Moved(v, "answered", user)
    BY <1>0, <2>2, GotoMoves, AnswerMoves DEF Pcs
  <2> QED
    BY Zenon, <1>4, <2>1, <2>3 DEF Handled
<1>5. CASE Find(v)
  <2>1. At(v, "find") /\ Moved(v, IF people.linked # None THEN "issue" ELSE "create", people.linked)
    BY Zenon, <1>0, <1>5, UserMoves DEF Find, Pcs
  <2> QED
    BY Zenon, <1>5, <2>1 DEF Handled
<1>6. CASE CreateUser(v)
  <2>1. At(v, "create") /\ Moved(v, "link", people.count + 1)
    BY Zenon, <1>0, <1>6, UserMoves DEF CreateUser, Pcs
  <2> QED
    BY Zenon, <1>6, <2>1 DEF Handled
<1>7. CASE Link(v)
  <2>1. At(v, "link") /\ Goto(v, IF people.linked # None THEN "again" ELSE "issue")
    BY <1>7 DEF Link
  <2>2. Moved(v, IF people.linked # None THEN "again" ELSE "issue", user)
    BY <1>0, <2>1, GotoMoves DEF Pcs
  <2> QED
    BY Zenon, <1>7, <2>1, <2>2 DEF Handled
<1>8. CASE FindAgain(v)
  <2>1. At(v, "again") /\ Moved(v, "issue", people.linked)
    BY Zenon, <1>0, <1>8, UserMoves DEF FindAgain, AfterDuplicate, Pcs
  <2> QED
    BY Zenon, <1>8, <2>1 DEF Handled
<1>9. CASE Issue(v)
  <2>1. At(v, "issue") /\ Answer(v, 303)
    BY <1>9 DEF Issue
  <2>2. Moved(v, "answered", user)
    BY <1>0, <2>1, AnswerMoves
  <2> QED
    BY Zenon, <1>9, <2>1, <2>2 DEF Handled
<1> QED
  BY Zenon, <1>1, <1>2, <1>3, <1>4, <1>5, <1>6, <1>7, <1>8, <1>9 DEF Handle

(* What keeps a row to one attempt: the holder of the lock has counted its own, and nobody    *)
(* else holds the row.                                                                        *)
RowInv ==
    /\ \A v \in Visits : At(v, "held") =>
          /\ callback[v].login \in Logins
          /\ logins[callback[v].login].row = "waiting" /\ attempts[callback[v].login] = 1
    /\ \A v, w \in Visits :
          At(v, "held") /\ At(w, "held") /\ callback[v].login = callback[w].login => v = w
    /\ \A l \in Logins : logins[l].row = "none" => attempts[l] = 0
    /\ \A l \in Logins : logins[l].row = "waiting" /\ RowFree(l) => attempts[l] = 0
    /\ \A l \in Logins : attempts[l] <= 1

(* A callback past the consumption of its login answers that very login. *)
CodeInv ==
    /\ \A v \in Visits :
          At(v, "provider") \/ At(v, "exchange") => callback[v].returned = callback[v].login
    /\ \A e \in exchanged : e.code = e.verifier

(* Callbacks that are past the creation of a user. *)
Settled == {v \in Visits : callback[v].pc \in {"link", "again", "issue", "answered"}}

(* Who goes on to a session has the linked user; every user was made by a callback of its own. *)
UserInv ==
    /\ \A v \in Visits : At(v, "link") => callback[v].user # None
    /\ \A v \in Visits : At(v, "again") => people.linked # None
    /\ \A v \in Visits : At(v, "issue") => callback[v].user = people.linked /\ people.linked # None
    /\ \A s \in issued : s.user = people.linked /\ people.linked # None
    /\ \A v \in Visits : callback[v].user <= people.count
    /\ people.linked <= people.count
    /\ people.count <= Cardinality(Settled)

(* A login was begun only under settings that agree. *)
SetupInv == (\E l \in Logins : logins[l].row # "none") => AuthHttpConfig(setup)

LoginInv == LoginShape /\ RowInv /\ CodeInv /\ UserInv /\ SetupInv

(* The callback that Arrive makes. *)
Arrived(b, k, l, m) ==
    [NoCallback EXCEPT !.pc = "consume", !.browser = b, !.login = k, !.returned = l, !.at = m]

(* What Arrive makes is a callback that has yet to find its login and its user. *)
LEMMA ArrivedCallback ==
    ASSUME NEW b \in Browsers \cup {None}, NEW k \in 0 .. MaxLogins, NEW l \in 0 .. MaxLogins,
           NEW m \in Nat
    PROVE  /\ Arrived(b, k, l, m) \in Callbacks
           /\ Arrived(b, k, l, m).pc = "consume" /\ Arrived(b, k, l, m).returned = l
           /\ Arrived(b, k, l, m).user = None
<1> DEFINE c == Arrived(b, k, l, m)
<1>1. NoCallback \in Callbacks
  BY LoginAssumption DEF NoCallback, Callbacks, Pcs, None
<1>2. c \in Callbacks
  BY Zenon, <1>1 DEF Callbacks, Pcs, Arrived
<1>3. c.pc = "consume" /\ c.returned = l /\ c.user = None
  BY DEF NoCallback, Arrived
<1> QED
  BY <1>2, <1>3

(* A callback that arrives has its login to lock, or was refused by the rate limit. *)
LEMMA ArriveMoves ==
    ASSUME LoginShape, NEW l \in Logins, NEW v \in Visits, Arrive(v, l)
    PROVE  /\ callback[v].pc = "none"
           /\ callback' \in [Visits -> Callbacks]
           /\ \A w \in Visits \ {v} : callback'[w] = callback[w]
           /\ callback'[v].pc \in {"consume", "answered"}
           /\ callback'[v].returned \in {callback[v].returned, l}
           /\ callback'[v].user \in {callback[v].user, None}
<1> DEFINE b == logins[l].browser
           c == Arrived(b, cookie[b], l, minute)
<1>0. callback \in [Visits -> Callbacks]
  BY DEF LoginShape
<1>1. b \in Browsers /\ cookie[b] \in 0 .. MaxLogins /\ minute \in Nat
  BY LoginAssumption DEF LoginShape, Arrive
<1>2. c \in Callbacks /\ c.pc = "consume" /\ c.returned = l /\ c.user = None
  <2>1. l \in 0 .. MaxLogins /\ b \in Browsers \cup {None}
    BY <1>1, LoginAssumption DEF Logins
  <2> HIDE DEF b
  <2> QED
    BY Zenon, <1>1, <2>1, ArrivedCallback
<1>3. callback' = [callback EXCEPT ![v] = c] \/ \E status \in Nat : Answer(v, status)
  BY DEF Arrive, Arrived, RateLimitRefusals
<1>4. callback[v].pc = "none"
  BY DEF Arrive, At
<1> HIDE DEF b, c
<1>5. CASE callback' = [callback EXCEPT ![v] = c]
  BY <1>0, <1>2, <1>4, <1>5
<1>6. CASE \E status \in Nat : Answer(v, status)
  BY <1>0, <1>4, <1>6, AnswerMoves DEF Moved
<1> QED
  BY <1>3, <1>5, <1>6

(* The variables keep their shapes. *)
LEMMA LoginShapeStep == LoginShape /\ RowInv /\ [LoginNext]_loginVars => LoginShape'
<1> SUFFICES ASSUME LoginShape, RowInv, [LoginNext]_loginVars PROVE LoginShape'
  OBVIOUS
<1>0. callback \in [Visits -> Callbacks]
  BY DEF LoginShape
<1>1. CASE Discover \/ Restart \/ Tick
  BY <1>1, LoginAssumption DEF LoginShape, Discover, Restart, Tick, DiscoverConfig, DiscoverEndpoints
<1>2. ASSUME NEW b \in Browsers, BeginLogin(b) PROVE LoginShape'
  BY <1>2, LoginAssumption DEF LoginShape, BeginLogin, Logins
<1>3. ASSUME NEW l \in Logins, SignIn(l) PROVE LoginShape'
  BY <1>3 DEF LoginShape, SignIn
<1>4. ASSUME NEW l \in Logins, NEW v \in Visits, Arrive(v, l) PROVE LoginShape'
  <2>1. /\ callback' \in [Visits -> Callbacks]
        /\ \A w \in Visits : callback'[w].returned \in {callback[w].returned, l}
    BY <1>4, ArriveMoves
  <2> QED
    BY <1>4, <2>1 DEF LoginShape, Arrive
<1>5. ASSUME NEW v \in Visits, Handle(v) PROVE LoginShape'
  <2>0. Handled(v)
    BY <1>5, HandlerMoves
  <2>1. /\ callback' \in [Visits -> Callbacks]
        /\ \A w \in Visits : callback'[w].returned = callback[w].returned
    BY <2>0 DEF Handled, Moved
  <2>2. callback[v] \in Callbacks
    BY <1>0
  <2>3. CASE LockLogin(v)
    <3>1. attempts' \in [Logins -> Nat]
      <4> DEFINE k == callback[v].login
      <4>1. attempts' = [attempts EXCEPT ![k] = @ + 1] \/ attempts' = attempts
        BY <2>3 DEF LockLogin
      <4> HIDE DEF k
      <4> QED
        BY <4>1 DEF LoginShape
    <3> QED
      BY Zenon, <2>1, <2>3, <3>1 DEF LockLogin, LoginShape
  <2>4. CASE Consume(v)
    <3>1. /\ logins' \in [Logins -> [row : {"none", "waiting", "gone"},
                                     browser : Browsers \cup {None}, expires : Nat]]
          /\ \A l \in Logins : logins'[l].row # "none" <=> logins[l].row # "none"
          /\ \A l \in Logins : logins'[l].browser = logins[l].browser
      <4> DEFINE k == callback[v].login
                 r == [logins[k] EXCEPT !.row = "gone"]
      <4>1. logins' = [logins EXCEPT ![k] = r]
        BY <2>4 DEF Consume
      <4>2. k \in Logins
        BY <2>4 DEF Consume, RowInv
      <4>3. logins[k] \in [row : {"none", "waiting", "gone"}, browser : Browsers \cup {None},
                           expires : Nat]
        BY <4>2 DEF LoginShape
      <4>4. /\ r \in [row : {"none", "waiting", "gone"}, browser : Browsers \cup {None},
                      expires : Nat]
            /\ r.row = "gone" /\ r.browser = logins[k].browser
        BY <4>3
      <4>5. logins[k].row = "waiting"
        BY <2>4 DEF Consume, RowInv
      <4> HIDE DEF k, r
      <4> QED
        BY <4>1, <4>2, <4>4, <4>5 DEF LoginShape
    <3>2. (\A l \in Logins : logins[l].row # "none" => logins[l].browser \in Browsers)'
      BY <2>4, <3>1 DEF LoginShape
    <3> QED
      BY Zenon, <2>1, <2>4, <3>1, <3>2 DEF Consume, LoginShape
  <2>5. CASE Exchange(v)
    <3>1. /\ codes' \in [Logins -> {"none", "given", "spent"}]
          /\ \A l \in Logins : codes'[l] # "none" => logins[l].row # "none"
      <4>1. codes' = [codes EXCEPT ![callback[v].returned] = "spent"] \/ codes' = codes
        BY Zenon, <2>5 DEF Exchange
      <4> QED
        BY <4>1 DEF LoginShape
    <3>2. UNCHANGED <<minute, logins, cookie, people, attempts>>
      BY <2>5 DEF Exchange
    <3> QED
      BY <2>1, <3>1, <3>2 DEF LoginShape
  <2>6. CASE CreateUser(v) \/ Link(v)
    <3>1. people' \in [count : Nat, linked : Nat]
      BY <2>2, <2>6 DEF CreateUser, Link, LoginShape, Callbacks
    <3>2. UNCHANGED <<minute, logins, cookie, codes, attempts>>
      BY <2>6 DEF CreateUser, Link
    <3> QED
      BY <2>1, <3>1, <3>2 DEF LoginShape
  <2>7. CASE Issue(v)
    <3>1. cookie' \in [Browsers -> 0 .. MaxLogins]
      <4> DEFINE b == callback[v].browser
      <4>1. cookie' = [cookie EXCEPT ![b] = None]
        BY <2>7 DEF Issue
      <4>2. None \in 0 .. MaxLogins
        BY LoginAssumption DEF None
      <4> HIDE DEF b
      <4> QED
        BY Zenon, <4>1, <4>2 DEF LoginShape
    <3> QED
      BY Zenon, <2>1, <2>7, <3>1 DEF Issue, LoginShape
  <2>8. CASE Provider(v) \/ Find(v) \/ FindAgain(v)
    BY <2>1, <2>8 DEF Provider, Find, FindAgain, LoginShape
  <2> QED
    BY <1>5, <2>3, <2>4, <2>5, <2>6, <2>7, <2>8 DEF Handle
<1>6. ASSUME NEW s \in issued, Logout(s) PROVE LoginShape'
  BY <1>6 DEF Logout, LoginShape
<1>7. CASE UNCHANGED loginVars
  BY <1>7 DEF loginVars, LoginShape
<1> QED
  BY <1>1, <1>2, <1>3, <1>4, <1>5, <1>6, <1>7 DEF LoginNext

(* The row invariant is about holders, rows and counts only. *)
LEMMA RowFrame ==
    ASSUME RowInv, UNCHANGED <<logins, attempts>>,
           \A w \in Visits : callback'[w].pc = "held" <=> callback[w].pc = "held",
           \A w \in Visits : callback[w].pc = "held" => callback'[w].login = callback[w].login
    PROVE  RowInv'
  BY DEF RowInv, At, RowFree

(* A callback that moves between two steps of which neither holds a row keeps the invariant. *)
LEMMA RowMove ==
    ASSUME RowInv, UNCHANGED <<logins, attempts>>, NEW v \in Visits, NEW pc, NEW user, pc # "held",
           callback[v].pc # "held", Moved(v, pc, user)
    PROVE  RowInv'
  BY RowFrame DEF Moved

(* However callbacks interleave, a row is found by one attempt. *)
LEMMA RowStep == LoginShape /\ RowInv /\ [LoginNext]_loginVars => RowInv'
<1> SUFFICES ASSUME LoginShape, RowInv, [LoginNext]_loginVars PROVE RowInv'
  OBVIOUS
<1>0. callback \in [Visits -> Callbacks]
  BY DEF LoginShape
<1>1. CASE Discover \/ Restart \/ Tick
  BY <1>1, RowFrame DEF Discover, Restart, Tick
<1>2. ASSUME NEW b \in Browsers, BeginLogin(b) PROVE RowInv'
  <2>1. PICK l \in Logins : /\ logins[l].row = "none"
                            /\ logins' = [logins EXCEPT ![l] = [row |-> "waiting", browser |-> b,
                                                                expires |-> minute + Lifetime]]
                            /\ UNCHANGED <<callback, attempts>>
    BY Zenon, <1>2 DEF BeginLogin
  <2>2. logins'[l].row = "waiting" /\ \A k \in Logins \ {l} : logins'[k] = logins[k]
    BY <2>1 DEF LoginShape
  <2> QED
    BY <2>1, <2>2 DEF RowInv, At, RowFree
<1>3. ASSUME NEW l \in Logins, SignIn(l) PROVE RowInv'
  BY <1>3, RowFrame DEF SignIn
<1>4. ASSUME NEW l \in Logins, NEW v \in Visits, Arrive(v, l) PROVE RowInv'
  <2>1. UNCHANGED <<logins, attempts>>
    BY <1>4 DEF Arrive
  <2> QED
    BY <1>4, <2>1, ArriveMoves, RowFrame
<1>5. ASSUME NEW v \in Visits, Handle(v) PROVE RowInv'
  <2> DEFINE k == callback[v].login
             user == callback[v].user
  <2>1. CASE LockLogin(v)
    <3>1. callback[v].pc = "consume" /\ UNCHANGED logins
      BY <2>1 DEF LockLogin, At
    <3>2. CASE k # None /\ logins[k].row = "waiting"
      <4>1. RowFree(k) /\ Goto(v, "held") /\ attempts' = [attempts EXCEPT ![k] = @ + 1]
        BY <2>1, <3>2 DEF LockLogin
      <4>2. k \in Logins
        BY <1>0, <3>2, LoginAssumption DEF Callbacks, Logins, None
      <4>3. Moved(v, "held", user)
        BY <1>0, <4>1, GotoMoves DEF Pcs
      <4>4. attempts[k] = 0 /\ attempts'[k] = 1 /\ \A l \in Logins \ {k} : attempts'[l] = attempts[l]
        BY <3>2, <4>1, <4>2 DEF RowInv, LoginShape
      <4>5. /\ callback'[v].pc = "held" /\ callback'[v].login = k
            /\ \A w \in Visits \ {v} : callback'[w] = callback[w]
        BY <4>3 DEF Moved
      <4>6. \A w \in Visits : callback[w].pc = "held" => callback[w].login # k
        BY <4>1 DEF RowFree, At
      <4> HIDE DEF k, user
      <4> QED
        BY <3>1, <3>2, <4>2, <4>4, <4>5, <4>6 DEF RowInv, At, RowFree
    <3>3. CASE ~(k # None /\ logins[k].row = "waiting")
      <4>1. Answer(v, 400) /\ UNCHANGED attempts
        BY <2>1, <3>3 DEF LockLogin
      <4> QED
        BY <1>0, <3>1, <4>1, AnswerMoves, RowMove
    <3> QED
      BY <3>2, <3>3
  <2>2. CASE Consume(v)
    <3>1. /\ callback[v].pc = "held" /\ UNCHANGED attempts
          /\ logins' = [logins EXCEPT ![k].row = "gone"]
          /\ Goto(v, "provider") \/ Answer(v, 400)
      BY <2>2 DEF Consume, At
    <3>2. k \in Logins
      BY <3>1 DEF RowInv, At
    <3>3. logins'[k].row = "gone" /\ \A l \in Logins \ {k} : logins'[l] = logins[l]
      <4> HIDE DEF k
      <4> QED
        BY <3>1, <3>2 DEF LoginShape
    <3>4. Moved(v, "provider", user) \/ Moved(v, "answered", user)
      BY <1>0, <3>1, GotoMoves, AnswerMoves DEF Pcs
    <3>5. callback'[v].pc # "held" /\ \A w \in Visits \ {v} : callback'[w] = callback[w]
      BY <3>4 DEF Moved
    <3>6. \A w \in Visits \ {v} : callback[w].pc = "held" => callback[w].login # k
      BY <3>1 DEF RowInv, At
    <3> HIDE DEF k, user
    <3>7. \A w \in Visits : callback'[w].pc = "held" => callback'[w].login # k /\ w # v
      BY <3>5, <3>6
    <3>8. \A l \in Logins \ {k} : RowFree(l)' => RowFree(l)
      BY <3>1, <3>5 DEF RowFree, At, k
    <3> QED
      BY <3>1, <3>2, <3>3, <3>5, <3>7, <3>8 DEF RowInv, At
  <2>3. CASE ~LockLogin(v) /\ ~Consume(v)
    <3>1. Handled(v)
      BY <1>5, HandlerMoves
    <3>2. callback[v].pc # "held" /\ \E pc \in Pcs \ {"held"} : \E u : Moved(v, pc, u)
      BY <2>3, <3>1 DEF Handled, At, Pcs
    <3>3. UNCHANGED <<logins, attempts>>
      BY <1>5, <2>3 DEF Handle, Provider, Exchange, Find, CreateUser, Link, FindAgain, Issue
    <3> QED
      BY <3>2, <3>3, RowMove
  <2> QED
    BY <2>1, <2>2, <2>3
<1>6. ASSUME NEW s \in issued, Logout(s) PROVE RowInv'
  BY <1>6, RowFrame DEF Logout
<1>7. CASE UNCHANGED loginVars
  BY <1>7, RowFrame DEF loginVars
<1> QED
  BY <1>1, <1>2, <1>3, <1>4, <1>5, <1>6, <1>7 DEF LoginNext

(* A code is exchanged with the verifier of its own login: Consume lets only a callback pass  *)
(* that answers the login it locked, and nothing later changes either.                        *)
LEMMA CodeStep == LoginShape /\ CodeInv /\ [LoginNext]_loginVars => CodeInv'
<1> SUFFICES ASSUME LoginShape, CodeInv, [LoginNext]_loginVars PROVE CodeInv'
  OBVIOUS
<1>0. callback \in [Visits -> Callbacks]
  BY DEF LoginShape
<1>1. CASE UNCHANGED <<callback, exchanged>>
  BY <1>1 DEF CodeInv, At
<1>2. ASSUME NEW l \in Logins, NEW v \in Visits, Arrive(v, l) PROVE CodeInv'
  <2>1. UNCHANGED exchanged
    BY <1>2 DEF Arrive
  <2> QED
    BY <1>2, <2>1, ArriveMoves DEF CodeInv, At
<1>3. ASSUME NEW v \in Visits, Handle(v) PROVE CodeInv'
  <2>1. Handled(v)
    BY <1>3, HandlerMoves
  <2>2. \A w \in Visits \ {v} : callback'[w] = callback[w]
    BY Zenon, <2>1 DEF Handled, Moved
  <2>3. callback'[v].login = callback[v].login /\ callback'[v].returned = callback[v].returned
    BY Zenon, <2>1 DEF Handled, Moved
  <2>4. CASE Consume(v)
    <3>1. UNCHANGED exchanged
      BY <2>4 DEF Consume
    <3>2. Answer(v, 400) \/ StateMatches(v)
      BY <2>4 DEF Consume
    <3>3. CASE Answer(v, 400)
      <4>1. callback'[v].pc = "answered"
        BY <1>0, <3>3, AnswerMoves DEF Moved
      <4> QED
        BY <2>2, <3>1, <4>1 DEF CodeInv, At
    <3>4. CASE StateMatches(v)
      BY <2>2, <2>3, <3>1, <3>4 DEF CodeInv, At, StateMatches
    <3> QED
      BY <3>2, <3>3, <3>4
  <2>5. CASE Exchange(v)
    <3>1. callback[v].returned = callback[v].login
      BY <2>5 DEF Exchange, CodeInv
    <3>2. exchanged' = exchanged \cup {[code |-> callback[v].returned, verifier |-> callback[v].login]}
      BY <2>5 DEF Exchange
    <3>3. \A e \in exchanged' : e.code = e.verifier
      BY <3>1, <3>2 DEF CodeInv
    <3> QED
      BY <2>2, <2>3, <3>1, <3>3 DEF CodeInv, At
  <2>6. CASE ~Consume(v) /\ ~Exchange(v)
    <3>1. UNCHANGED exchanged
      BY <1>3, <2>6 DEF Handle, LockLogin, Provider, Find, CreateUser, Link, FindAgain, Issue
    <3>2. callback'[v].pc \in {"provider", "exchange"} => callback[v].pc = "provider"
      BY Zenon, <2>1, <2>6 DEF Handled, Moved, At
    <3> QED
      BY <2>2, <2>3, <3>1, <3>2 DEF CodeInv, At
  <2> QED
    BY <2>4, <2>5, <2>6
<1> QED
  BY <1>1, <1>2, <1>3 DEF LoginNext, loginVars, Discover, Restart, Tick, BeginLogin, SignIn, Logout

(* A login is begun only while AuthHttpConfig holds, and the settings of a process do not change. *)
LEMMA SetupStep == LoginShape /\ RowInv /\ SetupInv /\ [LoginNext]_loginVars => SetupInv'
<1> SUFFICES ASSUME LoginShape, RowInv, SetupInv, [LoginNext]_loginVars PROVE SetupInv'
  OBVIOUS
<1>1. UNCHANGED setup
  BY Zenon DEF LoginNext, Handle, loginVars, Discover, Restart, Tick, BeginLogin, SignIn, Logout, Arrive,
         LockLogin, Consume, Provider, Exchange, Find, CreateUser, Link, FindAgain, Issue
<1>2. AuthHttpConfig(setup)' = AuthHttpConfig(setup)
  BY <1>1 DEF AuthHttpConfig, NormalOrigin, Agree, ResolveCallbackUrl
<1>3. CASE UNCHANGED logins
  BY <1>2, <1>3 DEF SetupInv
<1>4. ASSUME NEW b \in Browsers, BeginLogin(b) PROVE SetupInv'
  BY <1>2, <1>4 DEF BeginLogin, SetupInv
<1>5. ASSUME NEW v \in Visits, Consume(v) PROVE SetupInv'
  <2>1. callback[v].login \in Logins /\ logins[callback[v].login].row # "none"
    BY <1>5 DEF Consume, RowInv
  <2> QED
    BY <1>2, <2>1 DEF SetupInv
<1> QED
  BY Zenon, <1>3, <1>4, <1>5 DEF LoginNext, Handle, loginVars, Discover, Restart, Tick, SignIn, Logout, Arrive,
         LockLogin, Provider, Exchange, Find, CreateUser, Link, FindAgain, Issue

-----------------------------------------------------------------------------
INSTANCE FiniteSetTheorems

(* A process that has just started, with no login begun. *)
LEMMA LoginInvInit == LoginInit => LoginInv
<1> SUFFICES ASSUME LoginInit PROVE LoginInv
  OBVIOUS
<1>1. NoCallback \in Callbacks
  BY LoginAssumption DEF NoCallback, Callbacks, Pcs, None
<1>a. None \in 0 .. MaxLogins /\ None \in Nat /\ None \notin Logins /\ 0 \in 0 .. LastMinute
  BY LoginAssumption DEF None, Logins
<1>2. LoginShape
  <2>1. /\ \A v \in Visits : callback[v].returned = None
        /\ \A l \in Logins : codes[l] = "none" /\ logins[l].row = "none"
    BY DEF LoginInit, NoCallback
  <2> QED
    BY <1>1, <1>a, <2>1 DEF LoginInit, LoginShape
<1>3. RowInv /\ CodeInv /\ SetupInv
  BY DEF LoginInit, RowInv, CodeInv, SetupInv, At, NoCallback
<1>4. Settled = {}
  BY DEF LoginInit, Settled, NoCallback
<1>5. UserInv
  BY <1>4, FS_EmptySet DEF LoginInit, UserInv, At, NoCallback, None
<1> QED
  BY <1>2, <1>3, <1>5 DEF LoginInv

(* The settled callbacks only become more, and a callback that creates a user becomes one. *)
LEMMA SettledGrows ==
    ASSUME LoginShape, NEW v \in Visits,
           \A w \in Visits \ {v} : callback'[w] = callback[w],
           v \in Settled => v \in Settled'
    PROVE  /\ Cardinality(Settled) \in Nat /\ Cardinality(Settled') \in Nat
           /\ Cardinality(Settled) <= Cardinality(Settled')
           /\ v \in Settled' /\ v \notin Settled => Cardinality(Settled') = Cardinality(Settled) + 1
           /\ Cardinality(Settled') <= Cardinality(Visits)
<1>1. Settled \subseteq Settled' /\ Settled' \subseteq Settled \cup {v} /\ Settled' \subseteq Visits
  BY DEF Settled
<1>2. IsFiniteSet(Visits)
  BY LoginAssumption
<1>3. IsFiniteSet(Settled) /\ IsFiniteSet(Settled')
  BY <1>1, <1>2, FS_Subset
<1>4. /\ Cardinality(Settled) \in Nat /\ Cardinality(Settled') \in Nat
      /\ Cardinality(Settled) <= Cardinality(Settled')
      /\ Cardinality(Settled') <= Cardinality(Visits)
  BY <1>1, <1>2, <1>3, FS_CardinalityType, FS_Subset
<1>5. ASSUME v \in Settled', v \notin Settled PROVE Cardinality(Settled') = Cardinality(Settled) + 1
  <2>1. Settled' = Settled \cup {v}
    BY <1>1, <1>5
  <2> QED
    BY <1>3, <1>5, <2>1, FS_AddElement
<1> QED
  BY <1>4, <1>5

(* The user a session is issued for is the linked one: a callback that lost the race to link  *)
(* its own user reads the link again, and a link is never replaced.                           *)
LEMMA UserStep == LoginShape /\ UserInv /\ [LoginNext]_loginVars => UserInv'
<1> SUFFICES ASSUME LoginShape, UserInv, [LoginNext]_loginVars PROVE UserInv'
  OBVIOUS
<1>0. callback \in [Visits -> Callbacks] /\ people \in [count : Nat, linked : Nat]
  BY DEF LoginShape
<1>1. CASE UNCHANGED <<callback, people, issued>>
  <2>1. Settled' = Settled
    BY <1>1 DEF Settled
  <2> QED
    BY <1>1, <2>1 DEF UserInv, At
<1>2. ASSUME NEW l \in Logins, NEW v \in Visits, Arrive(v, l) PROVE UserInv'
  <2>1. UNCHANGED <<people, issued>> /\ callback[v].pc = "none"
    BY <1>2 DEF Arrive, At
  <2>3. /\ callback'[v].pc \in {"consume", "answered"}
        /\ callback'[v].user \in {None, callback[v].user}
        /\ \A w \in Visits \ {v} : callback'[w] = callback[w]
    BY <1>2, ArriveMoves
  <2>4. v \notin Settled
    BY <2>1 DEF Settled
  <2>5. Cardinality(Settled) <= Cardinality(Settled') /\ Cardinality(Settled) \in Nat
        /\ Cardinality(Settled') \in Nat
    BY <2>3, <2>4, SettledGrows
  <2>6. people.count <= Cardinality(Settled')
    BY <1>0, <2>5 DEF UserInv
  <2>7. \A w \in Visits : callback'[w].user <= people.count
    BY <1>0, <2>3 DEF UserInv, None
  <2> QED
    BY <2>1, <2>3, <2>6, <2>7 DEF UserInv, At
<1>3. ASSUME NEW v \in Visits, Handle(v) PROVE UserInv'
  <2>1. Handled(v)
    BY <1>3, HandlerMoves
  <2>2. \A w \in Visits \ {v} : callback'[w] = callback[w]
    BY Zenon, <2>1 DEF Handled, Moved
  <2>3. v \in Settled => v \in Settled'
    BY Zenon, <2>1 DEF Handled, Moved, Settled, At
  <2>4. /\ Cardinality(Settled) \in Nat /\ Cardinality(Settled') \in Nat
        /\ Cardinality(Settled) <= Cardinality(Settled')
        /\ v \in Settled' /\ v \notin Settled => Cardinality(Settled') = Cardinality(Settled) + 1
    BY <2>2, <2>3, SettledGrows
  <2>5. people.count <= Cardinality(Settled')
    BY <1>0, <2>4 DEF UserInv
  <2>6. callback[v].user \in Nat /\ callback[v].user <= people.count /\ people.linked <= people.count
    BY <1>0 DEF UserInv, Callbacks
  <2>7. CASE CreateUser(v)
    <3>1. /\ callback[v].pc = "create" /\ UNCHANGED issued
          /\ people'.count = people.count + 1 /\ people'.linked = people.linked
      BY <1>0, <2>7 DEF CreateUser, At
    <3>2. callback'[v].pc = "link" /\ callback'[v].user = people.count + 1
      BY Zenon, <2>1, <3>1 DEF Handled, Moved, At
    <3>3. people'.count <= Cardinality(Settled')
      <4>1. v \in Settled' /\ v \notin Settled
        BY <3>1, <3>2 DEF Settled
      <4>2. people.count <= Cardinality(Settled)
        BY DEF UserInv
      <4> QED
        BY <1>0, <2>4, <3>1, <4>1, <4>2
    <3>4. \A w \in Visits : callback'[w].user <= people'.count
      <4>1. \A w \in Visits : callback[w].user \in Nat /\ callback[w].user <= people.count
        BY <1>0 DEF UserInv, Callbacks
      <4> QED
        BY <1>0, <2>2, <3>1, <3>2, <4>1
    <3>5. people'.linked <= people'.count
      BY <1>0, <2>6, <3>1
    <3>6. callback'[v].user # None
      BY <1>0, <3>2 DEF None
    <3> QED
      BY <2>2, <3>1, <3>2, <3>3, <3>4, <3>5, <3>6 DEF UserInv, At
  <2>8. CASE Link(v) /\ people.linked = None
    <3>1. /\ callback[v].pc = "link" /\ UNCHANGED issued
          /\ people'.count = people.count /\ people'.linked = callback[v].user
      BY <1>0, <2>8 DEF Link, At
    <3>2. callback[v].user # None /\ issued = {}
      BY <2>8, <3>1 DEF UserInv, At
    <3>3. callback'[v].pc = "issue" /\ callback'[v].user = callback[v].user
      BY <1>0, <2>8, GotoMoves DEF Link, Moved, Pcs
    <3>4. \A w \in Visits : callback[w].pc \notin {"again", "issue"}
      BY <2>8 DEF UserInv, At
    <3>5. \A w \in Visits : callback'[w].user <= people'.count
      BY <2>2, <3>1, <3>3 DEF UserInv
    <3> QED
      BY <2>2, <2>5, <2>6, <3>1, <3>2, <3>3, <3>4, <3>5 DEF UserInv, At
  <2>9. CASE ~CreateUser(v) /\ ~(Link(v) /\ people.linked = None)
    <3>1. UNCHANGED people
      BY <1>3, <2>9 DEF Handle, LockLogin, Consume, Provider, Exchange, Find, Link, FindAgain, Issue
    <3>2. callback'[v].user \in {callback[v].user, people.linked}
      BY Zenon, <2>1, <2>9 DEF Handled, Moved
    <3>3. \A w \in Visits : callback'[w].user <= people.count
      BY <2>2, <2>6, <3>2 DEF UserInv
    <3>4. callback'[v].pc # "link"
      BY Zenon, <2>1, <2>9 DEF Handled, Moved
    <3>5. callback'[v].pc = "again" => people.linked # None
      BY Zenon, <2>1, <2>9 DEF Handled, Moved
    <3>6. callback'[v].pc = "issue" => callback'[v].user = people.linked /\ people.linked # None
      <4>1. CASE Find(v)
        <5>1. callback[v].pc = "find"
          BY <4>1 DEF Find, At
        <5>2. Moved(v, IF people.linked # None THEN "issue" ELSE "create", people.linked)
          BY <2>1, <5>1 DEF Handled, At
        <5> QED
          BY <5>2 DEF Moved
      <4>2. CASE FindAgain(v)
        <5>1. people.linked # None
          BY <4>2 DEF FindAgain, UserInv
        <5>2. callback'[v].user = people.linked
          BY <2>1, <4>2 DEF Handled, Moved, FindAgain, At
        <5> QED
          BY <5>1, <5>2
      <4>3. CASE ~Find(v) /\ ~FindAgain(v)
        BY Zenon, <2>1, <2>9, <4>3 DEF Handled, Moved
      <4> QED
        BY <4>1, <4>2, <4>3
    <3>7. \A s \in issued' : s.user = people.linked /\ people.linked # None
      <4>1. CASE Issue(v)
        <5>1. callback[v].user = people.linked /\ people.linked # None
          BY <4>1 DEF Issue, UserInv
        <5>2. issued' = issued \cup {[by |-> v, user |-> callback[v].user, live |-> TRUE]}
          BY <4>1 DEF Issue
        <5>3. [by |-> v, user |-> callback[v].user, live |-> TRUE].user = callback[v].user
          OBVIOUS
        <5>4. \A s \in issued : s.user = people.linked
          BY DEF UserInv
        <5> QED
          BY Zenon, <5>1, <5>2, <5>3, <5>4
      <4>2. CASE ~Issue(v)
        <5>1. UNCHANGED issued
          BY <1>3, <4>2 DEF Handle, LockLogin, Consume, Provider, Exchange, Find, CreateUser, Link,
                            FindAgain
        <5> QED
          BY <5>1 DEF UserInv
      <4> QED
        BY <4>1, <4>2
    <3> QED
      BY <2>2, <2>5, <2>6, <3>1, <3>3, <3>4, <3>5, <3>6, <3>7 DEF UserInv, At
  <2> QED
    BY <2>7, <2>8, <2>9
<1>4. ASSUME NEW s \in issued, Logout(s) PROVE UserInv'
  <2>1. Settled' = Settled
    BY <1>4 DEF Logout, Settled
  <2>2. UNCHANGED <<callback, people>>
    BY <1>4 DEF Logout
  <2>3. \A t \in issued' : t.user = people.linked /\ people.linked # None
    <3>1. issued' = (issued \ {s}) \cup {[s EXCEPT !.live = FALSE]}
      BY <1>4 DEF Logout
    <3>2. [s EXCEPT !.live = FALSE].user = s.user
      OBVIOUS
    <3> QED
      BY Zenon, <3>1, <3>2 DEF UserInv
  <2> QED
    BY <2>1, <2>2, <2>3 DEF UserInv, At
<1> QED
  BY <1>1, <1>2, <1>3, <1>4 DEF LoginNext, loginVars, Discover, Restart, Tick, BeginLogin, SignIn

(* Every step of the process, the provider and the browsers keeps the invariant. *)
LEMMA LoginInvStep == LoginInv /\ [LoginNext]_loginVars => LoginInv'
  BY LoginShapeStep, RowStep, CodeStep, UserStep, SetupStep DEF LoginInv

(* The invariant says what OneLoginOneUser promises; the number of users is bounded by that of *)
(* the settled callbacks, and AuthHttpConfig leaves one address to return to.                 *)
LEMMA LoginInvImplies == LoginInv => OneLoginOneUser
<1> SUFFICES ASSUME LoginInv PROVE OneLoginOneUser
  OBVIOUS
<1>1. LoginTypeOK
  <2>1. IsFiniteSet(Settled) /\ Cardinality(Settled) <= Cardinality(Visits)
        /\ Cardinality(Visits) \in Nat /\ Cardinality(Settled) \in Nat
    BY LoginAssumption, FS_Subset, FS_CardinalityType DEF Settled
  <2>2. /\ \A v \in Visits : callback[v].user \in Nat /\ callback[v].user <= people.count
        /\ people.count \in Nat /\ people.linked \in Nat /\ people.linked <= people.count
        /\ people.count <= Cardinality(Settled)
    BY DEF LoginInv, LoginShape, UserInv, Callbacks
  <2>3. people.count <= Cardinality(Visits)
    BY <2>1, <2>2
  <2>4. \A n \in Nat : n <= people.count => n \in Users \cup {None}
    BY <2>1, <2>2, <2>3 DEF Users, None
  <2>5. /\ \A v \in Visits : callback[v].user \in Users \cup {None}
        /\ people.count \in 0 .. Cardinality(Visits) /\ people.linked \in Users \cup {None}
    BY <2>1, <2>2, <2>3, <2>4
  <2> QED
    BY <2>5 DEF LoginTypeOK, LoginInv, LoginShape
<1>2. OneAttemptPerLogin /\ ExchangesOwnCode /\ OneUserPerIdentity
  BY DEF LoginInv, RowInv, CodeInv, UserInv, OneAttemptPerLogin, ExchangesOwnCode, OneUserPerIdentity
<1>3. ReturnsToOrigin
  <2> SUFFICES ASSUME AuthHttpConfig(setup), NEW url \in ResolveCallbackUrl(setup)
               PROVE  /\ setup.public => url.site = setup.origin.site
                      /\ setup.production => url.scheme = "https"
    BY DEF ReturnsToOrigin, LoginInv, SetupInv
  <2>1. setup.public => url = CallbackUrlFor(setup.origin)
    BY DEF AuthHttpConfig, Agree, ResolveCallbackUrl
  <2>2. setup.public => url.site = setup.origin.site
    BY <2>1 DEF CallbackUrlFor
  <2>3. setup.production => url.scheme = "https"
    BY DEF AuthHttpConfig
  <2> QED
    BY <2>2, <2>3
<1> QED
  BY <1>1, <1>2, <1>3 DEF OneLoginOneUser

(* For any number of browsers, logins and callbacks, a login is attempted once, with its own  *)
(* code, every session is the linked user's, and a browser returns where the settings say.    *)
THEOREM LoginIsSound == LoginSpec => []OneLoginOneUser
<1>1. LoginInit => LoginInv
  BY LoginInvInit
<1>2. LoginInv /\ [LoginNext]_loginVars => LoginInv'
  BY LoginInvStep
<1>3. LoginInv => OneLoginOneUser
  BY LoginInvImplies
<1> QED
  BY <1>1, <1>2, <1>3, PTL DEF LoginSpec

=============================================================================
