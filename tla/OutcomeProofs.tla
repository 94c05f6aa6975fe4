---------------------------- MODULE OutcomeProofs ----------------------------
(***************************************************************************)
(* An effect outside and what is said of it.  The e-mail of an event, for  *)
(* any deployment, number of attempts and window: it is sent once, and     *)
(* reported as what happened to it.  The failure of a consumer, for        *)
(* exceptions of any classes in groups of any size: the dispatcher lets an *)
(* event run again only when that is safe.                                 *)
(***************************************************************************)
EXTENDS Mail, OutboxFailure, SequenceTheorems, TLAPS

(* The commands of an SMTP conversation *)
Commands == {"connect", "starttls", "login", "mail", "rcpt", "data", "body"}

(* The commands an SMTP conversation has left end with DATA and the body,  *)
(* and hold each only there.                                               *)
Ends(s) ==
    /\ Len(s) > 0
    /\ \A i \in 1 .. Len(s) : /\ s[i] = "body" <=> i = Len(s)
                              /\ s[i] = "data" <=> i = Len(s) - 1

(* Where an execution is says how far the message went: the provider it    *)
(* talks to, the phase its commands stand for, whether anything was put on *)
(* a connection, and what an outcome it tells may be.                      *)
AttemptInv ==
    /\ attempt.pc = "idle" => attempt = NoAttempt
    /\ attempt.pc \in {"compose", "resolve", "connect"} =>
         ~attempt.wrote /\ attempt.requests = 0 /\ attempt.phase = "envelope"
    /\ attempt.pc \in {"compose", "smtp", "resolve", "connect", "exchange"} => ~attempt.took
    /\ attempt.pc \in {"smtp", "quit"} =>
         /\ deployment.provider # "resend"
         /\ attempt.wrote <=> attempt.phase # "envelope"
    /\ attempt.pc \in {"resolve", "connect", "exchange"} => deployment.provider = "resend"
    /\ attempt.pc = "smtp" =>
         /\ Ends(attempt.todo)
         /\ attempt.phase = IF Len(attempt.todo) = 1 THEN "data" ELSE "envelope"
    /\ attempt.pc = "quit" => /\ attempt.phase = "accepted" \/ attempt.error.class # "none"
                              /\ attempt.took => attempt.phase = "accepted"
                              /\ attempt.phase = "accepted" => outside.taken > 0
    /\ attempt.pc \in {"smtp", "quit", "resolve", "connect", "exchange"} \/ attempt.wrote =>
         ~ProviderRefused(deployment)
    /\ attempt.told = "sent" => outside.taken > 0

(* The row follows the execution, and counts at least what was taken. *)
RowInv ==
    /\ attempt.pc # "idle" => letter.status = "pending"
    /\ outside.taken <= letter.attempts
    /\ attempt.pc \in {"compose", "smtp", "resolve", "connect", "exchange"} =>
         outside.taken < letter.attempts
    /\ letter.tagged /\ attempt.pc # "idle" => age < Window \/ (attempt.late /\ age <= Window)
    /\ outside.key # NoKey => outside.taken > 0 /\ outside.key.since <= age

(* Once the provider has the message, either the event is settled or about *)
(* to be, or Resend knows the key and the window is open or being opened.  *)
OnceInv ==
    ~switched /\ outside.taken > 0 =>
      \/ letter.status # "pending"
      \/ attempt.pc = "quit" /\ attempt.phase = "accepted"
      \/ attempt.told \in {"sent", "ambiguous"}
      \/ /\ deployment.provider = "resend" /\ deployment.keyed /\ outside.key # NoKey
         /\ letter.tagged \/ attempt.told = "retry_within"

MailInv ==
    /\ MailTypeOK /\ AttemptInv /\ RowInv /\ OnceInv
    /\ MailedOnce /\ NotSentIsNotSent /\ TakenIsNotFailed /\ PublishedWasTaken
    /\ OneRequestPerAttempt

(* Before the message may have been taken in this execution. *)
Sending == {"compose", "smtp", "resolve", "connect", "exchange"}

(* Tell changes where an execution is and what it tells, nothing else. *)
LEMMA TellShape ==
    ASSUME NEW a \in Attempts, NEW o \in Outcomes
    PROVE  /\ Tell(a, o) \in Attempts
           /\ Tell(a, o).pc = "told" /\ Tell(a, o).told = o
           /\ Tell(a, o).phase = a.phase /\ Tell(a, o).requests = a.requests
           /\ Tell(a, o).wrote = a.wrote /\ Tell(a, o).took = a.took /\ Tell(a, o).late = a.late
BY Zenon DEF Tell, Attempts

(* A command leaves the rest of a conversation well formed, and which      *)
(* command is at hand says how many are left (the order of smtplib's       *)
(* sendmail).                                                              *)
LEMMA EndsTail ==
    ASSUME NEW s \in Seq(Commands), Ends(s)
    PROVE  /\ Head(s) \in Commands
           /\ Head(s) = "body" <=> Len(s) = 1
           /\ Head(s) = "data" <=> Len(s) = 2
           /\ Tail(s) \in Seq(Commands)
           /\ Len(Tail(s)) = Len(s) - 1
           /\ Len(s) > 1 => Ends(Tail(s))
<1>1. Len(s) \in Nat /\ Head(s) = s[1] /\ 1 \in 1 .. Len(s) BY DEF Ends
<1>2. s # << >> BY <1>1 DEF Ends
<1>3. /\ Tail(s) \in Seq(Commands) /\ Len(Tail(s)) = Len(s) - 1
      /\ \A i \in 1 .. Len(Tail(s)) : Tail(s)[i] = s[i + 1]
  BY <1>2, HeadTailProperties
<1>4. Head(s) = "body" <=> Len(s) = 1 BY Zenon, <1>1 DEF Ends
<1>5. Head(s) = "data" <=> Len(s) = 2
  <2>1. s[1] = "data" <=> 1 = Len(s) - 1 BY Zenon, <1>1 DEF Ends
  <2> QED BY <1>1, <2>1
<1>6. ASSUME Len(s) > 1 PROVE Ends(Tail(s))
  <2>1. Len(Tail(s)) > 0 BY <1>1, <1>3, <1>6
  <2>2. ASSUME NEW i \in 1 .. Len(Tail(s))
        PROVE  /\ Tail(s)[i] = "body" <=> i = Len(Tail(s))
               /\ Tail(s)[i] = "data" <=> i = Len(Tail(s)) - 1
    <3>1. i + 1 \in 1 .. Len(s) BY <1>1, <1>3
    <3>2. /\ s[i + 1] = "body" <=> i + 1 = Len(s)
          /\ s[i + 1] = "data" <=> i + 1 = Len(s) - 1
      BY <3>1 DEF Ends
    <3>3. Tail(s)[i] = s[i + 1] BY <1>3
    <3>4. /\ i + 1 = Len(s) <=> i = Len(Tail(s))
          /\ i + 1 = Len(s) - 1 <=> i = Len(Tail(s)) - 1
      BY <1>1, <1>3
    <3> QED BY <3>2, <3>3, <3>4
  <2> QED BY <2>1, <2>2 DEF Ends
<1> QED BY <1>1, <1>2, <1>3, <1>4, <1>5, <1>6

(* Commands before DATA, put together, are commands before DATA. *)
LEMMA PlainConcat ==
    ASSUME NEW s \in Seq(Commands), NEW t \in Seq(Commands),
           \A i \in 1 .. Len(s) : s[i] \notin {"data", "body"},
           \A i \in 1 .. Len(t) : t[i] \notin {"data", "body"}
    PROVE  /\ s \o t \in Seq(Commands) /\ Len(s \o t) = Len(s) + Len(t)
           /\ \A i \in 1 .. Len(s \o t) : (s \o t)[i] \notin {"data", "body"}
<1>1. /\ s \o t \in Seq(Commands) /\ Len(s \o t) = Len(s) + Len(t)
      /\ \A i \in 1 .. Len(s) + Len(t) : (s \o t)[i] = IF i <= Len(s) THEN s[i] ELSE t[i - Len(s)]
  BY ConcatProperties
<1>2. Len(s) \in Nat /\ Len(t) \in Nat OBVIOUS
<1>3. ASSUME NEW i \in 1 .. Len(s) + Len(t) PROVE (s \o t)[i] \notin {"data", "body"}
  <2>1. CASE i <= Len(s) BY <1>1, <1>2, <2>1
  <2>2. CASE i > Len(s)
    <3>1. i - Len(s) \in 1 .. Len(t) BY <1>2, <2>2
    <3> QED BY <1>1, <1>2, <2>2, <3>1
  <2> QED BY <1>2, <2>1, <2>2
<1> QED BY <1>1, <1>2, <1>3

(* Commands before DATA do not disturb the end of a conversation. *)
LEMMA EndsConcat ==
    ASSUME NEW s \in Seq(Commands), NEW t \in Seq(Commands), Ends(t), Len(t) > 1,
           \A i \in 1 .. Len(s) : s[i] \notin {"data", "body"}
    PROVE  s \o t \in Seq(Commands) /\ Ends(s \o t)
<1>1. /\ s \o t \in Seq(Commands) /\ Len(s \o t) = Len(s) + Len(t)
      /\ \A i \in 1 .. Len(s) + Len(t) : (s \o t)[i] = IF i <= Len(s) THEN s[i] ELSE t[i - Len(s)]
  BY ConcatProperties
<1>2. Len(s) \in Nat /\ Len(t) \in Nat OBVIOUS
<1>3. ASSUME NEW i \in 1 .. Len(s) + Len(t)
      PROVE  /\ (s \o t)[i] = "body" <=> i = Len(s) + Len(t)
             /\ (s \o t)[i] = "data" <=> i = Len(s) + Len(t) - 1
  <2>1. CASE i <= Len(s)
    <3>1. (s \o t)[i] = s[i] /\ i \in 1 .. Len(s) BY <1>1, <1>2, <2>1
    <3>2. (s \o t)[i] # "body" /\ (s \o t)[i] # "data" BY <3>1
    <3> QED BY <1>2, <2>1, <3>2
  <2>2. CASE i > Len(s)
    <3>1. (s \o t)[i] = t[i - Len(s)] /\ i - Len(s) \in 1 .. Len(t) BY <1>1, <1>2, <2>2
    <3>2. /\ t[i - Len(s)] = "body" <=> i - Len(s) = Len(t)
          /\ t[i - Len(s)] = "data" <=> i - Len(s) = Len(t) - 1
      BY Zenon, <3>1 DEF Ends
    <3> QED BY <1>2, <3>1, <3>2
  <2> QED BY <1>2, <2>1, <2>2
<1> QED BY <1>1, <1>2, <1>3 DEF Ends

(* With TLS or without, with a login or without, the conversation _connect *)
(* and sendmail hold ends with DATA and the body.                          *)
LEMMA ConversationEnds ==
    ASSUME NEW d \in Configurations
    PROVE  Conversation(d) \in Seq(Commands) /\ Ends(Conversation(d)) /\ Len(Conversation(d)) # 1
<1> DEFINE mode == IF d.provider = "mailpit" THEN "none" ELSE TlsMode(d)
           login == d.provider = "smtp" /\ d.credentials = "set"
           a == <<"connect">>
           b == IF mode = "starttls" THEN <<"starttls">> ELSE << >>
           c == IF login THEN <<"login">> ELSE << >>
           e == <<"mail", "rcpt", "data", "body">>
<1>1. Conversation(d) = ((a \o b) \o c) \o e BY DEF Conversation
<1>2. /\ a \in Seq(Commands) /\ \A i \in 1 .. Len(a) : a[i] \notin {"data", "body"}
      /\ b \in Seq(Commands) /\ \A i \in 1 .. Len(b) : b[i] \notin {"data", "body"}
      /\ c \in Seq(Commands) /\ \A i \in 1 .. Len(c) : c[i] \notin {"data", "body"}
  <2>1. ASSUME NEW x \in Commands \ {"data", "body"}
        PROVE  <<x>> \in Seq(Commands) /\ \A i \in 1 .. Len(<<x>>) : <<x>>[i] \notin {"data", "body"}
    OBVIOUS
  <2>2. << >> \in Seq(Commands) /\ \A i \in 1 .. Len(<< >>) : << >>[i] \notin {"data", "body"}
    OBVIOUS
  <2>3. {"connect", "starttls", "login"} \subseteq Commands \ {"data", "body"} BY DEF Commands
  <2>4. a = <<"connect">> /\ b \in {<<"starttls">>, << >>} /\ c \in {<<"login">>, << >>} OBVIOUS
  <2> HIDE DEF a, b, c, mode, login
  <2> QED BY Zenon, <2>1, <2>2, <2>3, <2>4
<1>3. e \in Seq(Commands) /\ Len(e) > 1 /\ Ends(e) BY DEF Commands, Ends
<1> HIDE DEF a, b, c, e, mode, login
<1>4. /\ a \o b \in Seq(Commands)
      /\ \A i \in 1 .. Len(a \o b) : (a \o b)[i] \notin {"data", "body"}
  BY <1>2, PlainConcat
<1>5. /\ (a \o b) \o c \in Seq(Commands)
      /\ \A i \in 1 .. Len((a \o b) \o c) : ((a \o b) \o c)[i] \notin {"data", "body"}
  BY <1>2, <1>4, PlainConcat
<1>6. ((a \o b) \o c) \o e \in Seq(Commands) /\ Ends(((a \o b) \o c) \o e)
  BY Zenon, <1>3, <1>5, EndsConcat
<1>7. Len(((a \o b) \o c) \o e) = Len((a \o b) \o c) + Len(e) BY <1>3, <1>5, ConcatProperties
<1>8. Len((a \o b) \o c) \in Nat BY <1>5
<1> QED BY <1>1, <1>3, <1>6, <1>7, <1>8

(* A queued event nobody has worked on satisfies the invariant. *)
LEMMA MailInvInit == MailInit => MailInv
<1> SUFFICES ASSUME MailInit PROVE MailInv OBVIOUS
<1>1. attempt \in Attempts
  <2>1. << >> \in Seq(Commands) OBVIOUS
  <2> QED BY <2>1 DEF MailInit, NoAttempt, NoError, Attempts, MaxAddressesTried, Outcomes, Commands
<1>2. MailTypeOK
  <2>1. deployment \in Configurations BY MailAssumption DEF MailInit
  <2>2. 0 \in 0 .. MaxAttempts /\ 0 \in 0 .. MaxDelay /\ 0 \in 0 .. MaxAge BY MailAssumption
  <2> QED BY Zenon, <1>1, <2>1, <2>2 DEF MailInit, MailTypeOK, NoAttempt
<1>3. AttemptInv BY DEF MailInit, AttemptInv, NoAttempt
<1>4. RowInv /\ OnceInv BY DEF MailInit, RowInv, OnceInv, NoAttempt
<1> QED
  BY <1>2, <1>3, <1>4 DEF MailInit, MailInv, NoAttempt, MailedOnce, NotSentIsNotSent,
       TakenIsNotFailed, PublishedWasTaken, OneRequestPerAttempt

(* An execution under way reaches its outcome. *)
LEMMA Telling ==
    ASSUME MailInv, NEW a \in Attempts, NEW o \in Outcomes,
           attempt' = Tell(a, o), attempt.pc \in Sending \cup {"quit"},
           UNCHANGED <<deployment, switched, letter, age>>,
           a.wrote = attempt.wrote, a.requests = attempt.requests, a.late = attempt.late,
           o = "not_sent" => ~a.wrote,
           a.took => o \in {"sent", "ambiguous", "retry_within"},
           a.wrote => ~ProviderRefused(deployment),
           o = "sent" => outside'.taken > 0,
           outside' \in [taken : 0 .. MaxAttempts,
                        key : {NoKey} \cup [since : 0 .. MaxAge, sender : Senders \cup {0}]],
           outside'.taken <= letter.attempts,
           outside'.key # NoKey => outside'.taken > 0 /\ outside'.key.since <= age,
           ~switched => outside'.taken <= 1,
           ~switched /\ outside'.taken > 0 =>
             \/ o \in {"sent", "ambiguous"}
             \/ /\ deployment.provider = "resend" /\ deployment.keyed /\ outside'.key # NoKey
                /\ letter.tagged \/ o = "retry_within"
    PROVE  MailInv'
<1>1. /\ attempt' \in Attempts /\ attempt'.pc = "told" /\ attempt'.told = o
      /\ attempt'.requests = attempt.requests /\ attempt'.wrote = attempt.wrote
      /\ attempt'.took = a.took /\ attempt'.late = attempt.late
  BY TellShape
<1>2. o # "nothing" BY DEF Outcomes
<1>3. MailTypeOK' BY <1>1, <1>2 DEF MailInv, MailTypeOK, NoKey
<1>4. AttemptInv' BY Zenon, <1>1 DEF MailInv, AttemptInv, ProviderRefused
<1>5. RowInv' BY <1>1 DEF MailInv, RowInv, Sending, NoKey
<1>6. OnceInv' BY <1>1 DEF OnceInv, NoKey
<1>7. /\ MailedOnce' /\ NotSentIsNotSent' /\ TakenIsNotFailed' /\ PublishedWasTaken'
      /\ OneRequestPerAttempt'
  <2>1. letter'.status # "published" BY DEF MailInv, RowInv, Sending
  <2> QED
    BY <1>1, <2>1 DEF MailInv, MailedOnce, NotSentIsNotSent, TakenIsNotFailed, PublishedWasTaken,
       OneRequestPerAttempt
<1> QED BY <1>3, <1>4, <1>5, <1>6, <1>7 DEF MailInv

(* An outcome that comes without anything taken in this step. *)
LEMMA TellingOnly ==
    ASSUME MailInv, NEW a \in Attempts, NEW o \in Outcomes,
           attempt' = Tell(a, o), attempt.pc \in Sending \cup {"quit"},
           UNCHANGED <<deployment, switched, letter, age, outside>>,
           a.wrote = attempt.wrote, a.requests = attempt.requests, a.late = attempt.late,
           o = "not_sent" => ~a.wrote,
           a.took => o \in {"sent", "ambiguous", "retry_within"},
           o = "sent" => outside.taken > 0,
           attempt.pc = "quit" /\ attempt.phase = "accepted" => o = "sent"
    PROVE  MailInv'
<1>1. a.wrote => ~ProviderRefused(deployment) BY DEF MailInv, AttemptInv
<1>2. /\ outside' \in [taken : 0 .. MaxAttempts,
                      key : {NoKey} \cup [since : 0 .. MaxAge, sender : Senders \cup {0}]]
      /\ outside'.taken <= letter.attempts
      /\ outside'.key # NoKey => outside'.taken > 0 /\ outside'.key.since <= age
      /\ ~switched => outside'.taken <= 1
  BY DEF MailInv, MailTypeOK, RowInv, MailedOnce
<1>3. attempt.told = "nothing" BY DEF MailInv, MailTypeOK, Sending
<1>4. letter.status = "pending" BY DEF MailInv, RowInv, Sending
<1>5. ASSUME ~switched, outside'.taken > 0
      PROVE  \/ o \in {"sent", "ambiguous"}
             \/ /\ deployment.provider = "resend" /\ deployment.keyed /\ outside'.key # NoKey
                /\ letter.tagged \/ o = "retry_within"
  BY <1>3, <1>4, <1>5 DEF MailInv, OnceInv
<1> QED BY <1>1, <1>2, <1>5, Telling

(* An execution under way moves on without an outcome. *)
LEMMA Moving ==
    ASSUME MailInv, attempt' \in Attempts,
           attempt.pc \in Sending, attempt'.pc \in Sending \cup {"quit"},
           attempt'.told = "nothing", attempt'.late = attempt.late, attempt'.requests <= 1,
           UNCHANGED <<deployment, switched, letter, age, outside>>,
           AttemptInv'
    PROVE  MailInv'
<1>1. attempt.told = "nothing" /\ attempt.pc # "quit" BY DEF MailInv, MailTypeOK, Sending
<1>2. letter.status = "pending" BY DEF MailInv, RowInv, Sending
<1>3. MailTypeOK' BY DEF MailInv, MailTypeOK, NoKey, Sending
<1>4. RowInv' BY DEF MailInv, RowInv, Sending, NoKey
<1>5. OnceInv' BY <1>1, <1>2 DEF MailInv, OnceInv, NoKey
<1>6. /\ MailedOnce' /\ NotSentIsNotSent' /\ TakenIsNotFailed' /\ PublishedWasTaken'
      /\ OneRequestPerAttempt'
  BY <1>2 DEF MailInv, MailedOnce, NotSentIsNotSent, TakenIsNotFailed, PublishedWasTaken,
       OneRequestPerAttempt
<1> QED BY <1>3, <1>4, <1>5, <1>6 DEF MailInv

(* SmtpEmailProvider.send reports not sent only in the envelope phase, sent *)
(* whenever the relay accepted, and unknown for data without an answer.    *)
LEMMA SmtpOutcomeShape ==
    ASSUME NEW a \in Attempts
    PROVE  /\ SmtpOutcome(a) \in Outcomes
           /\ SmtpOutcome(a) = "not_sent" => a.phase = "envelope"
           /\ SmtpOutcome(a) = "sent" => a.phase = "accepted" \/ a.error.class = "none"
           /\ a.phase = "accepted" => SmtpOutcome(a) = "sent"
           /\ a.phase = "data" /\ a.error.class = "other" => SmtpOutcome(a) = "ambiguous"
BY DEF SmtpOutcome, Outcomes, NoError, IsResponse, IsPermanent, Attempts

(* The claim begins an execution only inside an open window. *)
LEMMA StartStep == MailInv /\ Start => MailInv'
<1> SUFFICES ASSUME MailInv, Start PROVE MailInv' OBVIOUS
<1>1. CASE letter.attempts = MaxAttempts \/ (letter.tagged /\ age >= Window)
  <2>1. /\ letter' = [letter EXCEPT !.status = "dead"]
        /\ UNCHANGED <<attempt, deployment, switched, age, outside>>
    BY <1>1 DEF Start
  <2>2. /\ letter'.status = "dead" /\ letter'.attempts = letter.attempts
        /\ letter'.tagged = letter.tagged /\ attempt.pc = "idle"
    BY <2>1 DEF MailInv, MailTypeOK, Start
  <2>3. MailTypeOK' BY <2>1 DEF MailInv, MailTypeOK, NoKey
  <2>4. AttemptInv' BY <2>1 DEF MailInv, AttemptInv
  <2>5. RowInv' BY <2>1, <2>2 DEF MailInv, RowInv, NoKey
  <2>6. OnceInv' BY <2>1, <2>2 DEF OnceInv
  <2> QED
    BY <2>1, <2>2, <2>3, <2>4, <2>5, <2>6 DEF MailInv, MailedOnce, NotSentIsNotSent,
       TakenIsNotFailed, PublishedWasTaken, OneRequestPerAttempt
<1>2. CASE ~(letter.attempts = MaxAttempts \/ (letter.tagged /\ age >= Window))
  <2>1. /\ letter' = [letter EXCEPT !.attempts = @ + 1]
        /\ attempt' = [NoAttempt EXCEPT !.pc = "compose"]
        /\ UNCHANGED <<deployment, switched, age, outside>>
    BY <1>2 DEF Start
  <2>2. /\ letter'.status = "pending" /\ letter'.attempts = letter.attempts + 1
        /\ letter'.tagged = letter.tagged /\ attempt.pc = "idle" /\ letter.status = "pending"
    BY <2>1 DEF MailInv, MailTypeOK, Start
  <2>3. /\ attempt'.pc = "compose" /\ attempt'.phase = "envelope" /\ ~attempt'.wrote
        /\ ~attempt'.took /\ attempt'.requests = 0 /\ attempt'.told = "nothing"
    BY <2>1 DEF NoAttempt
  <2>4. NoAttempt \in Attempts
    BY <2>2 DEF MailInv, MailTypeOK, AttemptInv
  <2>5. attempt' \in Attempts BY <2>1, <2>4 DEF Attempts
  <2>6. letter.attempts + 1 \in 0 .. MaxAttempts
    BY <1>2, MailAssumption DEF MailInv, MailTypeOK
  <2>7. MailTypeOK'
    BY <2>1, <2>3, <2>5, <2>6 DEF MailInv, MailTypeOK, NoKey
  <2>8. AttemptInv' BY <2>1, <2>3 DEF AttemptInv
  <2>9. RowInv'
    BY <1>2, <2>1, <2>2, <2>3, MailAssumption DEF MailInv, MailTypeOK, RowInv, NoKey
  <2>10. OnceInv'
    <3>1. attempt.told = "nothing" BY <2>2 DEF MailInv, MailTypeOK
    <3> QED BY <2>1, <2>2, <2>3, <3>1 DEF MailInv, OnceInv, NoKey
  <2> QED
    BY <2>1, <2>2, <2>3, <2>7, <2>8, <2>9, <2>10 DEF MailInv, MailedOnce, NotSentIsNotSent,
       TakenIsNotFailed, PublishedWasTaken, OneRequestPerAttempt
<1> QED BY <1>1, <1>2

(* _send_email_channel reaches a provider it could construct, or tells. *)
LEMMA ComposeStep == MailInv /\ Compose => MailInv'
<1> SUFFICES ASSUME MailInv, Compose PROVE MailInv' OBVIOUS
<1>1. /\ attempt \in Attempts /\ attempt.pc = "compose" /\ attempt.told = "nothing"
      /\ ~attempt.wrote /\ ~attempt.took /\ attempt.requests = 0 /\ deployment \in Configurations
      /\ UNCHANGED <<deployment, switched, letter, age, outside>>
  BY DEF MailInv, MailTypeOK, AttemptInv, Compose
<1>2. CASE attempt' = Tell(attempt, "not_sent") \/ attempt' = Tell(attempt, "permanent")
  <2>1. "not_sent" \in Outcomes /\ "permanent" \in Outcomes BY DEF Outcomes
  <2> QED BY <1>1, <1>2, <2>1, TellingOnly DEF Sending
<1>3. CASE /\ ~ProviderRefused(deployment) /\ deployment.provider = "resend"
           /\ attempt' = [attempt EXCEPT !.pc = "resolve"]
  <2>1. /\ attempt' \in Attempts /\ attempt'.pc = "resolve" /\ attempt'.told = "nothing"
        /\ attempt'.late = attempt.late /\ ~attempt'.wrote /\ ~attempt'.took
        /\ attempt'.requests = 0 /\ attempt'.phase = attempt.phase
    BY <1>1, <1>3 DEF Attempts
  <2>2. AttemptInv' BY <1>1, <1>3, <2>1 DEF MailInv, AttemptInv, ProviderRefused
  <2> QED BY <1>1, <2>1, <2>2, Moving DEF Sending
<1>4. CASE /\ ~ProviderRefused(deployment) /\ deployment.provider # "resend"
           /\ attempt' = [attempt EXCEPT !.pc = "smtp", !.todo = Conversation(deployment)]
  <2>1. /\ Conversation(deployment) \in Seq(Commands) /\ Ends(Conversation(deployment))
        /\ Len(Conversation(deployment)) # 1
    BY <1>1, ConversationEnds
  <2>2. /\ attempt' \in Attempts /\ attempt'.pc = "smtp" /\ attempt'.told = "nothing"
        /\ attempt'.late = attempt.late /\ ~attempt'.wrote /\ ~attempt'.took
        /\ attempt'.requests = 0 /\ attempt'.todo = Conversation(deployment)
        /\ attempt'.phase = attempt.phase
    BY Zenon, <1>1, <1>4, <2>1 DEF Attempts, Commands
  <2>3. attempt.phase = "envelope" BY <1>1 DEF MailInv, AttemptInv
  <2>4. Ends(attempt'.todo) /\ Len(attempt'.todo) # 1 BY <2>1, <2>2, Zenon
  <2>5. AttemptInv' BY Zenon, <1>1, <1>4, <2>2, <2>3, <2>4 DEF AttemptInv, ProviderRefused
  <2> QED BY <1>1, <2>2, <2>5, Moving DEF Sending
<1> QED BY <1>2, <1>3, <1>4 DEF Compose

(* Recording settles the event, or keeps the window an unknown outcome     *)
(* opened.                                                                 *)
LEMMA RecordStep == ASSUME MailInv, NEW delay \in 1 .. MaxDelay, RecordOutcome(delay) PROVE MailInv'
<1> DEFINE told == attempt.told
           again == /\ letter.attempts < MaxAttempts
                    /\ \/ told \in {"deferred", "not_sent", "failed"}
                       \/ told = "retry_within" /\ age + delay < Window
           tagged == letter.tagged \/ told = "retry_within"
<1>1. /\ attempt.pc = "told" /\ attempt' = NoAttempt /\ letter.status = "pending"
      /\ UNCHANGED <<deployment, switched, age, outside>>
      /\ letter' = IF told = "sent" THEN [letter EXCEPT !.status = "published"]
                   ELSE IF again THEN [letter EXCEPT !.due = delay, !.tagged = tagged]
                   ELSE [letter EXCEPT !.status = "dead", !.tagged = tagged]
  BY DEF RecordOutcome, MailInv, RowInv
<1>2. tagged \in BOOLEAN /\ delay \in 0 .. MaxDelay
  BY MailAssumption DEF MailInv, MailTypeOK
<1>3. /\ letter' \in [status : {"pending", "published", "dead"}, attempts : 0 .. MaxAttempts,
                     tagged : BOOLEAN, due : 0 .. MaxDelay]
      /\ letter'.attempts = letter.attempts
      /\ letter'.status = "published" => told = "sent"
      /\ letter'.status = "pending" => again /\ (letter'.tagged <=> tagged)
  <2> HIDE DEF told, again, tagged
  <2> QED BY Zenon, <1>1, <1>2 DEF MailInv, MailTypeOK
<1>4. NoAttempt \in Attempts
  <2>1. << >> \in Seq(Commands) OBVIOUS
  <2> QED BY <2>1 DEF NoAttempt, NoError, Attempts, MaxAddressesTried, Outcomes, Commands
<1>5. /\ attempt'.pc = "idle" /\ attempt'.told = "nothing" /\ ~attempt'.wrote /\ ~attempt'.took
      /\ attempt'.requests = 0
  BY <1>1 DEF NoAttempt
<1>6. MailTypeOK' BY <1>1, <1>3, <1>4, <1>5 DEF MailInv, MailTypeOK, NoKey
<1>7. AttemptInv' BY <1>1, <1>5 DEF AttemptInv, NoAttempt
<1>8. RowInv' BY <1>1, <1>3, <1>5 DEF MailInv, RowInv, NoKey
<1>9. OnceInv'
  <2> SUFFICES ASSUME ~switched, outside.taken > 0, letter'.status = "pending"
               PROVE  /\ deployment.provider = "resend" /\ deployment.keyed /\ outside.key # NoKey
                      /\ letter'.tagged
    BY <1>1 DEF OnceInv, NoKey
  <2>1. told \notin {"sent", "ambiguous"} /\ (letter'.tagged <=> tagged) BY <1>3
  <2> QED BY <1>1, <2>1 DEF MailInv, OnceInv
<1>10. PublishedWasTaken' BY <1>1, <1>3 DEF MailInv, AttemptInv, PublishedWasTaken
<1> QED
  BY <1>1, <1>5, <1>6, <1>7, <1>8, <1>9, <1>10 DEF MailInv, MailedOnce, NotSentIsNotSent,
     TakenIsNotFailed, OneRequestPerAttempt

(* The commands run in order; the last one hands the message over. *)
LEMMA CommandDoneStep == MailInv /\ CommandDone => MailInv'
<1> SUFFICES ASSUME MailInv, CommandDone PROVE MailInv' OBVIOUS
<1> DEFINE rest == [attempt EXCEPT !.todo = Tail(@)]
<1>1. /\ attempt \in Attempts /\ attempt.pc = "smtp" /\ attempt.told = "nothing"
      /\ ~attempt.took /\ deployment.provider # "resend" /\ ~ProviderRefused(deployment)
      /\ attempt.wrote <=> attempt.phase # "envelope"
      /\ attempt.phase = IF Len(attempt.todo) = 1 THEN "data" ELSE "envelope"
      /\ Ends(attempt.todo) /\ attempt.requests <= 1
      /\ letter.status = "pending" /\ outside.taken < letter.attempts
      /\ UNCHANGED <<deployment, switched, letter, age>>
  BY DEF MailInv, MailTypeOK, AttemptInv, RowInv, CommandDone, OneRequestPerAttempt
<1>2. attempt.todo \in Seq(Commands) BY <1>1 DEF Attempts, Commands
<1>3. /\ Head(attempt.todo) = "body" <=> Len(attempt.todo) = 1
      /\ Head(attempt.todo) = "data" <=> Len(attempt.todo) = 2
      /\ Tail(attempt.todo) \in Seq(Commands)
      /\ Len(Tail(attempt.todo)) = Len(attempt.todo) - 1
      /\ Len(attempt.todo) > 1 => Ends(Tail(attempt.todo))
  BY <1>1, <1>2, EndsTail
<1>4. Len(attempt.todo) \in Nat \ {0} BY <1>1, <1>2 DEF Ends
<1>5. /\ rest \in Attempts /\ rest.pc = "smtp" /\ rest.todo = Tail(attempt.todo)
      /\ rest.phase = attempt.phase /\ rest.wrote = attempt.wrote /\ rest.took = attempt.took
      /\ rest.requests = attempt.requests /\ rest.told = "nothing" /\ rest.late = attempt.late
  BY Zenon, <1>1, <1>3 DEF Attempts, Commands
<1> HIDE DEF rest
<1>6. CASE Head(attempt.todo) = "data"
  <2>1. attempt' = [rest EXCEPT !.phase = "data", !.wrote = TRUE] /\ UNCHANGED outside
    BY <1>6 DEF CommandDone, rest
  <2>2. /\ attempt' \in Attempts /\ attempt'.pc = "smtp" /\ attempt'.todo = Tail(attempt.todo)
        /\ attempt'.phase = "data" /\ attempt'.wrote /\ ~attempt'.took
        /\ attempt'.requests = attempt.requests /\ attempt'.told = "nothing"
        /\ attempt'.late = attempt.late
    BY Zenon, <1>1, <1>5, <2>1 DEF Attempts
  <2>3. Len(Tail(attempt.todo)) = 1 /\ Ends(Tail(attempt.todo))
    <3>1. Len(attempt.todo) = 2 BY <1>3, <1>6, Zenon
    <3>2. Len(attempt.todo) > 1 /\ Len(attempt.todo) - 1 = 1 BY <3>1
    <3> QED BY <1>3, <3>2, Zenon
  <2>4. Len(attempt'.todo) = 1 /\ Ends(attempt'.todo) BY <2>2, <2>3, Zenon
  <2>5. AttemptInv' BY Zenon, <1>1, <2>2, <2>4 DEF AttemptInv, ProviderRefused
  <2> QED BY <1>1, <2>1, <2>2, <2>5, Moving DEF Sending
<1>7. CASE Head(attempt.todo) \notin {"data", "body"}
  <2>1. attempt' = rest /\ UNCHANGED outside BY <1>7 DEF CommandDone, rest
  <2>2. Len(Tail(attempt.todo)) # 1 /\ Ends(Tail(attempt.todo)) /\ attempt.phase = "envelope"
    <3>1. Len(attempt.todo) # 1 /\ Len(attempt.todo) # 2 BY <1>3, <1>7, Zenon
    <3>2. \A n \in Nat \ {0} : n # 1 /\ n # 2 => n > 1 /\ n - 1 # 1 OBVIOUS
    <3>3. Len(attempt.todo) > 1 /\ Len(attempt.todo) - 1 # 1 BY <1>4, <3>1, <3>2, Zenon
    <3> QED BY <1>1, <1>3, <3>1, <3>3, Zenon
  <2>3. Len(attempt'.todo) # 1 /\ Ends(attempt'.todo) BY <1>5, <2>1, <2>2, Zenon
  <2>4. AttemptInv' BY Zenon, <1>1, <1>5, <2>1, <2>2, <2>3 DEF AttemptInv, ProviderRefused
  <2> QED BY <1>1, <1>5, <2>1, <2>4, Moving DEF Sending
<1>8. CASE Head(attempt.todo) = "body"
  <2>1. /\ attempt' = [rest EXCEPT !.phase = "accepted", !.took = TRUE, !.pc = "quit"]
        /\ outside' = [outside EXCEPT !.taken = @ + 1]
    BY <1>8 DEF CommandDone, rest
  <2>2. /\ attempt' \in Attempts /\ attempt'.pc = "quit" /\ attempt'.phase = "accepted"
        /\ attempt'.wrote = attempt.wrote /\ attempt'.took
        /\ attempt'.requests = attempt.requests /\ attempt'.told = "nothing"
        /\ attempt'.late = attempt.late
    BY Zenon, <1>1, <1>5, <2>1 DEF Attempts
  <2>3. attempt.wrote BY <1>1, <1>3, <1>8
  <2>4. /\ outside' \in [taken : 0 .. MaxAttempts,
                        key : {NoKey} \cup [since : 0 .. MaxAge, sender : Senders \cup {0}]]
        /\ outside'.taken = outside.taken + 1 /\ outside'.key = outside.key
    <3>1. outside.taken + 1 \in 0 .. MaxAttempts
      BY <1>1, MailAssumption DEF MailInv, MailTypeOK
    <3> QED BY <2>1, <3>1 DEF MailInv, MailTypeOK
  <2>5. ~switched => outside.taken = 0 BY <1>1 DEF MailInv, OnceInv, MailTypeOK
  <2>6. outside.taken \in Nat /\ letter.attempts \in Nat BY MailAssumption DEF MailInv, MailTypeOK
  <2>7. MailTypeOK' BY <1>1, <2>2, <2>4 DEF MailInv, MailTypeOK, NoKey
  <2>8. AttemptInv'
    <3>1. outside'.taken > 0 BY <2>4, <2>6
    <3> QED BY Zenon, <1>1, <2>2, <2>3, <3>1 DEF AttemptInv, ProviderRefused
  <2>9. RowInv' BY <1>1, <2>2, <2>4, <2>6 DEF MailInv, RowInv, NoKey
  <2>10. OnceInv' BY <2>2 DEF OnceInv
  <2> QED
    BY <1>1, <2>2, <2>4, <2>5, <2>6, <2>7, <2>8, <2>9, <2>10 DEF MailInv, MailedOnce,
       NotSentIsNotSent, TakenIsNotFailed, PublishedWasTaken, OneRequestPerAttempt
<1> QED BY <1>6, <1>7, <1>8

(* What the prover needs of an execution that has the relay's attention. *)
LEMMA SmtpFacts ==
    ASSUME MailInv, attempt.pc = "smtp"
    PROVE  /\ attempt \in Attempts /\ attempt.told = "nothing" /\ ~attempt.took
           /\ deployment.provider # "resend" /\ ~ProviderRefused(deployment)
           /\ attempt.wrote <=> attempt.phase # "envelope"
           /\ attempt.requests <= 1
           /\ Head(attempt.todo) \in Commands
           /\ Head(attempt.todo) = "body" <=> attempt.phase = "data"
           /\ attempt.phase # "accepted"
<1>1. /\ attempt \in Attempts /\ attempt.told = "nothing" /\ ~attempt.took
      /\ deployment.provider # "resend" /\ ~ProviderRefused(deployment)
      /\ attempt.wrote <=> attempt.phase # "envelope"
      /\ attempt.phase = IF Len(attempt.todo) = 1 THEN "data" ELSE "envelope"
      /\ Ends(attempt.todo) /\ attempt.requests <= 1
  BY DEF MailInv, MailTypeOK, AttemptInv, OneRequestPerAttempt
<1>2. attempt.todo \in Seq(Commands) BY <1>1 DEF Attempts, Commands
<1>3. /\ Head(attempt.todo) \in Commands
      /\ Head(attempt.todo) = "body" <=> Len(attempt.todo) = 1
  BY <1>1, <1>2, EndsTail
<1> QED BY <1>1, <1>3

(* A refused command means the relay did not take the message. *)
LEMMA CommandRefusedStep ==
    ASSUME MailInv, NEW code \in {0, 4, 5}, CommandRefused(code) PROVE MailInv'
<1> DEFINE step == Head(attempt.todo)
           new == [attempt EXCEPT !.error = [class |-> RefusalOf(step), code |-> code],
                                  !.pc = "quit"]
<1>1. /\ attempt.pc = "smtp" /\ attempt \in Attempts /\ attempt.told = "nothing" /\ ~attempt.took
      /\ deployment.provider # "resend" /\ ~ProviderRefused(deployment)
      /\ attempt.wrote <=> attempt.phase # "envelope"
      /\ step = "body" <=> attempt.phase = "data"
      /\ attempt.requests <= 1 /\ attempt.phase # "accepted"
      /\ UNCHANGED <<deployment, switched, letter, age, outside>>
  BY SmtpFacts DEF CommandRefused
<1>2. RefusalOf(step) \in {"reply", "sender", "data", "recipients"} BY DEF RefusalOf
<1> HIDE DEF step
<1>3. /\ new \in Attempts /\ new.pc = "quit" /\ new.error.class # "none"
      /\ new.phase = attempt.phase /\ new.wrote = attempt.wrote /\ new.took = attempt.took
      /\ new.requests = attempt.requests /\ new.told = "nothing" /\ new.late = attempt.late
  BY Zenon, <1>1, <1>2 DEF Attempts
<1> HIDE DEF new
<1>4. CASE step = "connect"
  <2>1. attempt' = Tell(new, SmtpOutcome(new)) BY <1>4 DEF CommandRefused, step, new
  <2>2. /\ SmtpOutcome(new) \in Outcomes
        /\ SmtpOutcome(new) = "not_sent" => new.phase = "envelope"
        /\ SmtpOutcome(new) # "sent"
    BY <1>1, <1>3, SmtpOutcomeShape
  <2> QED BY <1>1, <1>3, <2>1, <2>2, TellingOnly DEF Sending
<1>5. CASE step # "connect"
  <2>1. attempt' = new \/ attempt' = [new EXCEPT !.error = [class |-> "other", code |-> 0]]
    BY <1>5 DEF CommandRefused, step, new
  <2>2. /\ attempt' \in Attempts /\ attempt'.pc = "quit" /\ attempt'.error.class # "none"
        /\ attempt'.phase = attempt.phase /\ attempt'.wrote = attempt.wrote
        /\ attempt'.took = attempt.took /\ attempt'.requests = attempt.requests
        /\ attempt'.told = "nothing" /\ attempt'.late = attempt.late
    <3>1. CASE attempt' = new BY <1>3, <3>1
    <3>2. CASE attempt' = [new EXCEPT !.error = [class |-> "other", code |-> 0]]
      BY <1>3, <3>2 DEF Attempts
    <3> QED BY <2>1, <3>1, <3>2
  <2>3. AttemptInv' BY Zenon, <1>1, <2>2 DEF AttemptInv, ProviderRefused
  <2> QED BY <1>1, <2>2, <2>3, Moving DEF Sending
<1> QED BY <1>4, <1>5

(* A body without an answer may have been taken and is reported unknown. *)
LEMMA CommandLostStep ==
    ASSUME MailInv, NEW took \in BOOLEAN, CommandLost(took) PROVE MailInv'
<1> DEFINE new == [attempt EXCEPT !.error = [class |-> "other", code |-> 0], !.took = took]
<1>1. /\ attempt.pc = "smtp" /\ attempt \in Attempts /\ attempt.told = "nothing" /\ ~attempt.took
      /\ deployment.provider # "resend" /\ ~ProviderRefused(deployment)
      /\ attempt.wrote <=> attempt.phase # "envelope"
      /\ took => attempt.phase = "data"
      /\ attempt.requests <= 1 /\ attempt.phase # "accepted"
      /\ attempt' = Tell(new, SmtpOutcome(new))
      /\ outside' = IF took THEN [outside EXCEPT !.taken = @ + 1] ELSE outside
      /\ UNCHANGED <<deployment, switched, letter, age>>
  BY SmtpFacts DEF CommandLost
<1>2. /\ new \in Attempts /\ new.error.class = "other" /\ new.took = took
      /\ new.phase = attempt.phase /\ new.wrote = attempt.wrote
      /\ new.requests = attempt.requests /\ new.late = attempt.late
  BY Zenon, <1>1 DEF Attempts
<1> HIDE DEF new
<1>3. /\ SmtpOutcome(new) \in Outcomes
      /\ SmtpOutcome(new) = "not_sent" => new.phase = "envelope"
      /\ SmtpOutcome(new) # "sent"
      /\ took => SmtpOutcome(new) = "ambiguous"
  BY <1>1, <1>2, SmtpOutcomeShape
<1>4. CASE ~took
  <2>1. ~new.took /\ outside' = outside BY <1>1, <1>2, <1>4
  <2> QED BY <1>1, <1>2, <1>3, <1>4, <2>1, TellingOnly DEF Sending
<1>5. CASE took
  <2>1. /\ outside.taken \in Nat /\ letter.attempts \in Nat /\ outside.taken < letter.attempts
        /\ letter.status = "pending" /\ letter.attempts <= MaxAttempts
    BY <1>1, MailAssumption DEF MailInv, MailTypeOK, RowInv
  <2>2. outside.taken + 1 \in 0 .. MaxAttempts BY <2>1, MailAssumption
  <2>3. /\ outside' \in [taken : 0 .. MaxAttempts,
                        key : {NoKey} \cup [since : 0 .. MaxAge, sender : Senders \cup {0}]]
        /\ outside'.taken = outside.taken + 1 /\ outside'.key = outside.key
    BY <1>1, <1>5, <2>2 DEF MailInv, MailTypeOK
  <2>4. outside'.taken > 0 /\ outside'.taken <= letter.attempts BY <2>1, <2>3
  <2>5. ~switched => outside.taken = 0 BY <1>1, <2>1 DEF MailInv, OnceInv
  <2>6. ~switched => outside'.taken <= 1 BY <2>3, <2>5
  <2>7. outside'.key # NoKey => outside'.taken > 0 /\ outside'.key.since <= age
    BY <2>3, <2>4 DEF MailInv, RowInv
  <2> QED BY <1>1, <1>2, <1>3, <1>5, <2>3, <2>4, <2>6, <2>7, Telling DEF Sending
<1> QED BY <1>4, <1>5

(* However QUIT is answered, an accepted message is reported sent. *)
LEMMA QuitStep == ASSUME MailInv, NEW odd \in {0, 4, 5}, Quit(odd) PROVE MailInv'
<1> DEFINE new == IF odd = 0 THEN attempt
                  ELSE [attempt EXCEPT !.error = [class |-> "reply", code |-> odd]]
<1>1. /\ attempt.pc = "quit" /\ attempt \in Attempts
      /\ attempt.wrote <=> attempt.phase # "envelope"
      /\ attempt.phase = "accepted" \/ attempt.error.class # "none"
      /\ attempt.took => attempt.phase = "accepted"
      /\ attempt.phase = "accepted" => outside.taken > 0
      /\ attempt' = Tell(new, SmtpOutcome(new))
      /\ UNCHANGED <<deployment, switched, letter, age, outside>>
  BY DEF MailInv, MailTypeOK, AttemptInv, Quit
<1>2. /\ new \in Attempts /\ new.phase = attempt.phase /\ new.wrote = attempt.wrote
      /\ new.requests = attempt.requests /\ new.late = attempt.late /\ new.took = attempt.took
      /\ new.phase = "accepted" \/ new.error.class # "none"
  BY <1>1 DEF Attempts
<1> HIDE DEF new
<1>3. /\ SmtpOutcome(new) \in Outcomes
      /\ SmtpOutcome(new) = "not_sent" => new.phase = "envelope"
      /\ SmtpOutcome(new) = "sent" => new.phase = "accepted"
      /\ new.phase = "accepted" => SmtpOutcome(new) = "sent"
  BY <1>2, SmtpOutcomeShape
<1> QED BY <1>1, <1>2, <1>3, TellingOnly

(* Addresses are found, or nothing was sent. *)
LEMMA ResolveStep ==
    ASSUME MailInv, NEW n \in Nat, NEW answer \in [1 .. n -> BOOLEAN], Resolve(answer)
    PROVE  MailInv'
<1>1. /\ attempt \in Attempts /\ attempt.pc = "resolve" /\ attempt.told = "nothing"
      /\ ~attempt.wrote /\ ~attempt.took /\ attempt.requests = 0 /\ attempt.phase = "envelope"
      /\ deployment.provider = "resend" /\ ~ProviderRefused(deployment)
      /\ UNCHANGED <<deployment, switched, letter, age, outside>>
  BY DEF MailInv, MailTypeOK, AttemptInv, Resolve
<1>2. CASE attempt' = Tell(attempt, "not_sent")
  <2>1. "not_sent" \in Outcomes BY DEF Outcomes
  <2> QED BY <1>1, <1>2, <2>1, TellingOnly DEF Sending
<1>3. CASE attempt' = [attempt EXCEPT !.pc = "connect", !.left =
                         IF Len(answer) < MaxAddressesTried THEN Len(answer) ELSE MaxAddressesTried]
  <2>1. Len(answer) \in Nat OBVIOUS
  <2>2. (IF Len(answer) < MaxAddressesTried THEN Len(answer) ELSE MaxAddressesTried)
          \in 0 .. MaxAddressesTried
    BY <2>1 DEF MaxAddressesTried
  <2>3. /\ attempt' \in Attempts /\ attempt'.pc = "connect" /\ attempt'.told = "nothing"
        /\ attempt'.late = attempt.late /\ ~attempt'.wrote /\ ~attempt'.took
        /\ attempt'.requests = 0 /\ attempt'.phase = "envelope"
    BY Zenon, <1>1, <1>3, <2>2 DEF Attempts
  <2>4. AttemptInv' BY Zenon, <1>1, <2>3 DEF AttemptInv, ProviderRefused
  <2> QED BY <1>1, <2>3, <2>4, Moving DEF Sending
<1> QED BY <1>2, <1>3 DEF Resolve

(* The steps of a connection: the next address, no connection, a refusal,  *)
(* a connection, or the deadline.                                          *)
LEMMA ConnectStep ==
    ASSUME MailInv, ConnectFails \/ ConnectRefused \/ Connected \/ DeadlinePasses
    PROVE  MailInv'
<1>1. /\ attempt \in Attempts /\ attempt.pc = "connect" /\ attempt.told = "nothing"
      /\ ~attempt.wrote /\ ~attempt.took /\ attempt.requests = 0 /\ attempt.phase = "envelope"
      /\ deployment.provider = "resend" /\ ~ProviderRefused(deployment)
      /\ UNCHANGED <<deployment, switched, letter, age, outside>>
  BY DEF MailInv, MailTypeOK, AttemptInv, ConnectFails, ConnectRefused, Connected, DeadlinePasses
<1>2. CASE attempt' = Tell(attempt, "not_sent") \/ attempt' = Tell(attempt, Unknown(deployment))
  <2>1. "not_sent" \in Outcomes /\ Unknown(deployment) \in Outcomes \ {"sent", "not_sent"}
    BY DEF Outcomes, Unknown
  <2> QED BY <1>1, <1>2, <2>1, TellingOnly DEF Sending
<1>3. CASE attempt.left > 1 /\ attempt' = [attempt EXCEPT !.left = @ - 1]
  <2>1. attempt.left - 1 \in 0 .. MaxAddressesTried
    BY <1>1, <1>3 DEF Attempts, MaxAddressesTried
  <2>2. /\ attempt' \in Attempts /\ attempt'.pc = "connect" /\ attempt'.told = "nothing"
        /\ attempt'.late = attempt.late /\ ~attempt'.wrote /\ ~attempt'.took
        /\ attempt'.requests = 0 /\ attempt'.phase = "envelope"
    BY <1>1, <1>3, <2>1 DEF Attempts
  <2>3. AttemptInv' BY Zenon, <1>1, <2>2 DEF AttemptInv, ProviderRefused
  <2> QED BY <1>1, <2>2, <2>3, Moving DEF Sending
<1>4. CASE attempt' = [attempt EXCEPT !.pc = "exchange", !.wrote = TRUE, !.requests = @ + 1]
  <2>1. attempt.requests + 1 \in Nat /\ attempt.requests + 1 = 1 BY <1>1
  <2>2. /\ attempt' \in Attempts /\ attempt'.pc = "exchange" /\ attempt'.told = "nothing"
        /\ attempt'.late = attempt.late /\ ~attempt'.took /\ attempt'.requests = 1
    BY Zenon, <1>1, <1>4, <2>1 DEF Attempts
  <2>3. AttemptInv' BY Zenon, <1>1, <2>2 DEF AttemptInv, ProviderRefused
  <2> QED BY <1>1, <2>2, <2>3, Moving DEF Sending
<1> QED BY <1>2, <1>3, <1>4 DEF ConnectFails, ConnectRefused, Connected, DeadlinePasses

(* A request Resend takes: no key it still knows stood in its way, so it   *)
(* is the first, as long as the provider was kept.                         *)
LEMMA TakenFacts ==
    ASSUME MailInv, attempt.pc = "exchange", ~KeyHeld
    PROVE  /\ Taken \in [taken : 0 .. MaxAttempts,
                         key : {NoKey} \cup [since : 0 .. MaxAge, sender : Senders \cup {0}]]
           /\ Taken.taken > 0 /\ Taken.taken <= letter.attempts
           /\ Taken.key # NoKey => Taken.key.since <= age
           /\ deployment.keyed => Taken.key # NoKey
           /\ ~switched => Taken.taken <= 1
<1>1. /\ outside.taken \in Nat /\ letter.attempts \in Nat /\ outside.taken < letter.attempts
      /\ letter.status = "pending" /\ letter.attempts <= MaxAttempts /\ age \in 0 .. MaxAge
      /\ deployment \in Configurations /\ deployment.provider = "resend"
      /\ outside.key \in {NoKey} \cup [since : 0 .. MaxAge, sender : Senders \cup {0}]
      /\ attempt.told = "nothing"
  BY MailAssumption DEF MailInv, MailTypeOK, RowInv, AttemptInv
<1>2. outside.taken + 1 \in 0 .. MaxAttempts BY <1>1, MailAssumption
<1>3. deployment.keyed \in BOOLEAN /\ deployment.sender \in Senders \cup {0}
  BY <1>1 DEF Configurations
<1>4. age # MaxAge + 1 BY <1>1, MailAssumption
<1>5. /\ Taken.taken = outside.taken + 1
      /\ deployment.keyed => Taken.key = [since |-> age, sender |-> deployment.sender]
      /\ ~deployment.keyed => Taken.key = outside.key
      /\ Taken \in [taken : 0 .. MaxAttempts,
                    key : {NoKey} \cup [since : 0 .. MaxAge, sender : Senders \cup {0}]]
  BY <1>1, <1>2, <1>3 DEF Taken
<1>6. deployment.keyed => Taken.key # NoKey /\ Taken.key.since <= age
  BY <1>1, <1>4, <1>5 DEF NoKey
<1>7. ~deployment.keyed /\ outside.key # NoKey => outside.key.since <= age
  BY DEF MailInv, RowInv
<1>8. ~switched => outside.taken = 0
  <2> SUFFICES ASSUME ~switched, outside.taken > 0 PROVE FALSE BY <1>1
  <2>1. deployment.keyed /\ outside.key # NoKey /\ letter.tagged
    BY <1>1 DEF MailInv, OnceInv
  <2>2. age <= Window BY <1>1, <2>1, MailAssumption DEF MailInv, RowInv
  <2>3. age >= outside.key.since + KeyRetention
    BY <1>1, <2>1, MailAssumption DEF KeyHeld
  <2> QED BY <1>1, <2>1, <2>2, <2>3, MailAssumption
<1> QED BY <1>1, <1>5, <1>6, <1>7, <1>8

(* What the request to Resend ends with, answered or not. *)
LEMMA ExchangeStep ==
    ASSUME MailInv, NEW took \in BOOLEAN, NEW o \in Outcomes, NEW new \in Attempts,
           attempt.pc = "exchange", took => ~KeyHeld,
           new.wrote = attempt.wrote, new.requests = attempt.requests, new.late = attempt.late,
           new.took => took,
           attempt' = Tell(new, o), outside' = IF took THEN Taken ELSE outside,
           UNCHANGED <<deployment, switched, letter, age>>,
           o # "not_sent", o = "sent" => outside'.taken > 0,
           took => o \in {"sent", Unknown(deployment)}
    PROVE  MailInv'
<1>1. /\ deployment.provider = "resend" /\ ~ProviderRefused(deployment)
      /\ deployment.keyed \in BOOLEAN
  BY DEF MailInv, AttemptInv, MailTypeOK, Configurations
<1>2. Unknown(deployment) = IF deployment.keyed THEN "retry_within" ELSE "ambiguous"
  BY DEF Unknown
<1>3. CASE ~took
  <2>1. outside' = outside /\ ~new.took BY <1>3
  <2> QED BY <1>1, <2>1, TellingOnly DEF Sending
<1>4. CASE took
  <2>1. /\ Taken \in [taken : 0 .. MaxAttempts,
                      key : {NoKey} \cup [since : 0 .. MaxAge, sender : Senders \cup {0}]]
        /\ Taken.taken > 0 /\ Taken.taken <= letter.attempts
        /\ Taken.key # NoKey => Taken.key.since <= age
        /\ deployment.keyed => Taken.key # NoKey
        /\ ~switched => Taken.taken <= 1
    BY <1>4, TakenFacts
  <2>2. outside' = Taken BY <1>4
  <2>3. o \in {"sent", "ambiguous", "retry_within"} BY <1>2, <1>4
  <2>4. o \in {"sent", "ambiguous"} \/ (deployment.keyed /\ o = "retry_within") BY <1>2, <1>4
  <2> QED BY <1>1, <2>1, <2>2, <2>3, <2>4, Telling DEF Sending
<1> QED BY <1>3, <1>4

(* An answer of Resend says no less than what it did with the request. *)
LEMMA AnsweredStep ==
    ASSUME MailInv, NEW took \in BOOLEAN, NEW status \in HttpAnswers, Answered(status, took)
    PROVE  MailInv'
<1> DEFINE new == [attempt EXCEPT !.took = took]
           o == ResendOutcome(deployment, status)
<1>1. attempt \in Attempts /\ attempt.pc = "exchange" /\ (took => ~KeyHeld)
  BY DEF MailInv, MailTypeOK, Answered
<1>2. /\ attempt' = Tell(new, o) /\ outside' = IF took THEN Taken ELSE outside
      /\ UNCHANGED <<deployment, switched, letter, age>>
  BY DEF Answered
<1>3. /\ new \in Attempts /\ new.wrote = attempt.wrote /\ new.requests = attempt.requests
      /\ new.late = attempt.late /\ new.took = took
  BY <1>1 DEF Attempts
<1>4. /\ o \in Outcomes \ {"not_sent"} /\ (o = "sent" => status = "2xx")
      /\ status \in {"5xx", "unreadable"} => o = Unknown(deployment)
      /\ status = "2xx" => o = "sent"
  BY DEF ResendOutcome, Unknown, Outcomes, HttpAnswers
<1>5. took => status \in {"2xx", "5xx", "unreadable"} BY DEF Answered
<1>6. o = "sent" => outside'.taken > 0
  <2>1. CASE took BY <1>1, <1>2, <2>1, TakenFacts
  <2>2. CASE ~took
    <3>1. o = "sent" => KeyHeld BY <1>4, <2>2 DEF Answered
    <3> QED BY <1>2, <2>2, <3>1 DEF KeyHeld, MailInv, RowInv
  <2> QED BY <2>1, <2>2
<1> HIDE DEF new, o
<1> QED BY <1>1, <1>2, <1>3, <1>4, <1>5, <1>6, ExchangeStep

(* No usable answer is reported unknown. *)
LEMMA UnansweredStep == ASSUME MailInv, NEW took \in BOOLEAN, Unanswered(took) PROVE MailInv'
<1> DEFINE new == [attempt EXCEPT !.took = @ \/ took]
<1>1. attempt \in Attempts /\ attempt.pc = "exchange" /\ ~attempt.took /\ (took => ~KeyHeld)
  BY DEF MailInv, MailTypeOK, AttemptInv, Unanswered
<1>2. /\ attempt' = Tell(new, Unknown(deployment))
      /\ outside' = IF took THEN Taken ELSE outside
      /\ UNCHANGED <<deployment, switched, letter, age>>
  BY DEF Unanswered, AfterExchange
<1>3. /\ new \in Attempts /\ new.wrote = attempt.wrote /\ new.requests = attempt.requests
      /\ new.late = attempt.late /\ new.took = (attempt.took \/ took)
  BY <1>1 DEF Attempts
<1>4. Unknown(deployment) \in Outcomes \ {"not_sent", "sent"} BY DEF Unknown, Outcomes
<1> HIDE DEF new
<1> QED BY <1>1, <1>2, <1>3, <1>4, ExchangeStep

(* An hour that passes during an execution leaves it inside the window     *)
(* extended by that hour.                                                  *)
LEMMA HourPassesStep == MailInv /\ HourPasses => MailInv'
<1> SUFFICES ASSUME MailInv, HourPasses PROVE MailInv' OBVIOUS
<1>1. /\ attempt \in Attempts /\ age \in 0 .. MaxAge /\ age < MaxAge /\ age' = age + 1
      /\ letter' = [letter EXCEPT !.due = IF @ > 0 THEN @ - 1 ELSE 0]
      /\ UNCHANGED <<deployment, switched, outside>>
  BY DEF MailInv, MailTypeOK, HourPasses
<1>2. age \in Nat /\ age + 1 \in 0 .. MaxAge BY <1>1, MailAssumption
<1>3. (IF letter.due > 0 THEN letter.due - 1 ELSE 0) \in 0 .. MaxDelay
  BY MailAssumption DEF MailInv, MailTypeOK
<1>4. /\ letter' \in [status : {"pending", "published", "dead"}, attempts : 0 .. MaxAttempts,
                     tagged : BOOLEAN, due : 0 .. MaxDelay]
      /\ letter'.status = letter.status /\ letter'.attempts = letter.attempts
      /\ letter'.tagged = letter.tagged
  BY <1>1, <1>3 DEF MailInv, MailTypeOK
<1>5. /\ attempt' \in Attempts /\ attempt'.pc = attempt.pc /\ attempt'.todo = attempt.todo
      /\ attempt'.phase = attempt.phase /\ attempt'.error = attempt.error
      /\ attempt'.requests = attempt.requests /\ attempt'.wrote = attempt.wrote
      /\ attempt'.took = attempt.took /\ attempt'.told = attempt.told
      /\ attempt.pc = "idle" => attempt' = attempt
      /\ attempt.pc # "idle" => ~attempt.late /\ attempt'.late
  BY Zenon, <1>1 DEF HourPasses, Attempts
<1>6. MailTypeOK' BY <1>1, <1>2, <1>4, <1>5 DEF MailInv, MailTypeOK, NoKey
<1>7. AttemptInv'
  <2>1. /\ attempt.pc = "smtp" => Ends(attempt'.todo)
        /\ ~ProviderRefused(deployment) => ~ProviderRefused(deployment')
    BY <1>1, <1>5, Zenon DEF MailInv, AttemptInv
  <2> QED BY <1>1, <1>5, <2>1 DEF MailInv, AttemptInv
<1>8. RowInv'
  <2>1. outside.key # NoKey => outside.key.since \in Nat
    BY MailAssumption DEF MailInv, MailTypeOK
  <2> QED BY <1>1, <1>2, <1>4, <1>5, <2>1, MailAssumption DEF MailInv, RowInv, NoKey
<1>9. OnceInv' BY <1>1, <1>4, <1>5 DEF MailInv, OnceInv, NoKey
<1> QED
  BY <1>1, <1>4, <1>5, <1>6, <1>7, <1>8, <1>9 DEF MailInv, MailedOnce, NotSentIsNotSent,
     TakenIsNotFailed, PublishedWasTaken, OneRequestPerAttempt

(* Another sender keeps the key's window; another provider is a switch. *)
LEMMA ReconfigureStep == MailInv /\ Reconfigure => MailInv'
<1> SUFFICES ASSUME MailInv, Reconfigure PROVE MailInv' OBVIOUS
<1>1. /\ attempt.pc = "idle" /\ attempt = NoAttempt /\ deployment \in Configurations
      /\ UNCHANGED <<letter, age, attempt, outside>>
  BY DEF MailInv, MailTypeOK, AttemptInv, Reconfigure
<1>2. /\ attempt.told = "nothing" /\ ~attempt.wrote /\ ~attempt.took /\ attempt.requests = 0
  BY <1>1 DEF NoAttempt
<1>3. /\ deployment' \in Configurations /\ switched' \in BOOLEAN
      /\ ~switched' => /\ ~switched /\ deployment'.provider = deployment.provider
                       /\ deployment'.keyed = deployment.keyed
  <2>1. CASE /\ \E s \in Senders \ {deployment.sender} : deployment' = [deployment EXCEPT !.sender = s]
             /\ UNCHANGED switched
    <3>1. PICK s \in Senders : deployment' = [deployment EXCEPT !.sender = s] BY <2>1
    <3> QED BY <1>1, <2>1, <3>1 DEF MailInv, MailTypeOK, Configurations
  <2>2. CASE deployment' = [deployment EXCEPT !.provider = "smtp"] /\ switched' = TRUE
    BY <1>1, <2>2 DEF Configurations
  <2> QED BY Zenon, <2>1, <2>2 DEF Reconfigure
<1>4. MailTypeOK' BY <1>1, <1>3 DEF MailInv, MailTypeOK, NoKey
<1>5. AttemptInv' BY <1>1, <1>2 DEF AttemptInv, NoAttempt
<1>6. RowInv' BY <1>1 DEF MailInv, RowInv, NoKey
<1>7. OnceInv' BY <1>1, <1>2, <1>3 DEF MailInv, OnceInv, NoKey
<1> QED
  BY <1>1, <1>2, <1>3, <1>4, <1>5, <1>6, <1>7 DEF MailInv, MailedOnce, NotSentIsNotSent,
     TakenIsNotFailed, PublishedWasTaken, OneRequestPerAttempt

(* Every step of a send keeps the invariant. *)
LEMMA MailInvStep == MailInv /\ [MailNext]_mailVars => MailInv'
<1> SUFFICES ASSUME MailInv, [MailNext]_mailVars PROVE MailInv' OBVIOUS
<1>1. CASE Start BY <1>1, StartStep
<1>2. CASE Compose BY <1>2, ComposeStep
<1>3. CASE CommandDone BY <1>3, CommandDoneStep
<1>4. CASE ConnectFails \/ ConnectRefused \/ Connected \/ DeadlinePasses BY <1>4, ConnectStep
<1>5. CASE HourPasses BY <1>5, HourPassesStep
<1>6. CASE Reconfigure BY <1>6, ReconfigureStep
<1>7. CASE \E delay \in 1 .. MaxDelay : RecordOutcome(delay) BY <1>7, RecordStep
<1>8. CASE \E code \in {0, 4, 5} : CommandRefused(code) \/ Quit(code)
  BY <1>8, CommandRefusedStep, QuitStep
<1>9. CASE \E n \in 0 .. MaxAddressesTried + 1 : \E answer \in [1 .. n -> BOOLEAN] : Resolve(answer)
  <2>1. PICK n \in 0 .. MaxAddressesTried + 1 : \E answer \in [1 .. n -> BOOLEAN] : Resolve(answer)
    BY <1>9
  <2>2. n \in Nat BY DEF MaxAddressesTried
  <2> QED BY <2>1, <2>2, ResolveStep
<1>10. CASE \E took \in BOOLEAN :
              \/ CommandLost(took) \/ Unanswered(took)
              \/ \E status \in HttpAnswers : Answered(status, took)
  BY <1>10, CommandLostStep, UnansweredStep, AnsweredStep
<1>11. CASE UNCHANGED mailVars
  <2>1. /\ deployment' = deployment /\ switched' = switched /\ letter' = letter /\ age' = age
        /\ attempt' = attempt /\ outside' = outside
    BY <1>11 DEF mailVars
  <2>2. MailTypeOK' BY <2>1 DEF MailInv, MailTypeOK, NoKey
  <2>3. AttemptInv' BY <2>1, Zenon DEF MailInv, AttemptInv
  <2>4. RowInv' /\ OnceInv' BY <2>1 DEF MailInv, RowInv, OnceInv, NoKey
  <2> QED
    BY <2>1, <2>2, <2>3, <2>4 DEF MailInv, MailedOnce, NotSentIsNotSent, TakenIsNotFailed,
       PublishedWasTaken, OneRequestPerAttempt
<1> QED
  BY <1>1, <1>2, <1>3, <1>4, <1>5, <1>6, <1>7, <1>8, <1>9, <1>10, <1>11, Zenon DEF MailNext

(* A provider that could be constructed encrypts, unless told not to. *)
LEMMA MailInvImplies == MailInv => MailedTruthfully
<1> SUFFICES ASSUME MailInv PROVE ClearOnlyByChoice BY DEF MailInv, MailedTruthfully
<1>1. attempt.wrote => ~ProviderRefused(deployment) BY DEF MailInv, AttemptInv
<1>2. deployment \in Configurations BY DEF MailInv, MailTypeOK
<1> QED
  BY Zenon, <1>1, <1>2 DEF ClearOnlyByChoice, ProviderRefused, MailpitRefused, SmtpRefused,
     EmailConfigRefused, RequireTls, Configurations

(* For every deployment, number of attempts and length of the window that  *)
(* Resend's memory exceeds: an event puts at most one message in the       *)
(* provider's hands while the provider is kept, and what is reported and   *)
(* recorded of it (sent, not sent, unknown, published) is what happened.   *)
THEOREM MailIsTruthful == MailSpec => []MailedTruthfully
<1>1. MailInit => MailInv BY MailInvInit
<1>2. MailInv /\ [MailNext]_mailVars => MailInv' BY MailInvStep
<1>3. MailInv => MailedTruthfully BY MailInvImplies
<1> QED BY <1>1, <1>2, <1>3, PTL DEF MailSpec

-----------------------------------------------------------------------------
(* The dispatcher's classification *)

\* An exception that escaped or left the block: one leaf, or a group of some.
IsException(x) ==
  /\ x.leaves \subseteq Leaves /\ x.leaves # {}
  /\ \/ x.group = FALSE /\ \E l \in Leaves : x.leaves = {l}
     \/ x.group = TRUE

\* Whatever a consumer raises or lets leave the block has that shape, and is something.
LEMMA ExceptionShape ==
  ASSUME NEW x \in Exceptions
  PROVE  IsException(x) /\ x # NoException
  <1>1. CASE \E l \in Leaves : x = [group |-> FALSE, leaves |-> {l}]
    <2>1. PICK l \in Leaves : x = [group |-> FALSE, leaves |-> {l}]
      BY Zenon, <1>1
    <2>2. x.leaves = {l} /\ x.group = FALSE
      BY Zenon, <2>1
    <2>3. NoException.leaves = {}
      BY Zenon DEF NoException
    <2> QED
      BY Zenon, <2>2, <2>3 DEF IsException
  <1>2. CASE \E S \in SUBSET Leaves : S # {} /\ x = [group |-> TRUE, leaves |-> S]
    <2>1. PICK S \in SUBSET Leaves : S # {} /\ x = [group |-> TRUE, leaves |-> S]
      BY Zenon, <1>2
    <2>2. x.leaves = S /\ x.group = TRUE
      BY Zenon, <2>1
    <2>3. NoException.leaves = {}
      BY Zenon DEF NoException
    <2> QED
      BY Zenon, <2>1, <2>2, <2>3 DEF IsException
  <1> QED
    BY Zenon, <1>1, <1>2 DEF Exceptions

\* A leaf is never both ambiguous and confirmed not sent (errors.py).
LEMMA LeafClasses ==
  ASSUME NEW l \in Leaves
  PROVE  /\ l.policy \in Policies
         /\ "ambiguous" \in l.kinds => "not_sent" \notin l.kinds
  BY Zenon, LeavesAssumption DEF IsLeaf

\* What _ambiguous_outcome() answers.
LEMMA OutcomePolicies ==
  ASSUME NEW x, IsException(x)
  PROVE  /\ AmbiguousOutcome(x) \in Policies \cup {"unambiguous"}
         /\ x.group = TRUE /\ AmbiguousOutcome(x) = "unambiguous"
              => ~IsUnclassifiedTimeout(x) /\ AmbiguousMembers(x) = {}
         /\ x.group = TRUE /\ AmbiguousOutcome(x) \in {"at_least_once", "retry_within"}
              => /\ ~IsUnclassifiedTimeout(x)
                 /\ \A m \in AmbiguousMembers(x) : m.policy = AmbiguousOutcome(x)
  <1>1. CASE IsA(x, "ambiguous")
    <2>1. AmbiguousOutcome(x) = (CHOOSE l \in x.leaves : TRUE).policy /\ x.group # TRUE
      BY Zenon, <1>1 DEF AmbiguousOutcome, IsA
    <2>2. (CHOOSE l \in x.leaves : TRUE) \in x.leaves
      BY Zenon DEF IsException
    <2>3. (CHOOSE l \in x.leaves : TRUE) \in Leaves
      BY Zenon, <2>2 DEF IsException
    <2> QED
      BY Zenon, <2>1, <2>3, LeafClasses
  <1>2. CASE ~IsA(x, "ambiguous")
    <2>1. x.group = TRUE => ~IsA(x, "permanent") /\ ~IsA(x, "retry_after")
      BY Zenon DEF IsA
    <2>2. \/ /\ AmbiguousOutcome(x) = "unambiguous"
             /\ \/ IsA(x, "permanent") \/ IsA(x, "retry_after")
                \/ ~IsUnclassifiedTimeout(x) /\ AmbiguousMembers(x) = {}
          \/ AmbiguousOutcome(x) = "none"
          \/ /\ AmbiguousOutcome(x) = "at_least_once" /\ ~IsUnclassifiedTimeout(x)
             /\ \A m \in AmbiguousMembers(x) : m.policy = "at_least_once"
          \/ /\ AmbiguousOutcome(x) = "retry_within" /\ ~IsUnclassifiedTimeout(x)
             /\ \A m \in AmbiguousMembers(x) : m.policy = "retry_within"
      BY Zenon, <1>2 DEF AmbiguousOutcome
    <2> QED
      BY <2>1, <2>2 DEF Policies
  <1> QED
    BY Zenon, <1>1, <1>2

\* A single exception has one leaf.
LEMMA SingleLeaf ==
  ASSUME NEW x, IsException(x), x.group # TRUE, NEW l \in x.leaves
  PROVE  x.leaves = {l} /\ \A k : IsA(x, k) <=> k \in l.kinds
  <1>1. x.leaves = {l}
    BY Zenon DEF IsException
  <1> QED
    BY Zenon, <1>1 DEF IsA, IsException

\* Which result lets a marked attempt run again.
LEMMA MarkedRetries ==
  ASSUME NEW x, NEW b, NEW m, m = TRUE, IsException(x),
         Classify(x, b, m) \in {"at_least_once", "attested"}
  PROVE  \/ /\ Classify(x, b, m) = "at_least_once"
            /\ AmbiguousOutcome(x) = "at_least_once" /\ EveryLeafAtLeastOnce(x)
            /\ BlockGroupDeclaresOnlyAtLeastOnce(x, b)
         \/ Classify(x, b, m) = "attested" /\ IsAttestedNotSent(x, b)
  <1>1. AmbiguousOutcome(x) \in Policies \cup {"unambiguous"}
    BY Zenon, OutcomePolicies
  <1>2. CASE AmbiguousOutcome(x) = "unambiguous"
    BY Zenon, <1>2 DEF Classify
  <1>3. CASE AmbiguousOutcome(x) # "unambiguous"
    <2>1. Classify(x, b, m) = "ambiguous" \/ Classify(x, b, m) = AmbiguousOutcome(x)
      BY Zenon, <1>3 DEF Classify
    <2>2. AmbiguousOutcome(x) = "at_least_once"
      BY Zenon, <1>1, <2>1 DEF Policies
    <2>3. ~(EveryLeafAtLeastOnce(x) /\ BlockGroupDeclaresOnlyAtLeastOnce(x, b))
            => Classify(x, b, m) = "ambiguous"
      BY Zenon, <2>2, <1>3 DEF Classify
    <2> QED
      BY Zenon, <2>1, <2>2, <2>3
  <1> QED
    BY Zenon, <1>2, <1>3

\* An unmarked attempt runs again unless its outcome is ambiguous or its
\* exception permanent.
LEMMA UnmarkedRetries ==
  ASSUME NEW x, IsException(x), NEW b
  PROVE  RunsAgain(Classify(x, b, FALSE), FALSE)
           <=> AmbiguousOutcome(x) # "none"
                 /\ ~(AmbiguousOutcome(x) = "unambiguous" /\ IsA(x, "permanent"))
  <1>1. AmbiguousOutcome(x) \in Policies \cup {"unambiguous"}
    BY Zenon, OutcomePolicies
  <1>2. CASE AmbiguousOutcome(x) = "unambiguous"
    BY Zenon, <1>2 DEF Classify, RunsAgain
  <1>3. CASE AmbiguousOutcome(x) = "none"
    BY Zenon, <1>3 DEF Classify, RunsAgain
  <1>4. CASE AmbiguousOutcome(x) \in {"at_least_once", "retry_within"}
    <2>1. Classify(x, b, FALSE) = AmbiguousOutcome(x)
      BY Zenon, <1>4 DEF Classify
    <2> QED
      BY Zenon, <1>4, <2>1 DEF RunsAgain
  <1> QED
    BY Zenon, <1>1, <1>2, <1>3, <1>4 DEF Policies

\* What is recorded: an exception that escaped, classified with what left the
\* block and the marker; none of them changes any more.
FailureInv ==
  /\ marked \in BOOLEAN
  /\ block \in Exceptions \cup {NoException}
  /\ exc \in Exceptions \cup {NoException}
  /\ result # "none" => exc \in Exceptions /\ result = Classify(exc, block, marked)

\* What the dispatcher computes stays the classification of what escaped.
LEMMA FailureStep == FailureInv /\ [FailureNext]_fvars => FailureInv'
  <1> SUFFICES ASSUME FailureInv, [FailureNext]_fvars PROVE FailureInv'
    OBVIOUS
  <1>0. exc = NoException => result = "none"
    BY Zenon, ExceptionShape DEF FailureInv
  <1>1. CASE Mark
    BY Zenon, <1>0, <1>1 DEF Mark, FailureInv
  <1>2. CASE RecordConsumerFailure
    BY Zenon, <1>2 DEF RecordConsumerFailure, FailureInv
  <1>3. ASSUME NEW x \in Exceptions, BlockFails(x) \/ Escape(x) PROVE FailureInv'
    BY Zenon, <1>0, <1>3 DEF BlockFails, Escape, FailureInv
  <1>4. CASE UNCHANGED fvars
    BY Zenon, <1>4 DEF fvars, FailureInv
  <1> QED
    BY Zenon, <1>1, <1>2, <1>3, <1>4 DEF FailureNext

\* A marked attempt runs again only on an attestation of its own block.
LEMMA MarkedSafe == FailureInv => MarkedRetryIsSafe /\ AttestedLeftTheBlock
  <1> SUFFICES ASSUME FailureInv, result # "none" PROVE MarkedRetryIsSafe /\ AttestedLeftTheBlock
    BY DEF MarkedRetryIsSafe, AttestedLeftTheBlock
  <1>1. IsException(exc) /\ result = Classify(exc, block, marked)
    BY Zenon, ExceptionShape DEF FailureInv
  <1>2. NoException.leaves = {}
    BY Zenon DEF NoException
  <1>3. result = "attested" => marked = TRUE /\ IsAttestedNotSent(exc, block)
    <2>1. AmbiguousOutcome(exc) \in Policies \cup {"unambiguous"}
      BY Zenon, <1>1, OutcomePolicies
    <2>2. AmbiguousOutcome(exc) # "attested"
      BY <2>1 DEF Policies
    <2> QED
      BY Zenon, <1>1, <2>2 DEF Classify, FailureInv
  <1>4. AttestedLeftTheBlock
    BY Zenon, <1>2, <1>3 DEF AttestedLeftTheBlock, IsAttestedNotSent
  <1>5. ASSUME marked, RunsAgain(result, marked),
               NEW l \in exc.leaves \cup (IF exc.leaves \cap block.leaves = {} THEN {} ELSE block.leaves)
        PROVE  ~MaybeSent(l)
    <2>1. marked = TRUE /\ Classify(exc, block, marked) \in {"at_least_once", "attested"}
      BY Zenon, <1>1, <1>5 DEF RunsAgain, FailureInv
    <2>2. CASE EveryLeafAtLeastOnce(exc) /\ BlockGroupDeclaresOnlyAtLeastOnce(exc, block)
      BY Zenon, <2>2, <1>5 DEF EveryLeafAtLeastOnce, BlockGroupDeclaresOnlyAtLeastOnce, MaybeSent
    <2>3. CASE IsAttestedNotSent(exc, block)
      BY Zenon, <2>3, <1>5 DEF IsAttestedNotSent, EveryLeafConfirmedNotSent, MaybeSent
    <2>4. \/ /\ Classify(exc, block, marked) = "at_least_once"
             /\ AmbiguousOutcome(exc) = "at_least_once" /\ EveryLeafAtLeastOnce(exc)
             /\ BlockGroupDeclaresOnlyAtLeastOnce(exc, block)
          \/ Classify(exc, block, marked) = "attested" /\ IsAttestedNotSent(exc, block)
      BY Zenon, <1>1, <2>1, MarkedRetries
    <2> QED
      BY Zenon, <2>2, <2>3, <2>4
  <1> QED
    BY Zenon, <1>4, <1>5 DEF MarkedRetryIsSafe

\* A nonempty part of a group that is retried is retried on its own.
LEMMA PartOfGroup ==
  ASSUME NEW x, NEW S \in SUBSET x.leaves, NEW b, NEW m \in BOOLEAN,
         IsException(x), x.group = TRUE, S # {}, RunsAgain(Classify(x, b, m), m)
  PROVE  RunsAgain(Classify([group |-> TRUE, leaves |-> S], b, m), m)
  <1> DEFINE y == [group |-> TRUE, leaves |-> S]
  <1>1. y.group = TRUE /\ y.leaves = S
    BY Zenon
  <1>2. IsException(y)
    BY Zenon DEF IsException
  <1> HIDE DEF y
  <1>3. \A k : ~IsA(y, k)
    BY Zenon, <1>1 DEF IsA
  <1>4. /\ IsUnclassifiedTimeout(y) => IsUnclassifiedTimeout(x)
        /\ AmbiguousMembers(y) \subseteq AmbiguousMembers(x)
    BY Zenon, <1>1 DEF IsUnclassifiedTimeout, AmbiguousMembers
  <1>5. /\ ~IsUnclassifiedTimeout(y) /\ AmbiguousMembers(y) = {} => AmbiguousOutcome(y) = "unambiguous"
        /\ ~IsUnclassifiedTimeout(y) /\ AmbiguousMembers(y) # {}
             /\ (\A a \in AmbiguousMembers(y) : a.policy = "at_least_once")
             => AmbiguousOutcome(y) = "at_least_once"
        /\ ~IsUnclassifiedTimeout(y) /\ AmbiguousMembers(y) # {}
             /\ (\A a \in AmbiguousMembers(y) : a.policy = "retry_within")
             => AmbiguousOutcome(y) \in {"at_least_once", "retry_within"}
    BY Zenon, <1>3 DEF AmbiguousOutcome
  <1>6. CASE m = FALSE
    <2>1. AmbiguousOutcome(x) # "none" /\ AmbiguousOutcome(x) \in Policies \cup {"unambiguous"}
      BY Zenon, <1>6, UnmarkedRetries, OutcomePolicies
    <2>2. AmbiguousOutcome(x) \in {"unambiguous", "at_least_once", "retry_within"}
      BY <2>1 DEF Policies
    <2>3. ~IsUnclassifiedTimeout(y)
      BY Zenon, <2>2, <1>4, OutcomePolicies
    <2>4. \/ AmbiguousMembers(y) = {}
          \/ \A a \in AmbiguousMembers(y) : a.policy = "at_least_once"
          \/ \A a \in AmbiguousMembers(y) : a.policy = "retry_within"
      BY Zenon, <2>2, <1>4, OutcomePolicies
    <2>5. AmbiguousOutcome(y) \in {"unambiguous", "at_least_once", "retry_within"}
      BY Zenon, <1>5, <2>3, <2>4
    <2>6. AmbiguousOutcome(y) # "none"
      BY <2>5
    <2>7. RunsAgain(Classify(y, b, FALSE), FALSE)
      BY Zenon, <2>6, <1>2, <1>3, UnmarkedRetries
    <2> QED
      BY Zenon, <2>7, <1>6 DEF y
  <1>7. CASE m = TRUE
    <2>1. m = TRUE /\ Classify(x, b, m) \in {"at_least_once", "attested"}
      BY Zenon, <1>7 DEF RunsAgain
    <2>2. CASE /\ AmbiguousOutcome(x) = "at_least_once" /\ EveryLeafAtLeastOnce(x)
               /\ BlockGroupDeclaresOnlyAtLeastOnce(x, b)
      <3>1. ~IsUnclassifiedTimeout(y)
        BY Zenon, <2>2, <1>4, OutcomePolicies
      <3>2. EveryLeafAtLeastOnce(y) /\ BlockGroupDeclaresOnlyAtLeastOnce(y, b)
        BY Zenon, <2>2, <1>1 DEF EveryLeafAtLeastOnce, BlockGroupDeclaresOnlyAtLeastOnce
      <3>3. AmbiguousMembers(y) # {} /\ \A a \in AmbiguousMembers(y) : a.policy = "at_least_once"
        BY Zenon, <3>2, <1>1 DEF EveryLeafAtLeastOnce, AmbiguousMembers
      <3>4. AmbiguousOutcome(y) = "at_least_once"
        BY Zenon, <3>1, <3>3, <1>5
      <3>5. Classify(y, b, TRUE) = "at_least_once"
        BY Zenon, <3>2, <3>4 DEF Classify
      <3> QED
        BY Zenon, <3>5, <1>7 DEF RunsAgain, y
    <2>3. CASE IsAttestedNotSent(x, b)
      <3>1. \A l \in S : "not_sent" \in l.kinds /\ "ambiguous" \notin l.kinds
        BY Zenon, <2>3, LeafClasses
           DEF IsAttestedNotSent, EveryLeafConfirmedNotSent, IsException
      <3>2. AmbiguousMembers(y) = {} /\ ~IsUnclassifiedTimeout(y)
        BY Zenon, <3>1, <1>1 DEF AmbiguousMembers, IsUnclassifiedTimeout
      <3>3. AmbiguousOutcome(y) = "unambiguous"
        BY Zenon, <3>2, <1>5
      <3>4. EveryLeafConfirmedNotSent(y) /\ IsAttestedNotSent(y, b)
        BY Zenon, <2>3, <1>1 DEF IsAttestedNotSent, EveryLeafConfirmedNotSent
      <3>5. Classify(y, b, TRUE) = "attested"
        BY Zenon, <3>3, <3>4, <1>3 DEF Classify
      <3> QED
        BY Zenon, <3>5, <1>7 DEF RunsAgain, y
    <2>4. \/ /\ Classify(x, b, m) = "at_least_once"
             /\ AmbiguousOutcome(x) = "at_least_once" /\ EveryLeafAtLeastOnce(x)
             /\ BlockGroupDeclaresOnlyAtLeastOnce(x, b)
          \/ Classify(x, b, m) = "attested" /\ IsAttestedNotSent(x, b)
      BY Zenon, <2>1, MarkedRetries
    <2> QED
      BY Zenon, <2>2, <2>3, <2>4
  <1> QED
    BY Zenon, <1>6, <1>7

\* An ambiguity without a policy is dead-lettered, wherever in a group it is.
LEMMA AmbiguitySafe == FailureInv => AmbiguityNeverRetried
  <1> SUFFICES ASSUME FailureInv, result # "none", NEW l \in exc.leaves,
                      \/ "ambiguous" \in l.kinds /\ l.policy = "none"
                      \/ "timeout" \in l.kinds /\ l.kinds \cap {"not_sent", "ambiguous"} = {},
                      ~IsA(exc, "retry_after")
               PROVE  ~RunsAgain(result, marked)
    BY Zenon DEF AmbiguityNeverRetried
  <1>1. IsException(exc) /\ result = Classify(exc, block, marked)
    BY Zenon, ExceptionShape DEF FailureInv
  <1>2. AmbiguousOutcome(exc) = "none" \/ (AmbiguousOutcome(exc) = "unambiguous" /\ IsA(exc, "permanent"))
    <2>1. CASE "ambiguous" \in l.kinds /\ l.policy = "none"
      <3>1. CASE exc.group = TRUE
        <4>1. /\ l \in AmbiguousMembers(exc) /\ \A k : ~IsA(exc, k)
          BY Zenon, <2>1, <3>1 DEF AmbiguousMembers, IsA
        <4>2. l.policy # "at_least_once" /\ l.policy # "retry_within"
          BY <2>1
        <4> QED
          BY Zenon, <4>1, <4>2 DEF AmbiguousOutcome
      <3>2. CASE exc.group # TRUE
        <4>1. exc.leaves = {l} /\ IsA(exc, "ambiguous")
          BY Zenon, <1>1, <2>1, <3>2, SingleLeaf
        <4>2. (CHOOSE k \in exc.leaves : TRUE) \in exc.leaves
          BY Zenon, <4>1
        <4>3. (CHOOSE k \in exc.leaves : TRUE) = l
          BY Zenon, <4>1, <4>2
        <4> QED
          BY Zenon, <4>1, <4>3, <2>1 DEF AmbiguousOutcome
      <3> QED
        BY Zenon, <3>1, <3>2
    <2>2. CASE "timeout" \in l.kinds /\ l.kinds \cap {"not_sent", "ambiguous"} = {}
      <3>1. "not_sent" \notin l.kinds /\ "ambiguous" \notin l.kinds
        BY <2>2
      <3>2. IsUnclassifiedTimeout(exc)
        BY Zenon, <2>2, <3>1 DEF IsUnclassifiedTimeout
      <3>3. ~IsA(exc, "ambiguous")
        <4>1. CASE exc.group = TRUE
          BY Zenon, <4>1 DEF IsA
        <4>2. CASE exc.group # TRUE
          BY Zenon, <1>1, <3>1, <4>2, SingleLeaf
        <4> QED
          BY Zenon, <4>1, <4>2
      <3> QED
        BY Zenon, <3>2, <3>3 DEF AmbiguousOutcome
    <2> QED
      BY Zenon, <2>1, <2>2
  <1>3. result \in {"ambiguous", "permanent"}
    BY Zenon, <1>1, <1>2 DEF Classify
  <1> QED
    BY <1>3 DEF RunsAgain

\* The dispatcher's classification (_record_consumer_failure(),
\* _ambiguous_outcome(), _is_attested_not_sent()) for leaf exceptions of any
\* classes and groups of any size: whatever escapes and whatever left the block,
\* an event runs again only when nothing may have been sent or its consumer
\* vouched for it, and adding a member to a group never turns a dead letter into
\* a retry.
THEOREM ClassificationIsSafe == FailureSpec => []RetriesOnlyWhatIsSafe
  <1>1. FailureInit => FailureInv
    BY Zenon DEF FailureInit, FailureInv
  <1>2. FailureInv => GroupIsConservative
    <2> SUFFICES ASSUME FailureInv, result # "none", exc.group, RunsAgain(result, marked),
                        NEW S \in SUBSET exc.leaves, S # {}
                 PROVE  RunsAgain(Classify([group |-> TRUE, leaves |-> S], block, marked), marked)
      BY Zenon DEF GroupIsConservative
    <2>1. IsException(exc) /\ result = Classify(exc, block, marked) /\ marked \in BOOLEAN
      BY Zenon, ExceptionShape DEF FailureInv
    <2>2. exc.group = TRUE
      BY Zenon, <2>1 DEF IsException
    <2>3. RunsAgain(Classify(exc, block, marked), marked)
      BY Zenon, <2>1
    <2> QED
      BY Zenon, <2>1, <2>2, <2>3, PartOfGroup
  <1>3. FailureInv => RetriesOnlyWhatIsSafe
    BY Zenon, <1>2, MarkedSafe, AmbiguitySafe DEF RetriesOnlyWhatIsSafe
  <1> QED
    BY <1>1, <1>3, FailureStep, PTL DEF FailureSpec

=============================================================================
