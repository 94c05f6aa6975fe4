-------------------------------- MODULE Mail --------------------------------
(***************************************************************************)
(* Sending the e-mail of one notification event: the provider the          *)
(* deployment selected (core/email/config.py, selection.py), the SMTP      *)
(* conversation with phase tracking (smtp_provider.py), the HTTP request   *)
(* through the strict egress client (resend_provider.py, infra/egress),    *)
(* and the kind of outcome the job then reports to the outbox              *)
(* (notifications/service.py).  The outbox retries or dead-letters the     *)
(* event by that kind; module Outbox has its leases, markers and crashes,  *)
(* here it is one row and its clock.                                       *)
(*                                                                         *)
(* Outside are a relay, which may have taken a message it never answered   *)
(* for, and Resend, which keeps an idempotency key for KeyRetention hours. *)
(***************************************************************************)
EXTENDS Naturals, Sequences

CONSTANTS
    Deployments,   \* the configurations a deployment may start with
    Senders,       \* EMAIL_DEFAULT_SENDER may become one of these later
    MaxAttempts,   \* OUTBOX_MAX_ATTEMPTS
    Window,        \* RESEND_IDEMPOTENT_RETRY_WINDOW, in hours
    KeyRetention,  \* hours Resend keeps a key
    MaxDelay,      \* bound: hours a retry waits, a 429's hint included
    MaxAge         \* bound: hours the event is followed

VARIABLES
    deployment,    \* the environment the worker reads
    switched,      \* did EMAIL_PROVIDER change after the event was queued?
    letter,        \* the event's outbox row
    age,           \* hours since the event was created
    attempt,       \* the execution under way
    outside        \* what the provider did with the message

mailVars == <<deployment, switched, letter, age, attempt, outside>>

(* StrictEgressPolicy.max_addresses_tried *)
MaxAddressesTried == 2

NoError == [class |-> "none", code |-> 0]

(* An execution: where it is, the SMTP commands it still has to send, the  *)
(* phase, the error it met, addresses left to try, requests written, was   *)
(* the message put on a connection, did the provider take it, the outcome. *)
NoAttempt ==
    [pc |-> "idle", todo |-> <<>>, phase |-> "envelope", error |-> NoError, left |-> 0,
     requests |-> 0, wrote |-> FALSE, took |-> FALSE, told |-> "nothing", late |-> FALSE]

NoKey == [since |-> MaxAge + 1, sender |-> 0]

Outcomes == {"sent", "permanent", "ambiguous", "retry_within", "deferred", "not_sent", "failed"}

(* EmailConfig, the address in the event, and whether the send has a key *)
Configurations ==
    [provider : {"smtp", "mailpit", "resend"}, named : BOOLEAN,
     mode : {"unset", "starttls", "implicit", "none"}, useTls : {"unset", "true", "false"},
     environment : STRING, requireTls : {"unset", "true", "false"},
     credentials : {"set", "unset", "partial"}, sender : Senders \cup {0},
     recipient : {"valid", "invalid"}, keyed : BOOLEAN]

(* Resend keeps a key for 24 hours, RESEND_IDEMPOTENT_RETRY_WINDOW is 23:  *)
(* the key outlives the window.                                            *)
ASSUME MailAssumption ==
    /\ MaxAttempts \in Nat /\ MaxDelay \in Nat /\ MaxAge \in Nat
    /\ Window \in Nat /\ KeyRetention \in Nat /\ Window < KeyRetention
    /\ Deployments \subseteq Configurations

Attempts ==
    [pc : {"idle", "compose", "smtp", "quit", "resolve", "connect", "exchange", "told"},
     todo : Seq({"connect", "starttls", "login", "mail", "rcpt", "data", "body"}),
     phase : {"envelope", "data", "accepted"},
     error : [class : {"none", "reply", "sender", "data", "recipients", "other"}, code : {0, 4, 5}],
     left : 0 .. MaxAddressesTried, requests : Nat, wrote : BOOLEAN, took : BOOLEAN,
     told : Outcomes \cup {"nothing"}, late : BOOLEAN]

MailTypeOK ==
    /\ deployment \in Configurations
    /\ switched \in BOOLEAN
    /\ letter \in [status : {"pending", "published", "dead"}, attempts : 0 .. MaxAttempts,
                   tagged : BOOLEAN, due : 0 .. MaxDelay]
    /\ age \in 0 .. MaxAge
    /\ attempt \in Attempts
    /\ attempt.pc = "told" <=> attempt.told # "nothing"
    /\ outside \in [taken : 0 .. MaxAttempts,
                    key : {NoKey} \cup [since : 0 .. MaxAge, sender : Senders \cup {0}]]

-----------------------------------------------------------------------------
(* Configuration *)

(* EmailConfig.__post_init__: SMTP_TLS_MODE, or the older SMTP_USE_TLS *)
TlsMode(d) ==
    IF d.mode # "unset" THEN d.mode ELSE IF d.useTls = "false" THEN "none" ELSE "starttls"

(* Mutant of RequireTls: TLS is required only where it is asked for. *)
RequireTlsWhenAsked(d) == d.requireTls = "true"

(* _require_tls_default *)
RequireTls(d) ==
    IF d.requireTls # "unset" THEN d.requireTls = "true" ELSE d.environment = "production"

EmailConfigRefused(d) ==
    \/ d.mode # "unset" /\ d.useTls # "unset" /\ (d.useTls = "true") # (d.mode # "none")
    \/ RequireTls(d) /\ TlsMode(d) = "none"

(* assert_mailpit_environment *)
MailpitRefused(d) == d.environment \notin {"development", "test"}

(* The constructors of the providers raise EmailConfigurationError.        *)
(* credentials: SMTP_USERNAME and SMTP_PASSWORD, or RESEND_API_KEY.        *)
SmtpRefused(d) == EmailConfigRefused(d) \/ d.credentials = "partial"

ResendRefused(d) == d.credentials # "set"

(* get_email_provider *)
ProviderRefused(d) ==
    CASE d.provider = "smtp" -> SmtpRefused(d)
      [] d.provider = "mailpit" -> MailpitRefused(d)
      [] d.provider = "resend" -> ResendRefused(d)

(* validate_email_configuration: a worker whose EMAIL_PROVIDER is set      *)
(* (named) does not start with a provider it cannot construct.             *)
StartsUp(d) == d.named => ~ProviderRefused(d) /\ d.sender # 0

(* validate_email_address, of the recipient in the event *)
RecipientRefused(d) == d.recipient = "invalid"

(* The commands of one SMTP conversation, from _connect on. *)
Conversation(d) ==
    LET mode == IF d.provider = "mailpit" THEN "none" ELSE TlsMode(d)
        login == d.provider = "smtp" /\ d.credentials = "set"
    IN  <<"connect">> \o (IF mode = "starttls" THEN <<"starttls">> ELSE <<>>)
          \o (IF login THEN <<"login">> ELSE <<>>) \o <<"mail", "rcpt", "data", "body">>

-----------------------------------------------------------------------------
(* Outcomes *)

(* The job has its outcome; what it did stays visible until it is recorded. *)
Tell(a, outcome) == [a EXCEPT !.pc = "told", !.told = outcome]

(* Mutant of Unknown: the window is offered without a key. *)
UnknownRetried(d) == "retry_within"

(* An EmailOutcomeUnknownError carries a window only if the request has a key. *)
Unknown(d) == IF d.keyed THEN "retry_within" ELSE "ambiguous"

(* _classify: exceptions with a reply code, and the ones it may call permanent *)
IsResponse(e) == e.class \in {"reply", "sender", "data"}
IsPermanent(e) == e.class \in {"sender", "data", "recipients"} /\ e.code = 5

(* Mutants of SmtpOutcome: closing fails the send; without a reply code it *)
(* is not sent; data without a final reply counts as accepted.             *)
QuitFailsSend(a) ==
    IF a.error = NoError THEN "sent"
    ELSE IF a.phase # "envelope" /\ ~IsResponse(a.error) THEN "ambiguous"
    ELSE IF IsPermanent(a.error) THEN "permanent"
    ELSE IF a.phase = "envelope" /\ a.error.code = 0 THEN "not_sent" ELSE "failed"
NotSentWithoutCode(a) ==
    IF a.error = NoError \/ a.phase = "accepted" THEN "sent"
    ELSE IF IsPermanent(a.error) THEN "permanent"
    ELSE IF a.error.code = 0 THEN "not_sent" ELSE "failed"
DataIsAccepted(a) ==
    IF a.error = NoError \/ a.phase # "envelope" THEN "sent"
    ELSE IF IsPermanent(a.error) THEN "permanent"
    ELSE IF a.error.code = 0 THEN "not_sent" ELSE "failed"

(* SmtpEmailProvider.send: what an execution that left the connection reports *)
SmtpOutcome(a) ==
    IF a.error = NoError \/ a.phase = "accepted" THEN "sent"
    ELSE IF a.phase = "data" /\ ~IsResponse(a.error) THEN "ambiguous"
    ELSE IF IsPermanent(a.error) THEN "permanent"
    ELSE IF a.phase = "envelope" /\ a.error.code = 0 THEN "not_sent" ELSE "failed"

(* How an answer is read: "unreadable" is a 2xx without an id, "mismatch"  *)
(* the 409 of a key used for another body, "400" an invalid request, "429" *)
(* one with a readable hint, "4xx" every other refusal.                    *)
HttpAnswers == {"2xx", "unreadable", "mismatch", "400", "429", "4xx", "5xx"}

(* ResendEmailProvider.send: the outcome of an answer *)
ResendOutcome(d, status) ==
    CASE status = "2xx" -> "sent"
      [] status = "mismatch" \/ status = "400" -> "permanent"
      [] status = "429" -> "deferred"
      [] status = "unreadable" \/ status = "5xx" -> Unknown(d)
      [] OTHER -> "failed"

-----------------------------------------------------------------------------
(* The job *)

(* The event is claimed and its execution begins, unless it has no attempt *)
(* left or the window an ambiguous attempt opened has closed.              *)
Start ==
    /\ letter.status = "pending" /\ letter.due = 0 /\ attempt.pc = "idle"
    /\ IF letter.attempts = MaxAttempts \/ (letter.tagged /\ age >= Window)
       THEN letter' = [letter EXCEPT !.status = "dead"] /\ UNCHANGED attempt
       ELSE /\ letter' = [letter EXCEPT !.attempts = @ + 1]
            /\ attempt' = [NoAttempt EXCEPT !.pc = "compose"]
    /\ UNCHANGED <<deployment, switched, age, outside>>

(* _send_email_channel up to the provider's send: the sender is set, the   *)
(* message is valid, then the provider is constructed.  Every refusal but  *)
(* that of the recipient's address is configuration and says not sent.     *)
Compose ==
    /\ attempt.pc = "compose"
    /\ attempt' =
         IF deployment.sender = 0 THEN Tell(attempt, "not_sent")
         ELSE IF RecipientRefused(deployment) THEN Tell(attempt, "permanent")
         ELSE IF ProviderRefused(deployment) THEN Tell(attempt, "not_sent")
         ELSE IF deployment.provider = "resend" THEN [attempt EXCEPT !.pc = "resolve"]
         ELSE [attempt EXCEPT !.pc = "smtp", !.todo = Conversation(deployment)]
    /\ UNCHANGED <<deployment, switched, letter, age, outside>>

(* The outbox records the outcome: published, dead-lettered, or due again  *)
(* after a delay; a window, once opened, stays.                            *)
RecordOutcome(delay) ==
    /\ attempt.pc = "told"
    /\ LET told == attempt.told
           again == /\ letter.attempts < MaxAttempts
                    /\ \/ told \in {"deferred", "not_sent", "failed"}
                       \/ told = "retry_within" /\ age + delay < Window
           tagged == letter.tagged \/ told = "retry_within"
       IN  letter' = IF told = "sent" THEN [letter EXCEPT !.status = "published"]
                     ELSE IF again THEN [letter EXCEPT !.due = delay, !.tagged = tagged]
                     ELSE [letter EXCEPT !.status = "dead", !.tagged = tagged]
    /\ attempt' = NoAttempt
    /\ UNCHANGED <<deployment, switched, age, outside>>

-----------------------------------------------------------------------------
(* SMTP *)

(* The exception smtplib raises for a refused command. *)
RefusalOf(step) ==
    CASE step = "mail" -> "sender"
      [] step = "rcpt" -> "recipients"
      [] step \in {"data", "body"} -> "data"
      [] OTHER -> "reply"

(* The command at hand succeeds: 354 to DATA opens the data phase, 250 to  *)
(* the body closes it and the relay has the message (_track_phase).        *)
CommandDone ==
    /\ attempt.pc = "smtp"
    /\ LET step == Head(attempt.todo)
           rest == [attempt EXCEPT !.todo = Tail(@)]
       IN  CASE step = "data" ->
                  attempt' = [rest EXCEPT !.phase = "data", !.wrote = TRUE] /\ UNCHANGED outside
             [] step = "body" ->
                  /\ attempt' = [rest EXCEPT !.phase = "accepted", !.took = TRUE, !.pc = "quit"]
                  /\ outside' = [outside EXCEPT !.taken = @ + 1]
             [] OTHER -> attempt' = rest /\ UNCHANGED outside
    /\ UNCHANGED <<deployment, switched, letter, age>>

(* The relay refuses the command with a reply code; leaving the connection *)
(* then sends QUIT, unless it was never opened.  SMTPNotSupportedError has *)
(* no code.                                                                *)
CommandRefused(code) ==
    /\ attempt.pc = "smtp"
    /\ LET step == Head(attempt.todo)
           new == [attempt EXCEPT !.error = [class |-> RefusalOf(step), code |-> code], !.pc = "quit"]
       IN  /\ code = 0 => step \in {"starttls", "login"}
           /\ attempt' = IF step = "connect" THEN Tell(new, SmtpOutcome(new))
                         ELSE IF code = 0
                         THEN [new EXCEPT !.error = [class |-> "other", code |-> 0]] ELSE new
    /\ UNCHANGED <<deployment, switched, letter, age, outside>>

(* No reply: smtplib closes the connection, so no QUIT follows.  A body    *)
(* that had left in full may have been taken.                              *)
CommandLost(took) ==
    /\ attempt.pc = "smtp"
    /\ took => Head(attempt.todo) = "body"
    /\ LET new == [attempt EXCEPT !.error = [class |-> "other", code |-> 0], !.took = took]
       IN  attempt' = Tell(new, SmtpOutcome(new))
    /\ outside' = IF took THEN [outside EXCEPT !.taken = @ + 1] ELSE outside
    /\ UNCHANGED <<deployment, switched, letter, age>>

(* Leaving the connection: a QUIT answered by anything but 221 raises in   *)
(* the place of whatever was being raised; a lost one is ignored.          *)
Quit(odd) ==
    /\ attempt.pc = "quit"
    /\ LET new == IF odd = 0 THEN attempt
                  ELSE [attempt EXCEPT !.error = [class |-> "reply", code |-> odd]]
       IN  attempt' = Tell(new, SmtpOutcome(new))
    /\ UNCHANGED <<deployment, switched, letter, age, outside>>

-----------------------------------------------------------------------------
(* Resend, through the egress client *)

(* _validated_addresses: an answer for every address, is it public; one    *)
(* that is not refuses them all.                                           *)
Validated(answer) == answer # <<>> /\ \A i \in DOMAIN answer : answer[i]

(* _resolve: nothing resolves, no lookup slot is free or the deadline      *)
(* passes (no answer), and nothing was sent.                               *)
Resolve(answer) ==
    /\ attempt.pc = "resolve"
    /\ attempt' = IF ~Validated(answer) THEN Tell(attempt, "not_sent")
                  ELSE [attempt EXCEPT !.pc = "connect", !.left =
                          IF Len(answer) < MaxAddressesTried THEN Len(answer) ELSE MaxAddressesTried]
    /\ UNCHANGED <<deployment, switched, letter, age, outside>>

(* An address does not accept the connection in time: the next is tried.   *)
(* Without one, or with the deadline gone, nothing was sent.               *)
ConnectFails ==
    /\ attempt.pc = "connect"
    /\ \/ attempt.left > 1 /\ attempt' = [attempt EXCEPT !.left = @ - 1]
       \/ attempt' = Tell(attempt, "not_sent")
    /\ UNCHANGED <<deployment, switched, letter, age, outside>>

(* The handshake or the proxy refuses: no other address is tried. *)
ConnectRefused ==
    /\ attempt.pc = "connect"
    /\ attempt' = Tell(attempt, "not_sent")
    /\ UNCHANGED <<deployment, switched, letter, age, outside>>

Connected ==
    /\ attempt.pc = "connect"
    /\ attempt' = [attempt EXCEPT !.pc = "exchange", !.wrote = TRUE, !.requests = @ + 1]
    /\ UNCHANGED <<deployment, switched, letter, age, outside>>

(* asyncio.timeout in _request: once addresses were validated the request  *)
(* counts as possibly sent, though none may have been written.             *)
DeadlinePasses ==
    /\ attempt.pc = "connect"
    /\ attempt' = Tell(attempt, Unknown(deployment))
    /\ UNCHANGED <<deployment, switched, letter, age, outside>>

(* Mutant of AfterExchange: a read timeout moves on to the next address. *)
TimeoutTriesNext(a) ==
    IF a.left > 1 THEN [a EXCEPT !.pc = "connect", !.left = @ - 1] ELSE Tell(a, Unknown(deployment))

(* _try_addresses when _exchange failed with the request possibly sent *)
AfterExchange(a) == Tell(a, Unknown(deployment))

(* Resend, external: a key it still keeps is answered from its first use,  *)
(* or refused for another body; any other request is taken or refused.     *)
KeyHeld ==
    deployment.keyed /\ outside.key # NoKey /\ age < outside.key.since + KeyRetention

Replay == IF outside.key.sender = deployment.sender THEN "2xx" ELSE "mismatch"

Taken ==
    [taken |-> outside.taken + 1,
     key |-> IF deployment.keyed THEN [since |-> age, sender |-> deployment.sender] ELSE outside.key]

(* The answer arrives.  A 5xx and an unreadable 2xx leave open what Resend *)
(* did with a request it had not seen.                                     *)
Answered(status, took) ==
    /\ attempt.pc = "exchange"
    /\ took => ~KeyHeld
    /\ \/ status = "2xx" /\ (took \/ (KeyHeld /\ Replay = "2xx"))
       \/ status = "mismatch" /\ ~took /\ KeyHeld /\ Replay = "mismatch"
       \/ status \in {"5xx", "unreadable"}
       \/ status \in {"400", "429", "4xx"} /\ ~took
    /\ outside' = IF took THEN Taken ELSE outside
    /\ attempt' = Tell([attempt EXCEPT !.took = took], ResendOutcome(deployment, status))
    /\ UNCHANGED <<deployment, switched, letter, age>>

(* No usable answer: a timeout, a lost connection, a redirect, a body that *)
(* is too large or encoded, the deadline.                                  *)
Unanswered(took) ==
    /\ attempt.pc = "exchange"
    /\ took => ~KeyHeld
    /\ outside' = IF took THEN Taken ELSE outside
    /\ attempt' = AfterExchange([attempt EXCEPT !.took = @ \/ took])
    /\ UNCHANGED <<deployment, switched, letter, age>>

-----------------------------------------------------------------------------
(* Time, and the operator *)

(* An hour passes; at most one does between the check of the window and    *)
(* the end of the send (dispatch latency and clock skew).                  *)
HourPasses ==
    /\ age < MaxAge /\ letter.status = "pending"
    /\ attempt.pc # "idle" => ~attempt.late
    /\ age' = age + 1
    /\ letter' = [letter EXCEPT !.due = IF @ > 0 THEN @ - 1 ELSE 0]
    /\ attempt' = IF attempt.pc = "idle" THEN attempt ELSE [attempt EXCEPT !.late = TRUE]
    /\ UNCHANGED <<deployment, switched, outside>>

(* The worker restarts with another sender, or with SMTP for Resend. *)
Reconfigure ==
    /\ letter.status = "pending" /\ attempt.pc = "idle" /\ letter.attempts > 0 /\ ~switched
    /\ \/ /\ \E s \in Senders \ {deployment.sender} : deployment' = [deployment EXCEPT !.sender = s]
          /\ UNCHANGED switched
       \/ /\ deployment.provider = "resend"
          /\ deployment' = [deployment EXCEPT !.provider = "smtp"]
          /\ switched' = TRUE
    /\ StartsUp(deployment')
    /\ UNCHANGED <<letter, age, attempt, outside>>

MailInit ==
    /\ deployment \in {d \in Deployments : StartsUp(d)}
    /\ switched = FALSE
    /\ letter = [status |-> "pending", attempts |-> 0, tagged |-> FALSE, due |-> 0]
    /\ age = 0
    /\ attempt = NoAttempt
    /\ outside = [taken |-> 0, key |-> NoKey]

MailNext ==
    \/ Start \/ Compose \/ CommandDone \/ Connected \/ ConnectFails \/ ConnectRefused
    \/ DeadlinePasses \/ HourPasses \/ Reconfigure
    \/ \E delay \in 1 .. MaxDelay : RecordOutcome(delay)
    \/ \E code \in {0, 4, 5} : CommandRefused(code) \/ Quit(code)
    \/ \E n \in 0 .. MaxAddressesTried + 1 : \E answer \in [1 .. n -> BOOLEAN] : Resolve(answer)
    \/ \E took \in BOOLEAN :
         \/ CommandLost(took) \/ Unanswered(took)
         \/ \E status \in HttpAnswers : Answered(status, took)

MailSpec == MailInit /\ [][MailNext]_mailVars

-----------------------------------------------------------------------------
(* Properties *)

(* While the deployment keeps its provider, the automatic retries of one   *)
(* event put at most one message in the provider's hands, whatever answers *)
(* were lost and whatever sender is configured meanwhile: SMTP never       *)
(* repeats a send it cannot account for, and a keyed request is repeated   *)
(* only while Resend still knows the key.                                  *)
MailedOnce == ~switched => outside.taken <= 1

(* A send reported as not sent never put its message on a connection. *)
NotSentIsNotSent == attempt.told = "not_sent" => ~attempt.wrote

(* A message the provider took in this attempt is reported sent or         *)
(* unknown: never as a failure, which would be retried without limit or    *)
(* shown to the operator as undelivered.                                   *)
TakenIsNotFailed ==
    attempt.told # "nothing" /\ attempt.took =>
      attempt.told \in {"sent", "ambiguous", "retry_within"}

(* A published event's message is in a provider's hands. *)
PublishedWasTaken == letter.status = "published" => outside.taken > 0

(* One attempt writes at most one request, however many addresses the      *)
(* host name has: only a connection that was never made is tried again.    *)
OneRequestPerAttempt == attempt.requests <= 1

(* No message leaves over an unencrypted SMTP connection in production     *)
(* unless SMTP_REQUIRE_TLS=false says so, and none goes to Mailpit outside *)
(* development and test, whichever settings are left unset.                *)
ClearOnlyByChoice ==
    attempt.wrote =>
      /\ deployment.provider = "mailpit" => deployment.environment \in {"development", "test"}
      /\ deployment.provider = "smtp" /\ TlsMode(deployment) = "none" =>
           deployment.environment # "production" \/ deployment.requireTls = "false"

(* A notification is mailed once, and its event says neither more nor less *)
(* than what happened.                                                     *)
MailedTruthfully ==
    /\ MailTypeOK /\ MailedOnce /\ NotSentIsNotSent /\ TakenIsNotFailed
    /\ PublishedWasTaken /\ OneRequestPerAttempt /\ ClearOnlyByChoice

=============================================================================
