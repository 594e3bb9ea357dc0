------------------------------ MODULE Providers ------------------------------
(***************************************************************************)
(* The last step of a notification: the adapters of notifications/         *)
(* providers, each with its own idea of acceptance, retries and            *)
(* connections, under the Dispatcher that retries what they throw.         *)
(* Delivery models queue, records and crashes above it.                    *)
(*                                                                         *)
(* A send is a job: a message, or the alert an admin is mailed about a     *)
(* dead one.  Between two awaits a job runs alone.                         *)
(***************************************************************************)
EXTENDS Naturals, FiniteSets

CONSTANTS
  Messages,     \* notification records
  SmsProviders, \* names NOTIF_SMS_PROVIDER may hold
  Setups,       \* what is configured: [account, sender, number, template]
  Statuses,     \* HTTP statuses a service answers
  MaxAttempts,  \* a record's budget
  Tries,        \* calls of one WhatsApp send: 1 + RETRY_BACKOFFS_MS.length
  AlertsOn      \* NOTIF_DLQ_ALERT with an address

ASSUME ProvidersAssumption == /\ MaxAttempts \in Nat \ {0}
                              /\ Tries \in Nat \ {0}
                              /\ AlertsOn \in BOOLEAN
                              /\ Statuses \subseteq 100..599

VARIABLES
  channel,    \* message -> channel
  sms,        \* the SMS provider in use
  setup,      \* its configuration
  status, attempts,   \* of the record
  send,       \* job -> where its send stands
  transport,  \* the SMTP provider's cached transport, 0 for none
  made,       \* transports made so far: their names
  broken,     \* history: transports a send found broken
  unheard,    \* history: calls of a job whose answer was lost
  taken,      \* history: how often the service took a job on
  final       \* history: answers after which a job is settled

vars == <<channel, sms, setup, status, attempts, send, transport, made,
          broken, unheard, taken, final>>

Jobs == Messages \X {"message", "alert"}
Idle == [at |-> "idle"]

\* getProvider
ProviderOf(j) ==
  LET on == IF j[2] = "alert" THEN "email" ELSE channel[j[1]]
  IN CASE on = "email" -> "smtp" [] on = "whatsapp" -> "meta" [] OTHER -> sms

Gateways == {"msg91", "airtel"}   \* those that classify their errors

-----------------------------------------------------------------------------
(* Configuration *)

\* msg91TemplateFor: an override supplies what is unresolved.
TemplateReady(t) == /\ t.known /\ t.id
                    /\ t.unresolved => t.override
                    /\ t.override \/ t.defaults

\* What each gateway asks for before it is called.
Msg91Ready  == setup.number /\ TemplateReady(setup.template)
AirtelReady == setup.sender /\ setup.template.id /\ setup.number

Configured(p) == /\ setup.account
                 /\ p = "msg91" => Msg91Ready
                 /\ p = "airtel" => AirtelReady

-----------------------------------------------------------------------------
(* Answers of an HTTP service; status 0 is a network error or a time-out *)

Silence == [status |-> 0, body |-> "none"]
Answers == {Silence} \union [status : Statuses, body : {"ack", "error", "none"}]

\* MSG91 and Airtel IQ must name the message they took; Twilio's library and
\* Meta's status say it.
Ok(a) == a.status \in 200..299   \* res.ok
Msg91Takes(a)  == Ok(a) /\ a.body = "ack"
AirtelTakes(a) == Ok(a) /\ a.body = "ack"
TwilioTakes(a) == Ok(a)

AnyOk(p, a) == Ok(a)   \* mutant: no evidence of acceptance asked for
Succeeds(p, a) == CASE p = "msg91"  -> Msg91Takes(a)
                    [] p = "airtel" -> AirtelTakes(a)
                    [] p = "twilio" -> TwilioTakes(a)
                    [] OTHER        -> Ok(a)

\* MSG91's ack is of the request, not of the delivery.
Submission(p) == IF p = "msg91" THEN "submitted" ELSE "sent"

AlwaysRetryable(p, a) == TRUE   \* mutant: the flag is not set
Retryable(p, a) ==
  p \in Gateways => a.status \in {0, 408, 429, 500, 502, 503, 504}

\* isTransientStatus; only the WhatsApp adapter calls again by itself.
TriedAgain(p, a) == p = "meta" /\ (a.status \in {0, 429} \/ a.status >= 500)

\* Did the service take the message?  A gateway may answer 2xx and refuse;
\* when nothing readable comes back nobody knows.
MayTake(p, a) ==
  CASE Ok(a) /\ p \in Gateways ->
         (CASE a.body = "ack" -> {TRUE} [] a.body = "error" -> {FALSE} [] OTHER -> BOOLEAN)
    [] Ok(a) /\ p \notin Gateways -> {TRUE}
    [] a.status = 0   -> BOOLEAN
    [] OTHER          -> {FALSE}

\* No further call can change it: the service has it, or (for an SMS gateway)
\* the number, template or credentials are wrong.
Settles(p, a) == \/ Ok(a)
                 \/ p \in Gateways /\ a.status \in 400..499 \ {408, 429}

Count(history, j, event) == [history EXCEPT ![j] = @ + IF event THEN 1 ELSE 0]

-----------------------------------------------------------------------------
(* The Dispatcher *)

After(m, result) ==
  CASE result \in {"sent", "submitted"} -> result
    [] result = "failed" /\ attempts[m] + 1 < MaxAttempts -> "failed"
    [] OTHER -> "dead"

\* What send returned or threw.  An alert's failure is only logged.
Outcome(j, result) ==
  LET m == j[1]
  IN IF j[2] = "alert"
       THEN send' = [send EXCEPT ![j] = Idle] /\ UNCHANGED <<status, attempts>>
       ELSE /\ status' = [status EXCEPT ![m] = After(m, result)]
            /\ attempts' = [attempts EXCEPT ![m] = @ + 1]
            /\ send' = [send EXCEPT ![j] = Idle,
                          ![<<m, "alert">>] = IF AlertsOn /\ After(m, result) = "dead"
                                                THEN [at |-> "due"] ELSE @]

\* A thrown error without a flag is retryable.
Refusal(p) == IF p \in Gateways THEN "refused" ELSE "failed"

\* provider.send up to its first await.
Start(j) ==
  LET p == ProviderOf(j)
  IN IF p = "smtp"
       THEN /\ send' = [send EXCEPT ![j] = IF transport # 0 THEN [at |-> "smtp", tx |-> transport]
                                           ELSE [at |-> "import"]]
            /\ UNCHANGED attempts
       ELSE IF Configured(p)
         THEN send' = [send EXCEPT ![j] = [at |-> "post", try |-> 1]] /\ UNCHANGED attempts
         ELSE Outcome(j, Refusal(p))

Process(m) ==
  /\ status[m] \in {"queued", "failed"}
  /\ Start(<<m, "message">>)
  /\ ProviderOf(<<m, "message">>) = "smtp" \/ Configured(ProviderOf(<<m, "message">>)) =>
       status' = [status EXCEPT ![m] = "processing"]
  /\ UNCHANGED <<channel, sms, setup, transport, made, broken, unheard, taken, final>>

AlertAdmin(m) ==
  /\ send[<<m, "alert">>].at = "due"
  /\ Start(<<m, "alert">>)
  /\ UNCHANGED <<channel, sms, setup, status, transport, made, broken, unheard, taken, final>>

-----------------------------------------------------------------------------
(* HTTP adapters *)

Post(j, a) ==
  LET p == ProviderOf(j)
  IN /\ send[j].at = "post"
     /\ \E took \in MayTake(p, a) : taken' = Count(taken, j, took)
     /\ unheard' = Count(unheard, j, a = Silence)
     /\ final' = Count(final, j, Settles(p, a))
     /\ IF TriedAgain(p, a) /\ send[j].try < Tries
          THEN send' = [send EXCEPT ![j].try = @ + 1] /\ UNCHANGED <<status, attempts>>
          ELSE Outcome(j, IF Succeeds(p, a) THEN Submission(p)
                          ELSE IF Retryable(p, a) THEN "failed" ELSE "refused")
     /\ UNCHANGED <<channel, sms, setup, transport, made, broken>>

-----------------------------------------------------------------------------
(* The SMTP adapter *)

\* _tx after the import: two sends that both found no transport make one each,
\* and the later one is kept.
Imported(j) ==
  /\ send[j].at = "import"
  /\ IF setup.account
       THEN /\ made' = made + 1
            /\ transport' = made'
            /\ send' = [send EXCEPT ![j] = [at |-> "smtp", tx |-> made']]
            /\ UNCHANGED <<status, attempts>>
       ELSE Outcome(j, "failed") /\ UNCHANGED <<made, transport>>
  /\ UNCHANGED <<channel, sms, setup, broken, unheard, taken, final>>

MailTaken(j) ==
  /\ send[j].at = "smtp"
  /\ Outcome(j, "sent")
  /\ taken' = Count(taken, j, TRUE) /\ final' = Count(final, j, TRUE)
  /\ UNCHANGED <<channel, sms, setup, transport, made, broken, unheard>>

\* Refused by the relay, or all recipients rejected.
MailRefused(j) ==
  /\ send[j].at = "smtp"
  /\ Outcome(j, "failed")
  /\ UNCHANGED <<channel, sms, setup, transport, made, broken, unheard, taken, final>>

TransportKept == transport' = transport   \* mutant: _resetTransport is not called
\* Whatever transport is cached by now goes, the broken one or its successor.
ResetTransport == transport' = 0

ConnectionBreaks(j) ==
  /\ send[j].at = "smtp"
  /\ broken' = broken \union {send[j].tx}
  /\ ResetTransport
  /\ \E took \in BOOLEAN : taken' = Count(taken, j, took)
  /\ unheard' = Count(unheard, j, TRUE)
  /\ Outcome(j, "failed")
  /\ UNCHANGED <<channel, sms, setup, made, final>>

-----------------------------------------------------------------------------
None == [j \in Jobs |-> 0]

Init == /\ channel \in [Messages -> {"email", "sms", "whatsapp"}]
        /\ sms \in SmsProviders
        /\ setup \in Setups
        /\ status = [m \in Messages |-> "queued"]
        /\ attempts = [m \in Messages |-> 0]
        /\ send = [j \in Jobs |-> Idle]
        /\ transport = 0 /\ made = 0 /\ broken = {}
        /\ unheard = None /\ taken = None /\ final = None

Next == \/ \E m \in Messages : Process(m) \/ AlertAdmin(m)
        \/ \E j \in Jobs : \/ \E a \in Answers : Post(j, a)
                           \/ Imported(j) \/ MailTaken(j) \/ MailRefused(j)
                           \/ ConnectionBreaks(j)

Spec == Init /\ [][Next]_vars

-----------------------------------------------------------------------------
\* A message is handed to a service again only when that can help: twice taken
\* means an answer was lost in between, and a gateway's final no is the last
\* call.  It needs acceptance, the retryable flag, the WhatsApp adapter's own
\* tries and the Dispatcher's to agree with one another.
NeverRepeatedInVain ==
  \A j \in Jobs : taken[j] <= 1 + unheard[j] /\ final[j] <= 1

\* A record says sent or submitted only if its service took the message, in
\* whatever shape an answer to a refused one came ("positive evidence of
\* acceptance", AirtelIqSmsProvider.js:135; Msg91SmsProvider.js:133).
SentWasTaken ==
  \A m \in Messages : status[m] \in {"sent", "submitted"} => taken[<<m, "message">>] > 0

\* Once a send found its connection broken no other send starts on that
\* transport, however many sends were under way on it or were making another
\* (SmtpEmailProvider.js:145).
BrokenIsNotReused ==
  [][\A j \in Jobs : send'[j].at = "smtp" /\ send[j].at # "smtp" => send'[j].tx \notin broken]_vars

=============================================================================
