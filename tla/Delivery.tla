------------------------------ MODULE Delivery ------------------------------
(***************************************************************************)
(* The delivery engine of src/notifications: NotificationService turns an  *)
(* event into one record per channel, InProcessQueue polls the records     *)
(* that are due and Dispatcher sends them, retries them and gives them up. *)
(*                                                                         *)
(* A step is the code between two awaits.  An update of the JSON store is  *)
(* one step: its mutator runs alone, and a fault is an update that throws  *)
(* and writes nothing.  An audit row is a step of its own, for its append  *)
(* may throw.  Backoff and staleness are clocks: a backoff may end at any  *)
(* time, and a sweep may find any record in "processing" stale.            *)
(***************************************************************************)
EXTENDS Integers, Sequences, Functions

CONSTANTS
  Keys,          \* what an idempotency key digests of an event: event, recipient, business key
  Channels,      \* the channels of the workflow, in its order
  Unreachable,   \* notes without a valid recipient or an approved template
  Emissions,     \* emissions of events
  KeyOf,         \* emission -> its key
  Workers,       \* the concurrency of the queue
  MaxAttempts,   \* config.retry.maxAttempts
  SlowSends,     \* a send can outlast recoverStale's limit
  AnswersLost,   \* a provider may accept a message and its answer be lost
  ExtraAttempts, \* extra budgets an admin's retry asks for
  MaxRetries,    \* bound on admin retries
  MaxFaults,     \* bound on store writes that throw
  MaxCrashes,    \* bound on process restarts
  None           \* no note

\* A record is known by its key and channel.
ChannelSet == {Channels[i] : i \in DOMAIN Channels}
Notes == Keys \X ChannelSet

ASSUME ChannelsAssumption == /\ Channels \in Seq(ChannelSet)
                             /\ Channels # <<>> /\ IsInjective(Channels)
ASSUME KeyOfAssumption == KeyOf \in [Emissions -> Keys]
ASSUME BudgetAssumption == /\ MaxAttempts \in Nat \ {0}
                           /\ ExtraAttempts \subseteq 1..5
                           /\ MaxRetries \in Nat
                           /\ MaxFaults \in Nat
                           /\ MaxCrashes \in Nat
ASSUME SwitchAssumption == SlowSends \in BOOLEAN /\ AnswersLost \in BOOLEAN
ASSUME NoneAssumption == None \notin Notes

VARIABLES
  rec,          \* note -> its record's status, attempts, maxAttempts, due
  deadLetters,  \* notes in db.deadLetters
  hpc,          \* emission -> where its handleEvent stands
  channel,      \* emission -> index of the channel it is at
  due,          \* what findDue gave the drain and it has not looked at yet;
                \* file order is left out, for a drain looks at every record
  wpc,          \* worker -> where its process() stands
  job,          \* worker -> the record it read
  admin,        \* the retry request in progress: the note it read, its attempts
  tries,        \* note -> calls of its provider
  sends,        \* note -> calls its provider accepted
  budget        \* faults, crashes and retries so far

records == <<rec, deadLetters>>
intake  == <<hpc, channel>>
work    == <<due, wpc, job>>
calls   == <<tries, sends>>
vars    == <<records, intake, work, admin, calls, budget>>

-----------------------------------------------------------------------------
Sendable == {"queued", "failed"}
Settled  == {"sent", "dead"}
Statuses == Sendable \cup Settled \cup {"absent", "processing"}

NoRecord == [status |-> "absent", attempts |-> 0, max |-> 0, due |-> FALSE]
NoJob    == [note |-> None, attempts |-> 0, max |-> 0, retryable |-> TRUE]
NoRetry  == [note |-> None, attempts |-> 0]

Idle == {w \in Workers : wpc[w] = "idle"}
InFlight == {job[w].note : w \in Workers \ Idle}

\* repository.update: the record becomes r.
Update(n, r) == rec' = [rec EXCEPT ![n] = r]

LeaveBusy(w) == wpc' = [wpc EXCEPT ![w] = "idle"] /\ UNCHANGED job   \* mutant

\* process() resolves or rejects: its note leaves inFlight.
Leave(w) == /\ wpc' = [wpc EXCEPT ![w] = "idle"]
            /\ job' = [job EXCEPT ![w] = NoJob]

Step(w, from, to) == /\ wpc[w] = from
                     /\ wpc' = [wpc EXCEPT ![w] = to]

-----------------------------------------------------------------------------
(* NotificationService.handleEvent                                          *)

\* emitEvent: the handler runs later, from setImmediate.
EmitEvent(e) ==
  /\ hpc[e] = "none"
  /\ hpc' = [hpc EXCEPT ![e] = "create"]
  /\ UNCHANGED <<records, channel, work, admin, calls, budget>>

NoteOf(e) == <<KeyOf[e], Channels[channel[e]]>>

NeverSeen(n) == FALSE   \* mutant: create() in place of createIfAbsent
Seen(n) == rec[n].status # "absent"

FreshRecord == [status |-> "queued", attempts |-> 0, max |-> MaxAttempts, due |-> TRUE]

\* createIfAbsent for the channel, unless it has nobody to send to.  An audit
\* row follows in every case.
CreateIfAbsent(e) ==
  LET n == NoteOf(e)
  IN /\ hpc[e] = "create"
     /\ hpc' = [hpc EXCEPT ![e] = "audit"]
     /\ IF n \in Unreachable \/ Seen(n)
        THEN UNCHANGED records
        ELSE /\ Update(n, FreshRecord)
             /\ UNCHANGED deadLetters
     /\ UNCHANGED <<channel, work, admin, calls, budget>>

\* The audit row is written: on to the next channel.
NextChannel(e) ==
  /\ hpc[e] = "audit"
  /\ IF channel[e] < Len(Channels)
     THEN /\ channel' = [channel EXCEPT ![e] = @ + 1]
          /\ hpc' = [hpc EXCEPT ![e] = "create"]
     ELSE hpc' = [hpc EXCEPT ![e] = "done"] /\ UNCHANGED channel
  /\ UNCHANGED <<records, work, admin, calls, budget>>

-----------------------------------------------------------------------------
(* InProcessQueue                                                           *)

IsDue(n) == rec[n].status \in Sendable /\ rec[n].due

\* A tick, or the hint of enqueue: _drain asks findDue unless every worker is
\* busy.
FindDue ==
  /\ due = {} /\ Idle # {}
  /\ due' = {n \in Notes : IsDue(n)}
  /\ UNCHANGED <<records, intake, wpc, job, admin, calls, budget>>

NotBusy(n) == FALSE   \* mutant: inFlight is not asked
Busy(n) == n \in InFlight

\* A record of the drain, to a free worker: a note in flight is passed over,
\* and process() returns at once for a record that is not sendable.
StartNext(w, n) ==
  /\ w \in Idle /\ n \in due
  /\ due' = due \ {n}
  /\ IF Busy(n) \/ rec[n].status \notin Sendable
     THEN UNCHANGED <<wpc, job>>
     ELSE /\ wpc' = [wpc EXCEPT ![w] = "mark"]
          /\ job' = [job EXCEPT ![w] = [note |-> n, attempts |-> rec[n].attempts,
                                        max |-> rec[n].max, retryable |-> TRUE]]
  /\ UNCHANGED <<records, intake, admin, calls, budget>>

\* No worker is left: the loop breaks.
BreakDrain ==
  /\ due # {} /\ Idle = {}
  /\ due' = {}
  /\ UNCHANGED <<records, intake, wpc, job, admin, calls, budget>>

NoRecovery(n) == rec[n]   \* mutant: the sweep writes nothing
Recovered(n) == [rec[n] EXCEPT !.status = "failed", !.due = TRUE]

\* recoverStale returns a record left in "processing" to the retry path.
RecoverStale(n) ==
  /\ rec[n].status = "processing"
  /\ SlowSends \/ n \notin InFlight
  /\ Update(n, Recovered(n))
  /\ UNCHANGED <<deadLetters, intake, work, admin, calls, budget>>

\* The record's nextAttemptAt is reached.
BackoffEnds(n) ==
  /\ rec[n].status = "failed" /\ ~rec[n].due
  /\ Update(n, [rec[n] EXCEPT !.due = TRUE])
  /\ UNCHANGED <<deadLetters, intake, work, admin, calls, budget>>

-----------------------------------------------------------------------------
(* Dispatcher.process                                                       *)

MarkProcessing(w) ==
  /\ Step(w, "mark", "send")
  /\ Update(job[w].note, [rec[job[w].note] EXCEPT !.status = "processing"])
  /\ UNCHANGED <<deadLetters, intake, due, job, admin, calls, budget>>

Call(w) == tries' = [tries EXCEPT ![job[w].note] = @ + 1]

ProviderAccepts(w) ==
  /\ Step(w, "send", "record")
  /\ Call(w)
  /\ sends' = [sends EXCEPT ![job[w].note] = @ + 1]
  /\ UNCHANGED <<records, intake, due, job, admin, budget>>

RefusalIgnored(w, retryable) ==   \* mutant: a refusal that does not throw
  /\ Step(w, "send", "record")
  /\ Call(w)
  /\ UNCHANGED <<records, intake, due, job, admin, sends, budget>>

\* The provider throws, for good (retryable = false) or for now.
ProviderRefuses(w, retryable) ==
  /\ Step(w, "send", "fail")
  /\ Call(w)
  /\ job' = [job EXCEPT ![w].retryable = retryable]
  /\ UNCHANGED <<records, intake, due, admin, sends, budget>>

\* The provider accepts, but the call throws: a timeout or a broken connection.
AnswerLost(w) ==
  /\ AnswersLost
  /\ Step(w, "send", "fail")
  /\ Call(w)
  /\ sends' = [sends EXCEPT ![job[w].note] = @ + 1]
  /\ UNCHANGED <<records, intake, due, job, admin, budget>>

SameAttempts(w) == job[w].attempts   \* mutant: the attempt is not counted
AttemptsMade(w) == job[w].attempts + 1

RecordSent(w) ==
  /\ Step(w, "record", "auditSent")
  /\ Update(job[w].note, [rec[job[w].note] EXCEPT !.status = "sent",
                                                 !.attempts = AttemptsMade(w)])
  /\ UNCHANGED <<deadLetters, intake, due, job, admin, calls, budget>>

\* The last audit row of a process() that succeeded, was retried or gave up.
AuditOutcome(w) ==
  /\ wpc[w] \in {"auditSent", "auditRetry", "auditDead"}
  /\ Leave(w)
  /\ UNCHANGED <<records, intake, due, admin, calls, budget>>

-----------------------------------------------------------------------------
(* Dispatcher._handleFailure, on the record as process() read it            *)

Exhausted(w) == ~job[w].retryable \/ AttemptsMade(w) >= job[w].max

ScheduleRetry(w) ==
  /\ ~Exhausted(w)
  /\ Step(w, "fail", "auditRetry")
  /\ Update(job[w].note, [rec[job[w].note] EXCEPT !.status = "failed",
                                                 !.attempts = AttemptsMade(w),
                                                 !.due = FALSE])
  /\ UNCHANGED <<deadLetters, intake, due, job, admin, calls, budget>>

GiveUp(w) ==
  /\ Exhausted(w)
  /\ Step(w, "fail", "push")
  /\ Update(job[w].note, [rec[job[w].note] EXCEPT !.status = "dead",
                                                 !.attempts = AttemptsMade(w)])
  /\ UNCHANGED <<deadLetters, intake, due, job, admin, calls, budget>>

PushDeadLetter(w) ==
  /\ Step(w, "push", "auditDead")
  /\ deadLetters' = deadLetters \cup {job[w].note}
  /\ UNCHANGED <<rec, intake, due, job, admin, calls, budget>>

-----------------------------------------------------------------------------
(* POST /:id/retry: read the record, then requeue it with a larger budget.  *)

RetryRead(n) ==
  /\ admin = NoRetry /\ Seen(n)
  /\ budget.retries < MaxRetries
  /\ budget' = [budget EXCEPT !.retries = @ + 1]
  /\ admin' = [note |-> n, attempts |-> rec[n].attempts]
  /\ UNCHANGED <<records, intake, work, calls>>

RetryWrite(extra) ==
  /\ admin # NoRetry
  /\ Update(admin.note, [rec[admin.note] EXCEPT !.status = "queued",
                                                !.due = TRUE,
                                                !.max = admin.attempts + extra + 1])
  /\ admin' = NoRetry
  /\ UNCHANGED <<deadLetters, intake, work, calls, budget>>

-----------------------------------------------------------------------------
(* Failures                                                                 *)

Fault == /\ budget.faults < MaxFaults
         /\ budget' = [budget EXCEPT !.faults = @ + 1]

\* The rest of the event's channels is lost: handleEvent's caller logs it.
HandlerThrows(e) ==
  /\ hpc[e] \in {"create", "audit"}
  /\ hpc' = [hpc EXCEPT ![e] = "lost"]
  /\ Fault
  /\ UNCHANGED <<records, channel, work, admin, calls>>

\* A write inside process()'s try fails: the sent message is handled as a failure.
SuccessThrows(w) ==
  /\ wpc[w] \in {"record", "auditSent"}
  /\ wpc' = [wpc EXCEPT ![w] = "fail"]
  /\ Fault
  /\ UNCHANGED <<records, intake, due, job, admin, calls>>

\* A write outside it fails: process() rejects and the queue logs it.
ProcessRejects(w) ==
  /\ wpc[w] \in {"mark", "fail", "auditRetry", "push", "auditDead"}
  /\ Leave(w)
  /\ Fault
  /\ UNCHANGED <<records, intake, due, admin, calls>>

\* The process dies: handlers, workers and requests with it; the files stay.
Restart ==
  /\ budget.crashes < MaxCrashes
  /\ budget' = [budget EXCEPT !.crashes = @ + 1]
  /\ hpc' = [e \in Emissions |-> IF hpc[e] \in {"create", "audit"} THEN "lost" ELSE hpc[e]]
  /\ due' = {}
  /\ wpc' = [w \in Workers |-> "idle"]
  /\ job' = [w \in Workers |-> NoJob]
  /\ admin' = NoRetry
  /\ UNCHANGED <<records, channel, calls>>

-----------------------------------------------------------------------------
Init ==
  /\ due = {}
  /\ rec = [n \in Notes |-> NoRecord]
  /\ deadLetters = {}
  /\ hpc = [e \in Emissions |-> "none"]
  /\ channel = [e \in Emissions |-> 1]
  /\ wpc = [w \in Workers |-> "idle"]
  /\ job = [w \in Workers |-> NoJob]
  /\ admin = NoRetry
  /\ tries = [n \in Notes |-> 0]
  /\ sends = [n \in Notes |-> 0]
  /\ budget = [faults |-> 0, crashes |-> 0, retries |-> 0]

Handle(e) == CreateIfAbsent(e) \/ NextChannel(e)

Process(w) ==
  \/ MarkProcessing(w) \/ ProviderAccepts(w) \/ AnswerLost(w)
  \/ \E retryable \in BOOLEAN : ProviderRefuses(w, retryable)
  \/ RecordSent(w) \/ AuditOutcome(w)
  \/ ScheduleRetry(w) \/ GiveUp(w) \/ PushDeadLetter(w)

Next ==
  \/ \E e \in Emissions : EmitEvent(e) \/ Handle(e) \/ HandlerThrows(e)
  \/ FindDue \/ BreakDrain
  \/ \E w \in Workers : (\E n \in Notes : StartNext(w, n)) \/ Process(w) \/ SuccessThrows(w) \/ ProcessRejects(w)
  \/ \E n \in Notes : RecoverStale(n) \/ BackoffEnds(n) \/ RetryRead(n)
  \/ \E extra \in ExtraAttempts : RetryWrite(extra)
  \/ Restart

Spec == Init /\ [][Next]_vars

\* Node runs every continuation and timer, providers time out, and the queue
\* polls and sweeps for as long as the process lives.
Fairness ==
  /\ \A e \in Emissions : WF_vars(Handle(e))
  /\ \A w \in Workers : WF_vars(Process(w))
  /\ WF_vars(FindDue) /\ WF_vars(BreakDrain)
  /\ WF_vars(\E w \in Workers, n \in Notes : StartNext(w, n))
  /\ \A n \in Notes : WF_vars(RecoverStale(n)) /\ WF_vars(BackoffEnds(n))

FairSpec == Spec /\ Fairness

-----------------------------------------------------------------------------
(* Types                                                                    *)

WorkerPCs == {"idle", "mark", "send", "record", "auditSent", "fail",
              "auditRetry", "push", "auditDead"}

Record  == [status : Statuses, attempts : Nat, max : Nat, due : BOOLEAN]
Job     == [note : Notes \cup {None}, attempts : Nat, max : Nat, retryable : BOOLEAN]
Request == [note : Notes \cup {None}, attempts : Nat]
Budget  == [faults : Nat, crashes : Nat, retries : Nat]

\* Every variable holds a value of the kind the engine stores in it.
TypeOK ==
  /\ rec \in [Notes -> Record] /\ deadLetters \subseteq Notes
  /\ hpc \in [Emissions -> {"none", "create", "audit", "done", "lost"}]
  /\ channel \in [Emissions -> 1..Len(Channels)]
  /\ due \subseteq Notes
  /\ wpc \in [Workers -> WorkerPCs] /\ job \in [Workers -> Job]
  /\ \A w \in Workers : wpc[w] = "idle" <=> job[w].note = None
  /\ admin = NoRetry \/ (admin \in Request /\ admin.note \in Notes)
  /\ tries \in [Notes -> Nat] /\ sends \in [Notes -> Nat]
  /\ budget \in Budget

-----------------------------------------------------------------------------
(* Properties                                                               *)

\* Two workers never process one record, whatever sweeps, retries and
\* overlapping drains make of its status.
OneWorkerPerRecord ==
  \A v, w \in Workers \ Idle : job[v].note = job[w].note => v = w

\* The provider is called at most as often as the record's budget allows.
CallsWithinBudget == \A n \in Notes : tries[n] <= rec[n].max

\* A record that ends as sent was accepted by its provider.
SentWasAccepted == \A n \in Notes : rec[n].status = "sent" => sends[n] > 0

\* A record on file ends as sent or dead, through crashes and failing writes.
EveryRecordSettles ==
  \A n \in Notes : rec[n].status # "absent" ~> rec[n].status \in Settled

\* The engine implements the outbox: exactly one acceptance per sent message.
\* It can do so only while no write fails, no answer is lost, the process lives
\* and no admin requeues a message.
Calm == MaxFaults = 0 /\ MaxCrashes = 0 /\ MaxRetries = 0 /\ ~AnswersLost

Phase(n) == IF rec[n].status = "absent" THEN "none"
            ELSE IF rec[n].status \in Settled THEN rec[n].status ELSE "pending"

O == INSTANCE Outbox WITH
       box <- [n \in Notes |-> Phase(n)],
       accepted <- sends

ExactlyOnce == O!Spec

=============================================================================
