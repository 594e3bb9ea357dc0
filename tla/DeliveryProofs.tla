--------------------------- MODULE DeliveryProofs ---------------------------
(***************************************************************************)
(* Proofs about Delivery for every set of emissions, channels and workers. *)
(*                                                                         *)
(* First type correctness, that one record is never with two workers, and  *)
(* that only an accepted message is recorded as sent.                      *)
(*                                                                         *)
(* Then: an engine nothing fails around (Calm) implements Outbox, with     *)
(* sweeps that may find a record stale while it is being sent.  ExactInv   *)
(* is what makes it true: a note is with one worker at most, and it can    *)
(* have been accepted without being recorded as sent only while its worker *)
(* stands between the two.  So whatever takes a note up again finds that   *)
(* it has not been accepted.                                               *)
(*                                                                         *)
(* The last part is about the budget of a record.                          *)
(***************************************************************************)
EXTENDS Delivery, TLAPS

-----------------------------------------------------------------------------
(* The kinds of value the engine stores.                                    *)

RecordsOK == rec \in [Notes -> Record] /\ deadLetters \subseteq Notes

IntakeOK == /\ hpc \in [Emissions -> {"none", "create", "audit", "done", "lost"}]
            /\ channel \in [Emissions -> 1..Len(Channels)]

WorkOK == /\ due \subseteq Notes
          /\ wpc \in [Workers -> WorkerPCs] /\ job \in [Workers -> Job]
          /\ \A w \in Workers : wpc[w] = "idle" <=> job[w].note = None

RestOK == /\ admin = NoRetry \/ (admin \in Request /\ admin.note \in Notes)
          /\ tries \in [Notes -> Nat] /\ sends \in [Notes -> Nat]
          /\ budget \in Budget

LEMMA TypeParts ==
  /\ TypeOK <=> RecordsOK /\ IntakeOK /\ WorkOK /\ RestOK
  /\ TypeOK' <=> RecordsOK' /\ IntakeOK' /\ WorkOK' /\ RestOK'
BY DEF TypeOK, RecordsOK, IntakeOK, WorkOK, RestOK

\* What a patch makes of a record.
LEMMA PatchedRecord ==
  ASSUME NEW r \in Record, NEW s \in Statuses, NEW a \in Nat, NEW m \in Nat,
         NEW d \in BOOLEAN
  PROVE  /\ r.status \in Statuses /\ r.attempts \in Nat /\ r.max \in Nat
         /\ [r EXCEPT !.status = s] \in Record
         /\ [r EXCEPT !.due = d] \in Record
         /\ [r EXCEPT !.status = s, !.due = d] \in Record
         /\ [r EXCEPT !.status = s, !.attempts = a] \in Record
         /\ [r EXCEPT !.status = s, !.attempts = a, !.due = d] \in Record
         /\ [r EXCEPT !.status = s, !.due = d, !.max = m] \in Record
BY DEF Record

LEMMA UpdateType ==
  ASSUME RecordsOK, NEW n \in Notes, NEW r \in Record, Update(n, r), UNCHANGED deadLetters
  PROVE  RecordsOK'
BY DEF RecordsOK, Update

\* What a job holds.
LEMMA JobFacts ==
  ASSUME WorkOK, NEW w \in Workers
  PROVE  /\ wpc[w] # "idle" => job[w].note \in Notes
         /\ AttemptsMade(w) \in Nat
         /\ job[w].max \in Nat /\ job[w].retryable \in BOOLEAN
         /\ \A b \in BOOLEAN : [job[w] EXCEPT !.retryable = b] \in Job
                               /\ [job[w] EXCEPT !.retryable = b].note = job[w].note
<1>1. job[w] \in Job
  BY DEF WorkOK
<1>2. wpc[w] # "idle" => job[w].note # None
  BY DEF WorkOK
<1> QED BY <1>1, <1>2 DEF Job, AttemptsMade

\* A worker moves on with the same job, or with none.
LEMMA StepType ==
  ASSUME WorkOK, NEW w \in Workers, NEW from, NEW to \in WorkerPCs,
         from # "idle", to # "idle", Step(w, from, to), UNCHANGED <<due, job>>
  PROVE  WorkOK'
BY DEF WorkOK, Step

LEMMA LeaveType ==
  ASSUME WorkOK, NEW w \in Workers, Leave(w), UNCHANGED due
  PROVE  WorkOK'
<1>1. NoJob \in Job /\ NoJob.note = None
  BY DEF NoJob, Job
<1> QED BY <1>1 DEF WorkOK, Leave, WorkerPCs

LEMMA FaultType ==
  ASSUME RestOK, Fault, UNCHANGED <<admin, calls>>
  PROVE  RestOK'
<1>1. [budget EXCEPT !.faults = @ + 1] \in Budget
  BY DEF RestOK, Budget
<1> QED BY <1>1 DEF RestOK, Fault, calls

LEMMA CallType ==
  ASSUME RestOK, WorkOK, NEW w \in Workers, wpc[w] # "idle", Call(w),
         \/ UNCHANGED sends
         \/ sends' = [sends EXCEPT ![job[w].note] = @ + 1],
         UNCHANGED <<admin, budget>>
  PROVE  RestOK'
BY JobFacts DEF RestOK, Call

-----------------------------------------------------------------------------
(* Type correctness: one lemma per group of actions.                        *)

USE DEF records, intake, work, calls

LEMMA TypeIntake ==
  ASSUME TypeOK, NEW e \in Emissions,
         EmitEvent(e) \/ CreateIfAbsent(e) \/ NextChannel(e) \/ HandlerThrows(e)
  PROVE  TypeOK'
<1> USE TypeParts
<1>1. CASE EmitEvent(e)
  BY <1>1 DEF RecordsOK, IntakeOK, WorkOK, RestOK, EmitEvent
<1>2. CASE CreateIfAbsent(e)
  <2>1. FreshRecord \in Record
    BY BudgetAssumption DEF FreshRecord, Record, Statuses, Sendable
  <2>2. NoteOf(e) \in Notes
    BY KeyOfAssumption, ChannelsAssumption DEF IntakeOK, NoteOf, Notes, ChannelSet
  <2>3. RecordsOK'
    BY <1>2, <2>1, <2>2, UpdateType DEF RecordsOK, CreateIfAbsent
  <2> QED BY <1>2, <2>3 DEF IntakeOK, WorkOK, RestOK, CreateIfAbsent
<1>3. CASE NextChannel(e)
  <2>1. channel' \in [Emissions -> 1..Len(Channels)]
    BY <1>3, ChannelsAssumption DEF IntakeOK, NextChannel
  <2> QED BY <1>3, <2>1 DEF RecordsOK, IntakeOK, WorkOK, RestOK, NextChannel
<1>4. CASE HandlerThrows(e)
  <2>1. RestOK'
    BY <1>4, FaultType DEF HandlerThrows
  <2> QED BY <1>4, <2>1 DEF RecordsOK, IntakeOK, WorkOK, HandlerThrows
<1> QED BY <1>1, <1>2, <1>3, <1>4

LEMMA TypeQueue ==
  ASSUME TypeOK,
         \/ FindDue \/ BreakDrain
         \/ \E w \in Workers, n \in Notes : StartNext(w, n)
         \/ \E n \in Notes : RecoverStale(n) \/ BackoffEnds(n)
  PROVE  TypeOK'
<1> USE TypeParts
<1>1. CASE FindDue
  BY <1>1 DEF RecordsOK, IntakeOK, WorkOK, RestOK, FindDue
<1>2. CASE BreakDrain
  BY <1>2 DEF RecordsOK, IntakeOK, WorkOK, RestOK, BreakDrain
<1>3. ASSUME NEW w \in Workers, NEW n \in Notes, StartNext(w, n)
      PROVE  TypeOK'
  <2> DEFINE j == [note |-> n, attempts |-> rec[n].attempts, max |-> rec[n].max,
                   retryable |-> TRUE]
  <2>1. rec[n] \in Record
    BY DEF RecordsOK
  <2>2. j \in Job /\ j.note # None
    BY <2>1, NoneAssumption DEF Job, Record
  <2>3. \/ UNCHANGED <<wpc, job>>
        \/ /\ wpc' = [wpc EXCEPT ![w] = "mark"]
           /\ job' = [job EXCEPT ![w] = j]
    BY <1>3 DEF StartNext
  <2> HIDE DEF j
  <2>4. WorkOK'
    BY <1>3, <2>2, <2>3 DEF WorkOK, StartNext, WorkerPCs
  <2> QED BY <1>3, <2>4 DEF RecordsOK, IntakeOK, RestOK, StartNext
<1>4. ASSUME NEW n \in Notes, RecoverStale(n)
      PROVE  TypeOK'
  <2>1. Recovered(n) \in Record
    BY PatchedRecord DEF RecordsOK, Recovered, Statuses, Sendable
  <2>2. RecordsOK'
    BY <1>4, <2>1, UpdateType DEF RecoverStale
  <2> QED BY <1>4, <2>2 DEF IntakeOK, WorkOK, RestOK, RecoverStale
<1>5. ASSUME NEW n \in Notes, BackoffEnds(n)
      PROVE  TypeOK'
  <2>1. [rec[n] EXCEPT !.due = TRUE] \in Record
    BY DEF RecordsOK, Record
  <2>2. RecordsOK'
    BY <1>5, <2>1, UpdateType DEF BackoffEnds
  <2> QED BY <1>5, <2>2 DEF IntakeOK, WorkOK, RestOK, BackoffEnds
<1> QED BY <1>1, <1>2, <1>3, <1>4, <1>5

\* The worker's note is a note and its record a record.
LEMMA BusyRecord ==
  ASSUME RecordsOK, WorkOK, NEW w \in Workers, wpc[w] # "idle"
  PROVE  job[w].note \in Notes /\ rec[job[w].note] \in Record
BY JobFacts DEF RecordsOK

LEMMA TypeSend ==
  ASSUME TypeOK, NEW w \in Workers,
         \/ MarkProcessing(w) \/ ProviderAccepts(w) \/ AnswerLost(w)
         \/ \E retryable \in BOOLEAN : ProviderRefuses(w, retryable)
  PROVE  TypeOK'
<1> USE TypeParts
<1>1. CASE MarkProcessing(w)
  <2>1. wpc[w] # "idle" /\ WorkOK'
    BY <1>1, StepType DEF MarkProcessing, Step, WorkerPCs
  <2>2. [rec[job[w].note] EXCEPT !.status = "processing"] \in Record
    BY <2>1, BusyRecord, PatchedRecord DEF Statuses
  <2>3. RecordsOK'
    BY <1>1, <2>1, <2>2, BusyRecord, UpdateType DEF MarkProcessing
  <2> QED BY <1>1, <2>1, <2>3 DEF IntakeOK, RestOK, MarkProcessing
<1>2. CASE ProviderAccepts(w)
  <2>1. wpc[w] # "idle" /\ WorkOK'
    BY <1>2, StepType DEF ProviderAccepts, Step, WorkerPCs
  <2>2. RestOK'
    BY <1>2, <2>1, CallType DEF ProviderAccepts
  <2> QED BY <1>2, <2>1, <2>2 DEF RecordsOK, IntakeOK, ProviderAccepts
<1>3. CASE AnswerLost(w)
  <2>1. wpc[w] # "idle" /\ WorkOK'
    BY <1>3, StepType DEF AnswerLost, Step, WorkerPCs
  <2>2. RestOK'
    BY <1>3, <2>1, CallType DEF AnswerLost
  <2> QED BY <1>3, <2>1, <2>2 DEF RecordsOK, IntakeOK, AnswerLost
<1>4. ASSUME NEW retryable \in BOOLEAN, ProviderRefuses(w, retryable)
      PROVE  TypeOK'
  <2> DEFINE j == [job[w] EXCEPT !.retryable = retryable]
  <2>1. j \in Job /\ j.note = job[w].note
    BY JobFacts
  <2>2. job' = [job EXCEPT ![w] = j]
    BY <1>4 DEF ProviderRefuses
  <2> HIDE DEF j
  <2>3. wpc[w] # "idle" /\ WorkOK'
    BY <1>4, <2>1, <2>2 DEF WorkOK, ProviderRefuses, Step, WorkerPCs
  <2>4. RestOK'
    BY <1>4, <2>3, CallType DEF ProviderRefuses
  <2> QED BY <1>4, <2>3, <2>4 DEF RecordsOK, IntakeOK, ProviderRefuses
<1> QED BY <1>1, <1>2, <1>3, <1>4

LEMMA TypeOutcome ==
  ASSUME TypeOK, NEW w \in Workers,
         \/ RecordSent(w) \/ AuditOutcome(w) \/ ScheduleRetry(w) \/ GiveUp(w)
         \/ PushDeadLetter(w) \/ SuccessThrows(w) \/ ProcessRejects(w)
  PROVE  TypeOK'
<1> USE TypeParts
<1> DEFINE r == rec[job[w].note]
<1>1. CASE RecordSent(w)
  <2>1. wpc[w] # "idle" /\ WorkOK'
    BY <1>1, StepType DEF RecordSent, Step, WorkerPCs
  <2>2. [r EXCEPT !.status = "sent", !.attempts = AttemptsMade(w)] \in Record
    BY <2>1, BusyRecord, JobFacts, PatchedRecord DEF Statuses, Settled
  <2>3. RecordsOK'
    BY <1>1, <2>1, <2>2, BusyRecord, UpdateType DEF RecordSent
  <2> QED BY <1>1, <2>1, <2>3 DEF IntakeOK, RestOK, RecordSent
<1>2. CASE AuditOutcome(w)
  BY <1>2, LeaveType DEF RecordsOK, IntakeOK, RestOK, AuditOutcome
<1>3. CASE ScheduleRetry(w)
  <2>1. wpc[w] # "idle" /\ WorkOK'
    BY <1>3, StepType DEF ScheduleRetry, Step, WorkerPCs
  <2>2. [r EXCEPT !.status = "failed", !.attempts = AttemptsMade(w), !.due = FALSE]
          \in Record
    BY <2>1, BusyRecord, JobFacts, PatchedRecord DEF Statuses, Sendable
  <2>3. RecordsOK'
    BY <1>3, <2>1, <2>2, BusyRecord, UpdateType DEF ScheduleRetry
  <2> QED BY <1>3, <2>1, <2>3 DEF IntakeOK, RestOK, ScheduleRetry
<1>4. CASE GiveUp(w)
  <2>1. wpc[w] # "idle" /\ WorkOK'
    BY <1>4, StepType DEF GiveUp, Step, WorkerPCs
  <2>2. [r EXCEPT !.status = "dead", !.attempts = AttemptsMade(w)] \in Record
    BY <2>1, BusyRecord, JobFacts, PatchedRecord DEF Statuses, Settled
  <2>3. RecordsOK'
    BY <1>4, <2>1, <2>2, BusyRecord, UpdateType DEF GiveUp
  <2> QED BY <1>4, <2>1, <2>3 DEF IntakeOK, RestOK, GiveUp
<1>5. CASE PushDeadLetter(w)
  <2>1. wpc[w] # "idle" /\ WorkOK'
    BY <1>5, StepType DEF PushDeadLetter, Step, WorkerPCs
  <2> QED BY <1>5, <2>1, BusyRecord DEF RecordsOK, IntakeOK, RestOK, PushDeadLetter
<1>6. CASE SuccessThrows(w)
  <2>1. WorkOK'
    BY <1>6 DEF WorkOK, SuccessThrows, WorkerPCs
  <2> QED BY <1>6, <2>1, FaultType DEF RecordsOK, IntakeOK, SuccessThrows
<1>7. CASE ProcessRejects(w)
  BY <1>7, LeaveType, FaultType DEF RecordsOK, IntakeOK, ProcessRejects
<1> QED BY <1>1, <1>2, <1>3, <1>4, <1>5, <1>6, <1>7

LEMMA TypeAdmin ==
  ASSUME TypeOK,
         \/ \E n \in Notes : RetryRead(n)
         \/ \E extra \in ExtraAttempts : RetryWrite(extra)
         \/ Restart
  PROVE  TypeOK'
<1> USE TypeParts
<1>1. ASSUME NEW n \in Notes, RetryRead(n)
      PROVE  TypeOK'
  <2>1. [note |-> n, attempts |-> rec[n].attempts] \in Request
    BY DEF Request, RecordsOK, Record
  <2>2. [budget EXCEPT !.retries = @ + 1] \in Budget
    BY DEF RestOK, Budget
  <2>3. RestOK'
    BY <1>1, <2>1, <2>2 DEF RestOK, RetryRead
  <2> QED BY <1>1, <2>3 DEF RecordsOK, IntakeOK, WorkOK, RetryRead
<1>2. ASSUME NEW extra \in ExtraAttempts, RetryWrite(extra)
      PROVE  TypeOK'
  <2>1. admin \in Request /\ admin.note \in Notes
    BY <1>2 DEF RestOK, RetryWrite
  <2>2. admin.attempts + extra + 1 \in Nat
    BY <2>1, BudgetAssumption DEF Request
  <2>3. [rec[admin.note] EXCEPT !.status = "queued", !.due = TRUE,
                                !.max = admin.attempts + extra + 1] \in Record
    BY <2>1, <2>2, PatchedRecord DEF RecordsOK, Statuses, Sendable
  <2>4. RecordsOK'
    BY <1>2, <2>1, <2>3, UpdateType DEF RetryWrite
  <2> QED BY <1>2, <2>4 DEF IntakeOK, WorkOK, RestOK, RetryWrite
<1>3. CASE Restart
  <2>1. NoJob \in Job /\ NoJob.note = None
    BY DEF NoJob, Job
  <2>2. WorkOK'
    BY <1>3, <2>1 DEF WorkOK, Restart, WorkerPCs
  <2>3. [budget EXCEPT !.crashes = @ + 1] \in Budget
    BY DEF RestOK, Budget
  <2>4. RestOK'
    BY <1>3, <2>3 DEF RestOK, Restart
  <2> QED BY <1>3, <2>2, <2>4 DEF RecordsOK, IntakeOK, Restart
<1> QED BY <1>1, <1>2, <1>3

LEMMA TypeInit == Init => TypeOK
<1> SUFFICES ASSUME Init PROVE TypeOK
  OBVIOUS
<1>1. 1 \in 1..Len(Channels)
  BY ChannelsAssumption
<1>2. NoRecord \in Record /\ NoJob \in Job /\ NoJob.note = None
  BY DEF NoRecord, Record, NoJob, Job, Statuses
<1> QED BY <1>1, <1>2 DEF Init, TypeOK, Budget, WorkerPCs

LEMMA TypeStep == TypeOK /\ [Next]_vars => TypeOK'
<1> SUFFICES ASSUME TypeOK, [Next]_vars PROVE TypeOK'
  OBVIOUS
<1>1. CASE UNCHANGED vars
  BY <1>1, TypeParts DEF RecordsOK, IntakeOK, WorkOK, RestOK, vars
<1>2. CASE Next
  BY <1>2, TypeIntake, TypeQueue, TypeSend, TypeOutcome, TypeAdmin
     DEF Next, Handle, Process
<1> QED BY <1>1, <1>2

\* Whatever fails and however often the process restarts, every record, worker
\* and request holds the kind of value the engine stores in it.
THEOREM DeliveryTypeCorrect == Spec => []TypeOK
BY TypeInit, TypeStep, PTL DEF Spec

-----------------------------------------------------------------------------
(* Every way of taking up a record asks inFlight first.                     *)

\* No worker takes a note up in the step: a busy worker was busy with the same note.
NothingTaken == \A w \in Workers : wpc'[w] # "idle" => /\ wpc[w] # "idle"
                                                       /\ job'[w].note = job[w].note

LEMMA WorkersKeep ==
  ASSUME TypeOK, [Next]_vars,
         ~\E w \in Workers, n \in Notes : StartNext(w, n)
  PROVE  NothingTaken
<1>1. ASSUME NEW w \in Workers, Process(w) \/ SuccessThrows(w) \/ ProcessRejects(w)
      PROVE  NothingTaken
  <2>1. wpc \in [Workers -> WorkerPCs] /\ job \in [Workers -> Job]
    BY DEF TypeOK
  <2>2. CASE AuditOutcome(w) \/ ProcessRejects(w)
    BY <2>1, <2>2 DEF AuditOutcome, ProcessRejects, Leave, NothingTaken
  <2>3. ASSUME NEW retryable \in BOOLEAN, ProviderRefuses(w, retryable)
        PROVE  NothingTaken
    BY <2>1, <2>3 DEF ProviderRefuses, Step, NothingTaken, Job
  <2>4. CASE \/ MarkProcessing(w) \/ ProviderAccepts(w) \/ AnswerLost(w) \/ RecordSent(w)
             \/ ScheduleRetry(w) \/ GiveUp(w) \/ PushDeadLetter(w) \/ SuccessThrows(w)
    BY <2>1, <2>4 DEF MarkProcessing, ProviderAccepts, AnswerLost, RecordSent,
       ScheduleRetry, GiveUp, PushDeadLetter, SuccessThrows, Step, NothingTaken
  <2> QED BY <1>1, <2>2, <2>3, <2>4 DEF Process
<1>2. CASE Restart
  BY <1>2 DEF Restart, NothingTaken
<1>3. CASE UNCHANGED <<wpc, job>>
  BY <1>3 DEF NothingTaken
<1>4. \/ \E w \in Workers : Process(w) \/ SuccessThrows(w) \/ ProcessRejects(w)
      \/ Restart \/ UNCHANGED <<wpc, job>>
  BY DEF Next, Handle, vars, EmitEvent, CreateIfAbsent, NextChannel, HandlerThrows,
     FindDue, BreakDrain, RecoverStale, BackoffEnds, RetryRead, RetryWrite
<1> QED BY <1>1, <1>2, <1>3, <1>4

LEMMA OneWorkerStep == TypeOK /\ OneWorkerPerRecord /\ [Next]_vars => OneWorkerPerRecord'
<1> SUFFICES ASSUME TypeOK, OneWorkerPerRecord, [Next]_vars PROVE OneWorkerPerRecord'
  OBVIOUS
<1>1. ASSUME NEW w \in Workers, NEW n \in Notes, StartNext(w, n)
      PROVE  OneWorkerPerRecord'
  <2>1. CASE UNCHANGED <<wpc, job>>
    BY <2>1 DEF OneWorkerPerRecord, Idle
  <2>2. CASE ~UNCHANGED <<wpc, job>>
    <3>1. \A v \in Workers : wpc[v] # "idle" => job[v].note # n
      BY <1>1, <2>2 DEF StartNext, Busy, InFlight, Idle
    <3>2. /\ job'[w].note = n
          /\ \A v \in Workers : v # w => wpc'[v] = wpc[v] /\ job'[v] = job[v]
      BY <1>1, <2>2 DEF StartNext, TypeOK
    <3> QED BY <3>1, <3>2 DEF OneWorkerPerRecord, Idle
  <2> QED BY <2>1, <2>2
<1>2. CASE ~\E w \in Workers, n \in Notes : StartNext(w, n)
  BY <1>2, WorkersKeep DEF NothingTaken, OneWorkerPerRecord, Idle
<1> QED BY <1>1, <1>2

\* Two workers never process one record, whatever sweeps, retries, faults and
\* overlapping drains make of its status: inFlight, not the status, keeps them apart.
THEOREM OneWorkerAtATime == Spec => []OneWorkerPerRecord
<1>1. Init => OneWorkerPerRecord
  BY DEF Init, OneWorkerPerRecord, Idle
<1> QED BY <1>1, OneWorkerStep, DeliveryTypeCorrect, PTL DEF Spec

-----------------------------------------------------------------------------
(* Only an accepted message is recorded as sent.                            *)

\* A worker that is about to record a success has seen its provider accept.
SentInv == /\ SentWasAccepted
           /\ \A w \in Workers : wpc[w] = "record" => sends[job[w].note] > 0

\* What a step has to show: nothing is sent, and nobody is about to record it
\* as sent, that was not before or was accepted.
LEMMA SentByStep ==
  ASSUME TypeOK, SentInv,
         \A n \in Notes : sends[n] > 0 => sends'[n] > 0,
         \A n \in Notes : rec'[n].status = "sent" => rec[n].status = "sent" \/ sends'[n] > 0,
         \A w \in Workers : wpc'[w] = "record" =>
            \/ wpc[w] = "record" /\ job'[w].note = job[w].note
            \/ sends'[job'[w].note] > 0
  PROVE  SentInv'
<1>1. \A w \in Workers : wpc[w] # "idle" => job[w].note \in Notes
  BY TypeParts, JobFacts
<1>2. SentWasAccepted'
  BY DEF SentInv, SentWasAccepted
<1>3. ASSUME NEW w \in Workers, wpc'[w] = "record" PROVE sends'[job'[w].note] > 0
  BY <1>1, <1>3 DEF SentInv
<1> QED BY <1>2, <1>3 DEF SentInv

\* Nobody comes to record a success, and no provider is called.
LEMMA SentQuiet ==
  ASSUME TypeOK, SentInv, UNCHANGED sends,
         \A n \in Notes : rec'[n].status = "sent" => rec[n].status = "sent" \/ sends[n] > 0,
         \A w \in Workers : wpc'[w] = "record" =>
            wpc[w] = "record" /\ job'[w].note = job[w].note
  PROVE  SentInv'
BY SentByStep

\* An update that does not write "sent".
LEMMA SentUpdate ==
  ASSUME TypeOK, NEW n \in Notes, NEW r, Update(n, r),
         r.status = "sent" => rec[n].status = "sent" \/ sends[n] > 0
  PROVE  \A m \in Notes : rec'[m].status = "sent" => rec[m].status = "sent" \/ sends[m] > 0
BY DEF TypeOK, Update

\* A step of a worker to a place that is not "record".
LEMMA SentMoves ==
  ASSUME TypeOK, NEW w \in Workers, NEW from, NEW to, to # "record", Step(w, from, to),
         UNCHANGED job
  PROVE  \A v \in Workers : wpc'[v] = "record" => wpc[v] = "record" /\ job'[v].note = job[v].note
BY DEF TypeOK, Step

LEMMA SentWorker ==
  ASSUME TypeOK, SentInv, NEW w \in Workers, Process(w)
  PROVE  SentInv'
<1>0. /\ wpc[w] # "idle" => job[w].note \in Notes /\ rec[job[w].note] \in Record
      /\ AttemptsMade(w) \in Nat
      /\ \A n \in Notes : sends[n] \in Nat
  BY TypeParts, BusyRecord, JobFacts DEF TypeOK
<1> PICK n : n = job[w].note
  OBVIOUS
<1>1. CASE MarkProcessing(w)
  <2>1. n \in Notes /\ rec[n] \in Record
    BY <1>0, <1>1 DEF MarkProcessing, Step
  <2>2. [rec[n] EXCEPT !.status = "processing"].status = "processing"
    BY <2>1 DEF Record
  <2>3. \A m \in Notes : rec'[m].status = "sent" => rec[m].status = "sent" \/ sends[m] > 0
    BY <1>1, <2>1, <2>2, SentUpdate DEF MarkProcessing
  <2> QED BY <1>1, <2>3, SentMoves, SentQuiet DEF MarkProcessing
<1>2. CASE ProviderAccepts(w)
  <2>1. n \in Notes /\ sends'[n] > 0 /\ \A m \in Notes : sends[m] > 0 => sends'[m] > 0
    BY <1>0, <1>2 DEF ProviderAccepts, Step, TypeOK
  <2>2. \A v \in Workers : v # w => wpc'[v] = wpc[v]
    BY <1>2 DEF ProviderAccepts, Step, TypeOK
  <2> QED BY <1>2, <2>1, <2>2, SentByStep DEF ProviderAccepts
<1>3. CASE AnswerLost(w)
  <2>1. \A m \in Notes : sends[m] > 0 => sends'[m] > 0
    BY <1>0, <1>3 DEF AnswerLost, Step, TypeOK
  <2> QED BY <1>3, <2>1, SentMoves, SentByStep DEF AnswerLost
<1>4. ASSUME NEW retryable \in BOOLEAN, ProviderRefuses(w, retryable)
      PROVE  SentInv'
  <2>1. \A v \in Workers : wpc'[v] = "record" => wpc[v] = "record" /\ job'[v].note = job[v].note
    BY <1>4 DEF ProviderRefuses, Step, TypeOK, Job
  <2> QED BY <1>4, <2>1, SentQuiet DEF ProviderRefuses
<1>5. CASE RecordSent(w)
  <2>1. n \in Notes /\ sends[n] > 0
    BY <1>0, <1>5 DEF RecordSent, Step, SentInv
  <2>2. \A m \in Notes : rec'[m].status = "sent" => rec[m].status = "sent" \/ sends[m] > 0
    BY <1>5, <2>1, SentUpdate DEF RecordSent
  <2> QED BY <1>5, <2>2, SentMoves, SentQuiet DEF RecordSent
<1>6. CASE AuditOutcome(w)
  BY <1>6, SentQuiet DEF AuditOutcome, Leave, TypeOK
<1>7. CASE ScheduleRetry(w)
  <2>1. n \in Notes /\ rec[n] \in Record
    BY <1>0, <1>7 DEF ScheduleRetry, Step
  <2>2. [rec[n] EXCEPT !.status = "failed", !.attempts = AttemptsMade(w),
                       !.due = FALSE].status = "failed"
    BY <2>1 DEF Record
  <2>3. \A m \in Notes : rec'[m].status = "sent" => rec[m].status = "sent" \/ sends[m] > 0
    BY <1>7, <2>1, <2>2, SentUpdate DEF ScheduleRetry
  <2> QED BY <1>7, <2>3, SentMoves, SentQuiet DEF ScheduleRetry
<1>8. CASE GiveUp(w)
  <2>1. n \in Notes /\ rec[n] \in Record
    BY <1>0, <1>8 DEF GiveUp, Step
  <2>2. [rec[n] EXCEPT !.status = "dead", !.attempts = AttemptsMade(w)].status = "dead"
    BY <2>1 DEF Record
  <2>3. \A m \in Notes : rec'[m].status = "sent" => rec[m].status = "sent" \/ sends[m] > 0
    BY <1>8, <2>1, <2>2, SentUpdate DEF GiveUp
  <2> QED BY <1>8, <2>3, SentMoves, SentQuiet DEF GiveUp
<1>9. CASE PushDeadLetter(w)
  BY <1>9, SentMoves, SentQuiet DEF PushDeadLetter
<1> QED BY <1>1, <1>2, <1>3, <1>4, <1>5, <1>6, <1>7, <1>8, <1>9 DEF Process

\* Steps that write a record and leave the workers alone.
LEMMA SentRecords ==
  ASSUME TypeOK, SentInv,
         \/ \E e \in Emissions : CreateIfAbsent(e)
         \/ \E n \in Notes : RecoverStale(n) \/ BackoffEnds(n)
         \/ \E extra \in ExtraAttempts : RetryWrite(extra)
  PROVE  SentInv'
<1>0. \A n \in Notes : rec[n] \in Record
  BY DEF TypeOK
<1>1. ASSUME NEW e \in Emissions, CreateIfAbsent(e)
      PROVE  SentInv'
  <2>1. NoteOf(e) \in Notes
    BY KeyOfAssumption, ChannelsAssumption DEF TypeOK, NoteOf, Notes, ChannelSet
  <2> PICK n \in Notes : n = NoteOf(e)
    BY <2>1
  <2>2. UNCHANGED rec \/ Update(n, FreshRecord)
    BY <1>1 DEF CreateIfAbsent
  <2>3. FreshRecord.status = "queued"
    BY DEF FreshRecord
  <2>4. \A m \in Notes : rec'[m].status = "sent" => rec[m].status = "sent" \/ sends[m] > 0
    BY <2>2, <2>3, SentUpdate
  <2> QED BY <1>1, <2>4, SentQuiet DEF CreateIfAbsent
<1>2. ASSUME NEW n \in Notes, RecoverStale(n)
      PROVE  SentInv'
  <2>1. Recovered(n).status = "failed"
    BY <1>0 DEF Recovered, Record
  <2>2. \A m \in Notes : rec'[m].status = "sent" => rec[m].status = "sent" \/ sends[m] > 0
    BY <1>2, <2>1, SentUpdate DEF RecoverStale
  <2> QED BY <1>2, <2>2, SentQuiet DEF RecoverStale
<1>3. ASSUME NEW n \in Notes, BackoffEnds(n)
      PROVE  SentInv'
  <2>1. [rec[n] EXCEPT !.due = TRUE].status = rec[n].status
    BY <1>0 DEF Record
  <2>2. \A m \in Notes : rec'[m].status = "sent" => rec[m].status = "sent" \/ sends[m] > 0
    BY <1>3, <2>1, SentUpdate DEF BackoffEnds
  <2> QED BY <1>3, <2>2, SentQuiet DEF BackoffEnds
<1>4. ASSUME NEW extra \in ExtraAttempts, RetryWrite(extra)
      PROVE  SentInv'
  <2> PICK n : n = admin.note
    OBVIOUS
  <2>1. n \in Notes
    BY <1>4 DEF TypeOK, RetryWrite
  <2>2. [rec[n] EXCEPT !.status = "queued", !.due = TRUE,
                       !.max = admin.attempts + extra + 1].status = "queued"
    BY <1>0, <2>1 DEF Record
  <2>3. \A m \in Notes : rec'[m].status = "sent" => rec[m].status = "sent" \/ sends[m] > 0
    BY <1>4, <2>1, <2>2, SentUpdate DEF RetryWrite
  <2> QED BY <1>4, <2>3, SentQuiet DEF RetryWrite
<1> QED BY <1>1, <1>2, <1>3, <1>4

\* Steps that write no record and let nobody come to "record".
LEMMA SentElsewhere ==
  ASSUME TypeOK, SentInv, UNCHANGED <<rec, sends>>,
         \/ UNCHANGED <<wpc, job>>
         \/ \E w \in Workers, n \in Notes : StartNext(w, n)
         \/ \E w \in Workers : SuccessThrows(w) \/ ProcessRejects(w)
         \/ Restart
  PROVE  SentInv'
<1>1. \A w \in Workers : wpc'[w] = "record" => wpc[w] = "record" /\ job'[w].note = job[w].note
  BY DEF StartNext, SuccessThrows, ProcessRejects, Leave, Restart, TypeOK
<1> QED BY <1>1, SentQuiet

LEMMA SentStep == TypeOK /\ SentInv /\ [Next]_vars => SentInv'
<1> SUFFICES ASSUME TypeOK, SentInv, [Next]_vars PROVE SentInv'
  OBVIOUS
<1>1. CASE \/ \E e \in Emissions : EmitEvent(e) \/ NextChannel(e) \/ HandlerThrows(e)
           \/ FindDue \/ BreakDrain \/ UNCHANGED vars
           \/ \E n \in Notes : RetryRead(n)
  <2>1. UNCHANGED <<rec, sends, wpc, job>>
    BY <1>1 DEF EmitEvent, NextChannel, HandlerThrows, FindDue, BreakDrain, vars, RetryRead
  <2> QED BY <2>1, SentElsewhere
<1>2. CASE \/ \E w \in Workers, n \in Notes : StartNext(w, n)
           \/ \E w \in Workers : SuccessThrows(w) \/ ProcessRejects(w)
           \/ Restart
  <2>1. UNCHANGED <<rec, sends>>
    BY <1>2 DEF StartNext, SuccessThrows, ProcessRejects, Restart
  <2> QED BY <1>2, <2>1, SentElsewhere
<1> QED BY <1>1, <1>2, SentWorker, SentRecords DEF Next, Handle

\* Whatever fails, a record that says sent was accepted by its provider.
THEOREM SentOnlyIfAccepted == Spec => []SentWasAccepted
<1>1. Init => SentInv
  BY DEF Init, SentInv, SentWasAccepted, NoRecord
<1>2. SentInv => SentWasAccepted
  BY DEF SentInv
<1> QED BY <1>1, <1>2, SentStep, DeliveryTypeCorrect, PTL DEF Spec

-----------------------------------------------------------------------------
(* Exactly once, while nothing fails *)

Pending(n) == rec[n].status \in Sendable \cup {"processing"}

NoteInv(n) ==
  /\ rec[n].status = "absent" => sends[n] = 0
  /\ Pending(n) /\ n \notin InFlight => sends[n] = 0

JobInv(w) ==
  LET n == job[w].note
  IN /\ wpc[w] \in {"mark", "send", "fail", "auditRetry"} => Pending(n) /\ sends[n] = 0
     /\ wpc[w] = "record" => Pending(n) /\ sends[n] = 1
     /\ wpc[w] \in {"auditSent", "push", "auditDead"} => rec[n].status \in Settled

ExactInv ==
  /\ admin = NoRetry
  /\ OneWorkerPerRecord
  /\ \A n \in Notes : NoteInv(n)
  /\ \A w \in Workers : JobInv(w)

-----------------------------------------------------------------------------
LEMMA InFlightMeans ==
  ASSUME NEW n
  PROVE  /\ n \in InFlight <=> \E w \in Workers : wpc[w] # "idle" /\ job[w].note = n
         /\ (n \in InFlight)' <=> \E w \in Workers : wpc'[w] # "idle" /\ job'[w].note = n
BY DEF InFlight, Idle

\* A busy worker's note is on file.
LEMMA BusyOnFile ==
  ASSUME TypeOK, ExactInv, NEW w \in Workers, wpc[w] # "idle"
  PROVE  job[w].note \in Notes /\ rec[job[w].note].status # "absent"
<1>1. job[w].note \in Notes
  BY TypeParts, JobFacts
<1>2. wpc[w] \in WorkerPCs /\ JobInv(w)
  BY DEF TypeOK, ExactInv
<1> QED BY <1>1, <1>2 DEF JobInv, Pending, WorkerPCs, Sendable, Settled

\* No note changes its phase or is accepted: the outbox stutters.
LEMMA OutboxStutters ==
  ASSUME \A n \in Notes : Phase(n)' = Phase(n), UNCHANGED sends
  PROVE  UNCHANGED O!vars
BY DEF O!vars

LEMMA PhaseMeans ==
  ASSUME NEW n
  PROVE  /\ (rec[n].status = "absent" => Phase(n) = "none")
         /\ (rec[n].status \in Settled => Phase(n) = rec[n].status)
         /\ (Pending(n) => Phase(n) = "pending")
         /\ (rec'[n].status = "absent" => Phase(n)' = "none")
         /\ (rec'[n].status \in Settled => Phase(n)' = rec'[n].status)
         /\ (Pending(n)' => Phase(n)' = "pending")
         /\ (rec'[n].status = rec[n].status => Phase(n)' = Phase(n))
BY DEF Phase, Pending, Sendable, Settled

LEMMA UpdateOne ==
  ASSUME TypeOK, NEW n \in Notes, NEW r, Update(n, r)
  PROVE  /\ rec'[n] = r
         /\ \A m \in Notes : m # n => rec'[m] = rec[m] /\ Phase(m)' = Phase(m)
<1>1. rec'[n] = r /\ \A m \in Notes : m # n => rec'[m] = rec[m]
  BY DEF Update, TypeOK
<1> QED BY <1>1, PhaseMeans

\* One note moves from a phase to another.
LEMMA OutboxMoves ==
  ASSUME TypeOK, NEW n \in Notes, NEW r, Update(n, r),
         NEW from, NEW to, Phase(n) = from, Phase(n)' = to
  PROVE  O!Move(n, from, to)
<1>1. \A m \in Notes : m # n => Phase(m)' = Phase(m)
  BY UpdateOne
<1>2. [m \in Notes |-> Phase(m)'] = [[m \in Notes |-> Phase(m)] EXCEPT ![n] = to]
  BY <1>1
<1>3. [m \in Notes |-> Phase(m)][n] = from
  OBVIOUS
<1> QED BY <1>2, <1>3 DEF O!Move

-----------------------------------------------------------------------------
(* Preservation of ExactInv.                                                *)

\* Steps that leave the workers alone and change no phase.
LEMMA ExactKept ==
  ASSUME ExactInv, UNCHANGED <<wpc, job, sends, admin>>,
         \A n \in Notes : \/ rec'[n].status = rec[n].status
                          \/ Pending(n) /\ Pending(n)',
         \A w \in Workers : wpc[w] # "idle" => job[w].note \in Notes
  PROVE  ExactInv'
<1>1. OneWorkerPerRecord'
  BY DEF ExactInv, OneWorkerPerRecord, Idle
<1>2. \A n \in Notes : NoteInv(n)'
  BY InFlightMeans DEF ExactInv, NoteInv, Pending, Sendable
<1>3. ASSUME NEW w \in Workers PROVE JobInv(w)'
  <2>1. CASE wpc[w] = "idle"
    BY <2>1 DEF JobInv
  <2>2. CASE wpc[w] # "idle"
    BY <2>2 DEF ExactInv, JobInv, Pending, Sendable, Settled
  <2> QED BY <2>1, <2>2
<1> QED BY <1>1, <1>2, <1>3 DEF ExactInv

\* A busy worker takes a step for its own note and stays busy.
LEMMA ExactByStep ==
  ASSUME TypeOK, ExactInv, NEW w \in Workers, NEW from, NEW to,
         from # "idle", to # "idle", Step(w, from, to),
         \A v \in Workers : job'[v].note = job[v].note,
         \A m \in Notes : m # job[w].note => rec'[m] = rec[m] /\ sends'[m] = sends[m],
         rec'[job[w].note].status # "absent", JobInv(w)', UNCHANGED admin
  PROVE  ExactInv'
<1>1. wpc[w] # "idle" /\ wpc'[w] # "idle"
  BY DEF Step, TypeOK
<1>2. \A v \in Workers : v # w => wpc'[v] = wpc[v]
  BY DEF Step, TypeOK
<1>3. OneWorkerPerRecord
  BY DEF ExactInv
<1>4. OneWorkerPerRecord'
  BY <1>1, <1>2, <1>3 DEF OneWorkerPerRecord, Idle
<1>5. ASSUME NEW n \in Notes PROVE NoteInv(n)'
  <2>1. CASE n = job[w].note
    <3>1. (n \in InFlight)'
      BY <1>1, <2>1, InFlightMeans
    <3> QED BY <2>1, <3>1 DEF NoteInv
  <2>2. CASE n # job[w].note
    <3>1. (n \in InFlight)' <=> n \in InFlight
      BY <1>1, <1>2, <2>2, InFlightMeans
    <3> QED BY <2>2, <3>1 DEF ExactInv, NoteInv, Pending
  <2> QED BY <2>1, <2>2
<1>6. ASSUME NEW v \in Workers, v # w PROVE JobInv(v)'
  <2>1. CASE wpc[v] = "idle"
    BY <1>2, <1>6, <2>1 DEF JobInv
  <2>2. CASE wpc[v] # "idle"
    <3>1. job[v].note # job[w].note
      BY <1>1, <1>3, <1>6, <2>2 DEF OneWorkerPerRecord, Idle
    <3>2. job[v].note \in Notes
      BY <2>2, BusyOnFile
    <3> QED BY <1>2, <1>6, <3>1, <3>2 DEF ExactInv, JobInv, Pending
  <2> QED BY <2>1, <2>2
<1> QED BY <1>4, <1>5, <1>6 DEF ExactInv

-----------------------------------------------------------------------------
(* Each action, on ExactInv and on the outbox.                              *)

OutboxStep == O!Next \/ UNCHANGED O!vars

LEMMA RefineIntake ==
  ASSUME TypeOK, ExactInv, NEW e \in Emissions,
         EmitEvent(e) \/ CreateIfAbsent(e) \/ NextChannel(e)
  PROVE  ExactInv' /\ OutboxStep
<1>0. \A w \in Workers : wpc[w] # "idle" => job[w].note \in Notes
  BY BusyOnFile
<1>1. CASE UNCHANGED rec /\ UNCHANGED <<wpc, job, sends, admin>>
  <2>1. ExactInv'
    BY <1>0, <1>1, ExactKept
  <2>2. UNCHANGED O!vars
    BY <1>1, OutboxStutters, PhaseMeans
  <2> QED BY <2>1, <2>2 DEF OutboxStep
<1>2. CASE CreateIfAbsent(e) /\ ~UNCHANGED rec
  <2>0. NoteOf(e) \in Notes
    BY KeyOfAssumption, ChannelsAssumption DEF TypeOK, NoteOf, Notes, ChannelSet
  <2> PICK n \in Notes : n = NoteOf(e)
    BY <2>0
  <2>1. /\ rec[n].status = "absent" /\ Update(n, FreshRecord)
        /\ UNCHANGED <<wpc, job, sends, admin>>
    BY <1>2 DEF CreateIfAbsent, Seen
  <2>2. /\ rec'[n].status = "queued" /\ sends'[n] = 0
        /\ \A m \in Notes : m # n => rec'[m] = rec[m]
        /\ O!Move(n, "none", "pending")
    <3>1. Phase(n) = "none" /\ sends[n] = 0
      BY <2>1, PhaseMeans DEF ExactInv, NoteInv
    <3>2. rec'[n] = FreshRecord /\ \A m \in Notes : m # n => rec'[m] = rec[m]
      BY <2>1, UpdateOne
    <3>3. Phase(n)' = "pending"
      BY <3>2, PhaseMeans DEF FreshRecord, Pending, Sendable
    <3> QED BY <2>1, <3>1, <3>2, <3>3, OutboxMoves DEF FreshRecord
  <2>3. \A w \in Workers : wpc[w] # "idle" => job[w].note \in Notes /\ job[w].note # n
    BY <2>1, BusyOnFile
  <2>4. OneWorkerPerRecord'
    BY <2>1 DEF ExactInv, OneWorkerPerRecord, Idle
  <2>5. \A m \in Notes : NoteInv(m)'
    BY <2>1, <2>2, InFlightMeans DEF ExactInv, NoteInv, Pending
  <2>6. \A w \in Workers : JobInv(w)'
    BY <2>1, <2>2, <2>3 DEF ExactInv, JobInv, Pending
  <2>7. O!Next
    BY <2>1, <2>2 DEF O!Next, O!Post
  <2> QED BY <2>1, <2>4, <2>5, <2>6, <2>7 DEF ExactInv, OutboxStep
<1> QED BY <1>1, <1>2 DEF EmitEvent, CreateIfAbsent, NextChannel

LEMMA RefineQueue ==
  ASSUME TypeOK, ExactInv,
         \/ FindDue \/ BreakDrain
         \/ \E n \in Notes : RecoverStale(n) \/ BackoffEnds(n)
  PROVE  ExactInv' /\ OutboxStep
<1>0. \A w \in Workers : wpc[w] # "idle" => job[w].note \in Notes
  BY BusyOnFile
<1>1. UNCHANGED <<wpc, job, sends, admin>>
  BY DEF FindDue, BreakDrain, RecoverStale, BackoffEnds
<1>2. \A n \in Notes : \/ rec'[n].status = rec[n].status
                       \/ Pending(n) /\ Pending(n)'
  <2>1. CASE FindDue \/ BreakDrain
    BY <2>1 DEF FindDue, BreakDrain
  <2>2. ASSUME NEW n \in Notes, RecoverStale(n)
        PROVE  \A m \in Notes : rec'[m] = rec[m] \/ (Pending(m) /\ Pending(m)')
    <3>1. rec[n] \in Record
      BY DEF TypeOK
    <3>2. rec'[n] = Recovered(n)
      BY <2>2, UpdateOne DEF RecoverStale
    <3>3. rec'[n].status = "failed"
      BY <3>1, <3>2 DEF Recovered, Record
    <3> QED BY <2>2, <3>3, UpdateOne DEF RecoverStale, Pending, Sendable
  <2>3. ASSUME NEW n \in Notes, BackoffEnds(n)
        PROVE  \A m \in Notes : rec'[m].status = rec[m].status
    <3>1. rec[n] \in Record
      BY DEF TypeOK
    <3>2. rec'[n].status = rec[n].status
      BY <2>3, <3>1, UpdateOne DEF BackoffEnds, Record
    <3> QED BY <2>3, <3>2, UpdateOne DEF BackoffEnds
  <2> QED BY <2>1, <2>2, <2>3
<1>3. ExactInv'
  BY <1>0, <1>1, <1>2, ExactKept
<1>4. UNCHANGED O!vars
  BY <1>1, <1>2, PhaseMeans, OutboxStutters
<1> QED BY <1>3, <1>4 DEF OutboxStep

LEMMA RefineStart ==
  ASSUME TypeOK, ExactInv, NEW w \in Workers, NEW n \in Notes, StartNext(w, n)
  PROVE  ExactInv' /\ OutboxStep
<1>0. \A v \in Workers : wpc[v] # "idle" => job[v].note \in Notes
  BY BusyOnFile
<1>1. UNCHANGED <<rec, sends, admin>>
  BY DEF StartNext
<1>2. UNCHANGED O!vars
  BY <1>1, PhaseMeans, OutboxStutters
<1>3. CASE UNCHANGED <<wpc, job>>
  BY <1>0, <1>1, <1>2, <1>3, ExactKept DEF OutboxStep
<1>4. CASE /\ ~Busy(n) /\ rec[n].status \in Sendable
           /\ wpc' = [wpc EXCEPT ![w] = "mark"]
           /\ job' = [job EXCEPT ![w] = [note |-> n, attempts |-> rec[n].attempts,
                                         max |-> rec[n].max, retryable |-> TRUE]]
  <2>1. /\ wpc[w] = "idle" /\ wpc'[w] = "mark" /\ job'[w].note = n
        /\ \A v \in Workers : v # w => wpc'[v] = wpc[v] /\ job'[v] = job[v]
    BY <1>4 DEF StartNext, Idle, TypeOK
  <2>2. \A v \in Workers : wpc[v] # "idle" => job[v].note # n
    BY <1>4, InFlightMeans DEF Busy
  <2>3. OneWorkerPerRecord'
    BY <2>1, <2>2 DEF ExactInv, OneWorkerPerRecord, Idle
  <2>4. \A m \in Notes : m \in InFlight => (m \in InFlight)'
    BY <2>1, InFlightMeans
  <2>5. \A m \in Notes : NoteInv(m)'
    BY <1>1, <2>4 DEF ExactInv, NoteInv, Pending
  <2>6. Pending(n) /\ sends[n] = 0
    BY <1>4 DEF Busy, ExactInv, NoteInv, Pending
  <2>7. JobInv(w)'
    BY <1>1, <2>1, <2>6 DEF JobInv, Pending
  <2>8. \A v \in Workers : v # w => JobInv(v)'
    BY <1>1, <2>1 DEF ExactInv, JobInv, Pending
  <2> QED BY <1>1, <1>2, <2>3, <2>5, <2>7, <2>8 DEF ExactInv, OutboxStep
<1> QED BY <1>3, <1>4 DEF StartNext

\* A worker at one of these places has a note that is pending, or settled.
LEMMA WorkerAt ==
  ASSUME TypeOK, ExactInv, NEW w \in Workers, NEW from, NEW to, Step(w, from, to),
         from # "idle"
  PROVE  /\ job[w].note \in Notes /\ rec[job[w].note] \in Record
         /\ wpc[w] = from /\ wpc'[w] = to /\ JobInv(w) /\ AttemptsMade(w) \in Nat
<1>1. wpc[w] = from /\ wpc'[w] = to
  BY DEF Step, TypeOK
<1> QED BY <1>1, BusyOnFile, JobFacts, TypeParts DEF ExactInv, TypeOK

\* A record that stays pending while its worker moves on.
LEMMA RefineResched ==
  ASSUME TypeOK, ExactInv, NEW w \in Workers, MarkProcessing(w) \/ ScheduleRetry(w)
  PROVE  ExactInv' /\ OutboxStep
<1> PICK n : n = job[w].note
  OBVIOUS
<1>1. ASSUME NEW from \in {"mark", "fail"}, NEW to \in {"send", "auditRetry"},
             Step(w, from, to), NEW r, Update(n, r), r.status \in {"processing", "failed"},
             UNCHANGED <<job, admin, sends>>
      PROVE  ExactInv' /\ OutboxStep
  <2>1. n \in Notes /\ wpc[w] = from /\ wpc'[w] = to /\ Pending(n) /\ sends[n] = 0
    BY <1>1, WorkerAt DEF JobInv
  <2>2. rec'[n] = r /\ \A m \in Notes : m # n => rec'[m] = rec[m] /\ Phase(m)' = Phase(m)
    BY <1>1, <2>1, UpdateOne
  <2>3. Pending(n)' /\ rec'[n].status # "absent"
    BY <1>1, <2>2 DEF Pending, Sendable
  <2>4. JobInv(w)'
    BY <1>1, <2>1, <2>3 DEF JobInv, Pending
  <2>5. ExactInv'
    BY <1>1, <2>2, <2>3, <2>4, ExactByStep
  <2>6. \A m \in Notes : Phase(m)' = Phase(m)
    BY <2>1, <2>2, <2>3, PhaseMeans
  <2> QED BY <1>1, <2>5, <2>6, OutboxStutters DEF OutboxStep
<1>2. CASE MarkProcessing(w)
  <2>1. n \in Notes /\ rec[n] \in Record
    BY <1>2, WorkerAt DEF MarkProcessing
  <2>2. [rec[n] EXCEPT !.status = "processing"].status = "processing"
    BY <2>1 DEF Record
  <2> QED BY <1>1, <1>2, <2>2 DEF MarkProcessing
<1>3. CASE ScheduleRetry(w)
  <2>1. n \in Notes /\ rec[n] \in Record
    BY <1>3, WorkerAt DEF ScheduleRetry
  <2>2. [rec[n] EXCEPT !.status = "failed", !.attempts = AttemptsMade(w),
                       !.due = FALSE].status = "failed"
    BY <2>1 DEF Record
  <2> QED BY <1>1, <1>3, <2>2 DEF ScheduleRetry
<1> QED BY <1>2, <1>3

\* A provider's answer.
LEMMA RefineSend ==
  ASSUME TypeOK, ExactInv, NEW w \in Workers,
         \/ ProviderAccepts(w)
         \/ \E retryable \in BOOLEAN : ProviderRefuses(w, retryable)
  PROVE  ExactInv' /\ OutboxStep
<1> PICK n : n = job[w].note
  OBVIOUS
<1>1. CASE ProviderAccepts(w)
  <2>1. /\ n \in Notes /\ wpc'[w] = "record" /\ Pending(n) /\ sends[n] = 0
        /\ rec[n].status # "absent"
    BY <1>1, WorkerAt, BusyOnFile DEF JobInv, ProviderAccepts
  <2>2. sends'[n] = 1 /\ \A m \in Notes : m # n => sends'[m] = sends[m]
    BY <1>1, <2>1 DEF ProviderAccepts, TypeOK
  <2>3. JobInv(w)'
    BY <1>1, <2>1, <2>2 DEF JobInv, Pending, ProviderAccepts
  <2>4. ExactInv'
    BY <1>1, <2>1, <2>2, <2>3, ExactByStep DEF ProviderAccepts
  <2>5. sends' = [sends EXCEPT ![n] = 1]
    BY <1>1, <2>1 DEF ProviderAccepts
  <2>6. UNCHANGED rec /\ Phase(n) = "pending"
    BY <1>1, <2>1, PhaseMeans DEF ProviderAccepts
  <2>7. [m \in Notes |-> Phase(m)]' = [m \in Notes |-> Phase(m)]
    BY <2>6, PhaseMeans
  <2>8. O!Accept(n)
    BY <2>1, <2>5, <2>6, <2>7 DEF O!Accept
  <2> QED BY <2>1, <2>4, <2>8 DEF OutboxStep, O!Next
<1>2. ASSUME NEW retryable \in BOOLEAN, ProviderRefuses(w, retryable)
      PROVE  ExactInv' /\ OutboxStep
  <2>1. /\ n \in Notes /\ wpc'[w] = "fail" /\ Pending(n) /\ sends[n] = 0
        /\ rec[n].status # "absent"
    BY <1>2, WorkerAt, BusyOnFile DEF JobInv, ProviderRefuses
  <2>2. \A v \in Workers : job'[v].note = job[v].note
    BY <1>2 DEF ProviderRefuses, TypeOK, Job
  <2>3. JobInv(w)'
    BY <1>2, <2>1, <2>2 DEF JobInv, Pending, ProviderRefuses
  <2>4. ExactInv'
    BY <1>2, <2>1, <2>2, <2>3, ExactByStep DEF ProviderRefuses
  <2>5. UNCHANGED O!vars
    BY <1>2, PhaseMeans, OutboxStutters DEF ProviderRefuses
  <2> QED BY <2>4, <2>5 DEF OutboxStep
<1> QED BY <1>1, <1>2

\* The record is settled as sent or as dead.
LEMMA RefineSettle ==
  ASSUME TypeOK, ExactInv, NEW w \in Workers, RecordSent(w) \/ GiveUp(w)
  PROVE  ExactInv' /\ OutboxStep
<1> PICK n : n = job[w].note
  OBVIOUS
<1>1. ASSUME NEW from \in {"record", "fail"}, NEW to \in {"auditSent", "push"},
             Step(w, from, to), NEW r, Update(n, r), r.status \in Settled,
             from = "record" <=> r.status = "sent",
             UNCHANGED <<job, admin, sends>>
      PROVE  ExactInv' /\ OutboxStep
  <2>1. /\ n \in Notes /\ wpc[w] = from /\ wpc'[w] = to /\ Pending(n)
        /\ sends[n] = IF from = "record" THEN 1 ELSE 0
    BY <1>1, WorkerAt DEF JobInv
  <2>2. rec'[n] = r /\ \A m \in Notes : m # n => rec'[m] = rec[m]
    BY <1>1, <2>1, UpdateOne
  <2>3. JobInv(w)' /\ rec'[n].status # "absent"
    BY <1>1, <2>1, <2>2 DEF JobInv, Settled
  <2>4. ExactInv'
    BY <1>1, <2>2, <2>3, ExactByStep
  <2>5. Phase(n) = "pending" /\ Phase(n)' = r.status
    BY <1>1, <2>1, <2>2, PhaseMeans
  <2>6. O!Move(n, "pending", r.status)
    BY <1>1, <2>1, <2>5, OutboxMoves
  <2>7. O!Settle(n) \/ O!GiveUp(n)
    BY <1>1, <2>1, <2>6 DEF O!Settle, O!GiveUp, Settled
  <2> QED BY <2>1, <2>4, <2>7 DEF OutboxStep, O!Next
<1>2. CASE RecordSent(w)
  <2>1. n \in Notes /\ rec[n] \in Record
    BY <1>2, WorkerAt DEF RecordSent
  <2>2. [rec[n] EXCEPT !.status = "sent", !.attempts = AttemptsMade(w)].status = "sent"
    BY <2>1 DEF Record
  <2> QED BY <1>1, <1>2, <2>2 DEF RecordSent, Settled
<1>3. CASE GiveUp(w)
  <2>1. n \in Notes /\ rec[n] \in Record
    BY <1>3, WorkerAt DEF GiveUp
  <2>2. [rec[n] EXCEPT !.status = "dead", !.attempts = AttemptsMade(w)].status = "dead"
    BY <2>1 DEF Record
  <2> QED BY <1>1, <1>3, <2>2 DEF GiveUp, Settled
<1> QED BY <1>2, <1>3

\* The steps after the outcome is on file.
LEMMA RefineAfter ==
  ASSUME TypeOK, ExactInv, NEW w \in Workers, PushDeadLetter(w) \/ AuditOutcome(w)
  PROVE  ExactInv' /\ OutboxStep
<1>0. UNCHANGED O!vars
  BY PhaseMeans, OutboxStutters DEF PushDeadLetter, AuditOutcome
<1>1. CASE PushDeadLetter(w)
  <2>1. wpc'[w] = "auditDead" /\ rec[job[w].note].status \in Settled
    BY <1>1, WorkerAt DEF JobInv, PushDeadLetter
  <2>2. JobInv(w)' /\ rec'[job[w].note].status # "absent"
    BY <1>1, <2>1 DEF JobInv, PushDeadLetter, Settled
  <2>3. ExactInv'
    BY <1>1, <2>2, ExactByStep DEF PushDeadLetter
  <2> QED BY <1>0, <2>3 DEF OutboxStep
<1>2. CASE AuditOutcome(w)
  <2> PICK n : n = job[w].note
    OBVIOUS
  <2>1. /\ wpc[w] # "idle" /\ wpc'[w] = "idle"
        /\ \A v \in Workers : v # w => wpc'[v] = wpc[v] /\ job'[v] = job[v]
        /\ UNCHANGED <<rec, sends, admin>>
    BY <1>2 DEF AuditOutcome, Leave, TypeOK
  <2>2. Pending(n) => sends[n] = 0
    BY <1>2 DEF AuditOutcome, ExactInv, JobInv, Pending, Sendable, Settled
  <2>3. \A m \in Notes : m # n /\ m \in InFlight => (m \in InFlight)'
    BY <2>1, InFlightMeans
  <2>4. \A m \in Notes : NoteInv(m)'
    BY <2>1, <2>2, <2>3 DEF ExactInv, NoteInv, Pending
  <2>5. OneWorkerPerRecord'
    BY <2>1 DEF ExactInv, OneWorkerPerRecord, Idle
  <2>6. \A v \in Workers : JobInv(v)'
    BY <2>1 DEF ExactInv, JobInv, Pending
  <2> QED BY <1>0, <2>1, <2>4, <2>5, <2>6 DEF ExactInv, OutboxStep
<1> QED BY <1>1, <1>2

-----------------------------------------------------------------------------
(* Nothing fails: the remaining actions cannot happen.                      *)

LEMMA NoFailure ==
  ASSUME Calm, TypeOK, ExactInv
  PROVE  /\ \A e \in Emissions : ~HandlerThrows(e)
         /\ \A w \in Workers : ~SuccessThrows(w) /\ ~ProcessRejects(w) /\ ~AnswerLost(w)
         /\ \A n \in Notes : ~RetryRead(n)
         /\ \A extra \in ExtraAttempts : ~RetryWrite(extra)
         /\ ~Restart
<1>1. /\ ~(budget.faults < MaxFaults) /\ ~(budget.crashes < MaxCrashes)
      /\ ~(budget.retries < MaxRetries)
  BY DEF Calm, TypeOK, Budget
<1>2. ~AnswersLost /\ admin = NoRetry
  BY DEF Calm, ExactInv
<1> QED BY <1>1, <1>2 DEF HandlerThrows, SuccessThrows, ProcessRejects, Fault,
           AnswerLost, RetryRead, RetryWrite, Restart

LEMMA ExactInit == Init => ExactInv /\ O!Init
<1> SUFFICES ASSUME Init PROVE ExactInv /\ O!Init
  OBVIOUS
<1>1. \A n \in Notes : rec[n].status = "absent" /\ sends[n] = 0
  BY DEF Init, NoRecord
<1>2. [n \in Notes |-> Phase(n)] = [n \in Notes |-> "none"] /\ sends = [n \in Notes |-> 0]
  BY <1>1, PhaseMeans DEF Init
<1>3. ExactInv
  BY <1>1 DEF Init, ExactInv, OneWorkerPerRecord, Idle, NoteInv, JobInv
<1> QED BY <1>2, <1>3 DEF O!Init

LEMMA ExactStep ==
  ASSUME Calm, TypeOK, ExactInv, [Next]_vars
  PROVE  ExactInv' /\ [O!Next]_O!vars
<1>1. CASE UNCHANGED vars
  <2>1. \A w \in Workers : wpc[w] # "idle" => job[w].note \in Notes
    BY BusyOnFile
  <2>2. UNCHANGED <<rec, wpc, job, sends, admin>>
    BY <1>1 DEF vars
  <2> QED BY <2>1, <2>2, ExactKept, PhaseMeans, OutboxStutters
<1>2. CASE Next
  <2>1. ExactInv' /\ OutboxStep
    BY <1>2, NoFailure, RefineIntake, RefineQueue, RefineStart, RefineResched,
       RefineSend, RefineSettle, RefineAfter DEF Next, Handle, Process
  <2> QED BY <2>1 DEF OutboxStep
<1> QED BY <1>1, <1>2

\* While no write fails, no answer is lost, the process lives and no admin
\* requeues a message, the engine implements the outbox: each notification is
\* posted once, accepted at most once, and ends as sent exactly if it was
\* accepted, however many workers, duplicate emissions and sweeps there are.
THEOREM CalmDeliveryIsExactlyOnce == ASSUME Calm PROVE Spec => ExactlyOnce
<1>1. Init => ExactInv /\ O!Init
  BY ExactInit
<1>2. TypeOK /\ ExactInv /\ [Next]_vars => ExactInv' /\ [O!Next]_O!vars
  BY ExactStep
<1> QED BY <1>1, <1>2, DeliveryTypeCorrect, PTL DEF Spec, ExactlyOnce, O!Spec

-----------------------------------------------------------------------------
(* The budget of a record: while no write fails, the process lives and no   *)
(* admin requeues a message (Steady), each record's provider is called      *)
(* within it, and is given up only when it is used up, with lost answers    *)
(* and sweeps during sends.  BudgetInv compares the calls with the attempts *)
(* on file, which lag by one between an answer and the update that records  *)
(* it.                                                                      *)

Steady == MaxFaults = 0 /\ MaxCrashes = 0 /\ MaxRetries = 0

\* Every call is on file, and a record that can be sent again may be.
Counted(n) == /\ tries[n] = rec[n].attempts /\ rec[n].attempts <= MaxAttempts
              /\ Pending(n) => rec[n].attempts < MaxAttempts

NoteCount(n) ==
  /\ rec[n].status = "absent" => tries[n] = 0
  /\ rec[n].status # "absent" => rec[n].max = MaxAttempts
  /\ n \notin InFlight => Counted(n)

JobCount(w) ==
  LET n == job[w].note
  IN wpc[w] # "idle" =>
       /\ rec[n].status # "absent" /\ job[w].max = MaxAttempts
       /\ wpc[w] \in {"mark", "send", "record", "fail"} => job[w].attempts < MaxAttempts
       /\ wpc[w] \in {"mark", "send"} => tries[n] = job[w].attempts
       /\ wpc[w] \in {"record", "fail"} => tries[n] = AttemptsMade(w)
       /\ wpc[w] \in {"auditSent", "auditRetry", "push", "auditDead"} => Counted(n)

BudgetInv == /\ admin = NoRetry
             /\ \A n \in Notes : NoteCount(n)
             /\ \A w \in Workers : JobCount(w)

-----------------------------------------------------------------------------
(* Preservation of BudgetInv.                                               *)

\* Steps that leave the workers and the calls alone, and change of a record at
\* most its status and when it is due.
LEMMA BudgetKept ==
  ASSUME TypeOK, BudgetInv, UNCHANGED <<wpc, job, tries, admin>>,
         \A n \in Notes : /\ rec'[n].attempts = rec[n].attempts /\ rec'[n].max = rec[n].max
                          /\ \/ rec'[n].status = rec[n].status
                             \/ Pending(n) /\ Pending(n)'
  PROVE  BudgetInv'
<1>1. \A n \in Notes : /\ Counted(n) => Counted(n)'
                       /\ rec'[n].status = "absent" <=> rec[n].status = "absent"
  BY DEF Counted, Pending, Sendable
<1>2. \A n \in Notes : NoteCount(n)'
  BY <1>1, InFlightMeans DEF BudgetInv, NoteCount
<1>3. ASSUME NEW w \in Workers PROVE JobCount(w)'
  <2>1. wpc[w] # "idle" => job[w].note \in Notes
    BY TypeParts, JobFacts
  <2> QED BY <1>1, <2>1 DEF BudgetInv, JobCount, AttemptsMade
<1> QED BY <1>2, <1>3 DEF BudgetInv

\* A worker works on its own note, and either stays busy or leaves it counted.
LEMMA BudgetByStep ==
  ASSUME TypeOK, OneWorkerPerRecord, BudgetInv, NEW w \in Workers, wpc[w] # "idle",
         NEW n \in Notes, n = job[w].note,
         \A v \in Workers \ {w} : wpc'[v] = wpc[v] /\ job'[v] = job[v],
         \A m \in Notes \ {n} : rec'[m] = rec[m] /\ tries'[m] = tries[m],
         rec'[n].status # "absent", rec'[n].max = MaxAttempts,
         \/ wpc'[w] # "idle" /\ job'[w].note = n
         \/ wpc'[w] = "idle" /\ Counted(n)',
         JobCount(w)', UNCHANGED admin
  PROVE  BudgetInv'
<1>1. NoteCount(n)'
  <2>1. CASE wpc'[w] # "idle" /\ job'[w].note = n
    <3>1. (n \in InFlight)'
      BY <2>1, InFlightMeans
    <3> QED BY <3>1 DEF NoteCount
  <2>2. CASE wpc'[w] = "idle" /\ Counted(n)'
    BY <2>2 DEF NoteCount
  <2> QED BY <2>1, <2>2
<1>2. ASSUME NEW m \in Notes, m # n PROVE NoteCount(m)'
  <2>1. (m \in InFlight)' <=> m \in InFlight
    BY <1>2, InFlightMeans
  <2>2. rec'[m] = rec[m] /\ tries'[m] = tries[m]
    BY <1>2
  <2> QED BY <2>1, <2>2 DEF BudgetInv, NoteCount, Counted, Pending
<1>3. ASSUME NEW v \in Workers, v # w PROVE JobCount(v)'
  <2>1. CASE wpc[v] = "idle"
    BY <1>3, <2>1 DEF JobCount
  <2>2. CASE wpc[v] # "idle"
    <3>1. job[v].note \in Notes /\ job[v].note # n
      BY <1>3, <2>2, TypeParts, JobFacts DEF OneWorkerPerRecord, Idle
    <3>2. /\ rec'[job[v].note] = rec[job[v].note] /\ tries'[job[v].note] = tries[job[v].note]
          /\ wpc'[v] = wpc[v] /\ job'[v] = job[v]
      BY <1>3, <3>1
    <3> QED BY <3>2 DEF BudgetInv, JobCount, Counted, Pending, AttemptsMade
  <2> QED BY <2>1, <2>2
<1>4. \A m \in Notes : NoteCount(m)'
  BY <1>1, <1>2
<1>5. \A v \in Workers : JobCount(v)'
  BY <1>3
<1> QED BY <1>4, <1>5 DEF BudgetInv

-----------------------------------------------------------------------------
(* Each action.                                                             *)

LEMMA BudgetIntake ==
  ASSUME TypeOK, BudgetInv, NEW e \in Emissions, CreateIfAbsent(e)
  PROVE  BudgetInv'
<1>1. CASE UNCHANGED rec
  BY <1>1, BudgetKept DEF CreateIfAbsent
<1>2. CASE ~UNCHANGED rec
  <2>0. NoteOf(e) \in Notes
    BY KeyOfAssumption, ChannelsAssumption DEF TypeOK, NoteOf, Notes, ChannelSet
  <2> PICK n \in Notes : n = NoteOf(e)
    BY <2>0
  <2>1. /\ rec[n].status = "absent" /\ Update(n, FreshRecord)
        /\ UNCHANGED <<wpc, job, tries, admin>>
    BY <1>2 DEF CreateIfAbsent, Seen
  <2>2. rec'[n] = FreshRecord /\ \A m \in Notes : m # n => rec'[m] = rec[m]
    BY <2>1, UpdateOne
  <2>3. n \notin InFlight
    BY <2>1, InFlightMeans DEF BudgetInv, JobCount
  <2>4. NoteCount(n)'
    BY <2>1, <2>2, BudgetAssumption DEF BudgetInv, NoteCount, Counted, FreshRecord
  <2>5. \A m \in Notes : m # n => NoteCount(m)'
    BY <2>1, <2>2, InFlightMeans DEF BudgetInv, NoteCount, Counted, Pending
  <2>6. ASSUME NEW w \in Workers PROVE JobCount(w)'
    <3>1. wpc[w] # "idle" => job[w].note \in Notes /\ job[w].note # n
      BY <2>3, TypeParts, JobFacts, InFlightMeans
    <3> QED BY <2>1, <2>2, <3>1 DEF BudgetInv, JobCount, Counted, Pending, AttemptsMade
  <2> QED BY <2>1, <2>4, <2>5, <2>6 DEF BudgetInv
<1> QED BY <1>1, <1>2

LEMMA BudgetClocks ==
  ASSUME TypeOK, BudgetInv, NEW n \in Notes, RecoverStale(n) \/ BackoffEnds(n)
  PROVE  BudgetInv'
<1>1. rec[n] \in Record
  BY DEF TypeOK
<1>2. ASSUME NEW r \in Record, Update(n, r), r.attempts = rec[n].attempts, r.max = rec[n].max,
             r.status = rec[n].status \/ (Pending(n) /\ r.status \in Sendable),
             UNCHANGED <<wpc, job, tries, admin>>
      PROVE  BudgetInv'
  <2>1. rec'[n] = r /\ \A m \in Notes : m # n => rec'[m] = rec[m]
    BY <1>2, UpdateOne
  <2> QED BY <1>2, <2>1, BudgetKept DEF Pending
<1>3. CASE RecoverStale(n)
  <2>1. /\ Recovered(n) \in Record /\ Recovered(n).status = "failed"
        /\ Recovered(n).attempts = rec[n].attempts /\ Recovered(n).max = rec[n].max
    BY <1>1 DEF Recovered, Record, Statuses, Sendable
  <2> QED BY <1>2, <1>3, <2>1 DEF RecoverStale, Pending, Sendable
<1>4. CASE BackoffEnds(n)
  <2> DEFINE r == [rec[n] EXCEPT !.due = TRUE]
  <2>1. /\ r \in Record /\ r.status = rec[n].status
        /\ r.attempts = rec[n].attempts /\ r.max = rec[n].max
    BY <1>1 DEF Record
  <2> QED BY <1>2, <1>4, <2>1 DEF BackoffEnds
<1> QED BY <1>3, <1>4

LEMMA BudgetStart ==
  ASSUME TypeOK, OneWorkerPerRecord, BudgetInv, NEW w \in Workers, NEW n \in Notes, StartNext(w, n)
  PROVE  BudgetInv'
<1>1. UNCHANGED <<rec, tries, admin>>
  BY DEF StartNext
<1>2. CASE UNCHANGED <<wpc, job>>
  BY <1>1, <1>2, BudgetKept
<1>3. CASE /\ ~Busy(n) /\ rec[n].status \in Sendable
           /\ wpc' = [wpc EXCEPT ![w] = "mark"]
           /\ job' = [job EXCEPT ![w] = [note |-> n, attempts |-> rec[n].attempts,
                                         max |-> rec[n].max, retryable |-> TRUE]]
  <2>1. /\ wpc[w] = "idle" /\ wpc'[w] = "mark"
        /\ job'[w] = [note |-> n, attempts |-> rec[n].attempts, max |-> rec[n].max, retryable |-> TRUE]
        /\ \A v \in Workers : v # w => wpc'[v] = wpc[v] /\ job'[v] = job[v]
    BY <1>3 DEF StartNext, Idle, TypeOK
  <2>2. rec[n].max = MaxAttempts /\ Counted(n) /\ Pending(n) /\ rec[n].status # "absent"
    BY <1>3 DEF Busy, BudgetInv, NoteCount, Pending, Sendable
  <2>3. JobCount(w)'
    BY <1>1, <2>1, <2>2 DEF JobCount, Counted
  <2>4. \A v \in Workers : v # w => JobCount(v)'
    BY <1>1, <2>1 DEF BudgetInv, JobCount, Counted, Pending, AttemptsMade
  <2>5. \A m \in Notes : m \in InFlight => (m \in InFlight)'
    BY <2>1, InFlightMeans
  <2>6. \A m \in Notes : NoteCount(m)'
    BY <1>1, <2>5 DEF BudgetInv, NoteCount, Counted, Pending
  <2> QED BY <1>1, <2>3, <2>4, <2>6 DEF BudgetInv
<1> QED BY <1>2, <1>3 DEF StartNext

\* What a busy worker's place says of its note.
LEMMA BudgetAt ==
  ASSUME TypeOK, BudgetInv, NEW w \in Workers, wpc[w] # "idle", NEW n, n = job[w].note
  PROVE  /\ n \in Notes /\ rec[n] \in Record
         /\ rec[n].status # "absent" /\ rec[n].max = MaxAttempts
         /\ MaxAttempts \in Nat /\ job[w].attempts \in Nat /\ tries[n] \in Nat
         /\ JobCount(w)
<1>1. n \in Notes /\ job[w].attempts \in Nat
  BY TypeParts, JobFacts DEF TypeOK, Job
<1>2. JobCount(w) /\ NoteCount(n)
  BY <1>1 DEF BudgetInv
<1>3. rec[n].status # "absent"
  BY <1>2 DEF JobCount
<1> QED BY <1>1, <1>2, <1>3, BudgetAssumption DEF NoteCount, TypeOK

\* The record read is taken in hand.
LEMMA BudgetMark ==
  ASSUME TypeOK, OneWorkerPerRecord, BudgetInv, NEW w \in Workers, MarkProcessing(w)
  PROVE  BudgetInv'
<1> PICK n : n = job[w].note
  OBVIOUS
<1>1. /\ wpc[w] = "mark" /\ wpc'[w] = "send" /\ UNCHANGED <<job, tries, admin>>
      /\ \A v \in Workers \ {w} : wpc'[v] = wpc[v]
      /\ Update(n, [rec[n] EXCEPT !.status = "processing"])
  BY DEF MarkProcessing, Step, TypeOK
<1>2. /\ n \in Notes /\ rec[n] \in Record /\ rec[n].max = MaxAttempts /\ JobCount(w)
  BY <1>1, BudgetAt
<1>3. /\ rec'[n].status = "processing" /\ rec'[n].max = MaxAttempts
      /\ \A m \in Notes \ {n} : rec'[m] = rec[m]
  BY <1>1, <1>2, UpdateOne DEF Record
<1>4. JobCount(w)'
  BY <1>1, <1>2, <1>3 DEF JobCount
<1> QED BY <1>1, <1>2, <1>3, <1>4, BudgetByStep

\* The provider is called, whatever comes of it.
LEMMA BudgetSend ==
  ASSUME TypeOK, OneWorkerPerRecord, BudgetInv, NEW w \in Workers,
         \/ ProviderAccepts(w) \/ AnswerLost(w)
         \/ \E retryable \in BOOLEAN : ProviderRefuses(w, retryable)
  PROVE  BudgetInv'
<1> PICK n : n = job[w].note
  OBVIOUS
<1>1. /\ wpc[w] = "send" /\ wpc'[w] \in {"record", "fail"} /\ Call(w)
      /\ UNCHANGED <<rec, admin>>
      /\ \A v \in Workers \ {w} : wpc'[v] = wpc[v] /\ job'[v] = job[v]
  BY DEF ProviderAccepts, AnswerLost, ProviderRefuses, Step, TypeOK
<1>2. /\ job'[w].note = n /\ job'[w].attempts = job[w].attempts /\ job'[w].max = job[w].max
  BY DEF ProviderAccepts, AnswerLost, ProviderRefuses, TypeOK, Job
<1>3. /\ n \in Notes /\ rec[n].status # "absent" /\ rec[n].max = MaxAttempts
      /\ tries[n] \in Nat /\ JobCount(w)
  BY <1>1, BudgetAt
<1>4. tries'[n] = tries[n] + 1 /\ \A m \in Notes \ {n} : tries'[m] = tries[m]
  BY <1>1, <1>3 DEF Call, TypeOK
<1>5. JobCount(w)'
  BY <1>1, <1>2, <1>3, <1>4 DEF JobCount, AttemptsMade
<1> QED BY <1>1, <1>2, <1>3, <1>4, <1>5, BudgetByStep

\* The attempt is put on file.
LEMMA BudgetOutcome ==
  ASSUME TypeOK, OneWorkerPerRecord, BudgetInv, NEW w \in Workers,
         RecordSent(w) \/ ScheduleRetry(w) \/ GiveUp(w)
  PROVE  BudgetInv'
<1> PICK n : n = job[w].note
  OBVIOUS
<1>1. /\ wpc[w] \in {"record", "fail"} /\ wpc'[w] \in {"auditSent", "auditRetry", "push"}
      /\ UNCHANGED <<job, tries, admin>>
      /\ \A v \in Workers \ {w} : wpc'[v] = wpc[v]
  BY DEF RecordSent, ScheduleRetry, GiveUp, Step, TypeOK
<1>2. /\ n \in Notes /\ rec[n] \in Record /\ rec[n].max = MaxAttempts
      /\ MaxAttempts \in Nat /\ job[w].attempts \in Nat /\ JobCount(w)
  BY <1>1, BudgetAt
<1>3. /\ job[w].attempts < MaxAttempts /\ job[w].max = MaxAttempts
      /\ tries[n] = AttemptsMade(w) /\ AttemptsMade(w) \in Nat /\ AttemptsMade(w) <= MaxAttempts
  BY <1>1, <1>2 DEF JobCount, AttemptsMade
<1>4. /\ rec'[n].status \in {"sent", "failed", "dead"}
      /\ rec'[n].attempts = AttemptsMade(w) /\ rec'[n].max = MaxAttempts
      /\ \A m \in Notes \ {n} : rec'[m] = rec[m]
      /\ rec'[n].status = "failed" => AttemptsMade(w) < MaxAttempts
  <2>1. CASE RecordSent(w)
    <3> DEFINE r == [rec[n] EXCEPT !.status = "sent", !.attempts = AttemptsMade(w)]
    <3>1. r.status = "sent" /\ r.attempts = AttemptsMade(w) /\ r.max = MaxAttempts
      BY <1>2 DEF Record
    <3> QED BY <1>2, <2>1, <3>1, UpdateOne DEF RecordSent
  <2>2. CASE ScheduleRetry(w)
    <3> DEFINE r == [rec[n] EXCEPT !.status = "failed", !.attempts = AttemptsMade(w), !.due = FALSE]
    <3>1. r.status = "failed" /\ r.attempts = AttemptsMade(w) /\ r.max = MaxAttempts
      BY <1>2 DEF Record
    <3>2. AttemptsMade(w) < MaxAttempts
      BY <1>2, <1>3, <2>2 DEF ScheduleRetry, Exhausted
    <3> QED BY <1>2, <2>2, <3>1, <3>2, UpdateOne DEF ScheduleRetry
  <2>3. CASE GiveUp(w)
    <3> DEFINE r == [rec[n] EXCEPT !.status = "dead", !.attempts = AttemptsMade(w)]
    <3>1. r.status = "dead" /\ r.attempts = AttemptsMade(w) /\ r.max = MaxAttempts
      BY <1>2 DEF Record
    <3> QED BY <1>2, <2>3, <3>1, UpdateOne DEF GiveUp
  <2> QED BY <2>1, <2>2, <2>3
<1>5. Counted(n)'
  BY <1>1, <1>3, <1>4 DEF Counted, Pending, Sendable
<1>6. JobCount(w)'
  BY <1>1, <1>2, <1>3, <1>4, <1>5 DEF JobCount
<1> QED BY <1>1, <1>2, <1>4, <1>6, BudgetByStep

\* What follows an attempt on file.
LEMMA BudgetAfter ==
  ASSUME TypeOK, OneWorkerPerRecord, BudgetInv, NEW w \in Workers,
         PushDeadLetter(w) \/ AuditOutcome(w)
  PROVE  BudgetInv'
<1> PICK n : n = job[w].note
  OBVIOUS
<1>1. /\ wpc[w] \in {"auditSent", "auditRetry", "push", "auditDead"}
      /\ UNCHANGED <<rec, tries, admin>>
      /\ \A v \in Workers \ {w} : wpc'[v] = wpc[v] /\ job'[v] = job[v]
      /\ \/ wpc'[w] = "auditDead" /\ job'[w] = job[w]
         \/ wpc'[w] = "idle"
  BY DEF PushDeadLetter, AuditOutcome, Leave, Step, TypeOK
<1>2. /\ n \in Notes /\ rec[n].status # "absent" /\ rec[n].max = MaxAttempts /\ JobCount(w)
  BY <1>1, BudgetAt
<1>3. Counted(n) /\ Counted(n)'
  BY <1>1, <1>2 DEF JobCount, Counted, Pending
<1>4. JobCount(w)'
  BY <1>1, <1>2, <1>3 DEF JobCount
<1> QED BY <1>1, <1>2, <1>3, <1>4, BudgetByStep

-----------------------------------------------------------------------------
LEMMA BudgetInit == Init => BudgetInv
<1> SUFFICES ASSUME Init PROVE BudgetInv
  OBVIOUS
<1>1. \A n \in Notes : NoteCount(n)
  BY BudgetAssumption DEF Init, NoteCount, Counted, Pending, NoRecord, Sendable
<1>2. \A w \in Workers : JobCount(w)
  BY DEF Init, JobCount
<1> QED BY <1>1, <1>2 DEF Init, BudgetInv

LEMMA BudgetStep ==
  ASSUME Steady, TypeOK, OneWorkerPerRecord, BudgetInv, [Next]_vars
  PROVE  BudgetInv'
<1>1. CASE \/ UNCHANGED vars \/ FindDue \/ BreakDrain
           \/ \E e \in Emissions : EmitEvent(e) \/ NextChannel(e)
  <2>1. UNCHANGED <<rec, wpc, job, tries, admin>>
    BY <1>1 DEF vars, FindDue, BreakDrain, EmitEvent, NextChannel
  <2> QED BY <2>1, BudgetKept
<1>2. ASSUME NEW e \in Emissions, CreateIfAbsent(e) PROVE BudgetInv'
  BY <1>2, BudgetIntake
<1>3. ASSUME NEW w \in Workers, NEW n \in Notes, StartNext(w, n) PROVE BudgetInv'
  BY <1>3, BudgetStart
<1>4. ASSUME NEW n \in Notes, RecoverStale(n) \/ BackoffEnds(n) PROVE BudgetInv'
  BY <1>4, BudgetClocks
<1>5. ASSUME NEW w \in Workers, Process(w) PROVE BudgetInv'
  BY <1>5, BudgetMark, BudgetSend, BudgetOutcome, BudgetAfter DEF Process
<1>6. ~Fault /\ ~Restart /\ \A n \in Notes : ~RetryRead(n)
  BY DEF Steady, TypeOK, Budget, Fault, Restart, RetryRead
<1>7. \A extra \in ExtraAttempts : ~RetryWrite(extra)
  BY DEF BudgetInv, RetryWrite
<1>8. /\ \A e \in Emissions : ~HandlerThrows(e)
      /\ \A w \in Workers : ~SuccessThrows(w) /\ ~ProcessRejects(w)
  BY <1>6 DEF HandlerThrows, SuccessThrows, ProcessRejects
<1> QED BY <1>1, <1>2, <1>3, <1>4, <1>5, <1>6, <1>7, <1>8 DEF Next, Handle

\* The calls never exceed the budget on the record, for they are the attempts
\* on file, or one more while the answer waits to be written.
LEMMA BudgetMeans == TypeOK /\ BudgetInv => CallsWithinBudget
<1> SUFFICES ASSUME TypeOK, BudgetInv, NEW n \in Notes PROVE tries[n] <= rec[n].max
  BY DEF CallsWithinBudget
<1>1. NoteCount(n) /\ rec[n].max \in Nat /\ tries[n] \in Nat /\ MaxAttempts \in Nat
  BY BudgetAssumption DEF BudgetInv, TypeOK, Record
<1>2. CASE n \notin InFlight
  BY <1>1, <1>2 DEF NoteCount, Counted
<1>3. CASE n \in InFlight
  <2>1. PICK w \in Workers : wpc[w] # "idle" /\ job[w].note = n
    BY <1>3, InFlightMeans
  <2>2. /\ JobCount(w) /\ rec[n].max = MaxAttempts /\ job[w].attempts \in Nat
        /\ wpc[w] \in WorkerPCs /\ rec[n].attempts \in Nat
    BY <2>1, BudgetAt DEF TypeOK, Record
  <2> QED BY <1>1, <2>1, <2>2 DEF JobCount, Counted, AttemptsMade, WorkerPCs
<1> QED BY <1>2, <1>3

LEMMA BudgetAlways == ASSUME Steady PROVE Spec => [](TypeOK /\ OneWorkerPerRecord /\ BudgetInv)
<1>1. TypeOK /\ OneWorkerPerRecord /\ BudgetInv /\ [Next]_vars => BudgetInv'
  BY BudgetStep
<1> QED BY <1>1, BudgetInit, DeliveryTypeCorrect, OneWorkerAtATime, PTL DEF Spec

\* Sweeps that find a record stale while it is being sent, lost answers and
\* overlapping drains never make the dispatcher call a provider more often
\* than the record allows, for every set of workers and emissions
\* (src/src/notifications/core/Dispatcher.js).
THEOREM BudgetHolds == ASSUME Steady PROVE Spec => []CallsWithinBudget
BY BudgetAlways, BudgetMeans, PTL

=============================================================================
