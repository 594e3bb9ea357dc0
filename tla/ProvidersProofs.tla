--------------------------- MODULE ProvidersProofs ---------------------------
(***************************************************************************)
(* Proofs about Providers, for every set of messages, every provider,      *)
(* configuration, status and budget.                                       *)
(*                                                                         *)
(* A step is about one message and its alert, so that the invariant is     *)
(* stated message by message (MessageInv) and shown to be kept for the one *)
(* a step is about; the cached transport has an invariant of its own.      *)
(***************************************************************************)
EXTENDS Providers, TLAPS

Kinds == {"message", "alert"}
Open == {"queued", "failed", "processing"}
Results == {"sent", "submitted", "failed", "refused"}

SendStates == [at : {"idle", "due", "import"}] \cup [at : {"post"}, try : Nat]
                \cup [at : {"smtp"}, tx : Nat]

TypeInv == /\ status \in [Messages -> Open \cup {"sent", "submitted", "dead"}]
           /\ send \in [Jobs -> SendStates]
           /\ taken \in [Jobs -> Nat] /\ unheard \in [Jobs -> Nat] /\ final \in [Jobs -> Nat]

\* The history of a job that is still to be sent: nothing final came back, and
\* each time the service took it on, the answer was lost.
Unsettled(j) == taken[j] <= unheard[j] /\ final[j] = 0
Bounded(j)   == taken[j] <= 1 + unheard[j] /\ final[j] <= 1

MessageInv(m) ==
  LET j == <<m, "message">>
      a == <<m, "alert">>
  IN /\ Bounded(j) /\ Bounded(a)
     /\ status[m] \in Open => Unsettled(j)
     /\ status[m] \in {"sent", "submitted"} => taken[j] > 0
     /\ send[j].at # "idle" => status[m] = "processing"
     /\ send[a].at # "post" /\ (send[a].at # "idle" => status[m] = "dead")
     /\ status[m] # "dead" \/ send[a].at # "idle" => taken[a] = 0 /\ final[a] = 0

\* The cached transport is not known to be broken, and a new one has a new name.
TransportInv == /\ made \in Nat /\ transport \in 0..made
                /\ broken \subseteq 1..made /\ transport \notin broken
                /\ \A j \in Jobs : send[j].at = "smtp" => send[j].tx \in 1..made

\* What a step about m leaves alone.
Elsewhere(m) ==
  \A n \in Messages \ {m} :
    /\ status'[n] = status[n]
    /\ \A k \in Kinds : /\ send'[<<n, k>>] = send[<<n, k>>]
                        /\ taken'[<<n, k>>] = taken[<<n, k>>]
                        /\ unheard'[<<n, k>>] = unheard[<<n, k>>]
                        /\ final'[<<n, k>>] = final[<<n, k>>]

\* A send that begins on a transport does so on the cached one, in a step that
\* breaks none; and what a step does to the transports.
SendStep ==
  \A l \in Jobs : send'[l].at = "smtp" =>
    \/ send'[l] = send[l]
    \/ send'[l].tx = transport' /\ transport' # 0 /\ broken' = broken

TransportStep ==
  \/ UNCHANGED <<transport, made, broken>>
  \/ made' = made + 1 /\ transport' = made' /\ broken' = broken
  \/ /\ transport' = 0 /\ made' = made
     /\ \E j \in Jobs : send[j].at = "smtp" /\ broken' = broken \cup {send[j].tx}

-----------------------------------------------------------------------------
LEMMA JobParts ==
  /\ \A m \in Messages, k \in Kinds : <<m, k>> \in Jobs
  /\ \A j \in Jobs : \E m \in Messages, k \in Kinds : j = <<m, k>>
BY DEF Jobs, Kinds

LEMMA SendFacts ==
  /\ Idle \in SendStates /\ Idle.at = "idle"
  /\ [at |-> "due"] \in SendStates /\ [at |-> "due"].at = "due"
  /\ [at |-> "import"] \in SendStates /\ [at |-> "import"].at = "import"
  /\ \A n \in Nat : /\ [at |-> "post", try |-> n] \in SendStates
                    /\ [at |-> "post", try |-> n].at = "post"
                    /\ [at |-> "smtp", tx |-> n] \in SendStates
                    /\ [at |-> "smtp", tx |-> n].at = "smtp"
                    /\ [at |-> "smtp", tx |-> n].tx = n
BY DEF Idle, SendStates

LEMMA OthersKept ==
  ASSUME TypeInv, NEW m \in Messages, Elsewhere(m), MessageInv(m)',
         \A n \in Messages : MessageInv(n)
  PROVE  \A n \in Messages : MessageInv(n)'
<1>1. ASSUME NEW n \in Messages, n # m PROVE MessageInv(n)'
  BY <1>1 DEF Elsewhere, MessageInv, Bounded, Unsettled, Kinds
<1> QED BY <1>1

\* What a send that is over does to its job, its record and the alert.
LEMMA OutcomeMeans ==
  ASSUME TypeInv, NEW m \in Messages, NEW k \in Kinds, NEW result \in Results,
         Outcome(<<m, k>>, result)
  PROVE  /\ status' \in [Messages -> Open \cup {"sent", "submitted", "dead"}]
         /\ send' \in [Jobs -> SendStates]
         /\ send'[<<m, k>>] = Idle
         /\ SendStep
         /\ \A n \in Messages \ {m} : /\ status'[n] = status[n]
                                      /\ \A l \in Kinds : send'[<<n, l>>] = send[<<n, l>>]
         /\ k = "alert" => status' = status /\ send'[<<m, "message">>] = send[<<m, "message">>]
         /\ k = "message" =>
              /\ status'[m] = After(m, result)
              /\ After(m, result) \in {"sent", "submitted", "failed", "dead"}
              /\ After(m, result) \in {"sent", "submitted"} <=> result \in {"sent", "submitted"}
              /\ After(m, result) = "failed" => result = "failed"
              /\ \/ send'[<<m, "alert">>] = send[<<m, "alert">>]
                 \/ After(m, result) = "dead" /\ send'[<<m, "alert">>] = [at |-> "due"]
<1>0. /\ <<m, "message">> \in Jobs /\ <<m, "alert">> \in Jobs
      /\ <<m, "message">> # <<m, "alert">>
  BY JobParts DEF Kinds
<1>1. CASE k = "alert"
  <2>1. send' = [send EXCEPT ![<<m, "alert">>] = Idle] /\ status' = status
    BY <1>1 DEF Outcome
  <2>2. SendStep
    BY <1>0, <2>1, SendFacts DEF TypeInv, SendStep
  <2> QED BY <1>0, <1>1, <2>1, <2>2, JobParts, SendFacts DEF TypeInv
<1>2. CASE k = "message"
  <2>1. /\ After(m, result) \in {"sent", "submitted", "failed", "dead"}
        /\ After(m, result) \in {"sent", "submitted"} <=> result \in {"sent", "submitted"}
        /\ After(m, result) = "failed" => result = "failed"
    BY DEF After, Results
  <2>2. PICK s : /\ s = send[<<m, "alert">>] \/ (After(m, result) = "dead" /\ s = [at |-> "due"])
                 /\ send' = [send EXCEPT ![<<m, "message">>] = Idle, ![<<m, "alert">>] = s]
    BY <1>0, <1>2 DEF Outcome, TypeInv
  <2>3. status' = [status EXCEPT ![m] = After(m, result)]
    BY <1>2 DEF Outcome
  <2>4. s \in SendStates
    BY <1>0, <2>2, SendFacts DEF TypeInv
  <2>5. status' \in [Messages -> Open \cup {"sent", "submitted", "dead"}]
    BY <2>1, <2>3 DEF TypeInv, Open
  <2>6. /\ send' \in [Jobs -> SendStates] /\ send'[<<m, "message">>] = Idle
        /\ send'[<<m, "alert">>] = s
    BY <1>0, <2>2, <2>4, SendFacts DEF TypeInv
  <2>7. \A n \in Messages \ {m}, l \in Kinds : send'[<<n, l>>] = send[<<n, l>>]
    BY <1>0, <2>2, JobParts DEF TypeInv
  <2>8. status'[m] = After(m, result) /\ \A n \in Messages \ {m} : status'[n] = status[n]
    BY <2>3 DEF TypeInv
  <2>9. SendStep
    BY <1>0, <2>2, SendFacts DEF TypeInv, SendStep
  <2> QED BY <1>2, <2>1, <2>2, <2>5, <2>6, <2>7, <2>8, <2>9
<1> QED BY <1>1, <1>2 DEF Kinds

LEMMA CountMeans ==
  ASSUME NEW h \in [Jobs -> Nat], NEW j \in Jobs, NEW e \in BOOLEAN
  PROVE  /\ Count(h, j, e) \in [Jobs -> Nat]
         /\ e => Count(h, j, e)[j] = h[j] + 1
         /\ ~e => Count(h, j, e)[j] = h[j]
         /\ \A l \in Jobs \ {j} : Count(h, j, e)[l] = h[l]
BY DEF Count

\* Acceptance, the retryable flag and the tries of the adapter agree.
LEMMA AnswerMeans ==
  ASSUME NEW p, NEW a \in Answers, NEW took \in MayTake(p, a)
  PROVE  /\ took \in BOOLEAN
         /\ Succeeds(p, a) => took
         /\ ~Succeeds(p, a) /\ Retryable(p, a) => ~Settles(p, a) /\ (took => a = Silence)
         /\ TriedAgain(p, a) => ~Settles(p, a) /\ (took => a = Silence)
<1>1. a.status \in Nat /\ (a.status = 0 => a = Silence)
  <2>1. CASE a = Silence
    BY <2>1 DEF Silence
  <2>2. CASE a \in [status : Statuses, body : {"ack", "error", "none"}]
    <3>1. a.status \in 100..599
      BY <2>2, ProvidersAssumption DEF ProvidersAssumption
    <3> QED BY <3>1
  <2> QED BY <2>1, <2>2 DEF Answers
<1>2. took \in BOOLEAN /\ (took => Ok(a) \/ a.status = 0)
  BY DEF MayTake
<1>3. Ok(a) => a.status # 0
  BY DEF Ok
<1>4. Succeeds(p, a) => took
  <2>1. CASE p \in Gateways
    <3>1. Succeeds(p, a) => Ok(a) /\ a.body = "ack"
      BY <2>1 DEF Succeeds, Msg91Takes, AirtelTakes, Gateways
    <3>2. Ok(a) /\ a.body = "ack" => took = TRUE
      BY <1>3, <2>1 DEF MayTake
    <3> QED BY <3>1, <3>2
  <2>2. CASE p \notin Gateways
    <3>1. Succeeds(p, a) => Ok(a)
      BY <2>2 DEF Succeeds, TwilioTakes, Gateways
    <3>2. Ok(a) => took = TRUE
      BY <1>3, <2>2 DEF MayTake
    <3> QED BY <3>1, <3>2
  <2> QED BY <2>1, <2>2
<1>5. ASSUME ~Succeeds(p, a), Retryable(p, a) PROVE ~Ok(a) /\ ~Settles(p, a)
  BY <1>1, <1>5 DEF Succeeds, Msg91Takes, AirtelTakes, TwilioTakes, Gateways, Retryable, Settles, Ok
<1>6. TriedAgain(p, a) => ~Ok(a) /\ ~Settles(p, a)
  BY <1>1 DEF TriedAgain, Settles, Gateways, Ok
<1> QED BY <1>1, <1>2, <1>4, <1>5, <1>6

-----------------------------------------------------------------------------
(* Preservation, message by message.                                        *)

\* The histories of the other jobs stay as they are.
HistoriesOf(j) == /\ taken' \in [Jobs -> Nat] /\ unheard' \in [Jobs -> Nat]
                  /\ final' \in [Jobs -> Nat]
                  /\ \A l \in Jobs \ {j} : /\ taken'[l] = taken[l]
                                          /\ unheard'[l] = unheard[l]
                                          /\ final'[l] = final[l]

Kept(m) == TypeInv' /\ MessageInv(m)' /\ Elsewhere(m) /\ SendStep

\* A send that is over.
LEMMA OutcomeKeeps ==
  ASSUME TypeInv, NEW m \in Messages, NEW k \in Kinds, NEW result \in Results,
         MessageInv(m), Outcome(<<m, k>>, result), HistoriesOf(<<m, k>>),
         send[<<m, k>>].at # "idle" \/ (k = "message" /\ status[m] \in Open),
         Bounded(<<m, k>>)',
         result \in {"sent", "submitted"} => taken'[<<m, k>>] > 0,
         k = "message" /\ result = "failed" => Unsettled(<<m, k>>)'
  PROVE  Kept(m)
<1> DEFINE j == <<m, "message">>
           a == <<m, "alert">>
<1>0. /\ j \in Jobs /\ a \in Jobs /\ j # a
  BY JobParts DEF Kinds
<1>1. TypeInv' /\ SendStep
  BY OutcomeMeans DEF TypeInv, HistoriesOf
<1>2. Elsewhere(m)
  <2>1. \A n \in Messages \ {m}, l \in Kinds : <<n, l>> \in Jobs \ {<<m, k>>}
    BY JobParts
  <2>2. \A n \in Messages \ {m} : /\ status'[n] = status[n]
                                 /\ \A l \in Kinds : send'[<<n, l>>] = send[<<n, l>>]
    BY OutcomeMeans
  <2> QED BY <2>1, <2>2 DEF Elsewhere, HistoriesOf
<1>3. MessageInv(m)'
  <2>1. CASE k = "alert"
    <3>1. /\ status'[m] = status[m] /\ send'[j] = send[j] /\ send'[a].at = "idle"
          /\ status[m] = "dead"
      BY <2>1, OutcomeMeans, SendFacts DEF MessageInv
    <3>2. taken'[j] = taken[j] /\ unheard'[j] = unheard[j] /\ final'[j] = final[j]
      BY <1>0, <2>1 DEF HistoriesOf
    <3> QED BY <2>1, <3>1, <3>2 DEF MessageInv, Bounded, Unsettled, Open
  <2>2. CASE k = "message"
    <3>1. status[m] \in Open
      BY <2>2 DEF MessageInv, Open
    <3>2. send[a].at = "idle" /\ taken[a] = 0 /\ final[a] = 0
      BY <3>1 DEF MessageInv, Open
    <3>3. taken'[a] = taken[a] /\ unheard'[a] = unheard[a] /\ final'[a] = final[a]
      BY <1>0, <2>2 DEF HistoriesOf
    <3>4. /\ status'[m] = After(m, result) /\ send'[j].at = "idle"
          /\ status'[m] \in {"sent", "submitted", "failed", "dead"}
          /\ status'[m] \in {"sent", "submitted"} => result \in {"sent", "submitted"}
          /\ status'[m] = "failed" => result = "failed"
          /\ send'[a].at = "idle" \/ (send'[a].at = "due" /\ status'[m] = "dead")
      BY <2>2, <3>2, OutcomeMeans, SendFacts
    <3>5. Bounded(j)' /\ Bounded(a)'
      BY <1>0, <2>2, <3>2, <3>3 DEF Bounded, TypeInv
    <3> QED BY <2>2, <3>2, <3>3, <3>4, <3>5 DEF MessageInv, Open
  <2> QED BY <2>1, <2>2 DEF Kinds
<1> QED BY <1>1, <1>2, <1>3 DEF Kept

\* A send that goes on: its record is in processing or is a dead one.
LEMMA GoesOn ==
  ASSUME TypeInv, NEW m \in Messages, NEW k \in Kinds, MessageInv(m),
         NEW s \in SendStates, s.at # "idle", s.at = "post" => k = "message",
         send' = [send EXCEPT ![<<m, k>>] = s], HistoriesOf(<<m, k>>),
         \/ k = "message" /\ status[m] \in Open
            /\ status' = [status EXCEPT ![m] = "processing"]
         \/ send[<<m, k>>].at # "idle" /\ status' = status,
         k = "message" => Unsettled(<<m, k>>)',
         k = "alert" => UNCHANGED <<taken, unheard, final>>,
         s.at = "smtp" => s.tx = transport' /\ transport' # 0 /\ broken' = broken
  PROVE  Kept(m)
<1> DEFINE j == <<m, "message">>
           a == <<m, "alert">>
<1>0. j \in Jobs /\ a \in Jobs /\ j # a /\ <<m, k>> \in Jobs
  BY JobParts DEF Kinds
<1>1. TypeInv'
  BY <1>0 DEF TypeInv, HistoriesOf, Open
<1>2. SendStep
  BY <1>0 DEF SendStep, TypeInv
<1>3. Elsewhere(m)
  <2>1. \A n \in Messages \ {m}, l \in Kinds : <<n, l>> \in Jobs \ {<<m, k>>}
    BY JobParts
  <2>2. \A n \in Messages \ {m} : status'[n] = status[n]
    BY DEF TypeInv
  <2> QED BY <2>1, <2>2 DEF Elsewhere, HistoriesOf, TypeInv
<1>4. MessageInv(m)'
  <2>1. CASE k = "alert"
    <3>1. send'[a] = s /\ send'[j] = send[j] /\ status' = status /\ status[m] = "dead"
      BY <1>0, <2>1 DEF TypeInv, MessageInv
    <3> QED BY <2>1, <3>1 DEF MessageInv, Bounded, Unsettled, Open
  <2>2. CASE k = "message"
    <3>1. /\ send'[j] = s /\ send'[a] = send[a] /\ status'[m] = "processing"
          /\ status[m] \in Open
      BY <1>0, <2>2 DEF TypeInv, MessageInv, Open
    <3>2. send[a].at = "idle" /\ taken[a] = 0 /\ final[a] = 0
      BY <3>1 DEF MessageInv, Open
    <3>3. taken'[a] = taken[a] /\ unheard'[a] = unheard[a] /\ final'[a] = final[a]
      BY <1>0, <2>2 DEF HistoriesOf
    <3>4. Bounded(j)' /\ Bounded(a)'
      BY <1>0, <1>1, <2>2, <3>2, <3>3 DEF Bounded, Unsettled, TypeInv
    <3> QED BY <2>2, <3>1, <3>2, <3>3, <3>4 DEF MessageInv, Open
  <2> QED BY <2>1, <2>2 DEF Kinds
<1> QED BY <1>1, <1>2, <1>3, <1>4 DEF Kept

-----------------------------------------------------------------------------
(* The actions.                                                             *)

LEMMA ProcessKeeps ==
  ASSUME TypeInv, TransportInv, NEW m \in Messages, MessageInv(m), Process(m)
  PROVE  Kept(m) /\ TransportStep
<1> DEFINE j == <<m, "message">>
<1>0. j \in Jobs /\ "message" \in Kinds
  BY JobParts DEF Kinds
<1>1. HistoriesOf(j) /\ status[m] \in Open /\ TransportStep
  BY DEF Process, HistoriesOf, TypeInv, Open, TransportStep
<1>2. Unsettled(j) /\ Unsettled(j)' /\ Bounded(j)'
  BY <1>0, <1>1 DEF MessageInv, Unsettled, Bounded, Process, TypeInv
<1>3. CASE ProviderOf(j) = "smtp"
  <2>1. PICK s \in SendStates :
          /\ s.at # "idle" /\ s.at # "post"
          /\ s.at = "smtp" => s.tx = transport /\ transport # 0
          /\ send' = [send EXCEPT ![j] = s]
    <3>1. CASE transport # 0
      <4>1. send' = [send EXCEPT ![j] = [at |-> "smtp", tx |-> transport]]
        BY <1>3, <3>1 DEF Process, Start
      <4>2. transport \in Nat
        BY DEF TransportInv
      <4> QED BY <3>1, <4>1, <4>2, SendFacts
    <3>2. CASE transport = 0
      <4>1. send' = [send EXCEPT ![j] = [at |-> "import"]]
        BY <1>3, <3>2 DEF Process, Start
      <4> QED BY <4>1, SendFacts
    <3> QED BY <3>1, <3>2
  <2>2. status' = [status EXCEPT ![m] = "processing"]
    BY <1>3 DEF Process
  <2> QED BY <1>0, <1>1, <1>2, <2>1, <2>2, GoesOn DEF Process
<1>4. CASE ProviderOf(j) # "smtp" /\ Configured(ProviderOf(j))
  <2>1. PICK s \in SendStates : s.at = "post" /\ send' = [send EXCEPT ![j] = s]
    BY <1>4, SendFacts DEF Process, Start
  <2>2. status' = [status EXCEPT ![m] = "processing"]
    BY <1>4 DEF Process
  <2> QED BY <1>0, <1>1, <1>2, <2>1, <2>2, GoesOn
<1>5. CASE ProviderOf(j) # "smtp" /\ ~Configured(ProviderOf(j))
  <2>1. PICK result \in {"failed", "refused"} : Outcome(j, result)
    BY <1>5 DEF Process, Start, Refusal
  <2> QED BY <1>0, <1>1, <1>2, <2>1, OutcomeKeeps DEF Results
<1> QED BY <1>3, <1>4, <1>5

LEMMA AlertKeeps ==
  ASSUME TypeInv, TransportInv, NEW m \in Messages, MessageInv(m), AlertAdmin(m)
  PROVE  Kept(m) /\ TransportStep
<1> DEFINE a == <<m, "alert">>
<1>0. a \in Jobs /\ "alert" \in Kinds
  BY JobParts DEF Kinds
<1>1. HistoriesOf(a) /\ send[a].at # "idle" /\ TransportStep
  BY DEF AlertAdmin, HistoriesOf, TypeInv, TransportStep
<1>2. ProviderOf(a) = "smtp"
  <2>1. a[1] = m /\ a[2] = "alert"
    OBVIOUS
  <2> HIDE DEF a
  <2> QED BY <2>1 DEF ProviderOf
<1>3. PICK s \in SendStates :
        /\ s.at # "idle" /\ s.at # "post"
        /\ s.at = "smtp" => s.tx = transport /\ transport # 0
        /\ send' = [send EXCEPT ![a] = s]
        /\ attempts' = attempts
  <2>1. CASE transport # 0
    <3>1. send' = [send EXCEPT ![a] = [at |-> "smtp", tx |-> transport]] /\ attempts' = attempts
      BY <1>2, <2>1 DEF AlertAdmin, Start
    <3>2. transport \in Nat
      BY DEF TransportInv
    <3> QED BY <2>1, <3>1, <3>2, SendFacts
  <2>2. CASE transport = 0
    <3>1. send' = [send EXCEPT ![a] = [at |-> "import"]] /\ attempts' = attempts
      BY <1>2, <2>2 DEF AlertAdmin, Start
    <3> QED BY <3>1, SendFacts
  <2> QED BY <2>1, <2>2
<1> QED BY <1>0, <1>1, <1>3, GoesOn DEF AlertAdmin

LEMMA PostKeeps ==
  ASSUME TypeInv, NEW m \in Messages, NEW k \in Kinds, MessageInv(m),
         NEW a \in Answers, Post(<<m, k>>, a)
  PROVE  Kept(m) /\ TransportStep
<1> DEFINE j == <<m, "message">>
           p == ProviderOf(j)
<1>1. k = "message"
  BY DEF Post, MessageInv, Kinds
<1>0. j \in Jobs
  BY <1>1, JobParts
<1>2. status[m] = "processing" /\ Unsettled(j) /\ send[j].at = "post"
  BY <1>1 DEF Post, MessageInv, Open
<1>3. PICK took \in MayTake(p, a) : taken' = Count(taken, j, took)
  BY <1>1 DEF Post
<1>4. took \in BOOLEAN
  BY AnswerMeans
<1>5. unheard' = Count(unheard, j, a = Silence) /\ final' = Count(final, j, Settles(p, a))
  BY <1>1 DEF Post
<1>6. Settles(p, a) \in BOOLEAN /\ (a = Silence) \in BOOLEAN
  BY DEF Settles
<1>7. /\ taken' \in [Jobs -> Nat] /\ unheard' \in [Jobs -> Nat] /\ final' \in [Jobs -> Nat]
      /\ \A l \in Jobs \ {j} : /\ taken'[l] = taken[l] /\ unheard'[l] = unheard[l]
                              /\ final'[l] = final[l]
      /\ taken'[j] = taken[j] + IF took THEN 1 ELSE 0
      /\ unheard'[j] = unheard[j] + IF a = Silence THEN 1 ELSE 0
      /\ final'[j] = final[j] + IF Settles(p, a) THEN 1 ELSE 0
  <2>1. /\ taken' \in [Jobs -> Nat] /\ \A l \in Jobs \ {j} : taken'[l] = taken[l]
        /\ taken'[j] = taken[j] + IF took THEN 1 ELSE 0
    <3>1. taken \in [Jobs -> Nat]
      BY DEF TypeInv
    <3> QED BY <1>0, <1>3, <3>1 DEF Count
  <2>2. /\ unheard' \in [Jobs -> Nat] /\ \A l \in Jobs \ {j} : unheard'[l] = unheard[l]
        /\ unheard'[j] = unheard[j] + IF a = Silence THEN 1 ELSE 0
    <3>1. unheard \in [Jobs -> Nat]
      BY DEF TypeInv
    <3> QED BY <1>0, <1>5, <3>1 DEF Count
  <2>3. /\ final' \in [Jobs -> Nat] /\ \A l \in Jobs \ {j} : final'[l] = final[l]
        /\ final'[j] = final[j] + IF Settles(p, a) THEN 1 ELSE 0
    <3>1. final \in [Jobs -> Nat]
      BY DEF TypeInv
    <3> QED BY <1>0, <1>5, <3>1 DEF Count
  <2> QED BY <2>1, <2>2, <2>3
<1>8. HistoriesOf(j) /\ TransportStep
  BY <1>7 DEF Post, HistoriesOf, TransportStep
<1>9. Bounded(j)'
  BY <1>0, <1>2, <1>7 DEF Bounded, Unsettled, TypeInv
<1>10. ASSUME ~Settles(p, a), took => a = Silence
       PROVE  Unsettled(j)'
  BY <1>0, <1>2, <1>7, <1>10 DEF Unsettled, TypeInv
<1>11. CASE TriedAgain(p, a) /\ send[j].try < Tries
  <2>1. /\ send' = [send EXCEPT ![j].try = @ + 1] /\ status' = status
    BY <1>1, <1>11 DEF Post
  <2>2. PICK n \in Nat : send[j] = [at |-> "post", try |-> n]
    BY <1>0, <1>2 DEF TypeInv, SendStates
  <2>3. send' = [send EXCEPT ![j] = [at |-> "post", try |-> n + 1]]
    <3>1. send' = [send EXCEPT ![j] = [send[j] EXCEPT !.try = send[j].try + 1]]
      BY <1>0, <2>1 DEF TypeInv
    <3>2. [send[j] EXCEPT !.try = send[j].try + 1] = [at |-> "post", try |-> n + 1]
      BY <2>2
    <3> QED BY <3>1, <3>2
  <2>4. Unsettled(j)'
    BY <1>3, <1>10, <1>11, AnswerMeans
  <2>5. n + 1 \in Nat
    OBVIOUS
  <2> DEFINE s == [at |-> "post", try |-> n + 1]
  <2>6. s \in SendStates /\ s.at = "post"
    BY <2>5, SendFacts
  <2> HIDE DEF s
  <2>7. send' = [send EXCEPT ![j] = s]
    BY <2>3 DEF s
  <2> QED BY <1>1, <1>2, <1>8, <2>1, <2>4, <2>6, <2>7, GoesOn
<1>12. CASE ~(TriedAgain(p, a) /\ send[j].try < Tries)
  <2>1. PICK result \in Results :
          /\ Outcome(j, result)
          /\ result \in {"sent", "submitted"} => Succeeds(p, a)
          /\ result = "failed" => ~Succeeds(p, a) /\ Retryable(p, a)
    BY <1>1, <1>12 DEF Post, Submission, Results
  <2>2. result \in {"sent", "submitted"} => taken'[j] > 0
    BY <1>0, <1>3, <1>7, <2>1, AnswerMeans DEF TypeInv
  <2>3. result = "failed" => Unsettled(j)'
    BY <1>3, <1>10, <2>1, AnswerMeans
  <2> QED BY <1>1, <1>2, <1>8, <1>9, <2>1, <2>2, <2>3, OutcomeKeeps
<1> QED BY <1>11, <1>12

LEMMA ImportedKeeps ==
  ASSUME TypeInv, TransportInv, NEW m \in Messages, NEW k \in Kinds, MessageInv(m),
         Imported(<<m, k>>)
  PROVE  Kept(m) /\ TransportStep
<1> DEFINE j == <<m, k>>
<1>0. j \in Jobs
  BY JobParts
<1>1. HistoriesOf(j) /\ UNCHANGED <<taken, unheard, final>> /\ send[j].at = "import"
  BY DEF Imported, HistoriesOf, TypeInv
<1>2. Bounded(j)' /\ (k = "message" => status[m] = "processing" /\ Unsettled(j)')
  BY <1>0, <1>1 DEF MessageInv, Bounded, Unsettled, Open, Kinds
<1>3. CASE setup.account
  <2>1. /\ made' = made + 1 /\ transport' = made' /\ broken' = broken /\ status' = status
        /\ send' = [send EXCEPT ![j] = [at |-> "smtp", tx |-> made']]
    BY <1>3 DEF Imported
  <2>2. made' \in Nat \ {0}
    BY <2>1 DEF TransportInv
  <2> DEFINE s == [at |-> "smtp", tx |-> made']
  <2>3. s \in SendStates /\ s.at = "smtp" /\ s.tx = transport' /\ transport' # 0
    BY <2>1, <2>2, SendFacts
  <2> HIDE DEF s
  <2>4. send' = [send EXCEPT ![j] = s]
    BY <2>1 DEF s
  <2>5. Kept(m)
    BY <1>1, <1>2, <2>1, <2>3, <2>4, GoesOn
  <2> QED BY <2>1, <2>5 DEF TransportStep
<1>4. CASE ~setup.account
  <2>1. Outcome(j, "failed") /\ UNCHANGED <<made, transport, broken>>
    BY <1>4 DEF Imported
  <2>2. Kept(m)
    BY <1>1, <1>2, <2>1, OutcomeKeeps DEF Results
  <2> QED BY <2>1, <2>2 DEF TransportStep
<1> QED BY <1>3, <1>4

LEMMA MailKeeps ==
  ASSUME TypeInv, NEW m \in Messages, NEW k \in Kinds, MessageInv(m),
         MailTaken(<<m, k>>) \/ MailRefused(<<m, k>>)
  PROVE  Kept(m) /\ TransportStep
<1> DEFINE j == <<m, k>>
<1>0. j \in Jobs
  BY JobParts
<1>1. send[j].at = "smtp" /\ TransportStep
  BY DEF MailTaken, MailRefused, TransportStep
<1>2. /\ Unsettled(j)
      /\ Bounded(j)
  BY <1>0, <1>1 DEF MessageInv, Bounded, Unsettled, Open, Kinds, TypeInv
<1>3. CASE MailTaken(j)
  <2>1. HistoriesOf(j) /\ taken'[j] = taken[j] + 1 /\ unheard' = unheard
        /\ final'[j] = final[j] + 1
    <3>1. /\ taken' = Count(taken, j, TRUE) /\ final' = Count(final, j, TRUE)
          /\ unheard' = unheard
      BY <1>3 DEF MailTaken
    <3>2. taken \in [Jobs -> Nat] /\ unheard \in [Jobs -> Nat] /\ final \in [Jobs -> Nat]
      BY DEF TypeInv
    <3>3. /\ taken' \in [Jobs -> Nat] /\ taken'[j] = taken[j] + 1
          /\ \A l \in Jobs \ {j} : taken'[l] = taken[l]
      BY <1>0, <3>1, <3>2, CountMeans
    <3>4. /\ final' \in [Jobs -> Nat] /\ final'[j] = final[j] + 1
          /\ \A l \in Jobs \ {j} : final'[l] = final[l]
      BY <1>0, <3>1, <3>2, CountMeans
    <3> QED BY <3>1, <3>2, <3>3, <3>4 DEF HistoriesOf
  <2>2. Bounded(j)' /\ taken'[j] > 0
    BY <1>0, <1>2, <2>1 DEF Bounded, Unsettled, TypeInv
  <2>3. Outcome(j, "sent")
    BY <1>3 DEF MailTaken
  <2> QED BY <1>1, <2>1, <2>2, <2>3, OutcomeKeeps DEF Results
<1>4. CASE MailRefused(j)
  <2>1. HistoriesOf(j) /\ UNCHANGED <<taken, unheard, final>> /\ Outcome(j, "failed")
    BY <1>4 DEF MailRefused, HistoriesOf, TypeInv
  <2>2. Bounded(j)' /\ Unsettled(j)'
    BY <1>2, <2>1 DEF Bounded, Unsettled
  <2> QED BY <1>1, <2>1, <2>2, OutcomeKeeps DEF Results
<1> QED BY <1>3, <1>4

LEMMA BreakKeeps ==
  ASSUME TypeInv, NEW m \in Messages, NEW k \in Kinds, MessageInv(m),
         ConnectionBreaks(<<m, k>>)
  PROVE  Kept(m) /\ TransportStep
<1> DEFINE j == <<m, k>>
<1>0. j \in Jobs
  BY JobParts
<1>1. send[j].at = "smtp" /\ TransportStep
  BY <1>0 DEF ConnectionBreaks, ResetTransport, TransportStep
<1>2. Unsettled(j)
  BY <1>0, <1>1 DEF MessageInv, Unsettled, Open, Kinds, TypeInv
<1>3. PICK took \in BOOLEAN : taken' = Count(taken, j, took)
  BY DEF ConnectionBreaks
<1>4. /\ HistoriesOf(j) /\ taken'[j] <= taken[j] + 1
      /\ unheard'[j] = unheard[j] + 1 /\ final' = final
  <2>1. unheard' = Count(unheard, j, TRUE) /\ final' = final
    BY DEF ConnectionBreaks
  <2>2. taken \in [Jobs -> Nat] /\ unheard \in [Jobs -> Nat] /\ final \in [Jobs -> Nat]
    BY DEF TypeInv
  <2>3. /\ taken' \in [Jobs -> Nat] /\ taken'[j] <= taken[j] + 1
        /\ \A l \in Jobs \ {j} : taken'[l] = taken[l]
    <3>1. CASE took
      BY <1>0, <1>3, <2>2, <3>1 DEF Count
    <3>2. CASE ~took
      BY <1>0, <1>3, <2>2, <3>2 DEF Count
    <3> QED BY <3>1, <3>2
  <2>4. /\ unheard' \in [Jobs -> Nat] /\ unheard'[j] = unheard[j] + 1
        /\ \A l \in Jobs \ {j} : unheard'[l] = unheard[l]
    BY <1>0, <2>1, <2>2, CountMeans
  <2> QED BY <2>1, <2>2, <2>3, <2>4 DEF HistoriesOf
<1>5. Bounded(j)' /\ Unsettled(j)'
  BY <1>0, <1>2, <1>4 DEF Bounded, Unsettled, TypeInv, HistoriesOf
<1>6. Outcome(j, "failed")
  BY DEF ConnectionBreaks
<1> QED BY <1>1, <1>4, <1>5, <1>6, OutcomeKeeps DEF Results

-----------------------------------------------------------------------------
(* The theorems.                                                            *)

IInv == TypeInv /\ TransportInv /\ \A m \in Messages : MessageInv(m)

LEMMA TransportStays ==
  ASSUME TransportInv, SendStep, TransportStep, TypeInv'
  PROVE  /\ TransportInv'
         /\ \A j \in Jobs : send'[j].at = "smtp" /\ send[j].at # "smtp"
                            => send'[j].tx \notin broken
<1>1. /\ made' \in Nat /\ made <= made' /\ transport' \in 0..made'
      /\ broken' \subseteq 1..made' /\ transport' \notin broken'
  <2>1. CASE UNCHANGED <<transport, made, broken>>
    BY <2>1 DEF TransportInv
  <2>2. CASE made' = made + 1 /\ transport' = made' /\ broken' = broken
    <3>1. made + 1 \notin 1..made /\ 1..made \subseteq 1..(made + 1)
      BY DEF TransportInv
    <3> QED BY <2>2, <3>1 DEF TransportInv
  <2>3. CASE /\ transport' = 0 /\ made' = made
             /\ \E j \in Jobs : send[j].at = "smtp" /\ broken' = broken \cup {send[j].tx}
    <3>1. PICK j \in Jobs : send[j].at = "smtp" /\ broken' = broken \cup {send[j].tx}
      BY <2>3
    <3>2. send[j].tx \in 1..made /\ broken \subseteq 1..made /\ made \in Nat
      BY <3>1 DEF TransportInv
    <3>3. broken' \subseteq 1..made
      BY <3>1, <3>2
    <3>4. 0 \notin 1..made /\ 0 \in 0..made
      BY <3>2
    <3> QED BY <2>3, <3>2, <3>3, <3>4
  <2> QED BY <2>1, <2>2, <2>3 DEF TransportStep
<1>2. \A j \in Jobs : send'[j].at = "smtp" => send'[j].tx \in 1..made'
  BY <1>1 DEF TransportInv, SendStep
<1>3. \A j \in Jobs : send'[j].at = "smtp" /\ send[j].at # "smtp"
                     => send'[j].tx \notin broken
  BY <1>1 DEF SendStep
<1> QED BY <1>1, <1>2, <1>3 DEF TransportInv

LEMMA InitHolds == ASSUME Init PROVE IInv
<1>1. TypeInv
  BY SendFacts DEF Init, TypeInv, Open, None
<1>2. TransportInv
  BY SendFacts DEF Init, TransportInv
<1>3. ASSUME NEW m \in Messages PROVE MessageInv(m)
  <2>1. <<m, "message">> \in Jobs /\ <<m, "alert">> \in Jobs
    BY JobParts DEF Kinds
  <2> QED BY <2>1, SendFacts DEF Init, MessageInv, Bounded, Unsettled, None, Open
<1> QED BY <1>1, <1>2, <1>3 DEF IInv

LEMMA NextKeeps ==
  ASSUME IInv, Next
  PROVE  \E m \in Messages : Kept(m) /\ TransportStep
<1>1. CASE \E m \in Messages : Process(m) \/ AlertAdmin(m)
  BY <1>1, ProcessKeeps, AlertKeeps DEF IInv
<1>2. CASE \E j \in Jobs : \/ \E a \in Answers : Post(j, a)
                          \/ Imported(j) \/ MailTaken(j) \/ MailRefused(j)
                          \/ ConnectionBreaks(j)
  <2>1. PICK j \in Jobs : \/ \E a \in Answers : Post(j, a)
                          \/ Imported(j) \/ MailTaken(j) \/ MailRefused(j)
                          \/ ConnectionBreaks(j)
    BY <1>2
  <2>2. PICK m \in Messages, k \in Kinds : j = <<m, k>>
    BY JobParts
  <2> QED BY <2>1, <2>2, PostKeeps, ImportedKeeps, MailKeeps, BreakKeeps DEF IInv
<1> QED BY <1>1, <1>2 DEF Next

LEMMA StepKeeps ==
  ASSUME IInv, [Next]_vars
  PROVE  /\ IInv'
         /\ \A j \in Jobs : send'[j].at = "smtp" /\ send[j].at # "smtp"
                            => send'[j].tx \notin broken
<1>1. CASE UNCHANGED vars
  BY <1>1 DEF vars, IInv, TypeInv, TransportInv, MessageInv, Bounded, Unsettled
<1>2. CASE Next
  <2>1. PICK m \in Messages : Kept(m) /\ TransportStep
    BY <1>2, NextKeeps
  <2>2. \A n \in Messages : MessageInv(n)'
    BY <2>1, OthersKept DEF Kept, IInv
  <2> QED BY <2>1, <2>2, TransportStays DEF Kept, IInv
<1> QED BY <1>1, <1>2

LEMMA Invariance == Spec => []IInv
<1>1. IInv /\ [Next]_vars => IInv'
  BY StepKeeps
<1> QED BY <1>1, InitHolds, PTL DEF Spec

\* However many providers, records and calls there are, a message its service
\* took is handed over again only after an answer was lost, and never after a
\* final no: the flag, the adapter's tries and the Dispatcher's agree.
THEOREM RepeatsCanHelp == Spec => []NeverRepeatedInVain
<1>1. IInv => NeverRepeatedInVain
  <2> SUFFICES ASSUME IInv, NEW j \in Jobs PROVE Bounded(j)
    BY DEF NeverRepeatedInVain, Bounded
  <2> QED BY JobParts DEF IInv, MessageInv, Kinds
<1> QED BY <1>1, Invariance, PTL

\* "sent" and "submitted" are written only for what a service took, whatever
\* was configured and whatever came back.
THEOREM SentMeansTaken == Spec => []SentWasTaken
<1>1. IInv => SentWasTaken
  BY DEF IInv, MessageInv, SentWasTaken
<1> QED BY <1>1, Invariance, PTL

\* No send starts on a transport that a send has found broken, however sends
\* and imports overlap: the cached one is not among them (TransportInv).
THEOREM NoBrokenTransport == Spec => BrokenIsNotReused
<1>1. IInv /\ [Next]_vars =>
        [\A j \in Jobs : send'[j].at = "smtp" /\ send[j].at # "smtp"
                         => send'[j].tx \notin broken]_vars
  BY StepKeeps
<1> QED BY <1>1, Invariance, PTL DEF Spec, BrokenIsNotReused

=============================================================================
