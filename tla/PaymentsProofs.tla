--------------------------- MODULE PaymentsProofs ---------------------------
(***************************************************************************)
(* Proofs about Payments, for every set of orders, bookings and threads,   *)
(* every provider, every bound.                                            *)
(*                                                                         *)
(* TypeInv is TypeOK made inductive: it adds what a thread's locals hold   *)
(* at each pc.  A step changes the data, one thread, or both; Idles,       *)
(* Throws and Works say once what a thread's move preserves, and each      *)
(* action of Next is then a short lemma.                                   *)
(*                                                                         *)
(* Money: a payment is paid only if the gateway captured it.  The status   *)
(* alone is not inductive, because what a thread learnt from the gateway   *)
(* is written awaits later: Funded carries it at every pc in between.      *)
(*                                                                         *)
(* Keys: a booking has one open order at most, and an ended payment never  *)
(* blocks a retry, so that the retry's order is recorded.  Only            *)
(* createIfAbsent opens a key.                                             *)
(*                                                                         *)
(* Webhooks: an event is routed by one activation at a time.               *)
(*                                                                         *)
(* Checkouts: a customer only ever pays an order that is on record.        *)
(*                                                                         *)
(* Approvals: a paid payment's booking is approved once nobody is on the   *)
(* way to it.  PhonePe: paid is left by a refund only.  Confirmations: one *)
(* for each payment, where nothing takes a payment out of paid; and there  *)
(* one payment of a booking is alive at a time.                            *)
(***************************************************************************)
EXTENDS Payments, FiniteSetTheorems, TLAPS

\* Where a thread works on a payment it has found in the repository.
Working == PCs \ {"idle", "gwOrder", "createIfAbsent", "claim", "claimTail", "release"}

LocalsOK(t) ==
  /\ pc[t] \in {"createIfAbsent", "claim", "claimTail"} => task[t].order \in Orders
  /\ pc[t] \in {"gwOrder", "createIfAbsent"} => task[t].booking \in Bookings
  /\ pc[t] \in {"claim", "claimTail", "release"} => task[t].event \in Event
  /\ pc[t] \in {"claim", "claimTail"} => task[t].order = task[t].event.order
  /\ pc[t] \in {"claim", "claimTail"} /\ task[t].event.type \in RefundTypes
       => task[t].event.nth \in DOMAIN gwRefunds[task[t].order]
  /\ pc[t] = "gwRefund" => task[t].amount \in 1..Amount
  /\ pc[t] \in Working => task[t].order \in Recorded

ThreadsOK ==
  /\ pc \in [Threads -> PCs]
  /\ task \in [Threads -> Task]
  /\ writeQ \in Seq(Threads)
  /\ acked \subseteq Event
  /\ \A t \in Threads : LocalsOK(t)

DataOK ==
  /\ status \in [Orders -> Statuses \cup {"absent"}]
  /\ of \in [Orders -> Bookings \cup {None}]
  /\ \A o \in Recorded : of[o] \in Bookings
  /\ key \in [Orders -> Keys]
  /\ refunded \in [Orders -> Nat]
  /\ claimed \subseteq Event
  /\ approved \subseteq Bookings
  /\ confirmed \subseteq Orders /\ handed \subseteq Orders
  /\ gw \in [Orders -> {"none", "created", "authorized", "captured", "failed"}]
  /\ gwRefunds \in [Orders -> Seq(1..Amount)]
  /\ gwFailed \subseteq Orders
  /\ faults \in Nat /\ crashes \in Nat /\ misread \subseteq Orders

TypeInv == DataOK /\ ThreadsOK

\* Records and refunds are never removed.
Grows == /\ Recorded \subseteq Recorded'
         /\ \A o \in Orders : DOMAIN gwRefunds[o] \subseteq DOMAIN gwRefunds'[o]
-----------------------------------------------------------------------------
USE AmountAssumption, NoneAssumption DEF TypeInv

LEMMA QueueType ==
  ASSUME NEW q \in Seq(Threads), NEW t \in Threads
  PROVE  /\ Append(q, t) \in Seq(Threads)
         /\ q # <<>> => Tail(q) \in Seq(Threads)
  OBVIOUS

LEMMA TaskType ==
  /\ NoTask \in Task
  /\ \A o \in Orders : [NoTask EXCEPT !.order = o] \in Task
  /\ \A b \in Bookings : [NoTask EXCEPT !.booking = b] \in Task
  /\ \A o \in Orders, a \in Nat : [NoTask EXCEPT !.order = o, !.amount = a] \in Task
  /\ \A o \in Orders, e \in Event : [NoTask EXCEPT !.event = e, !.order = o] \in Task
  BY DEF NoTask, Task

LEMMA InitTypeInv == Init => TypeInv
<1> SUFFICES ASSUME Init PROVE TypeInv
  OBVIOUS
<1>1. DataOK
  BY DEF Init, DataOK, Recorded, Keys, Statuses
<1>2. \A t \in Threads : LocalsOK(t)
  BY DEF Init, LocalsOK, Working
<1>3. task \in [Threads -> Task]
  BY TaskType DEF Init
<1>4. ThreadsOK
  BY <1>2, <1>3 DEF Init, ThreadsOK, PCs
<1> QED BY <1>1, <1>4

LEMMA TypeInvImpliesTypeOK == TypeInv => TypeOK
  BY DEF DataOK, ThreadsOK, TypeOK
-----------------------------------------------------------------------------
\* A thread that returns to "idle", or moves to a pc where it works on a
\* payment on record, leaves every thread's locals as they have to be.

LEMMA Moves ==
  ASSUME ThreadsOK, NEW t \in Threads, Grows,
         pc' \in [Threads -> PCs], task' \in [Threads -> Task],
         \A u \in Threads \ {t} : pc'[u] = pc[u] /\ task'[u] = task[u],
         LocalsOK(t)', writeQ' \in Seq(Threads), acked' \subseteq Event
  PROVE  ThreadsOK'
<1>1. ASSUME NEW u \in Threads \ {t} PROVE LocalsOK(u)'
  BY <1>1 DEF ThreadsOK, LocalsOK, Grows
<1> QED BY <1>1 DEF ThreadsOK

LEMMA Idles ==
  ASSUME ThreadsOK, NEW t \in Threads, Grows,
         Goto(t, "idle"), task' = [task EXCEPT ![t] = NoTask],
         writeQ' \in Seq(Threads), acked' \subseteq Event
  PROVE  ThreadsOK'
<1>1. pc' \in [Threads -> PCs] /\ pc'[t] = "idle"
  BY DEF ThreadsOK, Goto, PCs
<1>2. task' \in [Threads -> Task]
  BY TaskType DEF ThreadsOK
<1>3. LocalsOK(t)'
  BY <1>1 DEF LocalsOK, Working
<1>4. \A u \in Threads \ {t} : pc'[u] = pc[u] /\ task'[u] = task[u]
  BY DEF ThreadsOK, Goto
<1> QED BY <1>1, <1>2, <1>3, <1>4, Moves

LEMMA Works ==
  ASSUME ThreadsOK, NEW t \in Threads, Grows,
         NEW p \in Working \ {"gwRefund"}, Goto(t, p),
         task' \in [Threads -> Task], task'[t].order \in Recorded',
         \A u \in Threads \ {t} : task'[u] = task[u],
         writeQ' \in Seq(Threads), acked' \subseteq Event
  PROVE  ThreadsOK'
<1>1. pc' \in [Threads -> PCs] /\ pc'[t] = p
  BY DEF ThreadsOK, Goto, Working
<1>2. LocalsOK(t)'
  BY <1>1 DEF LocalsOK, Working
<1>3. \A u \in Threads \ {t} : pc'[u] = pc[u]
  BY DEF ThreadsOK, Goto
<1> QED BY <1>1, <1>2, <1>3, Moves

LEMMA Finishes ==
  ASSUME ThreadsOK, NEW t \in Threads, Grows,
         Finish(t), writeQ' \in Seq(Threads)
  PROVE  ThreadsOK'
<1>1. acked' \subseteq Event
  BY DEF Finish, IsWebhook, ThreadsOK, Task
<1> QED BY <1>1, Idles DEF Finish

LEMMA Throws ==
  ASSUME ThreadsOK, NEW t \in Threads, Grows,
         NEW q \in Seq(Threads), Throw(t, q)
  PROVE  ThreadsOK'
<1>1. CASE IsWebhook(t)
  <2>1. /\ pc' \in [Threads -> PCs] /\ pc'[t] = "release"
        /\ writeQ' \in Seq(Threads) /\ acked' \subseteq Event
    BY <1>1, QueueType DEF Throw, Goto, ThreadsOK, PCs
  <2>2. LocalsOK(t)'
    BY <1>1, <2>1 DEF Throw, LocalsOK, Working, IsWebhook, ThreadsOK, Task
  <2>3. /\ task' \in [Threads -> Task]
        /\ \A u \in Threads \ {t} : pc'[u] = pc[u] /\ task'[u] = task[u]
    BY <1>1 DEF Throw, Goto, ThreadsOK
  <2> QED BY <2>1, <2>2, <2>3, Moves
<1>2. CASE ~IsWebhook(t)
  BY <1>2, Idles DEF Throw, ThreadsOK
<1> QED BY <1>1, <1>2

-----------------------------------------------------------------------------
\* Arrivals.

USE DEF ThreadsOK

LEMMA TypeCreateOrderForBooking ==
  ASSUME TypeInv, NEW t \in Threads, NEW b \in Bookings, CreateOrderForBooking(t, b)
  PROVE  TypeInv'
<1>1. DataOK' /\ Recorded' = Recorded /\ Grows
  BY DEF CreateOrderForBooking, DataOK, Recorded, Grows, db, payVars, out, gwVars, ghosts
<1>2. pc' \in [Threads -> PCs] /\ task' \in [Threads -> Task]
  BY TaskType DEF CreateOrderForBooking, Start, PCs
<1>3. LocalsOK(t)'
  BY DEF CreateOrderForBooking, Start, LocalsOK, Working, NoTask
<1>4. \A u \in Threads \ {t} : pc'[u] = pc[u] /\ task'[u] = task[u]
  BY DEF CreateOrderForBooking, Start
<1> QED BY <1>1, <1>2, <1>3, <1>4, Moves DEF CreateOrderForBooking

LEMMA TypeVerifyAndCapture ==
  ASSUME TypeInv, NEW t \in Threads, NEW o \in Orders, VerifyAndCapture(t, o)
  PROVE  TypeInv'
<1>1. DataOK' /\ Recorded' = Recorded /\ Grows
  BY DEF VerifyAndCapture, DataOK, Recorded, Grows, db, payVars, out, gwVars, ghosts
<1>2. task' \in [Threads -> Task] /\ task'[t].order = o
  BY TaskType DEF VerifyAndCapture, Start, NoTask
<1>3. /\ Goto(t, "gwCapture") /\ o \in Recorded
      /\ \A u \in Threads \ {t} : task'[u] = task[u]
      /\ writeQ' \in Seq(Threads) /\ acked' \subseteq Event
  BY DEF VerifyAndCapture, Start, Goto
<1> QED BY <1>1, <1>2, <1>3, Works DEF Working, PCs

LEMMA TypeVerifyBadSignature ==
  ASSUME TypeInv, NEW t \in Threads, NEW o \in Orders, VerifyBadSignature(t, o)
  PROVE  TypeInv'
<1>1. DataOK' /\ Recorded' = Recorded /\ Grows
  BY DEF VerifyBadSignature, DataOK, Recorded, Grows, db, payVars, out, gwVars, ghosts
<1>2. task' \in [Threads -> Task] /\ task'[t].order = o
  BY TaskType DEF VerifyBadSignature, Start, NoTask
<1>3. /\ Goto(t, "fail") /\ o \in Recorded
      /\ \A u \in Threads \ {t} : task'[u] = task[u]
      /\ writeQ' \in Seq(Threads) /\ acked' \subseteq Event
  BY QueueType DEF VerifyBadSignature, Start, Goto
<1> QED BY <1>1, <1>2, <1>3, Works DEF Working, PCs

LEMMA TypeConfirmByStatus ==
  ASSUME TypeInv, NEW t \in Threads, NEW o \in Orders, ConfirmByStatus(t, o)
  PROVE  TypeInv'
<1>1. DataOK' /\ Recorded' = Recorded /\ Grows
  BY DEF ConfirmByStatus, DataOK, Recorded, Grows, db, payVars, out, gwVars, ghosts
<1>2. task' \in [Threads -> Task] /\ task'[t].order = o
  BY TaskType DEF ConfirmByStatus, Start, NoTask
<1>3. /\ Goto(t, "gwStatus") /\ o \in Recorded
      /\ \A u \in Threads \ {t} : task'[u] = task[u]
      /\ writeQ' \in Seq(Threads) /\ acked' \subseteq Event
  BY DEF ConfirmByStatus, Start, Goto
<1> QED BY <1>1, <1>2, <1>3, Works DEF Working, PCs

LEMMA TypeRefund ==
  ASSUME TypeInv, NEW t \in Threads, NEW o \in Orders, NEW a \in 1..Amount, Refund(t, o, a)
  PROVE  TypeInv'
<1>1. DataOK' /\ Recorded' = Recorded /\ Grows
  BY DEF Refund, DataOK, Recorded, Grows, db, payVars, out, gwVars, ghosts
<1>2. task' \in [Threads -> Task] /\ task'[t].order = o /\ task'[t].amount = a
  <2>1. a \in Nat
    OBVIOUS
  <2>2. [NoTask EXCEPT !.order = o, !.amount = a] \in Task
    BY <2>1, TaskType
  <2> QED BY <2>2 DEF Refund, Start, NoTask
<1>3. pc' \in [Threads -> PCs] /\ pc'[t] = "gwRefund"
  BY DEF Refund, Start, PCs
<1>4. LocalsOK(t)'
  BY <1>1, <1>2, <1>3 DEF Refund, LocalsOK
<1>5. \A u \in Threads \ {t} : pc'[u] = pc[u] /\ task'[u] = task[u]
  BY DEF Refund, Start
<1> QED BY <1>1, <1>2, <1>3, <1>4, <1>5, Moves DEF Refund

LEMMA TypeHandleWebhook ==
  ASSUME TypeInv, NEW t \in Threads, NEW e \in Event, HandleWebhook(t, e)
  PROVE  TypeInv'
<1>1. DataOK' /\ Recorded' = Recorded /\ Grows
  BY DEF HandleWebhook, DataOK, Recorded, Grows, db, payVars, out, gwVars, ghosts
<1>2. e.order \in Orders /\ (e.type \in RefundTypes => e.nth \in DOMAIN gwRefunds[e.order])
  BY DEF Event, HandleWebhook, Emitted, RefundTypes
<1>3. pc' \in [Threads -> PCs] /\ pc'[t] = "claim" /\ task' \in [Threads -> Task]
  BY <1>2, TaskType DEF HandleWebhook, Start, PCs
<1>4. LocalsOK(t)'
  <2>1. task'[t].event = e /\ task'[t].order = e.order
    BY DEF HandleWebhook, Start, NoTask
  <2> QED BY <1>2, <1>3, <2>1 DEF HandleWebhook, gwVars, LocalsOK, Working
<1>5. \A u \in Threads \ {t} : pc'[u] = pc[u] /\ task'[u] = task[u]
  BY DEF HandleWebhook, Start
<1>6. writeQ' \in Seq(Threads)
  BY QueueType DEF HandleWebhook
<1> QED BY <1>1, <1>3, <1>4, <1>5, <1>6, Moves DEF HandleWebhook

-----------------------------------------------------------------------------
\* The repository's mutators.

LEMMA DoneTurn ==
  ASSUME ThreadsOK, NEW t \in Threads, NEW p, Turn(t, p)
  PROVE  pc[t] = p /\ writeQ' \in Seq(Threads)
  BY QueueType DEF Turn

LEMMA TypeCreateIfAbsent ==
  ASSUME TypeInv, NEW t \in Threads, CreateIfAbsent(t)
  PROVE  TypeInv'
<1> DEFINE o == task[t].order
           b == task[t].booking
<1>1. /\ pc[t] = "createIfAbsent" /\ writeQ' \in Seq(Threads)
      /\ o \in Orders /\ b \in Bookings
  BY DoneTurn DEF CreateIfAbsent, LocalsOK
<1>2. CASE OpenKey(b) # {}
  <2>1. DataOK' /\ Recorded' = Recorded /\ Grows
    BY <1>2 DEF CreateIfAbsent, DataOK, Recorded, Grows, OpenKey, ReturnedOrder, payVars, gwVars, ghosts
  <2>2. Finish(t)
    BY <1>2 DEF CreateIfAbsent
  <2> QED BY <1>1, <2>1, <2>2, Finishes
<1>3. CASE OpenKey(b) = {}
  <2>1. /\ status' = [status EXCEPT ![o] = "created"]
        /\ of' = [of EXCEPT ![o] = b]
        /\ key' = [key EXCEPT ![o] = "open"]
        /\ Goto(t, "orderTail")
        /\ UNCHANGED <<refunded, handed, task, acked, claimed, approved, confirmed, gwVars, ghosts>>
    BY <1>3 DEF CreateIfAbsent
  <2>2. Recorded \subseteq Recorded' /\ o \in Recorded' /\ Recorded' \subseteq Recorded \cup {o}
    BY <1>1, <2>1 DEF Recorded, DataOK
  <2>3. DataOK' /\ Grows
    BY <1>1, <2>1, <2>2 DEF DataOK, Grows, Statuses, ActiveStates, Keys, gwVars, ghosts
  <2> QED BY <1>1, <2>1, <2>2, <2>3, Works DEF Working, PCs
<1> QED BY <1>2, <1>3

LEMMA TypeTransitionToPaid ==
  ASSUME TypeInv, NEW t \in Threads, TransitionToPaid(t)
  PROVE  TypeInv'
<1>1. pc[t] = "transitionToPaid" /\ writeQ' \in Seq(Threads) /\ task[t].order \in Recorded
  BY DoneTurn DEF TransitionToPaid, LocalsOK, Working, PCs
<1>2. DataOK' /\ Recorded' = Recorded /\ Grows
  BY <1>1 DEF TransitionToPaid, DataOK, Recorded, Grows, Statuses, RefundableStates, out, gwVars, ghosts
<1>3. CASE Refuses(task[t].order)
  BY <1>1, <1>2, <1>3, Finishes DEF TransitionToPaid
<1>4. CASE ~Refuses(task[t].order)
  BY <1>1, <1>2, <1>4, Works DEF TransitionToPaid, Working, PCs
<1> QED BY <1>3, <1>4

LEMMA TypeUpdateFailed ==
  ASSUME TypeInv, NEW t \in Threads, UpdateFailed(t)
  PROVE  TypeInv'
<1>1. pc[t] = "fail" /\ writeQ' \in Seq(Threads) /\ task[t].order \in Recorded
  BY DoneTurn DEF UpdateFailed, LocalsOK, Working, PCs
<1>2. DataOK' /\ Recorded' = Recorded /\ Grows
  BY <1>1 DEF UpdateFailed, FreeKey, DataOK, Recorded, Grows, Statuses, TerminalStates, Keys, out, gwVars, ghosts
<1> QED BY <1>1, <1>2, Works DEF UpdateFailed, Working, PCs

LEMMA TypeUpdateAuthorized ==
  ASSUME TypeInv, NEW t \in Threads, UpdateAuthorized(t)
  PROVE  TypeInv'
<1>1. pc[t] = "authorize" /\ writeQ' \in Seq(Threads) /\ task[t].order \in Recorded
  BY DoneTurn DEF UpdateAuthorized, LocalsOK, Working, PCs
<1>2. DataOK' /\ Recorded' = Recorded /\ Grows
  BY <1>1 DEF UpdateAuthorized, AuthorizedStatus, DataOK, Recorded, Grows, Statuses, ActiveStates, out, gwVars, ghosts
<1> QED BY <1>1, <1>2, Finishes DEF UpdateAuthorized

LEMMA TypeClaimWebhook ==
  ASSUME TypeInv, NEW t \in Threads, ClaimWebhook(t)
  PROVE  TypeInv'
<1>1. /\ pc[t] = "claim" /\ writeQ' \in Seq(Threads) /\ task[t].event \in Event
  BY DoneTurn DEF ClaimWebhook, LocalsOK
<1>2. DataOK' /\ Recorded' = Recorded /\ Grows
  BY <1>1 DEF ClaimWebhook, DataOK, Recorded, Grows, payVars, out, gwVars, ghosts
<1>3. CASE Seen(task[t].event)
  BY <1>1, <1>2, <1>3, Finishes DEF ClaimWebhook
<1>4. CASE ~Seen(task[t].event)
  <2>1. /\ pc' \in [Threads -> PCs] /\ pc'[t] = "claimTail"
        /\ \A u \in Threads \ {t} : pc'[u] = pc[u]
        /\ task' = task /\ acked' = acked /\ gwRefunds' = gwRefunds
    BY <1>4 DEF ClaimWebhook, Goto, PCs, gwVars
  <2>2. LocalsOK(t)'
    BY <1>1, <2>1 DEF LocalsOK, Working
  <2> QED BY <1>1, <1>2, <2>1, <2>2, Moves
<1> QED BY <1>3, <1>4

LEMMA TypeReleaseWebhook ==
  ASSUME TypeInv, NEW t \in Threads, ReleaseWebhook(t)
  PROVE  TypeInv'
<1>1. writeQ' \in Seq(Threads)
  BY DoneTurn DEF ReleaseWebhook
<1>2. DataOK' /\ Recorded' = Recorded /\ Grows
  BY DEF ReleaseWebhook, DataOK, Recorded, Grows, payVars, out, gwVars, ghosts
<1> QED BY <1>1, <1>2, Idles DEF ReleaseWebhook

LEMMA TypeUpdateRefundInitiated ==
  ASSUME TypeInv, NEW t \in Threads, UpdateRefundInitiated(t)
  PROVE  TypeInv'
<1>1. pc[t] = "initiate" /\ writeQ' \in Seq(Threads) /\ task[t].order \in Recorded
  BY DoneTurn DEF UpdateRefundInitiated, LocalsOK, Working, PCs
<1>2. DataOK' /\ Recorded' = Recorded /\ Grows
  BY <1>1 DEF UpdateRefundInitiated, DataOK, Recorded, Grows, Statuses, out, gwVars, ghosts
<1>3. CASE IsWebhook(t)
  BY <1>1, <1>2, <1>3, Finishes DEF UpdateRefundInitiated
<1>4. CASE ~IsWebhook(t)
  BY <1>1, <1>2, <1>4, Works DEF UpdateRefundInitiated, Working, PCs
<1> QED BY <1>3, <1>4

LEMMA TypeUpdateRefundCompleted ==
  ASSUME TypeInv, NEW t \in Threads, UpdateRefundCompleted(t)
  PROVE  TypeInv'
<1>1. /\ pc[t] = "complete" /\ writeQ' \in Seq(Threads) /\ task[t].order \in Recorded
  BY DoneTurn DEF UpdateRefundCompleted, LocalsOK, Working, PCs
<1>a. task[t].amount \in Nat
  BY DEF Task
<1>2. Recorded' = Recorded /\ Grows
  BY <1>1 DEF UpdateRefundCompleted, DataOK, Recorded, Grows, gwVars
<1>3. /\ status' \in [Orders -> Statuses \cup {"absent"}]
      /\ refunded' \in [Orders -> Nat]
  BY <1>a DEF UpdateRefundCompleted, DataOK, Statuses, TerminalStates, RefundableStates
<1>4. key' \in [Orders -> Keys]
  BY DEF UpdateRefundCompleted, FreeKey, DataOK, Keys
<1>5. DataOK'
  BY <1>2, <1>3, <1>4 DEF UpdateRefundCompleted, DataOK, out, gwVars, ghosts
<1> QED BY <1>1, <1>2, <1>5, Works DEF UpdateRefundCompleted, Working, PCs

-----------------------------------------------------------------------------
\* Continuations.

LEMMA TypeOrderTail ==
  ASSUME TypeInv, NEW t \in Threads, OrderTail(t)
  PROVE  TypeInv'
<1>1. DataOK' /\ Recorded' = Recorded /\ Grows
  BY DEF OrderTail, LocalsOK, Working, PCs, DataOK, Recorded, Grows, db, payVars, gwVars, ghosts
<1> QED BY <1>1, Finishes DEF OrderTail

LEMMA TypeConfirmBooking ==
  ASSUME TypeInv, NEW t \in Threads, ConfirmBooking(t)
  PROVE  TypeInv'
<1>1. pc[t] = "confirm" /\ task[t].order \in Recorded
  BY DEF ConfirmBooking, LocalsOK, Working, PCs
<1>2. DataOK' /\ Recorded' = Recorded /\ Grows
  BY <1>1 DEF ConfirmBooking, DataOK, Recorded, Grows, db, payVars, gwVars, ghosts
<1> QED BY <1>1, <1>2, Works DEF ConfirmBooking, Working, PCs

LEMMA TypePaidTail ==
  ASSUME TypeInv, NEW t \in Threads, PaidTail(t)
  PROVE  TypeInv'
<1>1. DataOK' /\ Recorded' = Recorded /\ Grows
  BY DEF PaidTail, LocalsOK, Working, PCs, DataOK, Recorded, Grows, db, payVars, gwVars, ghosts
<1> QED BY <1>1, Finishes DEF PaidTail

LEMMA TypeOutcomeTail ==
  ASSUME TypeInv, NEW t \in Threads, OutcomeTail(t)
  PROVE  TypeInv'
<1>1. DataOK' /\ Recorded' = Recorded /\ Grows
  BY DEF OutcomeTail, DataOK, Recorded, Grows, db, payVars, out, gwVars, ghosts
<1> QED BY <1>1, Finishes DEF OutcomeTail

LEMMA RefundTotal ==
  ASSUME DataOK, ThreadsOK, NEW t \in Threads, Recorded' = Recorded, Grows, task[t].order \in Recorded,
         NEW a \in Nat, EnqueueRefundTotal(t, a)
  PROVE  ThreadsOK'
<1>1. refunded[task[t].order] + a \in Nat
  BY DEF DataOK, Recorded
<1>2. /\ task' \in [Threads -> Task] /\ task'[t].order = task[t].order
      /\ \A u \in Threads \ {t} : task'[u] = task[u]
  BY <1>1 DEF EnqueueRefundTotal, Task
<1>3. Goto(t, "complete") /\ writeQ' \in Seq(Threads) /\ acked' = acked
  BY QueueType DEF EnqueueRefundTotal, Enqueue
<1> QED BY <1>2, <1>3, Works DEF Working, PCs

LEMMA TypeRouteWebhook ==
  ASSUME TypeInv, NEW t \in Threads, RouteWebhook(t)
  PROVE  TypeInv'
<1> DEFINE e == task[t].event
<1>1. DataOK' /\ Recorded' = Recorded /\ Grows
  BY DEF RouteWebhook, DataOK, Recorded, Grows, db, payVars, out, gwVars, ghosts
<1>2. pc[t] = "claimTail" /\ e \in Event /\ task[t].order = e.order
  BY DEF RouteWebhook, LocalsOK
<1>3. ASSUME Finish(t), UNCHANGED writeQ PROVE ThreadsOK'
  BY <1>1, <1>3, Finishes
<1>4. ASSUME e.order \in Recorded, NEW p \in {"authorize", "transitionToPaid", "fail", "initiate"},
             Enqueue(t, p), UNCHANGED <<task, acked>>
      PROVE  ThreadsOK'
  <2>1. Goto(t, p) /\ writeQ' \in Seq(Threads)
    BY <1>4, QueueType DEF Enqueue
  <2> QED BY <1>1, <1>2, <1>4, <2>1, Works DEF Working, PCs
<1>5. ASSUME e.order \in Recorded, e.type = "refund.processed",
             EnqueueRefundTotal(t, gwRefunds[e.order][e.nth])
      PROVE  ThreadsOK'
  <2>1. gwRefunds[e.order] \in Seq(1..Amount) /\ e.nth \in DOMAIN gwRefunds[e.order]
    BY <1>2, <1>5 DEF LocalsOK, RefundTypes, DataOK
  <2>2. gwRefunds[e.order][e.nth] \in 1..Amount
    BY <2>1
  <2>3. gwRefunds[e.order][e.nth] \in Nat
    BY <2>2
  <2> QED BY <1>1, <1>2, <1>5, <2>3, RefundTotal
<1> QED BY <1>1, <1>2, <1>3, <1>4, <1>5 DEF RouteWebhook, Event, WebhookTypes, RefundTypes

LEMMA TypeInitTail ==
  ASSUME TypeInv, NEW t \in Threads, InitTail(t)
  PROVE  TypeInv'
<1>1. DataOK' /\ Recorded' = Recorded /\ Grows
  BY DEF InitTail, DataOK, Recorded, Grows, db, payVars, out, gwVars, ghosts
<1>2. pc[t] = "initTail" /\ task[t].order \in Recorded /\ task[t].amount \in Nat
  BY DEF InitTail, LocalsOK, Working, PCs, Task
<1>3. CASE SettlesNow(t)
  BY <1>1, <1>2, <1>3, RefundTotal DEF InitTail
<1>4. CASE ~SettlesNow(t)
  BY <1>1, <1>4, Finishes DEF InitTail
<1> QED BY <1>3, <1>4, <1>1

-----------------------------------------------------------------------------
\* The gateway's answers.

LEMMA TypeGatewayCreatesOrder ==
  ASSUME TypeInv, NEW t \in Threads, NEW o \in Orders, GatewayCreatesOrder(t, o)
  PROVE  TypeInv'
<1>1. DataOK' /\ Recorded' = Recorded /\ Grows
  BY DEF GatewayCreatesOrder, DataOK, Recorded, Grows, db, payVars, out, ghosts
<1>2. pc' \in [Threads -> PCs] /\ pc'[t] = "createIfAbsent" /\ writeQ' \in Seq(Threads)
  BY QueueType DEF GatewayCreatesOrder, Enqueue, Goto, PCs
<1>3. /\ task' \in [Threads -> Task] /\ task'[t].order = o
      /\ task'[t].booking = task[t].booking
  BY DEF GatewayCreatesOrder, Task
<1>4. task[t].booking \in Bookings
  BY DEF GatewayCreatesOrder, LocalsOK
<1>5. LocalsOK(t)'
  BY <1>2, <1>3, <1>4 DEF LocalsOK, Working
<1>6. \A u \in Threads \ {t} : pc'[u] = pc[u] /\ task'[u] = task[u]
  BY DEF GatewayCreatesOrder, Enqueue, Goto
<1> QED BY <1>1, <1>2, <1>3, <1>5, <1>6, Moves DEF GatewayCreatesOrder

LEMMA TypeGatewayCallThrows ==
  ASSUME TypeInv, NEW t \in Threads, GatewayCallThrows(t)
  PROVE  TypeInv'
<1>1. DataOK' /\ Recorded' = Recorded /\ Grows
  BY DEF GatewayCallThrows, DataOK, Recorded, Grows, db, payVars, out, gwVars, ghosts
<1> QED BY <1>1, Throws DEF GatewayCallThrows

LEMMA TypeCapture ==
  ASSUME TypeInv, NEW t \in Threads, CaptureSucceeds(t) \/ CaptureFails(t)
  PROVE  TypeInv'
<1>1. pc[t] = "gwCapture" /\ task[t].order \in Recorded
  BY DEF CaptureSucceeds, CaptureFails, LocalsOK, Working, PCs
<1>2. DataOK' /\ Recorded' = Recorded /\ Grows
  BY <1>1 DEF CaptureSucceeds, CaptureFails, DataOK, Recorded, Grows, db, payVars, out, gwVars, ghosts
<1>3. PICK p \in {"transitionToPaid", "authorize"} : Enqueue(t, p) /\ UNCHANGED <<task, acked>>
  BY DEF CaptureSucceeds, CaptureFails
<1>4. Goto(t, p) /\ writeQ' \in Seq(Threads)
  BY <1>3, QueueType DEF Enqueue
<1> QED BY <1>1, <1>2, <1>3, <1>4, Works DEF Working, PCs

LEMMA TypeStatusAnswers ==
  ASSUME TypeInv, NEW t \in Threads, NEW a \in Answers, StatusAnswers(t, a)
  PROVE  TypeInv'
<1>1. task[t].order \in Recorded
  BY DEF StatusAnswers, LocalsOK, Working, PCs
<1>2. DataOK' /\ Recorded' = Recorded /\ Grows
  BY <1>1 DEF StatusAnswers, DataOK, Recorded, Grows, db, payVars, out, gwVars
<1>3. ASSUME NEW p \in {"transitionToPaid", "fail"}, Enqueue(t, p), UNCHANGED <<task, acked>>
      PROVE  TypeInv'
  <2>1. Goto(t, p) /\ writeQ' \in Seq(Threads)
    BY <1>3, QueueType DEF Enqueue
  <2> QED BY <1>1, <1>2, <1>3, <2>1, Works DEF Working, PCs
<1>4. CASE Finish(t) /\ UNCHANGED writeQ
  BY <1>2, <1>4, Finishes
<1> QED BY <1>3, <1>4 DEF StatusAnswers

\* What the gateway adds to its refunds is a refund it was asked for.
LEMMA RefundsGrow ==
  ASSUME TypeInv, NEW t \in Threads, pc[t] = "gwRefund", UNCHANGED <<db, out, gw, gwFailed, ghosts>>,
         \/ GatewayRefunds(task[t].order, task[t].amount)
         \/ UNCHANGED gwRefunds
  PROVE  DataOK' /\ Recorded' = Recorded /\ Grows
<1>1. task[t].order \in Orders /\ task[t].amount \in 1..Amount
  BY DEF LocalsOK, Working, PCs, Recorded
<1>2. CASE GatewayRefunds(task[t].order, task[t].amount)
  <2> DEFINE s == gwRefunds[task[t].order]
  <2>1. s \in Seq(1..Amount)
    BY <1>1 DEF DataOK
  <2>2. /\ Append(s, task[t].amount) \in Seq(1..Amount)
        /\ DOMAIN s \subseteq DOMAIN Append(s, task[t].amount)
    BY <1>1, <2>1
  <2>3. gwRefunds' = [gwRefunds EXCEPT ![task[t].order] = Append(s, task[t].amount)]
    BY <1>2 DEF GatewayRefunds
  <2>4. gwRefunds' \in [Orders -> Seq(1..Amount)]
    BY <1>1, <2>2, <2>3 DEF DataOK
  <2>5. \A o \in Orders : DOMAIN gwRefunds[o] \subseteq DOMAIN gwRefunds'[o]
    BY <1>1, <2>2, <2>3 DEF DataOK
  <2> QED BY <2>4, <2>5 DEF DataOK, Recorded, Grows, db, payVars, out, ghosts
<1>3. CASE UNCHANGED gwRefunds
  BY <1>3 DEF DataOK, Recorded, Grows, db, payVars, out, ghosts
<1> QED BY <1>2, <1>3

LEMMA TypeRefundAnswered ==
  ASSUME TypeInv, NEW t \in Threads, NEW processed \in BOOLEAN, RefundAnswered(t, processed)
  PROVE  TypeInv'
<1>1. DataOK' /\ Recorded' = Recorded /\ Grows
  BY RefundsGrow DEF RefundAnswered
<1>2. task[t].order \in Recorded
  BY DEF RefundAnswered, LocalsOK, Working, PCs
<1>3. /\ task' \in [Threads -> Task] /\ task'[t].order = task[t].order
      /\ \A u \in Threads \ {t} : task'[u] = task[u]
  BY DEF RefundAnswered, Task
<1>4. Goto(t, "initiate") /\ writeQ' \in Seq(Threads)
  BY QueueType DEF RefundAnswered, Enqueue
<1> QED BY <1>1, <1>2, <1>3, <1>4, Works DEF RefundAnswered, Working, PCs

LEMMA TypeRefundDeclined ==
  ASSUME TypeInv, NEW t \in Threads, RefundDeclined(t)
  PROVE  TypeInv'
<1>1. DataOK' /\ Recorded' = Recorded /\ Grows
  BY RefundsGrow DEF RefundDeclined, gwVars
<1>2. task[t].order \in Recorded
  BY DEF RefundDeclined, LocalsOK, Working, PCs
<1>3. Goto(t, "initiate") /\ writeQ' \in Seq(Threads)
  BY QueueType DEF RefundDeclined, Enqueue
<1> QED BY <1>1, <1>2, <1>3, Works DEF RefundDeclined, Working, PCs

LEMMA TypeRefundAnswerLost ==
  ASSUME TypeInv, NEW t \in Threads, RefundAnswerLost(t)
  PROVE  TypeInv'
<1>1. DataOK' /\ Recorded' = Recorded /\ Grows
  BY RefundsGrow DEF RefundAnswerLost
<1> QED BY <1>1, Throws DEF RefundAnswerLost

-----------------------------------------------------------------------------
\* Failures, and the gateway on its own.

LEMMA TypeStoreThrows ==
  ASSUME TypeInv, NEW t \in Threads, StoreThrows(t)
  PROVE  TypeInv'
<1>1. DataOK' /\ Recorded' = Recorded /\ Grows
  BY BoundsAssumption DEF StoreThrows, DataOK, Recorded, Grows, db, payVars, out, gwVars
<1>2. Tail(writeQ) \in Seq(Threads)
  BY QueueType DEF StoreThrows
<1>3. CASE Abandon(t, Tail(writeQ))
  BY <1>1, <1>2, <1>3, Idles DEF Abandon
<1>4. CASE Throw(t, Tail(writeQ))
  BY <1>1, <1>2, <1>4, Throws
<1> QED BY <1>3, <1>4 DEF StoreThrows

LEMMA TypeTailThrows ==
  ASSUME TypeInv, NEW t \in Threads, TailThrows(t)
  PROVE  TypeInv'
<1>1. DataOK' /\ Recorded' = Recorded /\ Grows
  BY DEF TailThrows, DataOK, Recorded, Grows, db, payVars, out, gwVars
<1>2. CASE Abandon(t, writeQ)
  BY <1>1, <1>2, Idles DEF Abandon
<1>3. CASE Throw(t, writeQ)
  BY <1>1, <1>3, Throws
<1> QED BY <1>2, <1>3 DEF TailThrows

LEMMA TypeRestart ==
  ASSUME TypeInv, Restart
  PROVE  TypeInv'
<1>1. DataOK'
  BY DEF Restart, DataOK, Recorded, db, payVars, out, gwVars
<1>2. task' \in [Threads -> Task]
  BY TaskType DEF Restart
<1>3. \A t \in Threads : LocalsOK(t)'
  BY DEF Restart, LocalsOK, Working
<1>4. ThreadsOK'
  BY <1>2, <1>3 DEF Restart, PCs
<1> QED BY <1>1, <1>4

\* Nothing but the data changes.
LEMMA DataStep ==
  ASSUME ThreadsOK, Grows, UNCHANGED <<acked, pc, task, writeQ>>
  PROVE  ThreadsOK'
<1>1. ASSUME NEW u \in Threads PROVE LocalsOK(u)'
  BY <1>1 DEF LocalsOK, Grows
<1> QED BY <1>1

LEMMA TypeReuseOrder ==
  ASSUME TypeInv, NEW b \in Bookings, ReuseOrder(b)
  PROVE  TypeInv'
<1>1. DataOK' /\ Grows
  BY DEF ReuseOrder, PaymentsOf, DataOK, Recorded, Grows, db, payVars, gwVars, ghosts
<1> QED BY <1>1, DataStep DEF ReuseOrder

LEMMA TypeGateway ==
  ASSUME TypeInv, NEW o \in Orders, CustomerPays(o) \/ AutoCapture(o) \/ AttemptFails(o)
  PROVE  TypeInv'
<1>1. DataOK' /\ Grows
  BY DEF CustomerPays, AutoCapture, AttemptFails, DataOK, Recorded, Grows, db, payVars, out, ghosts
<1> QED BY <1>1, DataStep DEF CustomerPays, AutoCapture, AttemptFails

LEMMA TypeStutter ==
  ASSUME TypeInv, UNCHANGED vars
  PROVE  TypeInv'
<1>1. DataOK' /\ Grows
  BY DEF DataOK, Recorded, Grows, vars, db, payVars, out, gwVars, ghosts
<1> QED BY <1>1, DataStep DEF vars
-----------------------------------------------------------------------------
LEMMA TypeInvStep == TypeInv /\ [Next]_vars => TypeInv'
<1> SUFFICES ASSUME TypeInv, [Next]_vars PROVE TypeInv'
  OBVIOUS
<1>1. ASSUME NEW t \in Threads, Arrive(t) PROVE TypeInv'
  BY <1>1, TypeCreateOrderForBooking, TypeVerifyAndCapture, TypeVerifyBadSignature,
     TypeConfirmByStatus, TypeRefund, TypeHandleWebhook DEF Arrive
<1>2. ASSUME NEW t \in Threads, Store(t) PROVE TypeInv'
  BY <1>2, TypeCreateIfAbsent, TypeTransitionToPaid, TypeUpdateFailed, TypeUpdateAuthorized,
     TypeClaimWebhook, TypeReleaseWebhook, TypeUpdateRefundInitiated, TypeUpdateRefundCompleted
  DEF Store
<1>3. ASSUME NEW t \in Threads, Continue(t) PROVE TypeInv'
  BY <1>3, TypeOrderTail, TypeConfirmBooking, TypePaidTail, TypeOutcomeTail,
     TypeRouteWebhook, TypeInitTail DEF Continue
<1>4. ASSUME NEW t \in Threads, Answer(t) PROVE TypeInv'
  BY <1>4, TypeGatewayCreatesOrder, TypeCapture, TypeStatusAnswers, TypeRefundAnswered,
     TypeRefundDeclined, TypeRefundAnswerLost, TypeGatewayCallThrows DEF Answer
<1>5. ASSUME NEW t \in Threads, StoreThrows(t) \/ TailThrows(t) PROVE TypeInv'
  BY <1>5, TypeStoreThrows, TypeTailThrows
<1>6. CASE \E b \in Bookings : ReuseOrder(b)
  BY <1>6, TypeReuseOrder
<1>7. CASE \E o \in Orders : CustomerPays(o) \/ AutoCapture(o) \/ AttemptFails(o)
  BY <1>7, TypeGateway
<1>8. CASE Restart
  BY <1>8, TypeRestart
<1>9. CASE UNCHANGED vars
  BY <1>9, TypeStutter
<1> QED BY <1>1, <1>2, <1>3, <1>4, <1>5, <1>6, <1>7, <1>8, <1>9 DEF Next

\* Every step of the service, of the gateway and of a restart keeps the
\* types and the locals.
LEMMA TypeInvAlways == Spec => []TypeInv
  BY InitTypeInv, TypeInvStep, PTL DEF Spec

\* The service only ever stores values of the kinds TypeOK lists.
THEOREM TypeCorrect == Spec => []TypeOK
  BY TypeInvAlways, TypeInvImpliesTypeOK, PTL

-----------------------------------------------------------------------------
(* Safety *)

\* Where a thread stands only because the gateway captured its order.
FundedPCs == {"transitionToPaid", "confirm", "paidTail", "gwRefund", "initiate",
              "initTail", "complete", "completeTail"}
FundedTypes == {"payment.captured", "order.paid"} \cup RefundTypes

Funded(t) ==
  /\ pc[t] \in FundedPCs => gw[task[t].order] = "captured"
  /\ pc[t] \in {"claim", "claimTail"} /\ task[t].event.type \in FundedTypes
       => gw[task[t].order] = "captured"

RefundsAreFunded == \A o \in Orders : gwRefunds[o] # <<>> => gw[o] = "captured"

FundedInv == /\ PaidIsCaptured
             /\ RefundsAreFunded
             /\ \A t \in Threads : Funded(t)

\* A payment that failed or was refunded in full has freed the open-order key.
EndedKeysFreed == \A o \in Orders : status[o] \in TerminalStates => key[o] # "open"

KeyInv == OneOpenOrder /\ EndedKeysFreed
-----------------------------------------------------------------------------
USE DEF MoneyStates

LEMMA InitFunded == Init => FundedInv
  BY DEF Init, FundedInv, PaidIsCaptured, RefundsAreFunded, Funded, FundedPCs

\* What a step of thread t, or of none, has to show.
LEMMA FundedStep ==
  ASSUME TypeInv, FundedInv,
         \A o \in Orders : gw[o] = "captured" => gw'[o] = "captured",
         \A o \in Orders : status'[o] \in MoneyStates =>
                             status[o] \in MoneyStates \/ gw'[o] = "captured",
         \A o \in Orders : gwRefunds'[o] # <<>> =>
                             gwRefunds[o] # <<>> \/ gw'[o] = "captured",
         \A u \in Threads : \/ Funded(u)'
                            \/ pc'[u] = pc[u] /\ task'[u] = task[u]
  PROVE  FundedInv'
<1>1. PaidIsCaptured' /\ RefundsAreFunded'
  BY DEF FundedInv, PaidIsCaptured, RefundsAreFunded
<1>2. ASSUME NEW u \in Threads, pc'[u] = pc[u], task'[u] = task[u] PROVE Funded(u)'
  <2>1. task[u].order \in Orders \/ pc[u] \notin FundedPCs \cup {"claim", "claimTail"}
    BY DEF LocalsOK, Working, PCs, Recorded, FundedPCs
  <2> QED BY <1>2, <2>1 DEF FundedInv, Funded
<1> QED BY <1>1, <1>2 DEF FundedInv

\* The steps that leave the gateway and the money states alone, and move t
\* to a pc that needs no captured order.
LEMMA UnfundedStep ==
  ASSUME TypeInv, FundedInv, NEW t \in Threads, UNCHANGED <<gw, gwRefunds>>,
         \A o \in Orders : status'[o] \in MoneyStates => status[o] \in MoneyStates,
         pc'[t] \notin FundedPCs \cup {"claim", "claimTail"},
         \A u \in Threads \ {t} : pc'[u] = pc[u] /\ task'[u] = task[u]
  PROVE  FundedInv'
<1>1. Funded(t)'
  BY DEF Funded
<1> QED BY <1>1, FundedStep

LEMMA FundedArrive ==
  ASSUME TypeInv, FundedInv, NEW t \in Threads, Arrive(t)
  PROVE  FundedInv'
<1>1. UNCHANGED <<status, gw, gwRefunds>>
  BY DEF Arrive, CreateOrderForBooking, VerifyAndCapture, VerifyBadSignature, ConfirmByStatus,
         Refund, HandleWebhook, db, payVars, gwVars
<1>2. \A u \in Threads \ {t} : pc'[u] = pc[u] /\ task'[u] = task[u]
  BY DEF Arrive, CreateOrderForBooking, VerifyAndCapture, VerifyBadSignature, ConfirmByStatus,
         Refund, HandleWebhook, Start
<1>3. CASE pc'[t] \in {"gwOrder", "gwCapture", "fail", "gwStatus"}
  BY <1>1, <1>2, <1>3, UnfundedStep DEF FundedPCs
<1>4. ASSUME NEW o \in Orders, NEW a \in 1..Amount, Refund(t, o, a) PROVE FundedInv'
  <2>1. gw[o] = "captured" /\ task'[t].order = o /\ pc'[t] = "gwRefund"
    BY <1>4 DEF Refund, RefundableStates, FundedInv, PaidIsCaptured, Start, NoTask
  <2>2. Funded(t)'
    BY <1>1, <2>1 DEF Funded
  <2> QED BY <1>1, <1>2, <2>2, FundedStep
<1>5. ASSUME NEW e \in Event, HandleWebhook(t, e) PROVE FundedInv'
  <2>1. task'[t].order = e.order /\ task'[t].event = e /\ pc'[t] = "claim"
    BY <1>5 DEF HandleWebhook, Start, NoTask
  <2>2. ASSUME e.type \in FundedTypes PROVE gw[e.order] = "captured"
    <3>1. CASE e.type \in {"payment.captured", "order.paid"}
      BY <1>5, <3>1 DEF HandleWebhook, Emitted, RefundTypes
    <3>2. CASE e.type \in RefundTypes
      <4>1. e.order \in Orders /\ e.nth \in DOMAIN gwRefunds[e.order]
        BY <1>5, <3>2 DEF HandleWebhook, Emitted, RefundTypes, Event
      <4> QED BY <4>1 DEF FundedInv, RefundsAreFunded
    <3> QED BY <2>2, <3>1, <3>2 DEF FundedTypes
  <2>3. Funded(t)'
    BY <1>1, <2>1, <2>2 DEF Funded, FundedPCs
  <2> QED BY <1>1, <1>2, <2>3, FundedStep
<1> QED BY <1>3, <1>4, <1>5 DEF Arrive, CreateOrderForBooking, VerifyAndCapture,
           VerifyBadSignature, ConfirmByStatus, Start

LEMMA FundedStore ==
  ASSUME TypeInv, FundedInv, NEW t \in Threads, Store(t)
  PROVE  FundedInv'
<1> DEFINE o == task[t].order
<1>1. UNCHANGED <<gw, gwRefunds>>
  BY DEF Store, CreateIfAbsent, TransitionToPaid, UpdateFailed, UpdateAuthorized, ClaimWebhook,
         ReleaseWebhook, UpdateRefundInitiated, UpdateRefundCompleted, gwVars
<1>2. \A u \in Threads \ {t} : pc'[u] = pc[u] /\ task'[u] = task[u]
  BY DEF Store, CreateIfAbsent, TransitionToPaid, UpdateFailed, UpdateAuthorized, ClaimWebhook,
         ReleaseWebhook, UpdateRefundInitiated, UpdateRefundCompleted, Finish, Goto
<1>3. CASE CreateIfAbsent(t) \/ UpdateFailed(t) \/ UpdateAuthorized(t) \/ ReleaseWebhook(t)
  <2>1. pc'[t] \in {"idle", "orderTail", "failTail"}
    BY <1>3 DEF CreateIfAbsent, UpdateFailed, UpdateAuthorized, ReleaseWebhook, Finish, Goto
  <2>2. \A q \in Orders : status'[q] \in MoneyStates => status[q] \in MoneyStates
    BY <1>3 DEF CreateIfAbsent, UpdateFailed, UpdateAuthorized, ReleaseWebhook, AuthorizedStatus,
                payVars, DataOK
  <2> QED BY <1>1, <1>2, <2>1, <2>2, UnfundedStep DEF FundedPCs
<1>4. CASE ClaimWebhook(t)
  <2>1. pc[t] = "claim" /\ status' = status
    BY <1>4 DEF ClaimWebhook, Turn, payVars
  <2>2. pc'[t] = "idle" \/ (pc'[t] = "claimTail" /\ task'[t] = task[t])
    BY <1>4 DEF ClaimWebhook, Finish, Goto
  <2>3. Funded(t)'
    BY <1>1, <2>1, <2>2 DEF Funded, FundedInv, FundedPCs
  <2> QED BY <1>1, <1>2, <2>1, <2>3, FundedStep
<1>5. CASE TransitionToPaid(t) \/ UpdateRefundInitiated(t) \/ UpdateRefundCompleted(t)
  <2>1. pc[t] \in FundedPCs /\ pc[t] \in Working
    BY <1>5 DEF TransitionToPaid, UpdateRefundInitiated, UpdateRefundCompleted, Turn, FundedPCs,
                Working, PCs
  <2>2. gw[o] = "captured" /\ o \in Orders
    BY <2>1 DEF FundedInv, Funded, LocalsOK, Recorded
  <2>3. \A q \in Orders : status'[q] = status[q] \/ q = o
    BY <1>5 DEF TransitionToPaid, UpdateRefundInitiated, UpdateRefundCompleted, DataOK
  <2>4. pc'[t] = "idle" \/ (pc'[t] \in FundedPCs /\ task'[t] = task[t])
    BY <1>5 DEF TransitionToPaid, UpdateRefundInitiated, UpdateRefundCompleted, Finish, Goto, FundedPCs
  <2>5. Funded(t)'
    BY <1>1, <2>2, <2>4 DEF Funded, FundedPCs
  <2> QED BY <1>1, <1>2, <2>2, <2>3, <2>5, FundedStep
<1> QED BY <1>3, <1>4, <1>5 DEF Store

LEMMA FundedContinue ==
  ASSUME TypeInv, FundedInv, NEW t \in Threads, Continue(t)
  PROVE  FundedInv'
<1> DEFINE e == task[t].event
<1>1. UNCHANGED <<status, gw, gwRefunds>>
  BY DEF Continue, OrderTail, ConfirmBooking, PaidTail, OutcomeTail, RouteWebhook, InitTail,
         db, payVars, gwVars
<1>2. CASE Finish(t)
  <2>1. pc'[t] = "idle" /\ \A u \in Threads \ {t} : pc'[u] = pc[u] /\ task'[u] = task[u]
    BY <1>2 DEF Finish, Goto
  <2> QED BY <1>1, <2>1, UnfundedStep DEF FundedPCs
<1>3. CASE ConfirmBooking(t)
  <2>1. /\ pc[t] = "confirm" /\ pc'[t] = "paidTail" /\ task' = task
        /\ \A u \in Threads \ {t} : pc'[u] = pc[u]
    BY <1>3 DEF ConfirmBooking, Goto
  <2>2. Funded(t)'
    BY <1>1, <2>1 DEF Funded, FundedInv, FundedPCs
  <2> QED BY <1>1, <2>1, <2>2, FundedStep
<1>4. ASSUME NEW a, EnqueueRefundTotal(t, a), gw[task[t].order] = "captured" PROVE FundedInv'
  <2>1. /\ pc'[t] = "complete" /\ task'[t].order = task[t].order
        /\ \A u \in Threads \ {t} : pc'[u] = pc[u] /\ task'[u] = task[u]
    BY <1>4 DEF EnqueueRefundTotal, Enqueue, Goto, Task
  <2>2. Funded(t)'
    BY <1>1, <1>4, <2>1 DEF Funded
  <2> QED BY <1>1, <2>1, <2>2, FundedStep
<1>5. CASE InitTail(t)
  <2>1. gw[task[t].order] = "captured"
    BY <1>5 DEF InitTail, FundedInv, Funded, FundedPCs
  <2> QED BY <1>2, <1>4, <1>5, <2>1 DEF InitTail
<1>6. CASE RouteWebhook(t)
  <2>1. pc[t] = "claimTail" /\ e \in Event /\ task[t].order = e.order
    BY <1>6 DEF RouteWebhook, LocalsOK
  <2>2. e.type \in FundedTypes => gw[task[t].order] = "captured"
    BY <2>1 DEF FundedInv, Funded
  <2>3. ASSUME NEW p \in {"authorize", "fail"}, Enqueue(t, p), UNCHANGED task PROVE FundedInv'
    <3>1. pc'[t] = p /\ \A u \in Threads \ {t} : pc'[u] = pc[u]
      BY <2>3 DEF Enqueue, Goto
    <3> QED BY <1>1, <2>3, <3>1, UnfundedStep DEF FundedPCs
  <2>4. ASSUME NEW p \in {"transitionToPaid", "initiate"}, Enqueue(t, p), UNCHANGED task,
               e.type \in FundedTypes
        PROVE  FundedInv'
    <3>1. pc'[t] = p /\ \A u \in Threads \ {t} : pc'[u] = pc[u]
      BY <2>4 DEF Enqueue, Goto
    <3>2. Funded(t)'
      BY <1>1, <2>2, <2>4, <3>1 DEF Funded, FundedPCs
    <3> QED BY <1>1, <2>4, <3>1, <3>2, FundedStep
  <2> QED BY <1>2, <1>4, <1>6, <2>1, <2>2, <2>3, <2>4
          DEF RouteWebhook, Event, WebhookTypes, FundedTypes, RefundTypes
<1> QED BY <1>2, <1>3, <1>5, <1>6 DEF Continue, OrderTail, PaidTail, OutcomeTail

\* An activation that ends or throws is at a pc that promises nothing.
LEMMA FundedThrow ==
  ASSUME TypeInv, FundedInv, NEW t \in Threads, NEW q, Throw(t, q) \/ Abandon(t, q),
         UNCHANGED <<status, gw>>,
         \A o \in Orders : gwRefunds'[o] # <<>> => gwRefunds[o] # <<>> \/ gw[o] = "captured"
  PROVE  FundedInv'
<1>1. /\ pc'[t] \in {"idle", "release"}
      /\ \A u \in Threads \ {t} : pc'[u] = pc[u] /\ task'[u] = task[u]
  BY DEF Throw, Abandon, Goto
<1>2. Funded(t)'
  BY <1>1 DEF Funded, FundedPCs
<1> QED BY <1>1, <1>2, FundedStep

LEMMA FundedAnswer ==
  ASSUME TypeInv, FundedInv, NEW t \in Threads, Answer(t)
  PROVE  FundedInv'
<1> DEFINE o == task[t].order
<1>1. ASSUME NEW q \in Orders, GatewayCreatesOrder(t, q) PROVE FundedInv'
  <2>1. /\ pc'[t] = "createIfAbsent" /\ UNCHANGED <<status, gwRefunds>>
        /\ \A u \in Threads \ {t} : pc'[u] = pc[u] /\ task'[u] = task[u]
        /\ \A r \in Orders : gw[r] = "captured" => gw'[r] = "captured"
    BY <1>1 DEF GatewayCreatesOrder, Enqueue, Goto, db, payVars, DataOK
  <2>2. Funded(t)'
    BY <2>1 DEF Funded, FundedPCs
  <2> QED BY <2>1, <2>2, FundedStep
<1>2. CASE CaptureSucceeds(t)
  <2>1. o \in Orders
    BY <1>2 DEF CaptureSucceeds, LocalsOK, Working, PCs, Recorded
  <2>2. /\ pc'[t] = "transitionToPaid" /\ task' = task /\ UNCHANGED <<status, gwRefunds>>
        /\ \A u \in Threads \ {t} : pc'[u] = pc[u]
        /\ \A r \in Orders : gw[r] = "captured" => gw'[r] = "captured"
        /\ gw'[o] = "captured"
    BY <1>2, <2>1 DEF CaptureSucceeds, Enqueue, Goto, db, payVars, DataOK
  <2>3. Funded(t)'
    BY <2>2 DEF Funded
  <2> QED BY <2>2, <2>3, FundedStep
<1>3. CASE CaptureFails(t)
  <2>1. /\ pc'[t] = "authorize" /\ task' = task /\ UNCHANGED <<status, gw, gwRefunds>>
        /\ \A u \in Threads \ {t} : pc'[u] = pc[u]
    BY <1>3 DEF CaptureFails, Enqueue, Goto, db, payVars, gwVars
  <2> QED BY <2>1, UnfundedStep DEF FundedPCs
<1>4. ASSUME NEW a \in Answers, StatusAnswers(t, a) PROVE FundedInv'
  <2>1. /\ UNCHANGED <<status, gw, gwRefunds>>
        /\ \A u \in Threads \ {t} : pc'[u] = pc[u] /\ task'[u] = task[u]
        /\ \/ pc'[t] \in {"idle", "fail"}
           \/ pc'[t] = "transitionToPaid" /\ task' = task /\ gw[o] = "captured"
    BY <1>4 DEF StatusAnswers, Parsed, Enqueue, Finish, Goto, db, payVars, gwVars
  <2>2. Funded(t)'
    BY <2>1 DEF Funded, FundedPCs
  <2> QED BY <2>1, <2>2, FundedStep
<1>5. ASSUME pc[t] = "gwRefund" PROVE o \in Orders /\ gw[o] = "captured"
  BY <1>5 DEF LocalsOK, Working, PCs, Recorded, FundedInv, Funded, FundedPCs
<1>6. ASSUME pc[t] = "gwRefund", GatewayRefunds(o, task[t].amount)
      PROVE  \A q \in Orders : gwRefunds'[q] # <<>> => gwRefunds[q] # <<>> \/ gw[q] = "captured"
  BY <1>5, <1>6 DEF GatewayRefunds, DataOK
<1>7. ASSUME NEW processed \in BOOLEAN, RefundAnswered(t, processed) PROVE FundedInv'
  <2>1. /\ pc[t] = "gwRefund" /\ pc'[t] = "initiate" /\ task'[t].order = o
        /\ UNCHANGED <<status, gw>>
        /\ \A u \in Threads \ {t} : pc'[u] = pc[u] /\ task'[u] = task[u]
    BY <1>7 DEF RefundAnswered, Enqueue, Goto, Task, db, payVars
  <2>2. Funded(t)'
    BY <1>5, <2>1 DEF Funded
  <2> QED BY <1>6, <1>7, <2>1, <2>2, FundedStep DEF RefundAnswered
<1>8. CASE RefundDeclined(t)
  <2>1. /\ pc[t] = "gwRefund" /\ pc'[t] = "initiate" /\ task' = task
        /\ UNCHANGED <<status, gw, gwRefunds>>
        /\ \A u \in Threads \ {t} : pc'[u] = pc[u]
    BY <1>8 DEF RefundDeclined, Enqueue, Goto, db, payVars, gwVars
  <2>2. Funded(t)'
    BY <1>5, <2>1 DEF Funded
  <2> QED BY <2>1, <2>2, FundedStep
<1>9. CASE RefundAnswerLost(t)
  BY <1>6, <1>9, FundedThrow DEF RefundAnswerLost, db, payVars
<1>10. CASE GatewayCallThrows(t)
  BY <1>10, FundedThrow DEF GatewayCallThrows, db, payVars, gwVars
<1> QED BY <1>1, <1>2, <1>3, <1>4, <1>7, <1>8, <1>9, <1>10 DEF Answer

LEMMA FundedOther ==
  ASSUME TypeInv, FundedInv,
         \/ \E t \in Threads : StoreThrows(t) \/ TailThrows(t)
         \/ \E b \in Bookings : ReuseOrder(b)
         \/ \E o \in Orders : CustomerPays(o) \/ AutoCapture(o) \/ AttemptFails(o)
         \/ Restart
         \/ UNCHANGED vars
  PROVE  FundedInv'
<1>1. ASSUME NEW t \in Threads, StoreThrows(t) \/ TailThrows(t) PROVE FundedInv'
  BY <1>1, FundedThrow DEF StoreThrows, TailThrows, db, payVars, gwVars
<1>2. ASSUME UNCHANGED <<status, gwRefunds, pc, task>>,
             \A o \in Orders : gw[o] = "captured" => gw'[o] = "captured"
      PROVE  FundedInv'
  BY <1>2, FundedStep
<1>3. ASSUME NEW b \in Bookings, ReuseOrder(b) PROVE FundedInv'
  BY <1>2, <1>3 DEF ReuseOrder, db, payVars, gwVars
<1>4. ASSUME NEW o \in Orders, CustomerPays(o) \/ AutoCapture(o) \/ AttemptFails(o) PROVE FundedInv'
  BY <1>2, <1>4 DEF CustomerPays, AutoCapture, AttemptFails, db, payVars, DataOK
<1>5. CASE Restart
  <2>1. \A t \in Threads : Funded(t)'
    BY <1>5 DEF Restart, Funded, FundedPCs
  <2>2. UNCHANGED <<status, gw, gwRefunds>>
    BY <1>5 DEF Restart, db, payVars, gwVars
  <2> QED BY <2>1, <2>2, FundedStep
<1>6. CASE UNCHANGED vars
  BY <1>2, <1>6 DEF vars, db, payVars, gwVars
<1> QED BY <1>1, <1>3, <1>4, <1>5, <1>6

LEMMA FundedInvStep == TypeInv /\ FundedInv /\ [Next]_vars => FundedInv'
  BY FundedArrive, FundedStore, FundedContinue, FundedAnswer, FundedOther DEF Next

\* A payment is marked paid, or refunded, only once the gateway has captured
\* the customer's money: neither the browser, nor a duplicated or reordered
\* webhook, nor a restart between two awaits can make it so.
THEOREM PaidOnlyIfCaptured == Spec => []PaidIsCaptured
<1>1. Spec => []FundedInv
  BY TypeInvAlways, InitFunded, FundedInvStep, PTL DEF Spec
<1>2. FundedInv => PaidIsCaptured
  BY DEF FundedInv
<1> QED BY <1>1, <1>2, PTL
-----------------------------------------------------------------------------
\* Only createIfAbsent opens a key, and what ends a payment closes its key.
LEMMA KeysKept ==
  ASSUME TypeInv, [Next]_vars, \A t \in Threads : ~CreateIfAbsent(t)
  PROVE  /\ Recorded' = Recorded /\ of' = of
         /\ \A o \in Orders :
              /\ key'[o] = "open" => key[o] = "open"
              /\ status'[o] \in TerminalStates =>
                   key'[o] # "open" \/ (status'[o] = status[o] /\ key'[o] = key[o])
<1> DEFINE P == /\ Recorded' = Recorded /\ of' = of
                /\ \A o \in Orders :
                     /\ key'[o] = "open" => key[o] = "open"
                     /\ status'[o] \in TerminalStates =>
                          key'[o] # "open" \/ (status'[o] = status[o] /\ key'[o] = key[o])
<1>1. CASE UNCHANGED <<status, of, key>>
  BY <1>1 DEF Recorded
<1>2. ASSUME NEW t \in Threads, Store(t) PROVE P
  <2>1. pc[t] \in Working => task[t].order \in Recorded
    BY DEF LocalsOK
  <2>2. CASE TransitionToPaid(t) \/ UpdateAuthorized(t) \/ UpdateRefundInitiated(t)
    <3>1. task[t].order \in Recorded
      BY <2>1, <2>2 DEF TransitionToPaid, UpdateAuthorized, UpdateRefundInitiated, Turn, Working, PCs
    <3>2. of' = of /\ key' = key
      BY <2>2 DEF TransitionToPaid, UpdateAuthorized, UpdateRefundInitiated
    <3>3. \/ status' = status
          \/ \E s \in {"paid", "authorized", "refund_initiated"} :
               status' = [status EXCEPT ![task[t].order] = s]
      BY <2>2 DEF TransitionToPaid, UpdateAuthorized, AuthorizedStatus, UpdateRefundInitiated
    <3> QED BY <3>1, <3>2, <3>3 DEF Recorded, TerminalStates, DataOK
  <2>3. CASE UpdateFailed(t)
    BY <2>1, <2>3 DEF UpdateFailed, Turn, Working, PCs, FreeKey, Recorded, TerminalStates, DataOK
  <2>4. CASE UpdateRefundCompleted(t)
    <3>1. task[t].order \in Recorded
      BY <2>1, <2>4 DEF UpdateRefundCompleted, Turn, Working, PCs
    <3>2. of' = of
      BY <2>4 DEF UpdateRefundCompleted
    <3>3. CASE task[t].amount >= Amount
      BY <2>4, <3>1, <3>2, <3>3 DEF UpdateRefundCompleted, FreeKey, Recorded, DataOK
    <3>4. CASE ~(task[t].amount >= Amount)
      BY <2>4, <3>1, <3>2, <3>4 DEF UpdateRefundCompleted, Recorded, TerminalStates, DataOK
    <3> QED BY <3>3, <3>4
  <2>5. CASE ClaimWebhook(t) \/ ReleaseWebhook(t)
    BY <1>1, <2>5 DEF ClaimWebhook, ReleaseWebhook, payVars
  <2> QED BY <1>2, <2>2, <2>3, <2>4, <2>5 DEF Store
<1>3. ASSUME NEW t \in Threads,
             \/ Arrive(t) \/ Continue(t) \/ Answer(t) \/ StoreThrows(t) \/ TailThrows(t)
      PROVE  UNCHANGED <<status, of, key>>
  BY <1>3 DEF Arrive, CreateOrderForBooking, VerifyAndCapture, VerifyBadSignature, ConfirmByStatus,
     Refund, HandleWebhook, Continue, OrderTail, ConfirmBooking, PaidTail, OutcomeTail, RouteWebhook,
     InitTail, Answer, GatewayCreatesOrder, CaptureSucceeds, CaptureFails, StatusAnswers,
     RefundAnswered, RefundDeclined, RefundAnswerLost, GatewayCallThrows, StoreThrows, TailThrows,
     db, payVars
<1>4. CASE \/ \E b \in Bookings : ReuseOrder(b)
           \/ \E o \in Orders : CustomerPays(o) \/ AutoCapture(o) \/ AttemptFails(o)
           \/ Restart
           \/ UNCHANGED vars
  BY <1>1, <1>4 DEF ReuseOrder, CustomerPays, AutoCapture, AttemptFails, Restart, vars, db, payVars
<1> QED BY <1>1, <1>2, <1>3, <1>4 DEF Next

LEMMA KeyInvStep == TypeInv /\ KeyInv /\ [Next]_vars => KeyInv'
<1> SUFFICES ASSUME TypeInv, KeyInv, [Next]_vars PROVE KeyInv'
  OBVIOUS
<1>1. ASSUME NEW t \in Threads, CreateIfAbsent(t) PROVE KeyInv'
  <2> DEFINE o == task[t].order
             b == task[t].booking
  <2>1. CASE OpenKey(b) # {}
    <3>1. UNCHANGED <<status, of, key>>
      BY <1>1, <2>1 DEF CreateIfAbsent, payVars
    <3> QED BY <3>1 DEF KeyInv, OneOpenOrder, EndedKeysFreed, Recorded
  <2>2. CASE OpenKey(b) = {}
    <3>1. /\ o \in Orders
          /\ status' = [status EXCEPT ![o] = "created"]
          /\ of' = [of EXCEPT ![o] = b]
          /\ key' = [key EXCEPT ![o] = "open"]
      BY <1>1, <2>2 DEF CreateIfAbsent, Turn, LocalsOK
    <3>2. EndedKeysFreed'
      BY <3>1 DEF KeyInv, EndedKeysFreed, TerminalStates, DataOK
    <3>3. \A q \in Recorded' : q = o \/ (q \in Recorded /\ key'[q] = key[q] /\ of'[q] = of[q])
      BY <3>1 DEF Recorded, DataOK
    <3>4. \A q \in Recorded : key[q] = "open" => of[q] # b
      BY <2>2 DEF OpenKey
    <3>5. of'[o] = b
      BY <3>1 DEF DataOK
    <3> QED BY <3>2, <3>3, <3>4, <3>5 DEF KeyInv, OneOpenOrder
  <2> QED BY <2>1, <2>2
<1>2. ASSUME \A t \in Threads : ~CreateIfAbsent(t) PROVE KeyInv'
  <2>1. OneOpenOrder'
    BY <1>2, KeysKept DEF KeyInv, OneOpenOrder, Recorded
  <2>2. EndedKeysFreed'
    BY <1>2, KeysKept DEF KeyInv, EndedKeysFreed
  <2> QED BY <2>1, <2>2 DEF KeyInv
<1> QED BY <1>1, <1>2

LEMMA KeyInvAlways == Spec => []KeyInv
<1>1. Init => KeyInv
  BY DEF Init, KeyInv, OneOpenOrder, EndedKeysFreed, Recorded, TerminalStates
<1> QED BY <1>1, TypeInvAlways, KeyInvStep, PTL DEF Spec

\* However many createOrderForBooking calls race for a booking, one record
\* holds its open-order key.
THEOREM BookingHasOneOpenOrder == Spec => []OneOpenOrder
<1>1. KeyInv => OneOpenOrder
  BY DEF KeyInv
<1> QED BY <1>1, KeyInvAlways, PTL

\* A retry is never handed an ended payment: where all payments of a booking
\* have failed or been refunded in full, the order opened for it is recorded.
THEOREM RetryOpensOrder == Spec => RetryReopens
<1>1. ASSUME TypeInv, KeyInv, NEW t \in Threads, CreateIfAbsent(t),
             \A o \in PaymentsOf(task[t].booking) : status[o] \in TerminalStates
      PROVE  /\ of'[task[t].order] = task[t].booking
             /\ status'[task[t].order] = "created"
  <2>1. OpenKey(task[t].booking) = {}
    BY <1>1 DEF OpenKey, PaymentsOf, KeyInv, EndedKeysFreed, Recorded
  <2>2. task[t].order \in Orders
    BY <1>1 DEF CreateIfAbsent, Turn, LocalsOK
  <2> QED BY <1>1, <2>1, <2>2 DEF CreateIfAbsent, DataOK
<1>2. TypeInv /\ KeyInv /\ [Next]_vars =>
        [\A t \in Threads :
           /\ CreateIfAbsent(t)
           /\ \A o \in PaymentsOf(task[t].booking) : status[o] \in TerminalStates
           => /\ of'[task[t].order] = task[t].booking
              /\ status'[task[t].order] = "created"]_vars
  BY <1>1
<1> QED BY <1>2, TypeInvAlways, KeyInvAlways, PTL DEF Spec, RetryReopens
-----------------------------------------------------------------------------
(* Webhooks.  Only claimWebhook lets an activation past the claim, and it   *)
(* finds the id unclaimed, so that nobody is past it.                       *)

USE NoEventAssumption

\* The claims stay, and t does not get past the claim of an event.
LEMMA WebhookStep ==
  ASSUME TypeInv, ExclusiveWebhook, NEW t \in Threads, claimed' = claimed,
         \A u \in Threads \ {t} : pc'[u] = pc[u] /\ task'[u] = task[u],
         \/ task'[t].event = None
         \/ pc'[t] = "claim"
         \/ pc[t] # "claim" /\ task'[t].event = task[t].event
  PROVE  ExclusiveWebhook'
<1>1. \A e \in Event : Processing(e)' \subseteq Processing(e)
  BY DEF Processing
<1> QED BY <1>1 DEF ExclusiveWebhook

\* An activation that ends, or throws past the claim.
LEMMA WebhookEnds ==
  ASSUME TypeInv, ExclusiveWebhook, NEW t \in Threads, claimed' = claimed,
         \/ Finish(t)
         \/ \E q : Abandon(t, q) \/ (pc[t] # "claim" /\ Throw(t, q))
  PROVE  ExclusiveWebhook'
<1>1. /\ \A u \in Threads \ {t} : pc'[u] = pc[u] /\ task'[u] = task[u]
      /\ task'[t] = NoTask \/ (pc[t] # "claim" /\ task'[t] = task[t])
  BY DEF Finish, Abandon, Throw, Goto
<1>2. NoTask.event = None
  BY DEF NoTask
<1> QED BY <1>1, <1>2, WebhookStep

LEMMA WebhookArrive ==
  ASSUME TypeInv, ExclusiveWebhook, NEW t \in Threads, Arrive(t)
  PROVE  ExclusiveWebhook'
<1>1. /\ claimed' = claimed
      /\ \A u \in Threads \ {t} : pc'[u] = pc[u] /\ task'[u] = task[u]
  BY DEF Arrive, CreateOrderForBooking, VerifyAndCapture, VerifyBadSignature, ConfirmByStatus,
         Refund, HandleWebhook, Start, db
<1>2. task'[t].event = None \/ pc'[t] = "claim"
  BY DEF Arrive, CreateOrderForBooking, VerifyAndCapture, VerifyBadSignature, ConfirmByStatus,
         Refund, HandleWebhook, Start, NoTask
<1> QED BY <1>1, <1>2, WebhookStep

LEMMA WebhookStore ==
  ASSUME TypeInv, ExclusiveWebhook, NEW t \in Threads, Store(t)
  PROVE  ExclusiveWebhook'
<1>1. CASE ClaimWebhook(t) /\ ~Seen(task[t].event)
  <2> PICK e : e = task[t].event
    OBVIOUS
  <2>1. /\ e \in Event /\ e \notin claimed /\ claimed' = claimed \cup {e} /\ task' = task
        /\ \A u \in Threads \ {t} : pc'[u] = pc[u]
    BY <1>1 DEF ClaimWebhook, Turn, LocalsOK, Seen, Goto
  <2>2. Processing(e) = {}
    BY <2>1 DEF ExclusiveWebhook
  <2>3. Processing(e)' \subseteq {t} /\ \A f \in Event : f # e => Processing(f)' \subseteq Processing(f)
    BY <2>1, <2>2 DEF Processing
  <2> QED BY <2>1, <2>3 DEF ExclusiveWebhook
<1>2. CASE ReleaseWebhook(t)
  <2> PICK e : e = task[t].event
    OBVIOUS
  <2>1. /\ pc[t] = "release" /\ e \in Event /\ claimed' = claimed \ {e}
        /\ task'[t].event = None
        /\ \A u \in Threads \ {t} : pc'[u] = pc[u] /\ task'[u] = task[u]
    BY <1>2 DEF ReleaseWebhook, Turn, LocalsOK, Goto, NoTask
  <2>2. t \in Processing(e)
    BY <2>1 DEF Processing
  <2>3. Processing(e)' = {} /\ \A f \in Event : Processing(f)' \subseteq Processing(f)
    BY <2>1, <2>2 DEF Processing, ExclusiveWebhook
  <2> QED BY <2>1, <2>3 DEF ExclusiveWebhook
<1>3. CASE ClaimWebhook(t) /\ Seen(task[t].event)
  BY <1>3, WebhookEnds DEF ClaimWebhook
<1>4. CASE \/ CreateIfAbsent(t) \/ TransitionToPaid(t) \/ UpdateFailed(t) \/ UpdateAuthorized(t)
           \/ UpdateRefundInitiated(t) \/ UpdateRefundCompleted(t)
  <2>1. claimed' = claimed /\ pc[t] # "claim"
    BY <1>4 DEF CreateIfAbsent, TransitionToPaid, UpdateFailed, UpdateAuthorized,
                UpdateRefundInitiated, UpdateRefundCompleted, Turn
  <2>2. \/ Finish(t)
        \/ task' = task /\ \A u \in Threads \ {t} : pc'[u] = pc[u]
    BY <1>4 DEF CreateIfAbsent, TransitionToPaid, UpdateFailed, UpdateAuthorized,
                UpdateRefundInitiated, UpdateRefundCompleted, Goto
  <2> QED BY <2>1, <2>2, WebhookEnds, WebhookStep
<1> QED BY <1>1, <1>2, <1>3, <1>4 DEF Store

LEMMA WebhookContinue ==
  ASSUME TypeInv, ExclusiveWebhook, NEW t \in Threads, Continue(t) \/ Answer(t)
  PROVE  ExclusiveWebhook'
<1>1. claimed' = claimed /\ pc[t] # "claim"
  BY DEF Continue, OrderTail, ConfirmBooking, PaidTail, OutcomeTail, RouteWebhook, InitTail,
         Answer, GatewayCreatesOrder, CaptureSucceeds, CaptureFails, StatusAnswers,
         RefundAnswered, RefundDeclined, RefundAnswerLost, GatewayCallThrows, db
<1>2. CASE Finish(t) \/ Throw(t, writeQ)
  BY <1>1, <1>2, WebhookEnds
<1>3. ASSUME \A u \in Threads \ {t} : pc'[u] = pc[u] /\ task'[u] = task[u],
             task'[t].event = task[t].event
      PROVE  ExclusiveWebhook'
  BY <1>1, <1>3, WebhookStep
<1>4. ASSUME NEW a, EnqueueRefundTotal(t, a) PROVE ExclusiveWebhook'
  BY <1>3, <1>4 DEF EnqueueRefundTotal, Enqueue, Goto, Task
<1>5. CASE Continue(t)
  <2>1. \/ Finish(t)
        \/ \E a : EnqueueRefundTotal(t, a)
        \/ task' = task /\ \A u \in Threads \ {t} : pc'[u] = pc[u]
    <3>1. CASE RouteWebhook(t)
      BY <3>1 DEF RouteWebhook, Enqueue, Goto, Event, WebhookTypes, RefundTypes, LocalsOK
    <3>2. CASE ~RouteWebhook(t)
      BY <1>5, <3>2 DEF Continue, OrderTail, ConfirmBooking, PaidTail, OutcomeTail, InitTail, Goto
    <3> QED BY <3>1, <3>2
  <2> QED BY <1>2, <1>3, <1>4, <2>1
<1>6. CASE Answer(t)
  <2>1. \/ Finish(t)
        \/ Throw(t, writeQ)
        \/ /\ \A u \in Threads \ {t} : pc'[u] = pc[u] /\ task'[u] = task[u]
           /\ task'[t].event = task[t].event
    BY <1>6 DEF Answer, GatewayCreatesOrder, CaptureSucceeds, CaptureFails, StatusAnswers,
         RefundAnswered, RefundDeclined, RefundAnswerLost, GatewayCallThrows, Enqueue, Goto, Task
  <2> QED BY <1>2, <1>3, <2>1
<1> QED BY <1>5, <1>6

LEMMA WebhookInvStep == TypeInv /\ ExclusiveWebhook /\ [Next]_vars => ExclusiveWebhook'
<1> SUFFICES ASSUME TypeInv, ExclusiveWebhook, [Next]_vars PROVE ExclusiveWebhook'
  OBVIOUS
<1>1. ASSUME NEW t \in Threads, StoreThrows(t) \/ TailThrows(t) PROVE ExclusiveWebhook'
  BY <1>1, WebhookEnds DEF StoreThrows, TailThrows, db
<1>2. ASSUME UNCHANGED <<claimed, pc, task>> PROVE ExclusiveWebhook'
  BY <1>2 DEF ExclusiveWebhook, Processing
<1>3. CASE \/ \E b \in Bookings : ReuseOrder(b)
           \/ \E o \in Orders : CustomerPays(o) \/ AutoCapture(o) \/ AttemptFails(o)
           \/ UNCHANGED vars
  BY <1>2, <1>3 DEF ReuseOrder, CustomerPays, AutoCapture, AttemptFails, vars, db
<1>4. CASE Restart
  <2>1. \A e \in Event : Processing(e)' = {}
    BY <1>4 DEF Restart, Processing, NoTask
  <2> QED BY <2>1 DEF ExclusiveWebhook
<1> QED BY <1>1, <1>3, <1>4, WebhookArrive, WebhookStore, WebhookContinue DEF Next

\* handleWebhook: however often an event is delivered, and whatever throws or
\* restarts in between, one activation at a time routes it and it is claimed.
THEOREM WebhookIsExclusive == Spec => []ExclusiveWebhook
<1>1. Init => ExclusiveWebhook
  BY DEF Init, ExclusiveWebhook, Processing, NoTask
<1> QED BY <1>1, TypeInvAlways, WebhookInvStep, PTL DEF Spec
-----------------------------------------------------------------------------
(* Checkouts.  The gateway order of a call that lost the race of            *)
(* createIfAbsent is never handed out.                                      *)

LEMMA RecordsStay == TypeInv /\ [Next]_vars => Recorded \subseteq Recorded'
<1> SUFFICES ASSUME TypeInv, [Next]_vars PROVE Recorded \subseteq Recorded'
  OBVIOUS
<1>1. ASSUME NEW t \in Threads, CreateIfAbsent(t) PROVE Recorded \subseteq Recorded'
  BY <1>1 DEF CreateIfAbsent, payVars, Recorded, DataOK
<1> QED BY <1>1, KeysKept

\* A step hands out orders on record, and the gateway learns of a payment
\* only for orders that were handed out or are on record.
MoneyFollows ==
  /\ \A o \in handed' : o \in handed \cup Recorded'
  /\ \A o \in Orders :
       gw'[o] \in {"authorized", "captured", "failed"} \/ o \in gwFailed'
         => \/ gw[o] \in {"authorized", "captured", "failed"} \/ o \in gwFailed
            \/ o \in handed \cup Recorded

LEMMA QuietMoney ==
  ASSUME UNCHANGED <<handed, gw, gwFailed>>
  PROVE  MoneyFollows
BY DEF MoneyFollows

LEMMA MoneyFollowsStep == TypeInv /\ [Next]_vars => MoneyFollows
<1> SUFFICES ASSUME TypeInv, [Next]_vars PROVE MoneyFollows
  OBVIOUS
<1>1. ASSUME NEW t \in Threads, Arrive(t) \/ StoreThrows(t) \/ TailThrows(t) PROVE MoneyFollows
  BY <1>1, QuietMoney DEF Arrive, CreateOrderForBooking, VerifyAndCapture, VerifyBadSignature,
     ConfirmByStatus, Refund, HandleWebhook, StoreThrows, TailThrows, out, gwVars
<1>2. ASSUME NEW t \in Threads, Store(t) PROVE MoneyFollows
  <2>1. CASE CreateIfAbsent(t) /\ OpenKey(task[t].booking) # {}
    <3>1. /\ \E o \in OpenKey(task[t].booking) : handed' = handed \cup {o}
          /\ UNCHANGED <<status, gw, gwFailed>>
      BY <2>1 DEF CreateIfAbsent, ReturnedOrder, payVars, gwVars
    <3> QED BY <3>1 DEF MoneyFollows, OpenKey, Recorded
  <2>2. CASE ~(CreateIfAbsent(t) /\ OpenKey(task[t].booking) # {})
    <3>1. UNCHANGED <<handed, gw, gwFailed>>
      BY <1>2, <2>2 DEF Store, CreateIfAbsent, TransitionToPaid, UpdateFailed, UpdateAuthorized,
         ClaimWebhook, ReleaseWebhook, UpdateRefundInitiated, UpdateRefundCompleted, out, gwVars
    <3> QED BY <3>1, QuietMoney
  <2> QED BY <2>1, <2>2
<1>3. ASSUME NEW t \in Threads, Continue(t) PROVE MoneyFollows
  <2>1. CASE OrderTail(t)
    <3>1. /\ task[t].order \in Recorded /\ handed' = handed \cup {task[t].order}
          /\ UNCHANGED <<status, gw, gwFailed>>
      BY <2>1 DEF OrderTail, LocalsOK, Working, PCs, db, payVars, gwVars
    <3> QED BY <3>1 DEF MoneyFollows, Recorded
  <2>2. CASE ~OrderTail(t)
    <3>1. UNCHANGED <<handed, gw, gwFailed>>
      BY <1>3, <2>2 DEF Continue, ConfirmBooking, PaidTail, OutcomeTail, RouteWebhook, InitTail,
         out, gwVars
    <3> QED BY <3>1, QuietMoney
  <2> QED BY <2>1, <2>2
<1>4. ASSUME NEW t \in Threads, Answer(t) PROVE MoneyFollows
  <2>1. ASSUME NEW o \in Orders, GatewayCreatesOrder(t, o) PROVE MoneyFollows
    BY <2>1 DEF GatewayCreatesOrder, MoneyFollows, out, DataOK
  <2>2. CASE CaptureSucceeds(t)
    <3>1. task[t].order \in Recorded
      BY <2>2 DEF CaptureSucceeds, LocalsOK, Working, PCs
    <3> QED BY <2>2, <3>1 DEF CaptureSucceeds, MoneyFollows, out, DataOK
  <2>3. CASE \/ CaptureFails(t) \/ \E a \in Answers : StatusAnswers(t, a)
             \/ \E processed \in BOOLEAN : RefundAnswered(t, processed)
             \/ RefundDeclined(t) \/ RefundAnswerLost(t) \/ GatewayCallThrows(t)
    BY <2>3, QuietMoney DEF CaptureFails, StatusAnswers, RefundAnswered, RefundDeclined,
       RefundAnswerLost, GatewayCallThrows, out, gwVars
  <2> QED BY <1>4, <2>1, <2>2, <2>3 DEF Answer
<1>5. ASSUME NEW b \in Bookings, ReuseOrder(b) PROVE MoneyFollows
  <2>1. \E o \in Recorded : handed' = handed \cup {o}
    BY <1>5 DEF ReuseOrder, PaymentsOf
  <2>2. UNCHANGED <<status, gw, gwFailed>>
    BY <1>5 DEF ReuseOrder, db, payVars, gwVars
  <2> QED BY <2>1, <2>2 DEF MoneyFollows, Recorded
<1>6. ASSUME NEW o \in Orders, CustomerPays(o) \/ AutoCapture(o) \/ AttemptFails(o) PROVE MoneyFollows
  BY <1>6 DEF CustomerPays, AutoCapture, AttemptFails, MoneyFollows, out, DataOK
<1>7. CASE Restart \/ UNCHANGED vars
  BY <1>7, QuietMoney DEF Restart, vars, out, gwVars
<1> QED BY <1>1, <1>2, <1>3, <1>4, <1>5, <1>6, <1>7 DEF Next

\* createOrderForBooking hands out orders on record only, however calls race
\* and whatever fails, so that money always finds its payment.
THEOREM MoneyFindsItsPayment == Spec => []MoneyIsRecorded
<1>1. Init => MoneyIsRecorded
  BY DEF Init, MoneyIsRecorded
<1>2. TypeInv /\ MoneyIsRecorded /\ [Next]_vars => MoneyIsRecorded'
  BY RecordsStay, MoneyFollowsStep DEF MoneyIsRecorded, MoneyFollows
<1> QED BY <1>1, <1>2, TypeInvAlways, PTL DEF Spec

-----------------------------------------------------------------------------
(* Approvals, while the process lives: a restart between the compare-and-   *)
(* set and the booking loses the approval.                                  *)

\* The write chain: whoever waits in it waits once, at the mutator it called.
StorePCs == {"createIfAbsent", "transitionToPaid", "fail", "authorize", "claim", "release",
             "initiate", "complete"}
QueueOK == /\ \A i \in DOMAIN writeQ : pc[writeQ[i]] \in StorePCs
           /\ \A i, j \in DOMAIN writeQ : writeQ[i] = writeQ[j] => i = j

\* t's step takes it out of the chain, puts it at the end, or finds it outside.
LEMMA QueueStep ==
  ASSUME TypeInv, QueueOK, NEW t \in Threads, \A u \in Threads \ {t} : pc'[u] = pc[u],
         \/ pc[t] \notin StorePCs
         \/ writeQ # <<>> /\ Head(writeQ) = t,
         NEW q, q = IF pc[t] \in StorePCs THEN Tail(writeQ) ELSE writeQ,
         \/ writeQ' = q
         \/ writeQ' = Append(q, t) /\ pc'[t] \in StorePCs
  PROVE  QueueOK'
<1>1. /\ q \in Seq(Threads)
      /\ \A i \in DOMAIN q : q[i] # t /\ pc[q[i]] \in StorePCs
      /\ \A i, j \in DOMAIN q : q[i] = q[j] => i = j
  <2>1. CASE pc[t] \notin StorePCs
    BY <2>1 DEF QueueOK
  <2>2. CASE pc[t] \in StorePCs
    <3>1. /\ writeQ # <<>> /\ writeQ[1] = t /\ q = Tail(writeQ) /\ q \in Seq(Threads)
          /\ Len(writeQ) \in Nat /\ DOMAIN writeQ = 1..Len(writeQ)
          /\ DOMAIN q = 1..(Len(writeQ) - 1)
          /\ \A i \in DOMAIN q : q[i] = writeQ[i + 1]
      BY <2>2
    <3>2. \A i \in DOMAIN q : i + 1 \in DOMAIN writeQ /\ i + 1 # 1 /\ 1 \in DOMAIN writeQ
      BY <3>1
    <3>3. \A i \in DOMAIN q : q[i] # t /\ pc[q[i]] \in StorePCs
      BY <3>1, <3>2 DEF QueueOK
    <3>4. ASSUME NEW i \in DOMAIN q, NEW j \in DOMAIN q, q[i] = q[j] PROVE i = j
      <4>1. i + 1 = j + 1
        BY <3>1, <3>2, <3>4 DEF QueueOK
      <4> QED BY <3>1, <4>1
    <3> QED BY <3>1, <3>3, <3>4
  <2> QED BY <2>1, <2>2
<1>2. \A i \in DOMAIN q : q[i] \in Threads \ {t} /\ pc'[q[i]] \in StorePCs
  <2>1. \A i \in DOMAIN q : q[i] \in Threads \ {t}
    BY <1>1
  <2> QED BY <1>1, <2>1
<1>3. CASE writeQ' = q
  <2>1. \A i \in DOMAIN writeQ' : pc'[writeQ'[i]] \in StorePCs
    BY <1>2, <1>3
  <2>2. \A i, j \in DOMAIN writeQ' : writeQ'[i] = writeQ'[j] => i = j
    BY <1>1, <1>3
  <2> QED BY <2>1, <2>2 DEF QueueOK
<1>4. CASE writeQ' = Append(q, t) /\ pc'[t] \in StorePCs
  <2>1. /\ Len(q) \in Nat /\ DOMAIN q = 1..Len(q) /\ DOMAIN writeQ' = 1..(Len(q) + 1)
        /\ writeQ'[Len(q) + 1] = t /\ \A i \in DOMAIN q : writeQ'[i] = q[i]
    BY <1>1, <1>4
  <2>2. \A i \in DOMAIN writeQ' : i \in DOMAIN q \/ i = Len(q) + 1
    BY <2>1
  <2> QED BY <1>1, <1>2, <1>4, <2>1, <2>2 DEF QueueOK
<1> QED BY <1>3, <1>4

LEMMA QueueArrive ==
  ASSUME TypeInv, QueueOK, NEW t \in Threads, Arrive(t)
  PROVE  QueueOK'
<1>1. /\ pc[t] = "idle" /\ \A u \in Threads \ {t} : pc'[u] = pc[u]
      /\ writeQ' = writeQ \/ (writeQ' = Append(writeQ, t) /\ pc'[t] \in StorePCs)
  BY DEF Arrive, CreateOrderForBooking, VerifyAndCapture, VerifyBadSignature, ConfirmByStatus,
         Refund, HandleWebhook, Start, StorePCs
<1> QED BY <1>1, QueueStep DEF StorePCs

LEMMA QueueStore ==
  ASSUME TypeInv, QueueOK, NEW t \in Threads, Store(t)
  PROVE  QueueOK'
<1>1. /\ pc[t] \in StorePCs /\ writeQ # <<>> /\ Head(writeQ) = t /\ writeQ' = Tail(writeQ)
      /\ \A u \in Threads \ {t} : pc'[u] = pc[u]
  BY DEF Store, CreateIfAbsent, TransitionToPaid, UpdateFailed, UpdateAuthorized, ClaimWebhook,
         ReleaseWebhook, UpdateRefundInitiated, UpdateRefundCompleted, Turn, Finish, Goto, StorePCs
<1> QED BY <1>1, QueueStep

LEMMA QueueContinue ==
  ASSUME TypeInv, QueueOK, NEW t \in Threads, Continue(t) \/ Answer(t)
  PROVE  QueueOK'
<1>1. pc[t] \notin StorePCs
  BY DEF Continue, OrderTail, ConfirmBooking, PaidTail, OutcomeTail, RouteWebhook, InitTail,
         Answer, GatewayCreatesOrder, CaptureSucceeds, CaptureFails, StatusAnswers,
         RefundAnswered, RefundDeclined, RefundAnswerLost, GatewayCallThrows, StorePCs
<1>2. /\ \A u \in Threads \ {t} : pc'[u] = pc[u]
      /\ writeQ' = writeQ \/ (writeQ' = Append(writeQ, t) /\ pc'[t] \in StorePCs)
  <2>1. CASE RouteWebhook(t)
    BY <2>1 DEF RouteWebhook, EnqueueRefundTotal, Enqueue, Finish, Goto, StorePCs, Event,
       WebhookTypes, RefundTypes, LocalsOK
  <2>2. CASE Continue(t) /\ ~RouteWebhook(t)
    BY <2>2 DEF Continue, OrderTail, ConfirmBooking, PaidTail, OutcomeTail, InitTail,
       EnqueueRefundTotal, Enqueue, Finish, Goto, StorePCs
  <2>3. CASE Answer(t)
    BY <2>3 DEF Answer, GatewayCreatesOrder, CaptureSucceeds, CaptureFails, StatusAnswers,
       RefundAnswered, RefundDeclined, RefundAnswerLost, GatewayCallThrows, Throw, Enqueue,
       Finish, Goto, StorePCs
  <2> QED BY <2>1, <2>2, <2>3
<1> QED BY <1>1, <1>2, QueueStep

LEMMA QueueFails ==
  ASSUME TypeInv, QueueOK, NEW t \in Threads, StoreThrows(t) \/ TailThrows(t)
  PROVE  QueueOK' /\ pc[t] # "confirm"
<1>1. CASE StoreThrows(t)
  <2>1. writeQ # <<>> /\ Head(writeQ) = t /\ pc[t] \in StorePCs
    BY <1>1 DEF StoreThrows, QueueOK
  <2>2. /\ \A u \in Threads \ {t} : pc'[u] = pc[u]
        /\ \/ writeQ' = Tail(writeQ)
           \/ writeQ' = Append(Tail(writeQ), t) /\ pc'[t] \in StorePCs
    BY <1>1 DEF StoreThrows, Throw, Abandon, Goto, StorePCs
  <2> QED BY <2>1, <2>2, QueueStep DEF StorePCs
<1>2. CASE TailThrows(t)
  <2>1. /\ pc[t] \notin StorePCs /\ pc[t] # "confirm"
        /\ \A u \in Threads \ {t} : pc'[u] = pc[u]
        /\ writeQ' = writeQ \/ (writeQ' = Append(writeQ, t) /\ pc'[t] \in StorePCs)
    BY <1>2 DEF TailThrows, Throw, Abandon, Goto, StorePCs
  <2> QED BY <2>1, QueueStep
<1> QED BY <1>1, <1>2

LEMMA QueueInvStep == TypeInv /\ QueueOK /\ [Next]_vars => QueueOK'
<1> SUFFICES ASSUME TypeInv, QueueOK, [Next]_vars PROVE QueueOK'
  OBVIOUS
<1>1. CASE \/ \E b \in Bookings : ReuseOrder(b)
           \/ \E o \in Orders : CustomerPays(o) \/ AutoCapture(o) \/ AttemptFails(o)
           \/ UNCHANGED vars
  BY <1>1 DEF ReuseOrder, CustomerPays, AutoCapture, AttemptFails, vars, QueueOK
<1>2. CASE Restart
  BY <1>2 DEF Restart, QueueOK
<1> QED BY <1>1, <1>2, QueueArrive, QueueStore, QueueContinue, QueueFails DEF Next

LEMMA QueueAlways == Spec => []QueueOK
<1>1. Init => QueueOK
  BY DEF Init, QueueOK
<1> QED BY <1>1, TypeInvAlways, QueueInvStep, PTL DEF Spec

\* A paid payment was paid before, or its winner goes on to the booking; the
\* approvals stay, and nobody leaves the confirmation without one.
ApprovalFollows ==
  /\ approved \subseteq approved'
  /\ \A o \in Orders : status'[o] = "paid" =>
       \/ status[o] = "paid" /\ of'[o] = of[o]
       \/ \E t \in Threads : pc'[t] = "confirm" /\ task'[t].order = o
  /\ \A t \in Threads : pc[t] = "confirm" =>
       \/ pc'[t] = "confirm" /\ task'[t] = task[t]
       \/ of[task[t].order] \in approved'

\* A step of t that pays nothing, when t does not stand at the confirmation.
LEMMA QuietApproval ==
  ASSUME NEW t \in Threads, pc[t] # "confirm", approved' = approved,
         \A o \in Orders : status'[o] = "paid" => status[o] = "paid" /\ of'[o] = of[o],
         \A u \in Threads \ {t} : pc'[u] = pc[u] /\ task'[u] = task[u]
  PROVE  ApprovalFollows
BY DEF ApprovalFollows

LEMMA ApprovalStep ==
  ASSUME MaxCrashes = 0, TypeInv, QueueOK, [Next]_vars
  PROVE  ApprovalFollows
<1>1. ASSUME UNCHANGED <<status, of, approved, pc, task>> PROVE ApprovalFollows
  BY <1>1 DEF ApprovalFollows
<1>2. CASE \/ \E b \in Bookings : ReuseOrder(b)
           \/ \E o \in Orders : CustomerPays(o) \/ AutoCapture(o) \/ AttemptFails(o)
           \/ UNCHANGED vars
  BY <1>1, <1>2 DEF ReuseOrder, CustomerPays, AutoCapture, AttemptFails, vars, db, payVars, out
<1>3. ~Restart
  BY DEF Restart, DataOK
<1>4. ASSUME NEW t \in Threads, UNCHANGED <<status, of, approved>>, pc[t] # "confirm",
             \A u \in Threads \ {t} : pc'[u] = pc[u] /\ task'[u] = task[u]
      PROVE  ApprovalFollows
  BY <1>4, QuietApproval
<1>5. ASSUME NEW t \in Threads, Arrive(t) PROVE ApprovalFollows
  BY <1>4, <1>5 DEF Arrive, CreateOrderForBooking, VerifyAndCapture, VerifyBadSignature,
     ConfirmByStatus, Refund, HandleWebhook, Start, db, payVars, out
<1>6. ASSUME NEW t \in Threads, Store(t) PROVE ApprovalFollows
  <2>1. /\ pc[t] # "confirm" /\ approved' = approved
        /\ \A u \in Threads \ {t} : pc'[u] = pc[u] /\ task'[u] = task[u]
    BY <1>6 DEF Store, CreateIfAbsent, TransitionToPaid, UpdateFailed, UpdateAuthorized,
       ClaimWebhook, ReleaseWebhook, UpdateRefundInitiated, UpdateRefundCompleted, Turn, Finish,
       Goto, out
  <2>2. CASE TransitionToPaid(t)
    <3>1. /\ \A o \in Orders : status'[o] = status[o] \/ (o = task[t].order /\ pc'[t] = "confirm")
          /\ pc'[t] = "confirm" => task' = task
          /\ of' = of
      BY <2>2 DEF TransitionToPaid, Turn, Finish, Goto, DataOK
    <3> QED BY <2>1, <3>1 DEF ApprovalFollows
  <2>3. CASE CreateIfAbsent(t)
    <3>1. \A o \in Orders : status'[o] = "paid" => status[o] = "paid" /\ of'[o] = of[o]
      BY <2>3 DEF CreateIfAbsent, payVars, DataOK
    <3> QED BY <2>1, <3>1, QuietApproval
  <2>4. CASE \/ UpdateFailed(t) \/ UpdateAuthorized(t) \/ ClaimWebhook(t) \/ ReleaseWebhook(t)
             \/ UpdateRefundInitiated(t) \/ UpdateRefundCompleted(t)
    <3>1. of' = of /\ \A o \in Orders : status'[o] = "paid" => status[o] = "paid"
      BY <2>4 DEF UpdateFailed, UpdateAuthorized, AuthorizedStatus, ClaimWebhook, ReleaseWebhook,
         UpdateRefundInitiated, UpdateRefundCompleted, payVars, DataOK
    <3> QED BY <2>1, <3>1, QuietApproval
  <2> QED BY <1>6, <2>2, <2>3, <2>4 DEF Store
<1>7. ASSUME NEW t \in Threads, Continue(t) PROVE ApprovalFollows
  <2>1. UNCHANGED <<status, of>>
    BY <1>7 DEF Continue, OrderTail, ConfirmBooking, PaidTail, OutcomeTail, RouteWebhook, InitTail,
       db, payVars
  <2>2. CASE ConfirmBooking(t)
    <3>1. /\ approved' = approved \cup {of[task[t].order]} /\ task' = task
          /\ \A u \in Threads \ {t} : pc'[u] = pc[u]
      BY <2>2 DEF ConfirmBooking, Goto
    <3> QED BY <2>1, <3>1 DEF ApprovalFollows
  <2>3. CASE ~ConfirmBooking(t)
    <3>1. pc[t] # "confirm" /\ approved' = approved
      BY <1>7, <2>3 DEF Continue, OrderTail, PaidTail, OutcomeTail, RouteWebhook, InitTail, out
    <3>2. \A u \in Threads \ {t} : pc'[u] = pc[u] /\ task'[u] = task[u]
      <4>1. CASE RouteWebhook(t)
        BY <4>1 DEF RouteWebhook, EnqueueRefundTotal, Enqueue, Finish, Goto, Event, WebhookTypes,
           RefundTypes, LocalsOK
      <4>2. CASE ~RouteWebhook(t)
        BY <1>7, <2>3, <4>2 DEF Continue, OrderTail, PaidTail, OutcomeTail, InitTail,
           EnqueueRefundTotal, Enqueue, Finish, Goto
      <4> QED BY <4>1, <4>2
    <3> QED BY <1>4, <2>1, <3>1, <3>2
  <2> QED BY <2>2, <2>3
<1>8. ASSUME NEW t \in Threads, Answer(t) PROVE ApprovalFollows
  BY <1>4, <1>8 DEF Answer, GatewayCreatesOrder, CaptureSucceeds, CaptureFails, StatusAnswers,
     RefundAnswered, RefundDeclined, RefundAnswerLost, GatewayCallThrows, Throw, Enqueue, Finish,
     Goto, db, payVars, out
<1>9. ASSUME NEW t \in Threads, StoreThrows(t) \/ TailThrows(t) PROVE ApprovalFollows
  <2>1. pc[t] # "confirm"
    BY <1>9, QueueFails
  <2> QED BY <1>4, <1>9, <2>1 DEF StoreThrows, TailThrows, Throw, Abandon, Goto, db, payVars, out
<1> QED BY <1>2, <1>3, <1>5, <1>6, <1>7, <1>8, <1>9 DEF Next

\* While the process lives, whoever wins the compare-and-set approves the
\* booking, though writes after it may throw.
THEOREM PaidMeansApproved == ASSUME MaxCrashes = 0 PROVE Spec => []PaidBookingApproved
<1>1. Init => PaidBookingApproved
  BY DEF Init, PaidBookingApproved
<1>2. TypeInv /\ QueueOK /\ PaidBookingApproved /\ [Next]_vars => PaidBookingApproved'
  BY ApprovalStep DEF PaidBookingApproved, ApprovalFollows
<1> QED BY <1>1, <1>2, TypeInvAlways, QueueAlways, PTL DEF Spec
-----------------------------------------------------------------------------
(* Fresh orders.  The gateway names an order once, so that createIfAbsent   *)
(* never overwrites a record.                                               *)

Creating == {t \in Threads : pc[t] = "createIfAbsent"}

OrdersOK ==
  /\ \A o \in Recorded : gw[o] # "none"
  /\ \A t \in Creating : gw[task[t].order] # "none" /\ task[t].order \notin Recorded
  /\ \A t, u \in Creating : task[t].order = task[u].order => t = u

\* A step that names no order and inserts none.
LEMMA OrdersStep ==
  ASSUME TypeInv, OrdersOK, Recorded' = Recorded,
         \A o \in Orders : gw[o] # "none" => gw'[o] # "none",
         \A t \in Threads : pc'[t] = "createIfAbsent" =>
                              pc[t] = "createIfAbsent" /\ task'[t] = task[t]
  PROVE  OrdersOK'
<1>1. \A t \in Creating' : t \in Creating /\ task'[t] = task[t] /\ task[t].order \in Orders
  BY DEF Creating, LocalsOK
<1>2. \A o \in Recorded : o \in Orders
  BY DEF Recorded
<1> QED BY <1>1, <1>2 DEF OrdersOK

LEMMA OrdersInvStep == TypeInv /\ OrdersOK /\ [Next]_vars => OrdersOK'
<1> SUFFICES ASSUME TypeInv, OrdersOK, [Next]_vars PROVE OrdersOK'
  OBVIOUS
<1>1. ASSUME NEW t \in Threads, CreateIfAbsent(t) PROVE OrdersOK'
  <2> PICK o : o = task[t].order
    OBVIOUS
  <2>1. /\ t \in Creating /\ o \in Orders /\ gw' = gw
        /\ \A u \in Threads \ {t} : pc'[u] = pc[u] /\ task'[u] = task[u]
        /\ pc'[t] # "createIfAbsent"
    BY <1>1 DEF CreateIfAbsent, Turn, Creating, LocalsOK, Finish, Goto, gwVars
  <2>2. Recorded' \subseteq Recorded \cup {o}
    BY <1>1, <2>1 DEF CreateIfAbsent, payVars, Recorded, DataOK
  <2>3. Creating' = Creating \ {t}
    BY <2>1 DEF Creating
  <2>4. \A u \in Creating \ {t} : task'[u] = task[u] /\ task[u].order # o
    BY <2>1 DEF Creating, OrdersOK
  <2>5. gw[o] # "none"
    BY <2>1 DEF OrdersOK
  <2> QED BY <2>1, <2>2, <2>3, <2>4, <2>5 DEF OrdersOK
<1>2. ASSUME NEW t \in Threads, NEW o \in Orders, GatewayCreatesOrder(t, o) PROVE OrdersOK'
  <2>1. /\ gw[o] = "none" /\ gw'[o] = "created" /\ \A q \in Orders \ {o} : gw'[q] = gw[q]
        /\ \A u \in Threads \ {t} : pc'[u] = pc[u] /\ task'[u] = task[u]
        /\ task'[t].order = o /\ Recorded' = Recorded
    BY <1>2 DEF GatewayCreatesOrder, Enqueue, Goto, DataOK, Task, Recorded, db, payVars
  <2>2. Creating' \subseteq Creating \cup {t}
    BY <2>1 DEF Creating
  <2>3. \A u \in Creating : task[u].order \in Orders \ {o}
    BY <2>1 DEF OrdersOK, Creating, LocalsOK
  <2>4. \A q \in Recorded : q \in Orders \ {o}
    BY <2>1 DEF OrdersOK, Recorded
  <2>5. t \notin Creating
    BY <1>2 DEF GatewayCreatesOrder, Creating
  <2> QED BY <2>1, <2>2, <2>3, <2>4, <2>5 DEF OrdersOK, Creating
<1>3. ASSUME \A t \in Threads : ~CreateIfAbsent(t) /\ \A o \in Orders : ~GatewayCreatesOrder(t, o)
      PROVE  OrdersOK'
  <2>1. Recorded' = Recorded
    BY <1>3, KeysKept
  <2>2. ASSUME NEW t \in Threads, NEW p, p # "createIfAbsent",
               \A o \in Orders : gw[o] # "none" => gw'[o] # "none",
               \A u \in Threads \ {t} : pc'[u] = pc[u] /\ task'[u] = task[u],
               pc'[t] = p
        PROVE  OrdersOK'
    BY <2>1, <2>2, OrdersStep
  <2>3. ASSUME NEW t \in Threads, Arrive(t) \/ StoreThrows(t) \/ TailThrows(t) PROVE OrdersOK'
    BY <2>2, <2>3 DEF Arrive, CreateOrderForBooking, VerifyAndCapture, VerifyBadSignature,
       ConfirmByStatus, Refund, HandleWebhook, Start, StoreThrows, TailThrows, Throw, Abandon,
       Goto, gwVars
  <2>4. ASSUME NEW t \in Threads, Store(t) PROVE OrdersOK'
    BY <1>3, <2>2, <2>4 DEF Store, TransitionToPaid, UpdateFailed, UpdateAuthorized,
       ClaimWebhook, ReleaseWebhook, UpdateRefundInitiated, UpdateRefundCompleted, Finish, Goto,
       out, gwVars
  <2>5. ASSUME NEW t \in Threads, Continue(t) PROVE OrdersOK'
    <3>1. CASE RouteWebhook(t)
      BY <2>2, <3>1 DEF RouteWebhook, EnqueueRefundTotal, Enqueue, Finish, Goto, gwVars, Event,
         WebhookTypes, RefundTypes, LocalsOK
    <3>2. CASE ~RouteWebhook(t)
      BY <2>2, <2>5, <3>2 DEF Continue, OrderTail, ConfirmBooking, PaidTail, OutcomeTail,
         InitTail, EnqueueRefundTotal, Enqueue, Finish, Goto, gwVars
    <3> QED BY <3>1, <3>2
  <2>6. ASSUME NEW t \in Threads, Answer(t) PROVE OrdersOK'
    BY <1>3, <2>2, <2>6 DEF Answer, CaptureSucceeds, CaptureFails, StatusAnswers, RefundAnswered,
       RefundDeclined, RefundAnswerLost, GatewayCallThrows, Throw, Enqueue, Finish, Goto,
       gwVars, DataOK
  <2>7. CASE \/ \E b \in Bookings : ReuseOrder(b)
             \/ \E o \in Orders : CustomerPays(o) \/ AutoCapture(o) \/ AttemptFails(o)
             \/ UNCHANGED vars
    BY <2>1, <2>7, OrdersStep DEF ReuseOrder, CustomerPays, AutoCapture, AttemptFails, vars,
       gwVars, DataOK
  <2>8. CASE Restart
    BY <2>1, <2>8, OrdersStep DEF Restart, gwVars
  <2> QED BY <2>3, <2>4, <2>5, <2>6, <2>7, <2>8 DEF Next
<1> QED BY <1>1, <1>2, <1>3

LEMMA OrdersAlways == Spec => []OrdersOK
<1>1. Init => OrdersOK
  BY DEF Init, OrdersOK, Creating, Recorded
<1> QED BY <1>1, TypeInvAlways, OrdersInvStep, PTL DEF Spec

-----------------------------------------------------------------------------
(* PhonePe.  A payment is failed on the gateway's word only, and a failed   *)
(* transaction is never captured.  An error body is taken for such a word;  *)
(* misread keeps the orders it was answered for.                            *)

\* No capture call, no webhook; whoever is about to fail a payment has seen
\* its transaction fail, or an error body in its place.
ByStatusOnly ==
  \A t \in Threads :
    /\ pc[t] \notin {"gwCapture", "authorize", "claim", "claimTail"}
    /\ pc[t] = "fail" => gw[task[t].order] = "failed" \/ task[t].order \in misread

LEMMA StatusStep ==
  ASSUME TypeInv, ByStatusOnly, NEW t \in Threads,
         \A u \in Threads \ {t} : pc'[u] = pc[u] /\ task'[u] = task[u],
         misread \subseteq misread', \A o \in Orders : gw[o] = "failed" => gw'[o] = "failed",
         pc'[t] \notin {"gwCapture", "authorize", "claim", "claimTail"},
         pc'[t] = "fail" => gw'[task'[t].order] = "failed" \/ task'[t].order \in misread'
  PROVE  ByStatusOnly'
<1>1. \A u \in Threads : pc[u] = "fail" => task[u].order \in Orders
  BY DEF LocalsOK, Working, PCs, Recorded
<1> QED BY <1>1 DEF ByStatusOnly

LEMMA StatusInvStep ==
  ASSUME Provider = "phonepe", TypeInv, ByStatusOnly, [Next]_vars
  PROVE  ByStatusOnly'
<1>1. ASSUME NEW t \in Threads, Arrive(t) \/ StoreThrows(t) \/ TailThrows(t) PROVE ByStatusOnly'
  <2>1. /\ gw' = gw /\ misread' = misread /\ \A u \in Threads \ {t} : pc'[u] = pc[u] /\ task'[u] = task[u]
        /\ pc'[t] \in {"gwOrder", "gwStatus", "gwRefund", "idle", "release"}
    BY <1>1 DEF Arrive, CreateOrderForBooking, VerifyAndCapture, VerifyBadSignature,
       ConfirmByStatus, Refund, HandleWebhook, Start, StoreThrows, TailThrows, Throw, Abandon,
       Goto, gwVars, ghosts
  <2> QED BY <2>1, StatusStep
<1>2. ASSUME NEW t \in Threads, Store(t) PROVE ByStatusOnly'
  <2>1. pc[t] \notin {"authorize", "claim"}
    BY DEF ByStatusOnly
  <2>2. /\ gw' = gw /\ misread' = misread /\ \A u \in Threads \ {t} : pc'[u] = pc[u] /\ task'[u] = task[u]
        /\ pc'[t] \in {"idle", "orderTail", "confirm", "failTail", "initTail", "completeTail"}
    BY <1>2, <2>1 DEF Store, CreateIfAbsent, TransitionToPaid, UpdateFailed, UpdateAuthorized,
       ClaimWebhook, ReleaseWebhook, UpdateRefundInitiated, UpdateRefundCompleted, Turn, Finish,
       Goto, out, gwVars, ghosts
  <2> QED BY <2>2, StatusStep
<1>3. ASSUME NEW t \in Threads, Continue(t) PROVE ByStatusOnly'
  <2>1. ~RouteWebhook(t)
    BY DEF RouteWebhook, ByStatusOnly
  <2>2. /\ gw' = gw /\ misread' = misread /\ \A u \in Threads \ {t} : pc'[u] = pc[u] /\ task'[u] = task[u]
        /\ pc'[t] \in {"idle", "paidTail", "complete"}
    BY <1>3, <2>1 DEF Continue, OrderTail, ConfirmBooking, PaidTail, OutcomeTail, InitTail,
       EnqueueRefundTotal, Enqueue, Finish, Goto, gwVars, ghosts
  <2> QED BY <2>2, StatusStep
<1>4. ASSUME NEW t \in Threads, Answer(t) PROVE ByStatusOnly'
  <2>1. pc[t] # "gwCapture"
    BY DEF ByStatusOnly
  <2>2. ASSUME NEW o \in Orders, GatewayCreatesOrder(t, o) PROVE ByStatusOnly'
    <3>1. /\ misread' = misread /\ \A u \in Threads \ {t} : pc'[u] = pc[u] /\ task'[u] = task[u]
          /\ \A q \in Orders : gw[q] = "failed" => gw'[q] = "failed"
          /\ pc'[t] = "createIfAbsent"
      BY <2>2 DEF GatewayCreatesOrder, Enqueue, Goto, ghosts, DataOK
    <3> QED BY <3>1, StatusStep
  <2>3. ASSUME NEW a \in Answers, StatusAnswers(t, a) PROVE ByStatusOnly'
    <3>1. /\ gw' = gw /\ misread \subseteq misread'
          /\ \A u \in Threads \ {t} : pc'[u] = pc[u] /\ task'[u] = task[u]
      BY <2>3 DEF StatusAnswers, Enqueue, Finish, Goto, gwVars, ghosts
    <3>2. \/ pc'[t] \in {"idle", "transitionToPaid"}
          \/ pc'[t] = "fail" /\ task' = task /\ Parsed(a, gw[task[t].order]) = "failed"
      BY <2>3 DEF StatusAnswers, Enqueue, Finish, Goto
    <3>3. Parsed(a, gw[task[t].order]) = "failed" =>
            gw[task[t].order] = "failed" \/ task[t].order \in misread'
      BY <2>3 DEF StatusAnswers, Parsed
    <3> QED BY <3>1, <3>2, <3>3, StatusStep
  <2>4. CASE \/ \E processed \in BOOLEAN : RefundAnswered(t, processed)
             \/ RefundDeclined(t) \/ RefundAnswerLost(t) \/ GatewayCallThrows(t)
    <3>1. /\ gw' = gw /\ misread' = misread /\ \A u \in Threads \ {t} : pc'[u] = pc[u] /\ task'[u] = task[u]
          /\ pc'[t] \in {"initiate", "idle", "release"}
      BY <2>4 DEF RefundAnswered, RefundDeclined, RefundAnswerLost, GatewayCallThrows, Throw,
         Enqueue, Goto, gwVars, ghosts
    <3> QED BY <3>1, StatusStep
  <2> QED BY <1>4, <2>1, <2>2, <2>3, <2>4 DEF Answer, CaptureSucceeds, CaptureFails
<1>5. CASE \/ \E b \in Bookings : ReuseOrder(b)
           \/ \E o \in Orders : CustomerPays(o) \/ AutoCapture(o) \/ AttemptFails(o)
           \/ UNCHANGED vars
  <2>1. UNCHANGED <<pc, task, misread>> /\ \A o \in Orders : gw[o] = "failed" => gw'[o] = "failed"
    BY <1>5 DEF ReuseOrder, CustomerPays, AutoCapture, AttemptFails, vars, gwVars, ghosts, DataOK
  <2>2. \A u \in Threads : pc[u] = "fail" => task[u].order \in Orders
    BY DEF LocalsOK, Working, PCs, Recorded
  <2> QED BY <2>1, <2>2 DEF ByStatusOnly
<1>6. CASE Restart
  BY <1>6 DEF Restart, ByStatusOnly
<1> QED BY <1>1, <1>2, <1>3, <1>4, <1>5, <1>6 DEF Next

LEMMA PaidStays ==
  ASSUME TypeInv, FundedInv, OrdersOK, ByStatusOnly, [Next]_vars,
         NEW o \in Orders \ misread, status[o] = "paid"
  PROVE  status'[o] \in MoneyStates
<1>1. ASSUME NEW t \in Threads, Store(t) PROVE status'[o] \in MoneyStates
  <2>1. CASE CreateIfAbsent(t)
    <3>1. task[t].order # o
      BY <2>1 DEF CreateIfAbsent, Turn, Creating, OrdersOK, Recorded
    <3> QED BY <2>1, <3>1 DEF CreateIfAbsent, payVars, DataOK
  <2>2. CASE UpdateFailed(t)
    <3>1. task[t].order # o
      BY <2>2 DEF UpdateFailed, Turn, ByStatusOnly, FundedInv, PaidIsCaptured
    <3> QED BY <2>2, <3>1 DEF UpdateFailed, DataOK
  <2>3. ~UpdateAuthorized(t)
    BY DEF UpdateAuthorized, Turn, ByStatusOnly
  <2> QED BY <1>1, <2>1, <2>2, <2>3 DEF Store, TransitionToPaid, ClaimWebhook, ReleaseWebhook,
             UpdateRefundInitiated, UpdateRefundCompleted, payVars, DataOK
<1>2. ASSUME UNCHANGED status PROVE status'[o] \in MoneyStates
  BY <1>2
<1>3. ASSUME NEW t \in Threads, \/ Arrive(t) \/ Continue(t) \/ Answer(t) \/ StoreThrows(t)
                                \/ TailThrows(t)
      PROVE  UNCHANGED status
  BY <1>3 DEF Arrive, CreateOrderForBooking, VerifyAndCapture, VerifyBadSignature, ConfirmByStatus,
     Refund, HandleWebhook, Continue, OrderTail, ConfirmBooking, PaidTail, OutcomeTail, RouteWebhook,
     InitTail, Answer, GatewayCreatesOrder, CaptureSucceeds, CaptureFails, StatusAnswers,
     RefundAnswered, RefundDeclined, RefundAnswerLost, GatewayCallThrows, StoreThrows, TailThrows,
     db, payVars
<1>4. CASE \/ \E b \in Bookings : ReuseOrder(b)
           \/ \E q \in Orders : CustomerPays(q) \/ AutoCapture(q) \/ AttemptFails(q)
           \/ Restart
           \/ UNCHANGED vars
  BY <1>2, <1>4 DEF ReuseOrder, CustomerPays, AutoCapture, AttemptFails, Restart, vars, db, payVars
<1> QED BY <1>1, <1>2, <1>3, <1>4 DEF Next

\* confirmByStatus: a payment whose status was never answered with an error
\* body is not taken back from paid, refunds apart, however old an answer is
\* when it is written.
THEOREM PhonePeKeepsPaid == ASSUME Provider = "phonepe" PROVE Spec => PaidIsKept
<1>1. Init => ByStatusOnly
  BY DEF Init, ByStatusOnly
<1>2. TypeInv /\ ByStatusOnly /\ [Next]_vars => ByStatusOnly'
  BY StatusInvStep
<1>3. Spec => [](TypeInv /\ FundedInv /\ OrdersOK /\ ByStatusOnly)
  BY <1>1, <1>2, TypeInvAlways, InitFunded, FundedInvStep, OrdersAlways, PTL DEF Spec
<1>4. TypeInv /\ FundedInv /\ OrdersOK /\ ByStatusOnly /\ [Next]_vars =>
        [\A o \in Orders \ misread : status[o] = "paid" => status'[o] \in MoneyStates]_vars
  BY PaidStays
<1> QED BY <1>3, <1>4, PTL DEF Spec, PaidIsKept
-----------------------------------------------------------------------------
(* Confirmations.  Where nothing writes a paid payment back (no capture     *)
(* that fails, no late authorization, no refund), the compare-and-set lets  *)
(* one activation through for each payment.                                 *)

OneWay == /\ Provider # "phonepe" /\ ~CaptureMayFail /\ MaxRefunds = 0
          /\ EventTypes \subseteq {"payment.captured", "order.paid", "payment.failed"}

\* Nobody is about to write a payment back.
OneWayThreads ==
  \A t \in Threads :
    /\ pc[t] \notin {"authorize", "initiate", "initTail", "complete", "completeTail"}
    /\ pc[t] \in {"claim", "claimTail"} => task[t].event.type \in EventTypes

OneWayStep(t) ==
  /\ \A u \in Threads \ {t} : pc'[u] = pc[u] /\ task'[u] = task[u]
  /\ \/ pc'[t] \notin {"authorize", "initiate", "initTail", "complete", "completeTail",
                       "claim", "claimTail"}
     \/ pc'[t] = "claim" /\ task'[t].event.type \in EventTypes
     \/ pc[t] = "claim" /\ pc'[t] = "claimTail" /\ task'[t] = task[t]

LEMMA OneWayMoves ==
  ASSUME OneWay, TypeInv, OneWayThreads, NEW t \in Threads,
         \/ Arrive(t) \/ Store(t) \/ Continue(t) \/ Answer(t) \/ StoreThrows(t) \/ TailThrows(t)
  PROVE  OneWayStep(t)
<1>0. /\ pc[t] \notin {"authorize", "initiate", "initTail", "complete", "completeTail"}
      /\ pc[t] \in {"claim", "claimTail"} => task[t].event.type \in EventTypes
  BY DEF OneWayThreads
<1>1. CASE Arrive(t)
  <2>1. CASE \E e \in Event : HandleWebhook(t, e)
    BY <2>1 DEF HandleWebhook, Emitted, Start, NoTask, OneWayStep
  <2>2. CASE ~\E e \in Event : HandleWebhook(t, e)
    BY <1>1, <2>2 DEF Arrive, CreateOrderForBooking, VerifyAndCapture, VerifyBadSignature,
       ConfirmByStatus, Refund, Start, NoTask, OneWayStep
  <2> QED BY <2>1, <2>2
<1>2. CASE StoreThrows(t) \/ TailThrows(t)
  BY <1>2 DEF StoreThrows, TailThrows, Throw, Abandon, Goto, OneWayStep
<1>3. CASE Store(t)
  BY <1>0, <1>3 DEF Store, CreateIfAbsent, TransitionToPaid, UpdateFailed, UpdateAuthorized,
     ClaimWebhook, ReleaseWebhook, UpdateRefundInitiated, UpdateRefundCompleted, Turn, Finish,
     Goto, OneWayStep
<1>4. CASE Continue(t)
  <2>1. CASE RouteWebhook(t)
    <3>1. task[t].event.type \in {"payment.captured", "order.paid", "payment.failed"}
      BY <1>0, <2>1 DEF RouteWebhook, OneWay
    <3> QED BY <2>1, <3>1 DEF RouteWebhook, Enqueue, Finish, Goto, RefundTypes, OneWayStep
  <2>2. CASE ~RouteWebhook(t)
    BY <1>0, <1>4, <2>2 DEF Continue, OrderTail, ConfirmBooking, PaidTail, OutcomeTail, InitTail,
       Finish, Goto, OneWayStep
  <2> QED BY <2>1, <2>2
<1>5. CASE Answer(t)
  <2>1. ~GatewayRefunds(task[t].order, task[t].amount) \/ pc[t] # "gwRefund"
    <3> SUFFICES ASSUME pc[t] = "gwRefund" PROVE ~(Len(gwRefunds[task[t].order]) < MaxRefunds)
      BY DEF GatewayRefunds
    <3>1. gwRefunds[task[t].order] \in Seq(1..Amount)
      BY DEF LocalsOK, Working, PCs, Recorded, DataOK
    <3> QED BY <3>1 DEF OneWay
  <2> QED BY <1>5, <2>1 DEF OneWay, Answer, GatewayCreatesOrder, CaptureSucceeds, CaptureFails,
             StatusAnswers, RefundAnswered, RefundDeclined, RefundAnswerLost, GatewayCallThrows,
             Throw, Enqueue, Finish, Goto, OneWayStep
<1> QED BY <1>1, <1>2, <1>3, <1>4, <1>5

ConfirmInv ==
  /\ OneWayThreads
  /\ SingleConfirmation
  /\ \A o \in confirmed : Refuses(o)
  /\ \A t \in Confirming : Refuses(task[t].order)

\* A step that confirms nothing.
LEMMA ConfirmStep ==
  ASSUME TypeInv, ConfirmInv, OneWayThreads', confirmed' = confirmed,
         \A o \in Orders : Refuses(o) => Refuses(o)',
         \A u \in Threads : pc'[u] \in {"confirm", "paidTail"} =>
                              pc[u] \in {"confirm", "paidTail"} /\ task'[u] = task[u]
  PROVE  ConfirmInv'
<1>1. \A u \in Confirming' : u \in Confirming /\ task'[u] = task[u] /\ task[u].order \in Orders
  BY DEF Confirming, LocalsOK, Working, PCs, Recorded
<1>2. confirmed \subseteq Orders
  BY DEF DataOK
<1> QED BY <1>1, <1>2 DEF ConfirmInv, SingleConfirmation

LEMMA ConfirmWrite ==
  ASSUME OneWay, TypeInv, ConfirmInv, OrdersOK, OneWayThreads', NEW t \in Threads, Store(t)
  PROVE  ConfirmInv'
<1>0. confirmed' = confirmed /\ \A u \in Threads \ {t} : pc'[u] = pc[u] /\ task'[u] = task[u]
  BY DEF Store, CreateIfAbsent, TransitionToPaid, UpdateFailed, UpdateAuthorized, ClaimWebhook,
     ReleaseWebhook, UpdateRefundInitiated, UpdateRefundCompleted, Finish, Goto, out
<1>1. CASE TransitionToPaid(t) /\ ~Refuses(task[t].order)
  <2> PICK o : o = task[t].order
    OBVIOUS
  <2>1. /\ o \in Orders /\ o \notin confirmed /\ \A u \in Confirming : task[u].order # o
    BY <1>1 DEF TransitionToPaid, Turn, LocalsOK, Working, PCs, Recorded, ConfirmInv
  <2>2. /\ pc'[t] = "confirm" /\ task' = task /\ status' = [status EXCEPT ![o] = "paid"]
    BY <1>1 DEF TransitionToPaid, Goto
  <2>3. \A q \in Orders : Refuses(q) \/ q = o => Refuses(q)'
    BY <2>1, <2>2 DEF Refuses, DataOK
  <2>4. Confirming' = Confirming \cup {t}
    BY <1>0, <2>2 DEF Confirming
  <2>5. \A u \in Confirming : task[u].order \in Orders
    BY DEF Confirming, LocalsOK, Working, PCs, Recorded
  <2> QED BY <1>0, <2>1, <2>2, <2>3, <2>4, <2>5 DEF ConfirmInv, SingleConfirmation, DataOK
<1>2. CASE ~(TransitionToPaid(t) /\ ~Refuses(task[t].order))
  <2>1. pc'[t] \notin {"confirm", "paidTail"}
    BY <1>2 DEF Store, CreateIfAbsent, TransitionToPaid, UpdateFailed, UpdateAuthorized,
       ClaimWebhook, ReleaseWebhook, UpdateRefundInitiated, UpdateRefundCompleted, Finish, Goto
  <2>2. \A o \in Orders : Refuses(o) => Refuses(o)'
    <3>1. CASE CreateIfAbsent(t)
      <4>1. \A o \in Orders : Refuses(o) => o \in Recorded
        BY DEF Refuses, Recorded, TerminalStates
      <4>2. task[t].order \notin Recorded
        BY <3>1 DEF CreateIfAbsent, Turn, OrdersOK, Creating
      <4>3. status' = status \/ status' = [status EXCEPT ![task[t].order] = "created"]
        BY <3>1 DEF CreateIfAbsent, payVars
      <4>4. status \in [Orders -> Statuses \cup {"absent"}]
        BY DEF DataOK
      <4>5. \A o \in Recorded : status'[o] = status[o]
        BY <4>2, <4>3, <4>4 DEF Recorded
      <4> QED BY <4>1, <4>5 DEF Refuses
    <3>2. CASE UpdateFailed(t)
      BY <3>2 DEF UpdateFailed, Refuses, TerminalStates, DataOK
    <3>3. pc[t] \notin {"authorize", "initiate", "complete"}
      BY DEF ConfirmInv, OneWayThreads
    <3>4. CASE ~CreateIfAbsent(t) /\ ~UpdateFailed(t)
      <4>1. status' = status
        BY <1>2, <3>3, <3>4 DEF Store, TransitionToPaid, UpdateAuthorized, ClaimWebhook,
           ReleaseWebhook, UpdateRefundInitiated, UpdateRefundCompleted, Turn, payVars
      <4> QED BY <4>1 DEF Refuses
    <3> QED BY <3>1, <3>2, <3>4
  <2> QED BY <1>0, <2>1, <2>2, ConfirmStep
<1> QED BY <1>1, <1>2

LEMMA ConfirmInvStep ==
  ASSUME OneWay, TypeInv, OrdersOK, ConfirmInv, [Next]_vars
  PROVE  ConfirmInv'
<1>1. ASSUME NEW t \in Threads, OneWayStep(t) PROVE OneWayThreads'
  BY <1>1 DEF OneWayStep, ConfirmInv, OneWayThreads
<1>2. ASSUME NEW t \in Threads, Store(t) PROVE ConfirmInv'
  BY <1>1, <1>2, OneWayMoves, ConfirmWrite DEF ConfirmInv
<1>3. ASSUME NEW t \in Threads, UNCHANGED <<status, confirmed>>, OneWayStep(t),
             pc'[t] \notin {"confirm", "paidTail"} \/ (pc[t] = "confirm" /\ task'[t] = task[t])
      PROVE  ConfirmInv'
  BY <1>1, <1>3, ConfirmStep DEF OneWayStep, Refuses
<1>4. ASSUME NEW t \in Threads, Arrive(t) \/ Answer(t) \/ StoreThrows(t) \/ TailThrows(t)
      PROVE  ConfirmInv'
  <2>1. UNCHANGED <<status, confirmed>> /\ pc'[t] \notin {"confirm", "paidTail"}
    BY <1>4 DEF Arrive, CreateOrderForBooking, VerifyAndCapture, VerifyBadSignature,
       ConfirmByStatus, Refund, HandleWebhook, Start, Answer, GatewayCreatesOrder, CaptureSucceeds,
       CaptureFails, StatusAnswers, RefundAnswered, RefundDeclined, RefundAnswerLost,
       GatewayCallThrows, StoreThrows, TailThrows, Throw, Abandon, Enqueue, Finish, Goto, db,
       payVars, out
  <2> QED BY <1>3, <1>4, <2>1, OneWayMoves DEF ConfirmInv
<1>5. ASSUME NEW t \in Threads, Continue(t) PROVE ConfirmInv'
  <2>0. status' = status /\ OneWayStep(t)
    BY <1>5, OneWayMoves DEF ConfirmInv, Continue, OrderTail, ConfirmBooking, PaidTail, OutcomeTail,
       RouteWebhook, InitTail, db, payVars
  <2>1. CASE PaidTail(t)
    <3> PICK o : o = task[t].order
      OBVIOUS
    <3>1. /\ t \in Confirming /\ confirmed' = confirmed \cup {o} /\ Confirming' = Confirming \ {t}
          /\ \A u \in Threads \ {t} : task'[u] = task[u]
      BY <2>1 DEF PaidTail, Finish, Goto, Confirming
    <3>2. Refuses(o) /\ \A u \in Confirming \ {t} : task[u].order # o
      BY <3>1 DEF ConfirmInv, SingleConfirmation
    <3>3. Confirming \subseteq Threads
      BY DEF Confirming
    <3>4. OneWayThreads'
      BY <1>1, <2>0
    <3> QED BY <2>0, <3>1, <3>2, <3>3, <3>4 DEF ConfirmInv, SingleConfirmation, Refuses
  <2>2. CASE ConfirmBooking(t)
    <3>1. pc[t] = "confirm" /\ task' = task /\ confirmed' = confirmed
      BY <2>2 DEF ConfirmBooking
    <3> QED BY <1>3, <2>0, <3>1
  <2>3. CASE ~PaidTail(t) /\ ~ConfirmBooking(t)
    <3>1. confirmed' = confirmed
      BY <1>5, <2>3 DEF Continue, OrderTail, OutcomeTail, RouteWebhook, InitTail, out
    <3>2. pc'[t] \notin {"confirm", "paidTail"}
      <4>1. CASE RouteWebhook(t)
        BY <4>1 DEF RouteWebhook, EnqueueRefundTotal, Enqueue, Finish, Goto, Event, WebhookTypes,
           RefundTypes, LocalsOK
      <4>2. CASE ~RouteWebhook(t)
        BY <1>5, <2>3, <4>2 DEF Continue, OrderTail, OutcomeTail, InitTail, EnqueueRefundTotal,
           Enqueue, Finish, Goto
      <4> QED BY <4>1, <4>2
    <3> QED BY <1>3, <2>0, <3>1, <3>2
  <2> QED BY <2>1, <2>2, <2>3
<1>6. CASE \/ \E b \in Bookings : ReuseOrder(b)
           \/ \E o \in Orders : CustomerPays(o) \/ AutoCapture(o) \/ AttemptFails(o)
           \/ UNCHANGED vars
  <2>1. UNCHANGED <<status, confirmed, pc, task>>
    BY <1>6 DEF ReuseOrder, CustomerPays, AutoCapture, AttemptFails, vars, db, payVars, out
  <2>2. OneWayThreads'
    BY <2>1 DEF ConfirmInv, OneWayThreads
  <2> QED BY <2>1, <2>2, ConfirmStep DEF Refuses
<1>7. CASE Restart
  <2>1. UNCHANGED <<status, confirmed>> /\ \A u \in Threads : pc'[u] = "idle"
    BY <1>7 DEF Restart, db, payVars, out
  <2>2. OneWayThreads'
    BY <2>1 DEF OneWayThreads
  <2> QED BY <2>1, <2>2, ConfirmStep DEF Refuses
<1> QED BY <1>2, <1>4, <1>5, <1>6, <1>7 DEF Next

\* _markPaid: verify, captured and order.paid in any interleaving, with
\* duplicates, failing writes and restarts, confirm a payment once, as long as
\* nothing writes it back from paid.
THEOREM ConfirmedOnce == ASSUME OneWay PROVE Spec => []SingleConfirmation
<1>1. Init => ConfirmInv
  BY DEF Init, ConfirmInv, OneWayThreads, SingleConfirmation, Confirming
<1>2. TypeInv /\ OrdersOK /\ ConfirmInv /\ [Next]_vars => ConfirmInv'
  BY ConfirmInvStep
<1>3. ConfirmInv => SingleConfirmation
  BY DEF ConfirmInv
<1> QED BY <1>1, <1>2, <1>3, TypeInvAlways, OrdersAlways, PTL DEF Spec
(* One live payment.  Where nothing writes an ended payment back, a payment  *)
(* that has not ended still holds the key its booking has one of.           *)

LiveHoldsKey == \A o \in Recorded : status[o] \in TerminalStates \/ key[o] = "open"

LEMMA LiveStep ==
  ASSUME OneWay, TypeInv, ConfirmInv, LiveHoldsKey, [Next]_vars
  PROVE  LiveHoldsKey'
<1>1. ASSUME NEW t \in Threads, Store(t) PROVE LiveHoldsKey'
  <2>1. pc[t] \notin {"authorize", "initiate", "complete"}
    BY DEF ConfirmInv, OneWayThreads
  <2>2. pc[t] \in Working \cup {"createIfAbsent"} => task[t].order \in Orders
    BY DEF LocalsOK, Recorded
  <2>3. CASE CreateIfAbsent(t)
    BY <2>2, <2>3 DEF CreateIfAbsent, Turn, payVars, LiveHoldsKey, Recorded, DataOK
  <2>4. CASE UpdateFailed(t)
    BY <2>2, <2>4 DEF UpdateFailed, Turn, Working, PCs, FreeKey, LiveHoldsKey, Recorded,
       TerminalStates, DataOK
  <2>5. CASE TransitionToPaid(t)
    <3>1. task[t].order \in Recorded
      BY <2>5 DEF TransitionToPaid, Turn, LocalsOK, Working, PCs
    <3> QED BY <2>5, <3>1 DEF TransitionToPaid, Refuses, LiveHoldsKey, Recorded, DataOK
  <2>6. CASE ClaimWebhook(t) \/ ReleaseWebhook(t)
    BY <2>6 DEF ClaimWebhook, ReleaseWebhook, payVars, LiveHoldsKey, Recorded
  <2> QED BY <1>1, <2>1, <2>3, <2>4, <2>5, <2>6 DEF Store, UpdateAuthorized,
             UpdateRefundInitiated, UpdateRefundCompleted, Turn
<1>2. CASE UNCHANGED <<status, key>>
  BY <1>2 DEF LiveHoldsKey, Recorded
<1>3. ASSUME NEW t \in Threads,
             \/ Arrive(t) \/ Continue(t) \/ Answer(t) \/ StoreThrows(t) \/ TailThrows(t)
      PROVE  UNCHANGED <<status, key>>
  BY <1>3 DEF Arrive, CreateOrderForBooking, VerifyAndCapture, VerifyBadSignature, ConfirmByStatus,
     Refund, HandleWebhook, Continue, OrderTail, ConfirmBooking, PaidTail, OutcomeTail, RouteWebhook,
     InitTail, Answer, GatewayCreatesOrder, CaptureSucceeds, CaptureFails, StatusAnswers,
     RefundAnswered, RefundDeclined, RefundAnswerLost, GatewayCallThrows, StoreThrows, TailThrows,
     db, payVars
<1>4. CASE \/ \E b \in Bookings : ReuseOrder(b)
           \/ \E o \in Orders : CustomerPays(o) \/ AutoCapture(o) \/ AttemptFails(o)
           \/ Restart
           \/ UNCHANGED vars
  BY <1>2, <1>4 DEF ReuseOrder, CustomerPays, AutoCapture, AttemptFails, Restart, vars, db, payVars
<1> QED BY <1>1, <1>2, <1>3, <1>4 DEF Next

\* At most one payment of a booking waits for money or has it, whatever order
\* creations, failures, retries and late captures do, as long as nothing
\* writes an ended payment back.
THEOREM BookingHasOneLivePayment == ASSUME OneWay PROVE Spec => []OneLivePayment
<1>1. Init => ConfirmInv /\ LiveHoldsKey
  BY DEF Init, ConfirmInv, OneWayThreads, SingleConfirmation, Confirming, LiveHoldsKey, Recorded
<1>2. TypeInv /\ OrdersOK /\ ConfirmInv /\ LiveHoldsKey /\ [Next]_vars => ConfirmInv' /\ LiveHoldsKey'
  BY ConfirmInvStep, LiveStep
<1>3. KeyInv /\ LiveHoldsKey => OneLivePayment
  BY DEF KeyInv, OneOpenOrder, LiveHoldsKey, OneLivePayment, ActiveStates, TerminalStates
<1> QED BY <1>1, <1>2, <1>3, TypeInvAlways, OrdersAlways, KeyInvAlways, PTL DEF Spec
-----------------------------------------------------------------------------
(* Refunds.  A refund the gateway has made is recorded by its own thread,   *)
(* once.  So what is on record, and what a thread is about to record on top *)
(* of it, stays within what was paid back together with the refunds that    *)
(* are made and not yet counted.  A refund.processed event would count one  *)
(* again.                                                                   *)

RecordedOnce == Provider = "phonepe" \/ "refund.processed" \notin EventTypes

\* The gateway made t's refund; its total is not computed yet.
Settling(t) == pc[t] \in {"initiate", "initTail"} /\ task[t].processed

RefundLocals(t) ==
  /\ pc[t] \in {"gwRefund", "claim", "claimTail"} => ~task[t].processed
  /\ pc[t] \in {"claim", "claimTail"} => task[t].event.type # "refund.processed"
  /\ Settling(t) => task[t].amount \in 1..Amount

\* The units of refunds made and not counted, thread by thread.
Uncounted(o) == {u \in Threads \X (1..Amount) :
                   Settling(u[1]) /\ task[u[1]].order = o /\ u[2] <= task[u[1]].amount}

Covered(o, m) == m + Cardinality(Uncounted(o)) <= Cardinality(PaidBack(o))

RefundInv ==
  /\ \A t \in Threads : RefundLocals(t)
  /\ \A o \in Orders : Covered(o, refunded[o])
  /\ \A t \in Threads : pc[t] = "complete" => Covered(task[t].order, task[t].amount)

\* The units of one refund.
LEMMA UnitsOf ==
  ASSUME NEW x, NEW a \in Nat
  PROVE  /\ IsFiniteSet({x} \X (1..a))
         /\ Cardinality({x} \X (1..a)) = a
<1>1. IsFiniteSet(1..a) /\ Cardinality(1..a) = a
  <2>1. 1 \in Int /\ a \in Int
    OBVIOUS
  <2>2. IsFiniteSet(1..a) /\ Cardinality(1..a) = IF 1 > a THEN 0 ELSE a - 1 + 1
    BY <2>1, FS_Interval
  <2> QED BY <2>2
<1>2. IsFiniteSet({x}) /\ Cardinality({x}) = 1
  BY FS_Singleton
<1>3. /\ IsFiniteSet({x} \X (1..a))
      /\ Cardinality({x} \X (1..a)) = Cardinality({x}) * Cardinality(1..a)
  BY <1>1, <1>2, FS_Product
<1> QED BY <1>1, <1>2, <1>3

LEMMA UnitsFinite ==
  ASSUME NEW r \in Seq(1..Amount)
  PROVE  /\ IsFiniteSet({u \in (DOMAIN r) \X (1..Amount) : u[2] <= r[u[1]]})
         /\ Cardinality({u \in (DOMAIN r) \X (1..Amount) : u[2] <= r[u[1]]}) \in Nat
<1> DEFINE all == (1..Len(r)) \X (1..Amount)
           units == {u \in (DOMAIN r) \X (1..Amount) : u[2] <= r[u[1]]}
<1>1. units \subseteq all
  OBVIOUS
<1>2. IsFiniteSet(1..Len(r)) /\ IsFiniteSet(1..Amount)
  BY FS_Interval
<1>3. IsFiniteSet(all)
  BY <1>2, FS_Product
<1> HIDE DEF all, units
<1>4. IsFiniteSet(units)
  BY <1>1, <1>3, FS_Subset
<1>5. IsFiniteSet(units) /\ Cardinality(units) \in Nat
  BY <1>4, FS_CardinalityType
<1> QED BY <1>5 DEF units

LEMMA PaidBackFinite ==
  ASSUME NEW o \in Orders
  PROVE  /\ TypeInv => IsFiniteSet(PaidBack(o)) /\ Cardinality(PaidBack(o)) \in Nat
         /\ TypeInv' => IsFiniteSet(PaidBack(o)') /\ Cardinality(PaidBack(o)') \in Nat
<1>1. /\ TypeInv => gwRefunds[o] \in Seq(1..Amount)
      /\ TypeInv' => gwRefunds'[o] \in Seq(1..Amount)
  BY DEF DataOK
<1> QED BY <1>1, UnitsFinite DEF PaidBack

LEMMA UncountedFinite ==
  ASSUME IsFiniteSet(Threads), NEW o
  PROVE  IsFiniteSet(Uncounted(o)) /\ Cardinality(Uncounted(o)) \in Nat
<1>1. IsFiniteSet(1..Amount)
  BY FS_Interval
<1>2. IsFiniteSet(Threads \X (1..Amount))
  BY <1>1, FS_Product
<1>3. Uncounted(o) \subseteq Threads \X (1..Amount)
  BY DEF Uncounted
<1>4. IsFiniteSet(Uncounted(o))
  BY <1>2, <1>3, FS_Subset
<1> QED BY <1>4, FS_CardinalityType

\* What is covered stays so while nothing more is to be counted.
LEMMA StaysCovered ==
  ASSUME IsFiniteSet(Threads), TypeInv, TypeInv', NEW o \in Orders, NEW m \in Nat, Covered(o, m),
         PaidBack(o) \subseteq PaidBack(o)', Uncounted(o)' \subseteq Uncounted(o)
  PROVE  m + Cardinality(Uncounted(o)') <= Cardinality(PaidBack(o)')
<1>1. IsFiniteSet(PaidBack(o)') /\ Cardinality(PaidBack(o)') \in Nat
  BY PaidBackFinite
<1>2. Cardinality(PaidBack(o)) <= Cardinality(PaidBack(o)') /\ Cardinality(PaidBack(o)) \in Nat
  BY <1>1, PaidBackFinite, FS_Subset
<1>3. IsFiniteSet(Uncounted(o)) /\ Cardinality(Uncounted(o)) \in Nat
  BY UncountedFinite
<1>4. /\ Cardinality(Uncounted(o)') <= Cardinality(Uncounted(o))
      /\ Cardinality(Uncounted(o)') \in Nat
  BY <1>3, FS_Subset, FS_CardinalityType
<1>5. m + Cardinality(Uncounted(o)) <= Cardinality(PaidBack(o))
  BY DEF Covered
<1> DEFINE n == Cardinality(Uncounted(o))
           k == Cardinality(Uncounted(o)')
           b == Cardinality(PaidBack(o))
           c == Cardinality(PaidBack(o)')
<1>6. n \in Nat /\ k \in Nat /\ b \in Nat /\ c \in Nat /\ k <= n /\ b <= c /\ m + n <= b
  BY <1>1, <1>2, <1>3, <1>4, <1>5
<1> HIDE DEF n, k, b, c
<1>7. m + k <= c
  BY <1>6
<1> QED BY <1>7 DEF k, c

\* A thread that stands at "complete" works on an order.
LEMMA CompleteFacts ==
  ASSUME TypeInv, NEW t \in Threads, pc[t] \in {"complete", "initiate", "initTail", "gwRefund"}
  PROVE  task[t].order \in Orders /\ task[t].amount \in Nat /\ refunded[task[t].order] \in Nat
<1>1. task[t].order \in Orders
  BY DEF LocalsOK, Working, PCs, Recorded
<1> QED BY <1>1 DEF Task, DataOK

\* A step that makes no refund, counts none and records none.
LEMMA RefundsQuiet ==
  ASSUME IsFiniteSet(Threads), TypeInv, TypeInv', RefundInv, refunded' = refunded,
         \A o \in Orders : PaidBack(o) \subseteq PaidBack(o)',
         \A u \in Threads :
           /\ RefundLocals(u)'
           /\ Settling(u)' => Settling(u) /\ task'[u] = task[u]
           /\ pc'[u] = "complete" => pc[u] = "complete" /\ task'[u] = task[u]
  PROVE  RefundInv'
<1>1. \A o \in Orders : Uncounted(o)' \subseteq Uncounted(o)
  BY DEF Uncounted
<1>2. \A o \in Orders : Covered(o, refunded[o])'
  <2> SUFFICES ASSUME NEW o \in Orders PROVE Covered(o, refunded[o])'
    OBVIOUS
  <2>1. refunded[o] \in Nat /\ Covered(o, refunded[o])
    BY DEF DataOK, RefundInv
  <2>2. refunded[o] + Cardinality(Uncounted(o)') <= Cardinality(PaidBack(o)')
    BY <1>1, <2>1, StaysCovered
  <2> QED BY <2>2 DEF Covered
<1>3. ASSUME NEW u \in Threads, pc'[u] = "complete" PROVE Covered(task[u].order, task[u].amount)'
  <2> PICK o, m : o = task[u].order /\ m = task[u].amount
    OBVIOUS
  <2>1. pc[u] = "complete" /\ task'[u] = task[u]
    BY <1>3
  <2>2. o \in Orders /\ m \in Nat /\ Covered(o, m)
    BY <2>1, CompleteFacts DEF RefundInv
  <2>3. m + Cardinality(Uncounted(o)') <= Cardinality(PaidBack(o)')
    BY <1>1, <2>2, StaysCovered
  <2> QED BY <2>1, <2>3 DEF Covered
<1> QED BY <1>2, <1>3 DEF RefundInv

\* The gateway makes a refund: its units are paid back, and at most they are
\* to be counted now.
LEMMA RefundMade ==
  ASSUME IsFiniteSet(Threads), TypeInv, TypeInv', RefundInv,
         NEW t \in Threads, NEW processed \in BOOLEAN, RefundAnswered(t, processed)
  PROVE  RefundInv'
<1> PICK o, a, n : o = task[t].order /\ a = task[t].amount /\ n = Len(gwRefunds[o]) + 1
  OBVIOUS
<1> DEFINE units(x) == {x} \X (1..a)
<1>1. /\ pc[t] = "gwRefund" /\ o \in Orders /\ a \in 1..Amount /\ refunded' = refunded
      /\ gwRefunds[o] \in Seq(1..Amount) /\ gwRefunds' = [gwRefunds EXCEPT ![o] = Append(@, a)]
      /\ \A u \in Threads \ {t} : pc'[u] = pc[u] /\ task'[u] = task[u]
      /\ pc'[t] = "initiate" /\ task'[t].order = o /\ task'[t].amount = a
  <2>1. pc[t] = "gwRefund"
    BY DEF RefundAnswered
  <2>2. o \in Orders /\ a \in 1..Amount
    BY <2>1, CompleteFacts DEF LocalsOK
  <2>3. gwRefunds[o] \in Seq(1..Amount)
    BY <2>2 DEF DataOK
  <2> QED BY <2>1, <2>2, <2>3 DEF RefundAnswered, GatewayRefunds, Enqueue, Goto, db, payVars, Task
<1>2. n \in Nat /\ n > Len(gwRefunds[o]) /\ gwRefunds'[o] = Append(gwRefunds[o], a)
  BY <1>1 DEF DataOK
<1>3. PaidBack(o)' = PaidBack(o) \cup units(n)
  <2>1. /\ DOMAIN gwRefunds'[o] = (DOMAIN gwRefunds[o]) \cup {n} /\ gwRefunds'[o][n] = a
        /\ \A i \in DOMAIN gwRefunds[o] : gwRefunds'[o][i] = gwRefunds[o][i]
    BY <1>1, <1>2
  <2>2. 1..a \subseteq 1..Amount /\ \A i \in 1..Amount : i <= a <=> i \in 1..a
    BY <1>1
  <2>3. n \notin DOMAIN gwRefunds[o]
    BY <1>1, <1>2
  <2>4. /\ PaidBack(o) = {u \in (DOMAIN gwRefunds[o]) \X (1..Amount) : u[2] <= gwRefunds[o][u[1]]}
        /\ PaidBack(o)' = {u \in (DOMAIN gwRefunds'[o]) \X (1..Amount) : u[2] <= gwRefunds'[o][u[1]]}
    BY DEF PaidBack
  <2> QED BY <2>1, <2>2, <2>3, <2>4
<1>4. PaidBack(o) \cap units(n) = {}
  BY <1>1, <1>2 DEF PaidBack
<1>5. Uncounted(o)' \subseteq Uncounted(o) \cup units(t)
  <2>1. \A i \in 1..Amount : i <= a => i \in 1..a
    BY <1>1
  <2> QED BY <1>1, <2>1 DEF Uncounted, Settling
<1>6. \A q \in Orders \ {o} : PaidBack(q)' = PaidBack(q) /\ Uncounted(q)' \subseteq Uncounted(q)
  <2>1. \A q \in Orders \ {o} : gwRefunds'[q] = gwRefunds[q]
    BY <1>1 DEF DataOK
  <2> QED BY <1>1, <2>1 DEF PaidBack, Uncounted, Settling
<1>7. Cardinality(PaidBack(o)') = Cardinality(PaidBack(o)) + a /\ Cardinality(PaidBack(o)) \in Nat
  <2>0. a \in Nat
    BY <1>1
  <2>1. IsFiniteSet(units(n)) /\ Cardinality(units(n)) = a
    BY <2>0, UnitsOf
  <2>2. IsFiniteSet(PaidBack(o)) /\ Cardinality(PaidBack(o)) \in Nat
    BY <1>1, PaidBackFinite
  <2> HIDE DEF units
  <2>3. Cardinality(PaidBack(o) \cap units(n)) = 0
    BY <1>4, FS_EmptySet
  <2>4. Cardinality(PaidBack(o)') =
          Cardinality(PaidBack(o)) + Cardinality(units(n)) - Cardinality(PaidBack(o) \cap units(n))
    BY <1>3, <2>1, <2>2, FS_Union
  <2> QED BY <1>1, <2>1, <2>2, <2>3, <2>4
<1>8. /\ Cardinality(Uncounted(o)') <= Cardinality(Uncounted(o)) + a
      /\ Cardinality(Uncounted(o)) \in Nat /\ Cardinality(Uncounted(o)') \in Nat
  <2>0. a \in Nat
    BY <1>1
  <2>1. IsFiniteSet(units(t)) /\ Cardinality(units(t)) = a
    BY <2>0, UnitsOf
  <2>2. IsFiniteSet(Uncounted(o)) /\ Cardinality(Uncounted(o)) \in Nat
    BY UncountedFinite
  <2> HIDE DEF units
  <2>3. /\ IsFiniteSet(Uncounted(o) \cup units(t))
        /\ Cardinality(Uncounted(o) \cup units(t)) <= Cardinality(Uncounted(o)) + a
    <3>1. IsFiniteSet(Uncounted(o) \cap units(t)) /\ Cardinality(Uncounted(o) \cap units(t)) \in Nat
      BY <2>2, FS_Intersection, FS_CardinalityType
    <3>2. /\ IsFiniteSet(Uncounted(o) \cup units(t))
          /\ Cardinality(Uncounted(o) \cup units(t)) =
               Cardinality(Uncounted(o)) + Cardinality(units(t)) - Cardinality(Uncounted(o) \cap units(t))
      BY <2>1, <2>2, FS_Union
    <3> QED BY <1>1, <2>1, <2>2, <3>1, <3>2
  <2>4. IsFiniteSet(Uncounted(o)') /\ Cardinality(Uncounted(o)') <= Cardinality(Uncounted(o) \cup units(t))
    BY <1>5, <2>3, FS_Subset
  <2>5. Cardinality(Uncounted(o)') \in Nat /\ Cardinality(Uncounted(o) \cup units(t)) \in Nat
    BY <2>3, <2>4, FS_CardinalityType
  <2> QED BY <1>1, <2>2, <2>3, <2>4, <2>5
<1> HIDE DEF units
<1>9. ASSUME NEW q \in Orders, NEW m \in Nat, Covered(q, m)
      PROVE  m + Cardinality(Uncounted(q)') <= Cardinality(PaidBack(q)')
  <2>1. CASE q = o
    BY <1>1, <1>7, <1>8, <1>9, <2>1 DEF Covered
  <2>2. CASE q # o
    BY <1>6, <1>9, <2>2, StaysCovered
  <2> QED BY <2>1, <2>2
<1>10. \A q \in Orders : Covered(q, refunded[q])'
  <2>1. \A q \in Orders : refunded[q] \in Nat /\ Covered(q, refunded[q])
    BY DEF DataOK, RefundInv
  <2> QED BY <1>1, <1>9, <2>1 DEF Covered
<1>11. ASSUME NEW u \in Threads, pc'[u] = "complete" PROVE Covered(task[u].order, task[u].amount)'
  <2> PICK q, m : q = task[u].order /\ m = task[u].amount
    OBVIOUS
  <2>1. pc[u] = "complete" /\ task'[u] = task[u]
    BY <1>1, <1>11
  <2>2. q \in Orders /\ m \in Nat /\ Covered(q, m)
    BY <2>1, CompleteFacts DEF RefundInv
  <2>3. m + Cardinality(Uncounted(q)') <= Cardinality(PaidBack(q)')
    BY <1>9, <2>2
  <2> QED BY <2>1, <2>3 DEF Covered
<1>12. \A u \in Threads : RefundLocals(u)'
  BY <1>1 DEF RefundInv, RefundLocals, Settling
<1> QED BY <1>10, <1>11, <1>12 DEF RefundInv

\* refund() computes the total it is going to record: the refund's units are
\* counted in it, and no longer to be counted.
LEMMA RefundCounted ==
  ASSUME IsFiniteSet(Threads), TypeInv, TypeInv', RefundInv,
         NEW t \in Threads, InitTail(t), SettlesNow(t)
  PROVE  RefundInv'
<1> PICK o, a : o = task[t].order /\ a = task[t].amount
  OBVIOUS
<1> DEFINE units == {t} \X (1..a)
<1>1. /\ pc[t] = "initTail" /\ Settling(t) /\ o \in Orders /\ a \in 1..Amount /\ refunded[o] \in Nat
      /\ refunded' = refunded /\ gwRefunds' = gwRefunds
      /\ \A u \in Threads \ {t} : pc'[u] = pc[u] /\ task'[u] = task[u]
      /\ pc'[t] = "complete" /\ task'[t].order = o /\ task'[t].amount = refunded[o] + a
  <2>1. pc[t] = "initTail" /\ Settling(t)
    BY DEF InitTail, SettlesNow, Settling
  <2>2. o \in Orders /\ a \in 1..Amount /\ refunded[o] \in Nat
    BY <2>1, CompleteFacts DEF RefundInv, RefundLocals
  <2> QED BY <2>1, <2>2 DEF InitTail, EnqueueRefundTotal, Enqueue, Goto, db, payVars, gwVars, Task
<1>2. \A q \in Orders : PaidBack(q)' = PaidBack(q) /\ Uncounted(q)' \subseteq Uncounted(q)
  BY <1>1 DEF PaidBack, Uncounted, Settling
<1>3. Uncounted(o)' = Uncounted(o) \ units
  <2>1. \A i \in 1..Amount : i <= a <=> i \in 1..a
    BY <1>1
  <2>2. ~Settling(t)'
    BY <1>1 DEF Settling
  <2>3. \A u \in Threads \ {t} : Settling(u)' = Settling(u)
    BY <1>1 DEF Settling
  <2> QED BY <1>1, <2>1, <2>2, <2>3 DEF Uncounted
<1>4. units \subseteq Uncounted(o)
  <2>1. \A i \in 1..a : i \in 1..Amount /\ i <= a
    BY <1>1
  <2> QED BY <1>1, <2>1 DEF Uncounted
<1>5. /\ Cardinality(Uncounted(o)') = Cardinality(Uncounted(o)) - a
      /\ Cardinality(Uncounted(o)) \in Nat
  <2>0. a \in Nat
    BY <1>1
  <2>1. IsFiniteSet(units) /\ Cardinality(units) = a
    BY <2>0, UnitsOf
  <2>2. IsFiniteSet(Uncounted(o)) /\ Cardinality(Uncounted(o)) \in Nat
    BY UncountedFinite
  <2>3. Uncounted(o) \cap units = units
    BY <1>4
  <2> HIDE DEF units
  <2>4. Cardinality(Uncounted(o) \ units) = Cardinality(Uncounted(o)) - Cardinality(Uncounted(o) \cap units)
    BY <2>2, FS_Difference
  <2> QED BY <1>3, <2>1, <2>2, <2>3, <2>4
<1>6. \A q \in Orders : Covered(q, refunded[q])'
  <2> SUFFICES ASSUME NEW q \in Orders PROVE Covered(q, refunded[q])'
    OBVIOUS
  <2>1. refunded[q] \in Nat /\ Covered(q, refunded[q])
    BY DEF DataOK, RefundInv
  <2>2. refunded[q] + Cardinality(Uncounted(q)') <= Cardinality(PaidBack(q)')
    BY <1>2, <2>1, StaysCovered
  <2> QED BY <1>1, <2>2 DEF Covered
<1>7. Covered(task[t].order, task[t].amount)'
  <2>1. refunded[o] + Cardinality(Uncounted(o)) <= Cardinality(PaidBack(o))
    BY <1>1 DEF RefundInv, Covered
  <2>2. Cardinality(PaidBack(o)) \in Nat /\ PaidBack(o)' = PaidBack(o)
    BY <1>1, <1>2, PaidBackFinite
  <2>3. refunded[o] + a + Cardinality(Uncounted(o)') <= Cardinality(PaidBack(o)')
    BY <1>1, <1>5, <2>1, <2>2
  <2> QED BY <1>1, <2>3 DEF Covered
<1>8. ASSUME NEW u \in Threads \ {t}, pc'[u] = "complete"
      PROVE  Covered(task[u].order, task[u].amount)'
  <2> PICK q, m : q = task[u].order /\ m = task[u].amount
    OBVIOUS
  <2>1. pc[u] = "complete" /\ task'[u] = task[u]
    BY <1>1, <1>8
  <2>2. q \in Orders /\ m \in Nat /\ Covered(q, m)
    BY <2>1, CompleteFacts DEF RefundInv
  <2>3. m + Cardinality(Uncounted(q)') <= Cardinality(PaidBack(q)')
    BY <1>2, <2>2, StaysCovered
  <2> QED BY <2>1, <2>3 DEF Covered
<1>9. \A u \in Threads : RefundLocals(u)'
  BY <1>1 DEF RefundInv, RefundLocals, Settling
<1> QED BY <1>6, <1>7, <1>8, <1>9 DEF RefundInv

\* _completeRefund's write records what was covered when it was computed.
LEMMA RefundRecorded ==
  ASSUME IsFiniteSet(Threads), TypeInv, TypeInv', RefundInv,
         NEW t \in Threads, UpdateRefundCompleted(t)
  PROVE  RefundInv'
<1> PICK o, a : o = task[t].order /\ a = task[t].amount
  OBVIOUS
<1>1. /\ pc[t] = "complete" /\ o \in Orders /\ a \in Nat /\ Covered(o, a)
      /\ refunded' = [refunded EXCEPT ![o] = a] /\ gwRefunds' = gwRefunds
      /\ pc' = [pc EXCEPT ![t] = "completeTail"] /\ task' = task
  <2>1. pc[t] = "complete"
    BY DEF UpdateRefundCompleted, Turn
  <2>2. o \in Orders /\ a \in Nat /\ Covered(o, a)
    BY <2>1, CompleteFacts DEF RefundInv
  <2> QED BY <2>1, <2>2 DEF UpdateRefundCompleted, Goto, gwVars
<1>2. \A q \in Orders : PaidBack(q) \subseteq PaidBack(q)' /\ Uncounted(q)' \subseteq Uncounted(q)
  BY <1>1 DEF PaidBack, Uncounted, Settling
<1>3. ASSUME NEW q \in Orders PROVE Covered(q, refunded[q])'
  <2> PICK m : m = refunded'[q]
    OBVIOUS
  <2>1. m \in Nat /\ Covered(q, m)
    BY <1>1 DEF RefundInv, DataOK
  <2>2. m + Cardinality(Uncounted(q)') <= Cardinality(PaidBack(q)')
    BY <1>2, <2>1, StaysCovered
  <2> QED BY <2>2 DEF Covered
<1>4. ASSUME NEW u \in Threads, pc'[u] = "complete" PROVE Covered(task[u].order, task[u].amount)'
  <2> PICK q, m : q = task[u].order /\ m = task[u].amount
    OBVIOUS
  <2>1. pc[u] = "complete" /\ task'[u] = task[u]
    BY <1>1, <1>4
  <2>2. q \in Orders /\ m \in Nat /\ Covered(q, m)
    BY <2>1, CompleteFacts DEF RefundInv
  <2>3. m + Cardinality(Uncounted(q)') <= Cardinality(PaidBack(q)')
    BY <1>2, <2>2, StaysCovered
  <2> QED BY <2>1, <2>3 DEF Covered
<1>5. \A u \in Threads : RefundLocals(u)'
  BY <1>1 DEF RefundInv, RefundLocals, Settling
<1> QED BY <1>3, <1>4, <1>5 DEF RefundInv

\* A step of t that makes no refund known to it, counts none and records none.
LEMMA RefundsIdle ==
  ASSUME IsFiniteSet(Threads), TypeInv, TypeInv', RefundInv, NEW t \in Threads,
         refunded' = refunded, \A o \in Orders : PaidBack(o) \subseteq PaidBack(o)',
         \A u \in Threads \ {t} : pc'[u] = pc[u] /\ task'[u] = task[u],
         RefundLocals(t)', pc'[t] # "complete",
         Settling(t)' => Settling(t) /\ task'[t] = task[t]
  PROVE  RefundInv'
<1>1. \A u \in Threads \ {t} : RefundLocals(u)' /\ (Settling(u)' => Settling(u))
  BY DEF RefundInv, RefundLocals, Settling
<1> QED BY <1>1, RefundsQuiet

LEMMA PaidBackSame ==
  ASSUME gwRefunds' = gwRefunds
  PROVE  \A o \in Orders : PaidBack(o) \subseteq PaidBack(o)'
BY DEF PaidBack

LEMMA PaidBackGrows ==
  ASSUME TypeInv, NEW o \in Orders, NEW a \in 1..Amount, GatewayRefunds(o, a)
  PROVE  \A q \in Orders : PaidBack(q) \subseteq PaidBack(q)'
<1>1. gwRefunds[o] \in Seq(1..Amount) /\ gwRefunds' = [gwRefunds EXCEPT ![o] = Append(@, a)]
  BY DEF GatewayRefunds, DataOK
<1>2. \A q \in Orders : /\ DOMAIN gwRefunds[q] \subseteq DOMAIN gwRefunds'[q]
                        /\ \A i \in DOMAIN gwRefunds[q] : gwRefunds'[q][i] = gwRefunds[q][i]
  BY <1>1 DEF DataOK
<1> QED BY <1>2 DEF PaidBack

LEMMA RefundArrive ==
  ASSUME IsFiniteSet(Threads), RecordedOnce, TypeInv, TypeInv', RefundInv,
         NEW t \in Threads, Arrive(t)
  PROVE  RefundInv'
<1>1. /\ refunded' = refunded /\ gwRefunds' = gwRefunds
      /\ \A u \in Threads \ {t} : pc'[u] = pc[u] /\ task'[u] = task[u]
  BY DEF Arrive, CreateOrderForBooking, VerifyAndCapture, VerifyBadSignature, ConfirmByStatus,
     Refund, HandleWebhook, Start, db, payVars, gwVars
<1>2. ~task'[t].processed /\ pc'[t] \notin {"initiate", "initTail", "complete", "claimTail"}
  BY DEF Arrive, CreateOrderForBooking, VerifyAndCapture, VerifyBadSignature, ConfirmByStatus,
     Refund, HandleWebhook, Start, NoTask
<1>3. pc'[t] = "claim" => task'[t].event.type # "refund.processed"
  <2>1. CASE \E e \in Event : HandleWebhook(t, e)
    BY <2>1 DEF HandleWebhook, Emitted, Start, NoTask, RecordedOnce
  <2>2. CASE ~\E e \in Event : HandleWebhook(t, e)
    BY <2>2 DEF Arrive, CreateOrderForBooking, VerifyAndCapture, VerifyBadSignature,
       ConfirmByStatus, Refund, Start
  <2> QED BY <2>1, <2>2
<1>4. RefundLocals(t)' /\ ~Settling(t)'
  BY <1>2, <1>3 DEF RefundLocals, Settling
<1> QED BY <1>1, <1>2, <1>4, PaidBackSame, RefundsIdle

LEMMA RefundStore ==
  ASSUME IsFiniteSet(Threads), TypeInv, TypeInv', RefundInv, NEW t \in Threads, Store(t)
  PROVE  RefundInv'
<1>1. CASE UpdateRefundCompleted(t)
  BY <1>1, RefundRecorded
<1>2. CASE ~UpdateRefundCompleted(t)
  <2>1. /\ refunded' = refunded /\ gwRefunds' = gwRefunds
        /\ \A u \in Threads \ {t} : pc'[u] = pc[u] /\ task'[u] = task[u]
    BY <1>2 DEF Store, CreateIfAbsent, TransitionToPaid, UpdateFailed, UpdateAuthorized,
       ClaimWebhook, ReleaseWebhook, UpdateRefundInitiated, Finish, Goto, payVars, gwVars
  <2>2. \/ pc'[t] \in {"idle", "orderTail", "confirm", "failTail"}
        \/ pc[t] = "claim" /\ pc'[t] = "claimTail" /\ task' = task
        \/ pc[t] = "initiate" /\ pc'[t] = "initTail" /\ task' = task
    BY <1>2 DEF Store, CreateIfAbsent, TransitionToPaid, UpdateFailed, UpdateAuthorized,
       ClaimWebhook, ReleaseWebhook, UpdateRefundInitiated, Turn, Finish, Goto
  <2>3. RefundLocals(t)
    BY DEF RefundInv
  <2>4. /\ RefundLocals(t)' /\ pc'[t] # "complete"
        /\ Settling(t)' => Settling(t) /\ task'[t] = task[t]
    BY <2>2, <2>3 DEF RefundLocals, Settling
  <2> QED BY <2>1, <2>4, PaidBackSame, RefundsIdle
<1> QED BY <1>1, <1>2

LEMMA RefundContinue ==
  ASSUME IsFiniteSet(Threads), TypeInv, TypeInv', RefundInv, NEW t \in Threads, Continue(t)
  PROVE  RefundInv'
<1>1. CASE InitTail(t) /\ SettlesNow(t)
  BY <1>1, RefundCounted
<1>2. CASE ~(InitTail(t) /\ SettlesNow(t))
  <2>1. /\ refunded' = refunded /\ gwRefunds' = gwRefunds
    BY DEF Continue, OrderTail, ConfirmBooking, PaidTail, OutcomeTail, RouteWebhook, InitTail,
       db, payVars, gwVars
  <2>2. CASE RouteWebhook(t)
    <3>1. /\ pc[t] = "claimTail" /\ ~task[t].processed
          /\ task[t].event.type # "refund.processed"
      BY <2>2 DEF RouteWebhook, RefundInv, RefundLocals
    <3>2. /\ \A u \in Threads \ {t} : pc'[u] = pc[u] /\ task'[u] = task[u]
          /\ \/ pc'[t] = "idle"
             \/ pc'[t] \in {"authorize", "transitionToPaid", "fail", "initiate"} /\ task' = task
      BY <2>2, <3>1 DEF RouteWebhook, Enqueue, Finish, Goto, Event, WebhookTypes, RefundTypes, LocalsOK
    <3>3. RefundLocals(t)' /\ ~Settling(t)' /\ pc'[t] # "complete"
      BY <3>1, <3>2 DEF RefundLocals, Settling
    <3> QED BY <2>1, <3>2, <3>3, PaidBackSame, RefundsIdle
  <2>3. CASE ~RouteWebhook(t)
    <3>1. /\ \A u \in Threads \ {t} : pc'[u] = pc[u] /\ task'[u] = task[u]
          /\ pc'[t] \in {"idle", "paidTail"}
      BY <1>2, <2>3 DEF Continue, OrderTail, ConfirmBooking, PaidTail, OutcomeTail, InitTail,
         Finish, Goto
    <3>2. RefundLocals(t)' /\ ~Settling(t)' /\ pc'[t] # "complete"
      BY <3>1 DEF RefundLocals, Settling
    <3> QED BY <2>1, <3>1, <3>2, PaidBackSame, RefundsIdle
  <2> QED BY <2>2, <2>3
<1> QED BY <1>1, <1>2

LEMMA RefundAnswer ==
  ASSUME IsFiniteSet(Threads), TypeInv, TypeInv', RefundInv, NEW t \in Threads, Answer(t)
  PROVE  RefundInv'
<1>1. CASE \E processed \in BOOLEAN : RefundAnswered(t, processed)
  BY <1>1, RefundMade
<1>2. CASE ~\E processed \in BOOLEAN : RefundAnswered(t, processed)
  <2>1. /\ refunded' = refunded
        /\ \A u \in Threads \ {t} : pc'[u] = pc[u] /\ task'[u] = task[u]
    BY <1>2 DEF Answer, GatewayCreatesOrder, CaptureSucceeds, CaptureFails, StatusAnswers,
       RefundDeclined, RefundAnswerLost, GatewayCallThrows, Throw, Enqueue, Finish, Goto, db, payVars
  <2>2. \A o \in Orders : PaidBack(o) \subseteq PaidBack(o)'
    <3>1. CASE RefundAnswerLost(t)
      <4>1. pc[t] = "gwRefund" /\ GatewayRefunds(task[t].order, task[t].amount)
        BY <3>1 DEF RefundAnswerLost
      <4>2. task[t].order \in Orders /\ task[t].amount \in 1..Amount
        BY <4>1, CompleteFacts DEF LocalsOK
      <4> QED BY <4>1, <4>2, PaidBackGrows
    <3>2. CASE ~RefundAnswerLost(t)
      <4>1. gwRefunds' = gwRefunds
        BY <1>2, <3>2 DEF Answer, GatewayCreatesOrder, CaptureSucceeds, CaptureFails,
           StatusAnswers, RefundDeclined, GatewayCallThrows, gwVars
      <4> QED BY <4>1, PaidBackSame
    <3> QED BY <3>1, <3>2
  <2>3. \/ pc'[t] \in {"createIfAbsent", "transitionToPaid", "authorize", "fail", "idle", "release"}
        \/ pc[t] = "gwRefund" /\ pc'[t] = "initiate" /\ task' = task
    BY <1>2 DEF Answer, GatewayCreatesOrder, CaptureSucceeds, CaptureFails, StatusAnswers,
       RefundDeclined, RefundAnswerLost, GatewayCallThrows, Throw, Enqueue, Finish, Goto
  <2>4. pc[t] = "gwRefund" => ~task[t].processed
    BY DEF RefundInv, RefundLocals
  <2>5. RefundLocals(t)' /\ ~Settling(t)' /\ pc'[t] # "complete"
    BY <2>3, <2>4 DEF RefundLocals, Settling
  <2> QED BY <2>1, <2>2, <2>5, RefundsIdle
<1> QED BY <1>1, <1>2

LEMMA RefundInvStep ==
  ASSUME IsFiniteSet(Threads), RecordedOnce, TypeInv, TypeInv', RefundInv, [Next]_vars
  PROVE  RefundInv'
<1>1. ASSUME NEW t \in Threads, StoreThrows(t) \/ TailThrows(t) PROVE RefundInv'
  <2>1. /\ refunded' = refunded /\ gwRefunds' = gwRefunds
        /\ \A u \in Threads \ {t} : pc'[u] = pc[u] /\ task'[u] = task[u]
        /\ pc'[t] \in {"idle", "release"}
    BY <1>1 DEF StoreThrows, TailThrows, Throw, Abandon, Goto, db, payVars, gwVars
  <2>2. RefundLocals(t)' /\ ~Settling(t)' /\ pc'[t] # "complete"
    BY <2>1 DEF RefundLocals, Settling
  <2> QED BY <2>1, <2>2, PaidBackSame, RefundsIdle
<1>2. CASE \/ \E b \in Bookings : ReuseOrder(b)
           \/ \E o \in Orders : CustomerPays(o) \/ AutoCapture(o) \/ AttemptFails(o)
           \/ UNCHANGED vars
  <2>1. UNCHANGED <<refunded, gwRefunds, pc, task>>
    BY <1>2 DEF ReuseOrder, CustomerPays, AutoCapture, AttemptFails, vars, db, payVars, gwVars
  <2>2. \A u \in Threads : RefundLocals(u)' /\ (Settling(u)' => Settling(u))
    BY <2>1 DEF RefundInv, RefundLocals, Settling
  <2> QED BY <2>1, <2>2, PaidBackSame, RefundsQuiet
<1>3. CASE Restart
  <2>1. UNCHANGED <<refunded, gwRefunds>> /\ \A u \in Threads : pc'[u] = "idle"
    BY <1>3 DEF Restart, db, payVars, gwVars
  <2>2. \A u \in Threads : RefundLocals(u)' /\ ~Settling(u)'
    BY <2>1 DEF RefundLocals, Settling
  <2> QED BY <2>1, <2>2, PaidBackSame, RefundsQuiet
<1> QED BY <1>1, <1>2, <1>3, RefundArrive, RefundStore, RefundContinue, RefundAnswer DEF Next

\* refund and _completeRefund: whatever refunds run together, are declined, lose
\* their answer, fail in the store or are cut off by a restart, the refunds on
\* record are covered by what the gateway has paid back, where no webhook
\* reports a processed refund.
THEOREM RecordedRefundsAreReal ==
  ASSUME RecordedOnce, IsFiniteSet(Threads) PROVE Spec => []RefundsAreReal
<1>1. Init => RefundInv
  <2> SUFFICES ASSUME Init PROVE RefundInv
    OBVIOUS
  <2>1. \A t \in Threads : pc[t] = "idle"
    BY DEF Init
  <2>2. \A o \in Orders : Uncounted(o) = {} /\ PaidBack(o) = {} /\ refunded[o] = 0
    BY <2>1 DEF Init, Uncounted, PaidBack, Settling
  <2>3. \A o \in Orders : Covered(o, refunded[o])
    BY <2>2, FS_EmptySet DEF Covered
  <2> QED BY <2>1, <2>3 DEF RefundInv, RefundLocals, Settling
<1>2. TypeInv /\ TypeInv' /\ RefundInv /\ [Next]_vars => RefundInv'
  BY RefundInvStep
<1>3. TypeInv /\ RefundInv => RefundsAreReal
  <2> SUFFICES ASSUME TypeInv, RefundInv, NEW o \in Orders
               PROVE  refunded[o] <= Cardinality(PaidBack(o))
    BY DEF RefundsAreReal
  <2>1. /\ Cardinality(PaidBack(o)) \in Nat /\ Cardinality(Uncounted(o)) \in Nat
        /\ refunded[o] \in Nat /\ refunded[o] + Cardinality(Uncounted(o)) <= Cardinality(PaidBack(o))
    BY PaidBackFinite, UncountedFinite DEF RefundInv, Covered, DataOK
  <2> QED BY <2>1
<1> QED BY <1>1, <1>2, <1>3, TypeInvAlways, PTL DEF Spec

=============================================================================
