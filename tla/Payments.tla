------------------------------ MODULE Payments ------------------------------
(***************************************************************************)
(* The payment life cycle of src/payments: PaymentService over the JSON    *)
(* PaymentRepository and a payment gateway.                                *)
(*                                                                         *)
(* A thread is one activation of a service method (an HTTP request or a    *)
(* webhook delivery).  Its code between two awaits is one step.  An await  *)
(* on the repository puts the thread at the tail of writeQ, the promise    *)
(* chain of JsonStore.update: mutators run one at a time, in call order,   *)
(* later than the code that called them.  An await on the gateway leaves   *)
(* the thread in a pc that begins with "gw".  Audit and ledger rows are    *)
(* appended by the Tail steps; nothing reads them back, so only their      *)
(* delay and their failure are kept.                                       *)
(*                                                                         *)
(* A payment and the gateway order it was created for share one identity,  *)
(* an element of Orders.                                                   *)
(***************************************************************************)
EXTENDS Integers, Sequences, FiniteSets

CONSTANTS
  Orders,          \* gateway order ids, each naming at most one payment
  Bookings,        \* bookings that are paid online
  Threads,         \* concurrent activations of the service
  Amount,          \* what a booking charges, in refundable units
  Provider,        \* "razorpay", "phonepe" or "mock"
  EventTypes,      \* webhook event types the gateway account is subscribed to
  CaptureMayFail,  \* the capture call can fail or time out
  MaxRefunds,      \* bound on the refunds the gateway makes per order
  MaxFaults,       \* bound on store writes that throw
  MaxCrashes,      \* bound on process restarts
  None             \* no order, no booking, no event

ASSUME AmountAssumption == Amount \in Nat \ {0}
ASSUME ProviderAssumption == Provider \in {"razorpay", "phonepe", "mock"}
ASSUME BoundsAssumption == /\ MaxRefunds \in Nat
                           /\ MaxFaults \in Nat
                           /\ MaxCrashes \in Nat
ASSUME NoneAssumption == None \notin Orders \cup Bookings

VARIABLES
  status,     \* order -> status of its payment record, "absent" when none
  of,         \* order -> the booking its payment pays
  key,        \* order -> kind of the record's idempotencyKey
  refunded,   \* order -> sum of the record's refunds[]
  claimed,    \* webhook event ids in db.webhooks
  approved,   \* bookings the bridge has set to "Approved"
  confirmed,  \* orders whose success was announced to the notification engine
  handed,     \* orders whose checkout was returned to a customer
  gw,         \* gateway: order -> state of the order
  gwRefunds,  \* gateway: order -> amounts of the refunds it has made
  gwFailed,   \* gateway: orders with a failed payment attempt
  acked,      \* gateway: events answered with 200
  pc,         \* thread -> where its activation stands
  task,       \* thread -> its locals
  writeQ,     \* threads waiting for their turn in the store's write chain
  faults,     \* store writes that have thrown
  crashes,    \* restarts so far
  misread     \* orders whose status was ever answered with an error body

payVars == <<status, of, key, refunded>>
db      == <<payVars, claimed>>
out     == <<approved, confirmed, handed>>
gwVars  == <<gw, gwRefunds, gwFailed>>
ghosts  == <<faults, crashes, misread>>
vars    == <<db, out, gwVars, acked, pc, task, writeQ, ghosts>>

-----------------------------------------------------------------------------
(* The catalogue of paymentEvents.js. CAPTURED, CANCELLED, EXPIRED and      *)
(* PENDING are never assigned by the service.                               *)

ActiveStates    == {"created", "authorized"}
RefundableStates == {"paid", "partially_refunded"}
TerminalStates  == {"failed", "refunded"}
Statuses        == ActiveStates \cup RefundableStates \cup TerminalStates
                     \cup {"refund_initiated"}

Keys == {"none", "open", "failed", "refunded"}

RefundTypes  == {"refund.created", "refund.processed"}
WebhookTypes == {"payment.authorized", "payment.captured", "order.paid",
                 "payment.failed"} \cup RefundTypes
Event == [type : WebhookTypes, order : Orders, nth : 0..MaxRefunds]
ASSUME NoEventAssumption == None \notin Event

PCs == {"idle", "gwOrder", "createIfAbsent", "orderTail",
        "gwCapture", "transitionToPaid", "confirm", "paidTail",
        "fail", "failTail", "authorize", "claim", "claimTail", "release",
        "gwStatus", "gwRefund", "initiate", "initTail",
        "complete", "completeTail"}

NoTask == [order |-> None, booking |-> None, event |-> None,
           amount |-> 0, processed |-> FALSE]

Recorded == {o \in Orders : status[o] # "absent"}

-----------------------------------------------------------------------------
(* How a thread moves.                                                      *)

IsWebhook(t) == task[t].event # None

Start(t, p, tk) == /\ pc[t] = "idle"
                   /\ pc' = [pc EXCEPT ![t] = p]
                   /\ task' = [task EXCEPT ![t] = tk]

Goto(t, p) == pc' = [pc EXCEPT ![t] = p]

Enqueue(t, p) == Goto(t, p) /\ writeQ' = Append(writeQ, t)

\* The activation returns.  A webhook that returns ok is answered 200.
Finish(t) ==
  /\ Goto(t, "idle")
  /\ task' = [task EXCEPT ![t] = NoTask]
  /\ acked' = IF IsWebhook(t) THEN acked \cup {task[t].event} ELSE acked

\* The activation throws, after the writes in q.  handleWebhook catches what
\* _routeWebhook throws and gives its claim back; every other caller answers
\* with an error.
Throw(t, q) ==
  /\ IF IsWebhook(t)
     THEN Goto(t, "release") /\ writeQ' = Append(q, t) /\ UNCHANGED task
     ELSE /\ Goto(t, "idle")
          /\ task' = [task EXCEPT ![t] = NoTask]
          /\ writeQ' = q
  /\ UNCHANGED acked

\* t's mutator is next in the write chain.
Turn(t, p) == /\ pc[t] = p
              /\ writeQ # <<>> /\ Head(writeQ) = t
              /\ writeQ' = Tail(writeQ)

-----------------------------------------------------------------------------
(* createOrderForBooking                                                    *)

PaymentsOf(b) == {o \in Recorded : of[o] = b}

\* With a paid, or else an active, payment on record the call returns that
\* one's checkout and writes nothing.
ReuseOrder(b) ==
  LET paid   == {o \in PaymentsOf(b) : status[o] = "paid"}
      active == {o \in PaymentsOf(b) : status[o] \in ActiveStates}
  IN /\ \E o \in IF paid # {} THEN paid ELSE active : handed' = handed \cup {o}
     /\ UNCHANGED <<db, approved, confirmed, gwVars, acked, pc, task, writeQ, ghosts>>

\* Otherwise the gateway is asked for an order.
CreateOrderForBooking(t, b) ==
  /\ \A o \in PaymentsOf(b) : status[o] # "paid" /\ status[o] \notin ActiveStates
  /\ Start(t, "gwOrder", [NoTask EXCEPT !.booking = b])
  /\ UNCHANGED <<db, out, gwVars, acked, writeQ, ghosts>>

GatewayCreatesOrder(t, o) ==
  /\ pc[t] = "gwOrder" /\ gw[o] = "none"
  /\ gw' = [gw EXCEPT ![o] = "created"]
  /\ task' = [task EXCEPT ![t].order = o]
  /\ Enqueue(t, "createIfAbsent")
  /\ UNCHANGED <<db, out, gwRefunds, gwFailed, acked, ghosts>>

\* gateway.createOrder, refund, fetchPayment: the call throws and had no effect.
GatewayCallThrows(t) ==
  /\ pc[t] \in {"gwOrder", "gwStatus", "gwRefund"}
  /\ Throw(t, writeQ)
  /\ UNCHANGED <<db, out, gwVars, ghosts>>

OpenKeyCreate(b) == {}   \* mutant: create() in place of createIfAbsent
OpenKey(b) == {o \in Recorded : of[o] = b /\ key[o] = "open"}

\* The payment a loser's caller is given the checkout of.
ReturnedOwnOrder(t) == {task[t].order}   \* mutant: the loser's own order
ReturnedOrder(t) == OpenKey(task[t].booking)

\* The repository's dedupe-and-insert.  A loser of the race returns the
\* winner's payment; its own gateway order is dropped.
CreateIfAbsent(t) ==
  LET o == task[t].order
      b == task[t].booking
  IN /\ Turn(t, "createIfAbsent")
     /\ IF OpenKey(b) # {}
        THEN /\ Finish(t)
             /\ \E winner \in ReturnedOrder(t) : handed' = handed \cup {winner}
             /\ UNCHANGED payVars
        ELSE /\ status' = [status EXCEPT ![o] = "created"]
             /\ of' = [of EXCEPT ![o] = b]
             /\ key' = [key EXCEPT ![o] = "open"]
             /\ Goto(t, "orderTail")
             /\ UNCHANGED <<refunded, handed, task, acked>>
     /\ UNCHANGED <<claimed, approved, confirmed, gwVars, ghosts>>

OrderTail(t) ==
  /\ pc[t] = "orderTail"
  /\ Finish(t)
  /\ handed' = handed \cup {task[t].order}
  /\ UNCHANGED <<db, approved, confirmed, gwVars, writeQ, ghosts>>

-----------------------------------------------------------------------------
(* verifyAndCapture                                                         *)

VerifyAndCapture(t, o) ==
  /\ Provider # "phonepe"
  /\ o \in Recorded /\ status[o] # "paid"
  /\ gw[o] \in {"authorized", "captured"}   \* only then is the signature valid
  /\ Start(t, "gwCapture", [NoTask EXCEPT !.order = o])
  /\ UNCHANGED <<db, out, gwVars, acked, writeQ, ghosts>>

VerifyBadSignature(t, o) ==
  /\ Provider # "phonepe"
  /\ o \in Recorded /\ status[o] # "paid"
  /\ Start(t, "fail", [NoTask EXCEPT !.order = o])
  /\ writeQ' = Append(writeQ, t)
  /\ UNCHANGED <<db, out, gwVars, acked, ghosts>>

CaptureSucceeds(t) ==
  /\ pc[t] = "gwCapture"
  /\ gw' = [gw EXCEPT ![task[t].order] = "captured"]
  /\ Enqueue(t, "transitionToPaid")
  /\ UNCHANGED <<db, out, gwRefunds, gwFailed, acked, task, ghosts>>

CaptureFailsUnnoticed(t) ==   \* mutant: the error is swallowed
  /\ CaptureMayFail
  /\ pc[t] = "gwCapture"
  /\ Enqueue(t, "transitionToPaid")
  /\ UNCHANGED <<db, out, gwVars, acked, task, ghosts>>

CaptureFails(t) ==
  /\ CaptureMayFail
  /\ pc[t] = "gwCapture"
  /\ Enqueue(t, "authorize")
  /\ UNCHANGED <<db, out, gwVars, acked, task, ghosts>>

\* The unconditional update to AUTHORIZED: after a failed capture, and for
\* the payment.authorized webhook.
AuthorizedAsCaptured == "captured"   \* mutant: the gateway's word for it
AuthorizedStatus == "authorized"
UpdateAuthorized(t) ==
  /\ Turn(t, "authorize")
  /\ status' = [status EXCEPT ![task[t].order] = AuthorizedStatus]
  /\ Finish(t)
  /\ UNCHANGED <<of, key, refunded, claimed, out, gwVars, ghosts>>

-----------------------------------------------------------------------------
(* _markPaid                                                                *)

\* What the compare-and-set leaves alone.
RefusesTerminal(o) == status[o] \in TerminalStates   \* mutant: paid forgotten
RefusesAllButAuthorized(o) == status[o] # "authorized"   \* mutant
RefusesPaid(o) == status[o] = "paid"   \* mutant: ended payments revived
Refuses(o) == status[o] = "paid" \/ status[o] \in TerminalStates

\* The compare-and-set: paid and terminal payments are left alone and the
\* activation returns without side effects.
TransitionToPaid(t) ==
  LET o == task[t].order
  IN /\ Turn(t, "transitionToPaid")
     /\ IF Refuses(o)
        THEN Finish(t) /\ UNCHANGED status
        ELSE /\ status' = [status EXCEPT ![o] = "paid"]
             /\ Goto(t, "confirm")
             /\ UNCHANGED <<task, acked>>
     /\ UNCHANGED <<of, key, refunded, claimed, out, gwVars, ghosts>>

ConfirmBookingSkipped(t) ==   \* mutant: goes straight to the ledger
  /\ pc[t] = "confirm"
  /\ Goto(t, "paidTail")
  /\ UNCHANGED <<db, out, gwVars, acked, task, writeQ, ghosts>>

ConfirmBooking(t) ==
  /\ pc[t] = "confirm"
  /\ approved' = approved \cup {of[task[t].order]}
  /\ Goto(t, "paidTail")
  /\ UNCHANGED <<db, confirmed, handed, gwVars, acked, task, writeQ, ghosts>>

\* captured ledger row, audit row, then the success notifications.
PaidTail(t) ==
  /\ pc[t] = "paidTail"
  /\ confirmed' = confirmed \cup {task[t].order}
  /\ Finish(t)
  /\ UNCHANGED <<db, approved, handed, gwVars, writeQ, ghosts>>

-----------------------------------------------------------------------------
(* _fail                                                                    *)

\* The key a payment moves to, so that a retry can open a fresh order.
KeepKey(o, k) == key   \* mutant: the key is not freed
FreeKey(o, k) == [key EXCEPT ![o] = k]

UpdateFailed(t) ==
  /\ Turn(t, "fail")
  /\ status' = [status EXCEPT ![task[t].order] = "failed"]
  /\ key' = FreeKey(task[t].order, "failed")
  /\ Goto(t, "failTail")
  /\ UNCHANGED <<of, refunded, claimed, out, gwVars, acked, task, ghosts>>

\* Audit rows of _fail and _completeRefund, and the notification.
OutcomeTail(t) ==
  /\ pc[t] \in {"failTail", "completeTail"}
  /\ Finish(t)
  /\ UNCHANGED <<db, out, gwVars, writeQ, ghosts>>

-----------------------------------------------------------------------------
(* handleWebhook, _routeWebhook                                             *)

\* Has the gateway produced this event?
Emitted(e) ==
  /\ e.type \in EventTypes
  /\ CASE e.type = "payment.authorized" -> gw[e.order] \in {"authorized", "captured"}
       [] e.type \in {"payment.captured", "order.paid"} -> gw[e.order] = "captured"
       [] e.type = "payment.failed" -> e.order \in gwFailed
       [] e.type \in RefundTypes -> e.nth \in DOMAIN gwRefunds[e.order]
  /\ e.type \notin RefundTypes => e.nth = 0

\* A delivery with a good signature; the gateway may repeat any event and
\* deliver events in any order.  A delivery with a bad signature changes
\* nothing.
HandleWebhook(t, e) ==
  /\ Provider # "phonepe"
  /\ Emitted(e)
  /\ Start(t, "claim", [NoTask EXCEPT !.event = e, !.order = e.order])
  /\ writeQ' = Append(writeQ, t)
  /\ UNCHANGED <<db, out, gwVars, acked, ghosts>>

SeenNever(e) == FALSE   \* mutant: the id is pushed unread
Seen(e) == e \in claimed

ClaimWebhook(t) ==
  /\ Turn(t, "claim")
  /\ IF Seen(task[t].event)
     THEN Finish(t) /\ UNCHANGED claimed
     ELSE /\ claimed' = claimed \cup {task[t].event}
          /\ Goto(t, "claimTail")
          /\ UNCHANGED <<task, acked>>
  /\ UNCHANGED <<payVars, out, gwVars, ghosts>>

\* What _completeRefund writes is computed here, before its turn in the chain.
EnqueueRefundTotal(t, a) ==
  /\ task' = [task EXCEPT ![t].amount = refunded[task[t].order] + a]
  /\ Enqueue(t, "complete")
  /\ UNCHANGED acked

\* The switch on the event type, with the payment as it reads now.
RouteWebhook(t) ==
  LET e == task[t].event
      o == e.order
      To(p) == Enqueue(t, p) /\ UNCHANGED <<task, acked>>
      Ignore == Finish(t) /\ UNCHANGED writeQ
  IN /\ pc[t] = "claimTail"
     /\ CASE o \notin Recorded -> Ignore
          [] o \in Recorded /\ e.type = "payment.authorized" ->
               IF status[o] # "paid" THEN To("authorize") ELSE Ignore
          [] o \in Recorded /\ e.type \in {"payment.captured", "order.paid"} ->
               To("transitionToPaid")
          [] o \in Recorded /\ e.type = "payment.failed" ->
               IF status[o] # "paid" THEN To("fail") ELSE Ignore
          [] o \in Recorded /\ e.type = "refund.created" -> To("initiate")
          [] o \in Recorded /\ e.type = "refund.processed" ->
               EnqueueRefundTotal(t, gwRefunds[o][e.nth])
     /\ UNCHANGED <<db, out, gwVars, ghosts>>

ReleaseWebhook(t) ==
  /\ Turn(t, "release")
  /\ claimed' = claimed \ {task[t].event}
  /\ Goto(t, "idle")
  /\ task' = [task EXCEPT ![t] = NoTask]
  /\ UNCHANGED <<payVars, out, gwVars, acked, ghosts>>

-----------------------------------------------------------------------------
(* confirmByStatus: PhonePe's callback and browser return                   *)

ConfirmByStatus(t, o) ==
  /\ Provider = "phonepe"
  /\ o \in Recorded /\ status[o] # "paid"
  /\ Start(t, "gwStatus", [NoTask EXCEPT !.order = o])
  /\ UNCHANGED <<db, out, gwVars, acked, writeQ, ghosts>>

\* What the Status API's answer is about: the state of the transaction, an
\* error (success: false, returned whatever the HTTP status), or nothing that
\* can be read (an empty object, a state that lags).
Answers == {"state", "error", "unreadable"}

\* parseStatus, of answer a about a transaction in state g.
ParsedStrict(a, g) ==   \* mutant: what is not a success is a failure
  IF a = "state" /\ g = "captured" THEN "paid" ELSE "failed"
Parsed(a, g) ==
  CASE a = "state" /\ g = "captured" -> "paid"
    [] a = "error" \/ (a = "state" /\ g = "failed") -> "failed"
    [] OTHER -> "pending"

StatusAnswers(t, a) ==
  LET o == task[t].order
  IN /\ pc[t] = "gwStatus"
     /\ \/ Parsed(a, gw[o]) = "paid" /\ Enqueue(t, "transitionToPaid") /\ UNCHANGED <<task, acked>>
        \/ Parsed(a, gw[o]) = "failed" /\ Enqueue(t, "fail") /\ UNCHANGED <<task, acked>>
        \/ Parsed(a, gw[o]) = "pending" /\ Finish(t) /\ UNCHANGED writeQ
     /\ misread' = IF a = "error" THEN misread \cup {o} ELSE misread
     /\ UNCHANGED <<db, out, gwVars, faults, crashes>>

-----------------------------------------------------------------------------
(* refund, _completeRefund                                                  *)

Refund(t, o, a) ==
  /\ o \in Recorded /\ status[o] \in RefundableStates
  /\ a > 0 /\ a <= Amount - refunded[o]
  /\ Start(t, "gwRefund", [NoTask EXCEPT !.order = o, !.amount = a])
  /\ UNCHANGED <<db, out, gwVars, acked, writeQ, ghosts>>

GatewayRefunds(o, a) ==
  /\ Len(gwRefunds[o]) < MaxRefunds
  /\ gwRefunds' = [gwRefunds EXCEPT ![o] = Append(@, a)]

\* The gateway makes the refund and answers "processed", or "pending".
RefundAnswered(t, processed) ==
  /\ pc[t] = "gwRefund"
  /\ Provider = "mock" => processed
  /\ GatewayRefunds(task[t].order, task[t].amount)
  /\ task' = [task EXCEPT ![t].processed = processed]
  /\ Enqueue(t, "initiate")
  /\ UNCHANGED <<db, out, gw, gwFailed, acked, ghosts>>

\* PhonePe answers "failed": nothing was refunded, the rest runs as before.
RefundDeclined(t) ==
  /\ Provider = "phonepe"
  /\ pc[t] = "gwRefund"
  /\ Enqueue(t, "initiate")
  /\ UNCHANGED <<db, out, gwVars, acked, task, ghosts>>

\* The gateway makes the refund and its answer is lost.
RefundAnswerLost(t) ==
  /\ Provider # "mock"
  /\ pc[t] = "gwRefund"
  /\ GatewayRefunds(task[t].order, task[t].amount)
  /\ Throw(t, writeQ)
  /\ UNCHANGED <<db, out, gw, gwFailed, ghosts>>

\* The unconditional update to REFUND_INITIATED.  For the webhook it is the
\* last write; refund() goes on to its ledger and audit rows.
UpdateRefundInitiated(t) ==
  /\ Turn(t, "initiate")
  /\ status' = [status EXCEPT ![task[t].order] = "refund_initiated"]
  /\ IF IsWebhook(t) THEN Finish(t)
     ELSE Goto(t, "initTail") /\ UNCHANGED <<task, acked>>
  /\ UNCHANGED <<of, key, refunded, claimed, out, gwVars, ghosts>>

SettlesAnyway(t) == TRUE   \* mutant: the refund's status is not looked at
SettlesNow(t) == task[t].processed

InitTail(t) ==
  /\ pc[t] = "initTail"
  /\ IF SettlesNow(t)
     THEN EnqueueRefundTotal(t, task[t].amount)
     ELSE Finish(t) /\ UNCHANGED writeQ
  /\ UNCHANGED <<db, out, gwVars, ghosts>>

UpdateRefundCompleted(t) ==
  LET o    == task[t].order
      full == task[t].amount >= Amount
  IN /\ Turn(t, "complete")
     /\ refunded' = [refunded EXCEPT ![o] = task[t].amount]
     /\ status' = [status EXCEPT ![o] = IF full THEN "refunded"
                                        ELSE "partially_refunded"]
     /\ key' = IF full THEN FreeKey(o, "refunded") ELSE key
     /\ Goto(t, "completeTail")
     /\ UNCHANGED <<of, claimed, out, gwVars, acked, task, ghosts>>

-----------------------------------------------------------------------------
(* Failures                                                                 *)

\* An activation that ends with an error nobody catches.
Abandon(t, q) == /\ Goto(t, "idle")
                 /\ task' = [task EXCEPT ![t] = NoTask]
                 /\ writeQ' = q
                 /\ UNCHANGED acked

\* The write at the head of the chain throws and stores nothing.  The claim
\* and the release of a webhook run outside handleWebhook's try.
StoreThrows(t) ==
  /\ faults < MaxFaults
  /\ writeQ # <<>> /\ Head(writeQ) = t
  /\ IF pc[t] \in {"claim", "release"}
     THEN Abandon(t, Tail(writeQ))
     ELSE Throw(t, Tail(writeQ))
  /\ faults' = faults + 1
  /\ UNCHANGED <<db, out, gwVars, crashes, misread>>

\* A ledger or audit append throws, after the state change before it.
TailThrows(t) ==
  /\ faults < MaxFaults
  /\ \/ pc[t] = "claimTail" /\ Abandon(t, writeQ)
     \/ /\ pc[t] \in {"orderTail", "paidTail", "failTail", "initTail", "completeTail"}
        /\ Throw(t, writeQ)
  /\ faults' = faults + 1
  /\ UNCHANGED <<db, out, gwVars, crashes, misread>>

\* The process dies and pm2 starts it again: the files survive.
Restart ==
  /\ crashes < MaxCrashes
  /\ crashes' = crashes + 1
  /\ pc' = [t \in Threads |-> "idle"]
  /\ task' = [t \in Threads |-> NoTask]
  /\ writeQ' = <<>>
  /\ UNCHANGED <<db, out, gwVars, acked, faults, misread>>

-----------------------------------------------------------------------------
(* The gateway on its own: customers pay the checkouts they were handed.    *)

CustomerPays(o) ==
  /\ o \in handed /\ gw[o] = "created"
  /\ gw' = [gw EXCEPT ![o] = "authorized"]
  /\ UNCHANGED <<db, out, gwRefunds, gwFailed, acked, pc, task, writeQ, ghosts>>

\* payment_capture: 1, and PhonePe's PAY_PAGE.
AutoCapture(o) ==
  /\ Provider # "mock" /\ gw[o] = "authorized"
  /\ gw' = [gw EXCEPT ![o] = "captured"]
  /\ UNCHANGED <<db, out, gwRefunds, gwFailed, acked, pc, task, writeQ, ghosts>>

\* A Razorpay order outlives a failed attempt, a PhonePe transaction does not.
AttemptFails(o) ==
  /\ o \in handed /\ gw[o] = "created"
  /\ gwFailed' = gwFailed \cup {o}
  /\ gw' = IF Provider = "phonepe" THEN [gw EXCEPT ![o] = "failed"] ELSE gw
  /\ UNCHANGED <<db, out, gwRefunds, acked, pc, task, writeQ, ghosts>>

-----------------------------------------------------------------------------
Init ==
  /\ status = [o \in Orders |-> "absent"]
  /\ of = [o \in Orders |-> None]
  /\ key = [o \in Orders |-> "none"]
  /\ refunded = [o \in Orders |-> 0]
  /\ claimed = {} /\ approved = {} /\ confirmed = {} /\ handed = {}
  /\ gw = [o \in Orders |-> "none"]
  /\ gwRefunds = [o \in Orders |-> <<>>]
  /\ gwFailed = {} /\ acked = {}
  /\ pc = [t \in Threads |-> "idle"]
  /\ task = [t \in Threads |-> NoTask]
  /\ writeQ = <<>>
  /\ faults = 0 /\ crashes = 0 /\ misread = {}

\* A request or a delivery arrives.
Arrive(t) ==
  \/ \E b \in Bookings : CreateOrderForBooking(t, b)
  \/ \E o \in Orders : VerifyAndCapture(t, o) \/ VerifyBadSignature(t, o)
  \/ \E o \in Orders : ConfirmByStatus(t, o)
  \/ \E o \in Orders, a \in 1..Amount : Refund(t, o, a)
  \/ \E e \in Event : HandleWebhook(t, e)

\* The repository runs t's mutator.
Store(t) ==
  \/ CreateIfAbsent(t) \/ TransitionToPaid(t) \/ UpdateFailed(t)
  \/ UpdateAuthorized(t) \/ ClaimWebhook(t) \/ ReleaseWebhook(t)
  \/ UpdateRefundInitiated(t) \/ UpdateRefundCompleted(t)

\* t's code runs on to its next await or to its end.
Continue(t) ==
  \/ OrderTail(t) \/ ConfirmBooking(t) \/ PaidTail(t) \/ OutcomeTail(t)
  \/ RouteWebhook(t) \/ InitTail(t)

\* The gateway answers t.
Answer(t) ==
  \/ \E o \in Orders : GatewayCreatesOrder(t, o)
  \/ CaptureSucceeds(t) \/ CaptureFails(t)
  \/ \E a \in Answers : StatusAnswers(t, a)
  \/ \E processed \in BOOLEAN : RefundAnswered(t, processed)
  \/ RefundDeclined(t) \/ RefundAnswerLost(t) \/ GatewayCallThrows(t)

Next ==
  \/ \E t \in Threads : \/ Arrive(t) \/ Store(t) \/ Continue(t) \/ Answer(t)
                        \/ StoreThrows(t) \/ TailThrows(t)
  \/ \E b \in Bookings : ReuseOrder(b)
  \/ \E o \in Orders : CustomerPays(o) \/ AutoCapture(o) \/ AttemptFails(o)
  \/ Restart

Spec == Init /\ [][Next]_vars

-----------------------------------------------------------------------------
(* Fairness: Node runs every queued continuation, the gateway answers every  *)
(* call (its clients time out), and it redelivers payment.captured until it  *)
(* is answered 200.  Redelivery is strongly fair because Threads bounds the  *)
(* activations, which the server does not.                                   *)

CapturedEvent(o) == [type |-> "payment.captured", order |-> o, nth |-> 0]

Redeliver(o) == /\ CapturedEvent(o) \notin acked
                /\ \E t \in Threads : HandleWebhook(t, CapturedEvent(o))

Fairness ==
  /\ \A t \in Threads : WF_vars(Store(t) \/ Continue(t) \/ Answer(t))
  /\ \A o \in Orders : SF_vars(Redeliver(o))

FairSpec == Spec /\ Fairness

-----------------------------------------------------------------------------
(* Types                                                                    *)

Task == [order : Orders \cup {None}, booking : Bookings \cup {None},
         event : Event \cup {None}, amount : Nat, processed : BOOLEAN]

\* Every variable holds a value of the kind the service stores in it.
TypeOK ==
  /\ status \in [Orders -> Statuses \cup {"absent"}]
  /\ of \in [Orders -> Bookings \cup {None}]
  /\ key \in [Orders -> Keys]
  /\ refunded \in [Orders -> Nat]
  /\ claimed \subseteq Event /\ acked \subseteq Event
  /\ approved \subseteq Bookings
  /\ confirmed \subseteq Orders /\ handed \subseteq Orders
  /\ gw \in [Orders -> {"none", "created", "authorized", "captured", "failed"}]
  /\ gwRefunds \in [Orders -> Seq(1..Amount)]
  /\ gwFailed \subseteq Orders
  /\ pc \in [Threads -> PCs]
  /\ task \in [Threads -> Task]
  /\ writeQ \in Seq(Threads)
  /\ faults \in Nat /\ crashes \in Nat /\ misread \subseteq Orders

-----------------------------------------------------------------------------
(* Safety                                                                   *)

\* At most one payment of a booking holds the open-order key, however many
\* createOrderForBooking calls wait for the gateway at once.
OneOpenOrder ==
  \A o1, o2 \in Recorded :
    key[o1] = "open" /\ key[o2] = "open" /\ of[o1] = of[o2] => o1 = o2

\* Frontend success is never trusted: a payment is paid, or being refunded,
\* only if the gateway holds the customer's money for it.
MoneyStates == {"paid", "refund_initiated", "partially_refunded", "refunded"}
PaidIsCaptured ==
  \A o \in Orders : status[o] \in MoneyStates => gw[o] = "captured"

\* A customer can only pay an order the repository knows, so that no webhook
\* or verification of real money finds no payment: the gateway order of a
\* call that lost the createIfAbsent race is never handed out.
MoneyIsRecorded ==
  /\ handed \subseteq Recorded
  /\ \A o \in Orders :
       gw[o] \in {"authorized", "captured", "failed"} \/ o \in gwFailed
         => o \in Recorded

\* Threads past claimWebhook for e.
Processing(e) == {t \in Threads : task[t].event = e /\ pc[t] # "claim"}

\* However often and however concurrently the gateway delivers an event, one
\* activation at a time routes it, and its id stays claimed meanwhile.
ExclusiveWebhook ==
  \A e \in Event :
    /\ Processing(e) # {} => e \in claimed
    /\ \A t, u \in Processing(e) : t = u

\* However failures, retries and late captures interleave, at most one payment
\* of a booking waits for money or has it: one that failed stays failed when its
\* money is reported late, because a fresh order may have taken its place.
\* Late authorizations and refunds write over an ended payment unconditionally
\* and are not in the run.
OneLivePayment ==
  \A o1, o2 \in Recorded :
    /\ of[o1] = of[o2]
    /\ {status[o1], status[o2]} \subseteq ActiveStates \cup {"paid"}
    => o1 = o2

\* A success is confirmed and announced once per payment, whatever verify,
\* captured and order.paid do concurrently.
Confirming == {t \in Threads : pc[t] \in {"confirm", "paidTail"}}
SingleConfirmation ==
  /\ \A t \in Confirming : task[t].order \notin confirmed
  /\ \A t, u \in Confirming : task[t].order = task[u].order => t = u

\* A paid payment's booking is approved, or about to be by the activation
\* that won the compare-and-set.
PaidBookingApproved ==
  \A o \in Orders : status[o] = "paid" =>
    \/ of[o] \in approved
    \/ \E t \in Threads : pc[t] = "confirm" /\ task[t].order = o

\* What the gateway has paid back of an order: unit i of its n-th refund.
PaidBack(o) == {u \in (DOMAIN gwRefunds[o]) \X (1..Amount) : u[2] <= gwRefunds[o][u[1]]}

\* The refunds on record never exceed what the gateway has paid back.
RefundsAreReal == \A o \in Orders : refunded[o] <= Cardinality(PaidBack(o))

-----------------------------------------------------------------------------
(* Action properties                                                        *)

\* Unless the Status API ever answered with an error about it, a payment leaves
\* "paid" only by a refund: no callback or return whose answer is awaits old
\* when it is written takes it back.  An error body counts as a failure, and
\* that one does.
PaidIsKept ==
  [][\A o \in Orders \ misread : status[o] = "paid" => status'[o] \in MoneyStates]_vars

\* A booking whose payments have all failed or been refunded in full can be
\* paid for again: the order its retry opened is recorded, and no ended payment
\* is returned in its place.
RetryReopens ==
  [][\A t \in Threads :
       /\ CreateIfAbsent(t)
       /\ \A o \in PaymentsOf(task[t].booking) : status[o] \in TerminalStates
       => /\ of'[task[t].order] = task[t].booking
          /\ status'[task[t].order] = "created"]_vars

-----------------------------------------------------------------------------
(* Liveness                                                                 *)

\* Money the gateway captured ends in a confirmed payment or in one the
\* compare-and-set refuses because it had failed or been refunded.
CapturedSettles ==
  \A o \in Orders :
    gw[o] = "captured" ~> (o \in confirmed \/ status[o] \in TerminalStates)

=============================================================================
