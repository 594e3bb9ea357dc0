------------------------------ MODULE Bookings ------------------------------
(***************************************************************************)
(* The life of a booking: booking.controller.js over the bookings table,   *)
(* with the coupons it redeems, the unit of a vehicle it holds, and the    *)
(* payment that approves it (bookingBridge.js).                            *)
(*                                                                         *)
(* A thread is one activation of createBooking, the only handler that      *)
(* waits: for the route of a planned trip (pc "route") and for the payment *)
(* order (pc "order").  Every other handler runs from its read to its last *)
(* write without an await, so it is one action.  A refused request (400,   *)
(* 403, 404, 409) changes nothing.  Notifications are the matter of        *)
(* Delivery and amounts that of Fares; both are left out here.             *)
(*                                                                         *)
(* References RDZ001, RDZ002, ... are the numbers 1, 2, ...; the records   *)
(* behind one are told apart by their serial.  All coupons of the model    *)
(* have the same code, so at most one of them exists at a time.            *)
(***************************************************************************)
EXTENDS Integers, FiniteSets

CONSTANTS
  Customers, Coupons, Vehicles, Threads,
  Requests,       \* what customers ask createBooking for
  Periods,        \* the days trips are moved to: <<first day, last day>>
  CouponRows,     \* what admins set the coupon to
  MaxNow,         \* where the clock of a behaviour ends
  MaxId,          \* bound on the references in use
  MaxRequests,    \* bound on the requests of a behaviour
  MaxCrashes,     \* bound on restarts of the server
  None

ASSUME BookingsAssumption ==
  /\ {MaxNow, MaxId, MaxRequests, MaxCrashes} \subseteq Nat
  /\ Periods \subseteq Nat \X Nat
  /\ Requests \subseteq [owner : Customers, coupon : BOOLEAN, online : BOOLEAN,
                         period : Periods, vehicle : Vehicles \cup {None}]
  /\ CouponRows \subseteq [active : BOOLEAN, limit : Nat \ {0}, once : BOOLEAN]
  /\ None \notin Customers \cup Coupons \cup Vehicles

VARIABLES
  bookings,      \* reference -> record; its domain is the references on file
  coupons,       \* coupon -> row; its domain is the coupons on file
  deleted,       \* the ids of coupons deleted since
  redemptions,   \* reference -> [coupon, email]
  orders,        \* reference -> the order the payment module would hand out
  pc, task,      \* the activations of createBooking
  now,           \* half days since the start; an odd one is an evening
  created,       \* serial of the last record inserted
  lapsed,        \* history: serials that have been cancelled once
  requests, crashes

couponVars == <<coupons, deleted>>
stored == <<bookings, couponVars, redemptions, orders>>
counts == <<requests, crashes>>
history == <<created, lapsed>>
vars == <<stored, pc, task, now, history, counts>>

Statuses == {"PendingPayment", "Pending", "Approved", "Cancelled", "Completed"}
NoTask == [id |-> 0]

Refs == DOMAIN bookings
today == now \div 2
Evening == now % 2 = 1

Asked == requests < MaxRequests /\ requests' = requests + 1

-----------------------------------------------------------------------------
(* Coupons *)

Uses(c) == {id \in DOMAIN redemptions : redemptions[id].coupon = c}
HasRedeemed(c, who) == \E id \in Uses(c) : redemptions[id].email = who

CheckedOneTooMany(c, who) ==   \* mutant: the limit is off by one
  /\ c \in DOMAIN coupons /\ coupons[c].active
  /\ Cardinality(Uses(c)) <= coupons[c].limit
  /\ ~(coupons[c].once /\ HasRedeemed(c, who))

\* checkCoupon; what depends on dates and amounts is left to the request.
Checked(c, who) ==
  /\ c \in DOMAIN coupons /\ coupons[c].active
  /\ Cardinality(Uses(c)) < coupons[c].limit
  /\ ~(coupons[c].once /\ HasRedeemed(c, who))

Release(id) == [i \in DOMAIN redemptions \ {id} |-> redemptions[i]]

OthersUnchanged ==
  UNCHANGED <<bookings, redemptions, orders, pc, task, now, history, crashes>>

\* An id is never given twice; a code that exists is refused (409).
CreateCoupon(c, row) ==
  /\ Asked
  /\ DOMAIN coupons = {} /\ c \notin deleted
  /\ coupons' = [d \in {c} |-> row]
  /\ UNCHANGED deleted /\ OthersUnchanged

PatchCoupon(c, row) ==
  /\ Asked
  /\ row # coupons[c]
  /\ coupons' = [coupons EXCEPT ![c] = row]
  /\ UNCHANGED deleted /\ OthersUnchanged

\* The rows of its redemptions stay.
RemoveCoupon(c) ==
  /\ Asked
  /\ coupons' = [d \in DOMAIN coupons \ {c} |-> coupons[d]]
  /\ deleted' = deleted \cup {c}
  /\ OthersUnchanged

-----------------------------------------------------------------------------
(* createBooking *)

CountedId(id) == id = Cardinality(Refs) + 1   \* mutant: the bookings are counted

\* One more than the highest reference on file.
NewBookingId(id) == /\ \A i \in Refs : i < id
                    /\ id = 1 \/ id - 1 \in Refs

NewBooking(r, c) ==
  [serial |-> created + 1, owner |-> r.owner, coupon |-> c, period |-> r.period,
   vehicle |-> r.vehicle, released |-> FALSE, closed |-> FALSE,
   status |-> IF r.online THEN "PendingPayment" ELSE "Pending"]

RedeemedForgotten(c, id, who) == redemptions   \* mutant: the use is not recorded
Redeemed(c, id, who) ==
  IF c = None THEN redemptions
  ELSE [i \in DOMAIN redemptions \cup {id} |->
          IF i = id THEN [coupon |-> c, email |-> who] ELSE redemptions[i]]

\* The coupons that answer to the code of the request.
Found(r) == IF r.coupon THEN {c \in Coupons : Checked(c, r.owner)} ELSE {None}

Leave(t) == /\ pc' = [pc EXCEPT ![t] = "idle"]
            /\ task' = [task EXCEPT ![t] = NoTask]

\* From the price to the call of the gateway: no await.  A payment order that
\* is on record for the reference is handed out again.
Insert(t, r, c, id) ==
  /\ NewBookingId(id)
  /\ created' = created + 1
  /\ bookings' = [i \in Refs \cup {id} |-> IF i = id THEN NewBooking(r, c) ELSE bookings[i]]
  /\ redemptions' = Redeemed(c, id, r.owner)
  /\ IF r.online /\ orders[id] = "none"
       THEN /\ pc' = [pc EXCEPT ![t] = "order"]
            /\ task' = [task EXCEPT ![t] = [id |-> id]]
       ELSE Leave(t)

Place(t, r) ==
  \/ \E c \in Found(r), id \in 1..MaxId : Insert(t, r, c, id)
  \/ Found(r) = {} /\ Leave(t) /\ UNCHANGED <<bookings, redemptions, created>>

\* A package, a vehicle at its listed rate, or an estimate, which neither is
\* paid online nor takes a coupon: priced on the spot.
CreateBooking(t, r) ==
  /\ Asked
  /\ pc[t] = "idle" /\ Found(r) # {}
  /\ Place(t, r)
  /\ UNCHANGED <<couponVars, orders, now, lapsed, crashes>>

\* A planned trip in an active vehicle waits for its route.
CreateTrip(t, r) ==
  /\ Asked
  /\ pc[t] = "idle" /\ r.vehicle # None
  /\ pc' = [pc EXCEPT ![t] = "route"]
  /\ task' = [task EXCEPT ![t] = r]
  /\ UNCHANGED <<stored, now, history, crashes>>

RouteArrives(t) ==
  /\ pc[t] = "route"
  /\ Place(t, task[t])
  /\ UNCHANGED <<couponVars, orders, now, lapsed, counts>>

\* If the race is lost the order that is open already is handed out.
OpenOrder(id) == orders' = [orders EXCEPT ![id] = "open"]

OrderCreated(t) ==
  /\ pc[t] = "order"
  /\ OpenOrder(task[t].id)
  /\ Leave(t)
  /\ UNCHANGED <<bookings, couponVars, redemptions, now, history, counts>>

SetStatus(id, s) == [bookings EXCEPT ![id].status = s]

\* The gateway throws.  The booking falls back to manual approval, whatever
\* has become of it meanwhile.
OrderFails(t) ==
  LET id == task[t].id
  IN /\ pc[t] = "order"
     /\ bookings' = IF id \in Refs THEN SetStatus(id, "Pending") ELSE bookings
     /\ Leave(t)
     /\ UNCHANGED <<couponVars, redemptions, orders, now, history, counts>>

-----------------------------------------------------------------------------
(* Payments, through the bridge *)

\* The customer asks for an order again; the booking's status is not looked at.
RetryPayment(id) ==
  /\ Asked
  /\ orders[id] = "none"
  /\ OpenOrder(id)
  /\ UNCHANGED <<bookings, couponVars, redemptions, pc, task, now, history, crashes>>

ConfirmBooking(id) ==
  /\ orders[id] = "open"
  /\ orders' = [orders EXCEPT ![id] = "paid"]
  /\ bookings' = IF id \in Refs THEN SetStatus(id, "Approved") ELSE bookings
  /\ UNCHANGED <<couponVars, redemptions, pc, task, now, history, counts>>

PaymentFails(id) ==
  /\ orders[id] = "open"
  /\ orders' = [orders EXCEPT ![id] = "none"]
  /\ UNCHANGED <<bookings, couponVars, redemptions, pc, task, now, history, counts>>

-----------------------------------------------------------------------------
(* The handlers on one booking *)

CancelledKeepsUse(id) ==   \* mutant: the coupon's use is not given back
  /\ bookings' = SetStatus(id, "Cancelled")
  /\ lapsed' = lapsed \cup {bookings[id].serial}
  /\ UNCHANGED redemptions

Cancelled(id) ==
  /\ bookings' = SetStatus(id, "Cancelled")
  /\ redemptions' = Release(id)
  /\ lapsed' = lapsed \cup {bookings[id].serial}

\* By the owner or staff.
CancelBooking(id) ==
  /\ Asked
  /\ bookings[id].status \notin {"Cancelled", "Completed"}
  /\ Cancelled(id)
  /\ UNCHANGED <<couponVars, orders, pc, task, now, created, crashes>>

\* By an admin, to any status.
UpdateBooking(id, s) ==
  /\ Asked
  /\ s # bookings[id].status
  /\ IF s = "Cancelled" THEN Cancelled(id)
     ELSE bookings' = SetStatus(id, s) /\ UNCHANGED <<redemptions, lapsed>>
  /\ UNCHANGED <<couponVars, orders, pc, task, now, created, crashes>>

CloseTrip(id) ==
  /\ Asked
  /\ bookings[id].status # "Cancelled"
  /\ bookings' = [bookings EXCEPT ![id].closed = TRUE, ![id].status = "Completed"]
  /\ UNCHANGED <<couponVars, redemptions, orders, pc, task, now, history, crashes>>

ModifyBooking(id, period) ==
  /\ Asked
  /\ bookings[id].status \notin {"Cancelled", "Completed"}
  /\ period[1] <= period[2] /\ period # bookings[id].period
  /\ bookings' = [bookings EXCEPT ![id].period = period]
  /\ UNCHANGED <<couponVars, redemptions, orders, pc, task, now, history, crashes>>

\* Neither the redemption nor the payment order of the reference goes with it.
DeleteBooking(id) ==
  /\ Asked
  /\ bookings' = [i \in Refs \ {id} |-> bookings[i]]
  /\ UNCHANGED <<couponVars, redemptions, orders, pc, task, now, history, crashes>>

ReleaseHold(id) ==
  /\ Asked
  /\ ~bookings[id].released
  /\ bookings' = [bookings EXCEPT ![id].released = TRUE]
  /\ UNCHANGED <<couponVars, redemptions, orders, pc, task, now, history, crashes>>

\* The unit of its vehicle a booking holds until its last day is over.
HoldsUnit(b) == /\ b.vehicle # None /\ b.status # "Cancelled" /\ ~b.released
                /\ b.period[2] >= today
HeldCount(v) == Cardinality({id \in Refs : bookings[id].vehicle = v
                                             /\ HoldsUnit(bookings[id])})

-----------------------------------------------------------------------------
Init ==
  /\ bookings = [id \in {} |-> 0]
  /\ \E C \in SUBSET Coupons :
       Cardinality(C) <= 1 /\ coupons \in [C -> CouponRows] /\ deleted = {}
  /\ redemptions = [id \in {} |-> 0]
  /\ orders = [id \in 1..MaxId |-> "none"]
  /\ pc = [t \in Threads |-> "idle"]
  /\ task = [t \in Threads |-> NoTask]
  /\ now = 0 /\ created = 0 /\ lapsed = {}
  /\ requests = 0 /\ crashes = 0

Create(t) == \/ \E r \in Requests : CreateBooking(t, r) \/ CreateTrip(t, r)
             \/ RouteArrives(t)
             \/ OrderCreated(t)
             \/ OrderFails(t)

Manage(id) == \/ CancelBooking(id)
              \/ \E s \in Statuses \ {"PendingPayment"} : UpdateBooking(id, s)
              \/ CloseTrip(id)
              \/ \E p \in Periods : ModifyBooking(id, p)
              \/ DeleteBooking(id)
              \/ ReleaseHold(id)
              \/ RetryPayment(id)

Administer == \/ \E c \in Coupons, row \in CouponRows : CreateCoupon(c, row)
              \/ \E c \in DOMAIN coupons :
                   RemoveCoupon(c) \/ \E row \in CouponRows : PatchCoupon(c, row)

Pay(id) == ConfirmBooking(id) \/ PaymentFails(id)

\* The server stops and comes back; what its handlers were waiting for is lost.
Restart ==
  /\ crashes < MaxCrashes
  /\ crashes' = crashes + 1
  /\ pc' = [t \in Threads |-> "idle"]
  /\ task' = [t \in Threads |-> NoTask]
  /\ UNCHANGED <<stored, now, history, requests>>

TimePasses == /\ now < MaxNow
              /\ now' = now + 1
              /\ UNCHANGED <<stored, pc, task, history, counts>>

Handle == \/ \E t \in Threads : Create(t)
          \/ \E id \in Refs : Manage(id)
          \/ Administer
          \/ \E id \in 1..MaxId : Pay(id)

Next == Handle \/ Restart \/ TimePasses

Spec == Init /\ [][Next]_vars

-----------------------------------------------------------------------------
Booking == [serial : Nat, owner : Customers, coupon : Coupons \cup {None},
            period : Periods, vehicle : Vehicles \cup {None},
            released : BOOLEAN, closed : BOOLEAN, status : Statuses]

\* Every variable stays in the set its code keeps it in.
TypeOK ==
  /\ Refs \subseteq 1..MaxId /\ \A id \in Refs : bookings[id] \in Booking
  /\ DOMAIN coupons \cup deleted \subseteq Coupons
  /\ \A c \in DOMAIN coupons : coupons[c] \in CouponRows
  /\ DOMAIN redemptions \subseteq 1..MaxId
  /\ \A id \in DOMAIN redemptions : redemptions[id] \in [coupon : Coupons, email : Customers]
  /\ orders \in [1..MaxId -> {"none", "open", "paid"}]
  /\ pc \in [Threads -> {"idle", "route", "order"}]
  /\ task \in [Threads -> [id : 0..MaxId] \cup Requests]
  /\ \A t \in Threads : /\ pc[t] = "route" => task[t] \in Requests
                        /\ pc[t] = "order" => task[t] \in [id : 1..MaxId]
  /\ now \in Nat /\ created \in Nat /\ lapsed \subseteq Nat
  /\ requests \in Nat /\ crashes \in Nat

\* A booking on file is never replaced by another one: however requests wait
\* and bookings are deleted, an insert takes a reference nobody has (insertBooking
\* overwrites what it finds).
BookingsKept ==
  [][\A id \in Refs : id \in DOMAIN bookings' => bookings'[id].serial = bookings[id].serial]_vars

\* A use is added only within the limit that holds at that moment, and once per
\* customer where the coupon says so, whatever other requests did while this one
\* was waiting for its route.
UsesWithinLimit ==
  [][\A c \in Coupons :
       LET uses == {id \in DOMAIN redemptions' : redemptions'[id].coupon = c}
           of(who) == {id \in uses : redemptions'[id].email = who}
       IN uses \subseteq Uses(c)
          \/ /\ c \in DOMAIN coupons /\ coupons[c].active
             /\ Cardinality(uses) <= coupons[c].limit
             /\ \A id \in uses \ Uses(c) :
                  coupons[c].once => Cardinality(of(redemptions'[id].email)) = 1]_vars

\* The discount of every booking that was never cancelled is counted as a use
\* of its coupon by its owner.
DiscountIsCounted ==
  \A id \in Refs :
    LET b == bookings[id]
    IN b.coupon # None /\ b.serial \notin lapsed =>
         id \in DOMAIN redemptions /\ redemptions[id] = [coupon |-> b.coupon, email |-> b.owner]

\* A cancelled booking holds neither a use of a coupon nor a vehicle, by
\* whichever of the two handlers it was cancelled.
CancelledHoldsNothing ==
  \A id \in Refs : bookings[id].status = "Cancelled" =>
                     id \notin DOMAIN redemptions /\ ~HoldsUnit(bookings[id])

=============================================================================
