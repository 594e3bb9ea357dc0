--------------------------- MODULE BookingsProofs ---------------------------
(***************************************************************************)
(* Proofs about Bookings and Reminders for every set of customers, coupons,*)
(* vehicles and requests and every bound: type correctness, and the five   *)
(* properties the run checks.  Every handler has one of five effects on    *)
(* the bookings and the uses of coupons (Effects); the invariants are      *)
(* proved of the effects.                                                  *)
(***************************************************************************)
EXTENDS Reminders, FiniteSetTheorems, TLAPS

-----------------------------------------------------------------------------
(* The parts of the type invariant *)

BookingsOK == Refs \subseteq 1..MaxId /\ \A id \in Refs : bookings[id] \in Booking

CouponsOK == /\ DOMAIN coupons \cup deleted \subseteq Coupons
             /\ \A c \in DOMAIN coupons : coupons[c] \in CouponRows

Redemption == [coupon : Coupons, email : Customers]
RedemptionsOK == /\ DOMAIN redemptions \subseteq 1..MaxId
                 /\ \A id \in DOMAIN redemptions : redemptions[id] \in Redemption

OrdersOK == orders \in [1..MaxId -> {"none", "open", "paid"}]

ThreadsOK == /\ pc \in [Threads -> {"idle", "route", "order"}]
             /\ task \in [Threads -> [id : 0..MaxId] \cup Requests]
             /\ \A t \in Threads : /\ pc[t] = "route" => task[t] \in Requests
                                   /\ pc[t] = "order" => task[t] \in [id : 1..MaxId]

CountsOK == /\ now \in Nat /\ created \in Nat /\ lapsed \subseteq Nat
            /\ requests \in Nat /\ crashes \in Nat

StoredOK == BookingsOK /\ CouponsOK /\ RedemptionsOK /\ OrdersOK

LEMMA TypeParts ==
  /\ TypeOK <=> StoredOK /\ ThreadsOK /\ CountsOK
  /\ TypeOK' <=> StoredOK' /\ ThreadsOK' /\ CountsOK'
BY DEF TypeOK, StoredOK, BookingsOK, CouponsOK, RedemptionsOK, Redemption, OrdersOK,
       ThreadsOK, CountsOK

-----------------------------------------------------------------------------
(* The effects of a step on the bookings and the uses *)

uses == <<bookings, redemptions, created, lapsed>>

Untouched == UNCHANGED uses

Inserted(r, c, id) ==
  /\ NewBookingId(id) /\ created' = created + 1
  /\ bookings' = [i \in Refs \cup {id} |-> IF i = id THEN NewBooking(r, c) ELSE bookings[i]]
  /\ redemptions' = Redeemed(c, id, r.owner)
  /\ UNCHANGED lapsed

\* The record becomes b: another status but a cancellation, another period,
\* a unit released.
Edited(id, b) ==
  /\ bookings' = [bookings EXCEPT ![id] = b]
  /\ b.serial = bookings[id].serial /\ b.owner = bookings[id].owner
  /\ b.coupon = bookings[id].coupon
  /\ b.status = "Cancelled" => bookings[id].status = "Cancelled"
  /\ UNCHANGED <<redemptions, created, lapsed>>

Dropped(id) == Cancelled(id) /\ UNCHANGED created

Deleted(id) == /\ bookings' = [i \in Refs \ {id} |-> bookings[i]]
               /\ UNCHANGED <<redemptions, created, lapsed>>

SomeInserted == \E r \in Requests, id \in 1..MaxId : \E c \in Found(r) : Inserted(r, c, id)
SomeEdited == \E id \in Refs, b \in Booking : Edited(id, b)

Effects == \/ Untouched \/ SomeInserted \/ SomeEdited
           \/ \E id \in Refs : Dropped(id) \/ Deleted(id)

\* A new status makes a booking of a booking.
LEMMA StatusEdit ==
  ASSUME BookingsOK, NEW id \in Refs, NEW s \in Statuses \ {"Cancelled"},
         bookings' = SetStatus(id, s), UNCHANGED <<redemptions, created, lapsed>>
  PROVE  Effects
<1> DEFINE b == [bookings[id] EXCEPT !.status = s]
<1>1. bookings[id] \in Booking
  BY DEF BookingsOK
<1>2. b \in Booking /\ b.status = s
      /\ b.serial = bookings[id].serial /\ b.owner = bookings[id].owner
      /\ b.coupon = bookings[id].coupon
  BY <1>1 DEF Booking
<1>3. bookings' = [bookings EXCEPT ![id] = b]
  BY DEF SetStatus
<1>4. Edited(id, b)
  BY <1>2, <1>3 DEF Edited
<1> QED BY <1>2, <1>4 DEF Effects, SomeEdited

\* Place inserts a booking or leaves everything alone.
LEMMA PlaceEffects ==
  ASSUME NEW t \in Threads, NEW r \in Requests, Place(t, r), UNCHANGED lapsed
  PROVE  Effects
<1>1. CASE Found(r) = {} /\ UNCHANGED <<bookings, redemptions, created>>
  BY <1>1 DEF Effects, Untouched, uses
<1>2. ASSUME NEW c \in Found(r), NEW id \in 1..MaxId, Insert(t, r, c, id)
      PROVE  Effects
  <2>1. Inserted(r, c, id)
    BY <1>2 DEF Insert, Inserted
  <2> QED BY <2>1 DEF Effects, SomeInserted
<1> QED BY <1>1, <1>2 DEF Place

LEMMA CreateEffects ==
  ASSUME TypeOK, NEW t \in Threads, Create(t)
  PROVE  Effects
<1>0. BookingsOK /\ ThreadsOK
  BY TypeParts DEF StoredOK
<1>1. ASSUME NEW r \in Requests, CreateBooking(t, r) PROVE Effects
  BY <1>1, PlaceEffects DEF CreateBooking
<1>2. ASSUME NEW r \in Requests, CreateTrip(t, r) PROVE Effects
  BY <1>2 DEF CreateTrip, stored, history, Effects, Untouched, uses
<1>3. CASE RouteArrives(t)
  <2>1. task[t] \in Requests
    BY <1>0, <1>3 DEF RouteArrives, ThreadsOK
  <2> QED BY <1>3, <2>1, PlaceEffects DEF RouteArrives
<1>4. CASE OrderCreated(t)
  BY <1>4 DEF OrderCreated, history, Effects, Untouched, uses
<1>5. CASE OrderFails(t)
  <2>1. CASE task[t].id \in Refs
    <3>1. bookings' = SetStatus(task[t].id, "Pending")
          /\ UNCHANGED <<redemptions, created, lapsed>>
      BY <1>5, <2>1 DEF OrderFails, history
    <3> QED BY <1>0, <2>1, <3>1, StatusEdit DEF Statuses
  <2>2. CASE task[t].id \notin Refs
    BY <1>5, <2>2 DEF OrderFails, history, Effects, Untouched, uses
  <2> QED BY <2>1, <2>2
<1> QED BY <1>1, <1>2, <1>3, <1>4, <1>5 DEF Create

LEMMA ManageEffects ==
  ASSUME TypeOK, NEW id \in Refs, Manage(id)
  PROVE  Effects
<1>0. BookingsOK /\ bookings[id] \in Booking
  BY TypeParts DEF StoredOK, BookingsOK
<1>1. CASE CancelBooking(id)
  BY <1>1 DEF CancelBooking, Effects, Dropped
<1>2. ASSUME NEW s \in Statuses \ {"PendingPayment"}, UpdateBooking(id, s)
      PROVE  Effects
  <2>1. CASE s = "Cancelled"
    BY <1>2, <2>1 DEF UpdateBooking, Effects, Dropped
  <2>2. CASE s # "Cancelled"
    <3>1. bookings' = SetStatus(id, s) /\ UNCHANGED <<redemptions, created, lapsed>>
      BY <1>2, <2>2 DEF UpdateBooking
    <3> QED BY <1>0, <2>2, <3>1, StatusEdit
  <2> QED BY <2>1, <2>2
<1>3. CASE CloseTrip(id)
  <2> DEFINE b == [bookings[id] EXCEPT !.closed = TRUE, !.status = "Completed"]
  <2>1. b \in Booking /\ b.status = "Completed"
        /\ b.serial = bookings[id].serial /\ b.owner = bookings[id].owner
        /\ b.coupon = bookings[id].coupon
    BY <1>0 DEF Booking, Statuses
  <2>2. bookings' = [bookings EXCEPT ![id] = b] /\ UNCHANGED <<redemptions, created, lapsed>>
    BY <1>3 DEF CloseTrip, history
  <2>3. Edited(id, b)
    BY <2>1, <2>2 DEF Edited
  <2> QED BY <2>1, <2>3 DEF Effects, SomeEdited
<1>4. ASSUME NEW p \in Periods, ModifyBooking(id, p) PROVE Effects
  <2> DEFINE b == [bookings[id] EXCEPT !.period = p]
  <2>1. b \in Booking /\ b.status = bookings[id].status
        /\ b.serial = bookings[id].serial /\ b.owner = bookings[id].owner
        /\ b.coupon = bookings[id].coupon
    BY <1>0 DEF Booking
  <2>2. bookings' = [bookings EXCEPT ![id] = b] /\ UNCHANGED <<redemptions, created, lapsed>>
    BY <1>4 DEF ModifyBooking, history
  <2>3. Edited(id, b)
    BY <2>1, <2>2 DEF Edited
  <2> QED BY <2>1, <2>3 DEF Effects, SomeEdited
<1>5. CASE DeleteBooking(id)
  BY <1>5 DEF DeleteBooking, history, Effects, Deleted
<1>6. CASE ReleaseHold(id)
  <2> DEFINE b == [bookings[id] EXCEPT !.released = TRUE]
  <2>1. b \in Booking /\ b.status = bookings[id].status
        /\ b.serial = bookings[id].serial /\ b.owner = bookings[id].owner
        /\ b.coupon = bookings[id].coupon
    BY <1>0 DEF Booking
  <2>2. bookings' = [bookings EXCEPT ![id] = b] /\ UNCHANGED <<redemptions, created, lapsed>>
    BY <1>6 DEF ReleaseHold, history
  <2>3. Edited(id, b)
    BY <2>1, <2>2 DEF Edited
  <2> QED BY <2>1, <2>3 DEF Effects, SomeEdited
<1>7. CASE RetryPayment(id)
  BY <1>7 DEF RetryPayment, history, Effects, Untouched, uses
<1> QED BY <1>1, <1>2, <1>3, <1>4, <1>5, <1>6, <1>7 DEF Manage

LEMMA PayEffects ==
  ASSUME TypeOK, NEW id \in 1..MaxId, Pay(id)
  PROVE  Effects
<1>0. BookingsOK
  BY TypeParts DEF StoredOK
<1>1. CASE ConfirmBooking(id)
  <2>1. CASE id \in Refs
    <3>1. bookings' = SetStatus(id, "Approved") /\ UNCHANGED <<redemptions, created, lapsed>>
      BY <1>1, <2>1 DEF ConfirmBooking, history
    <3> QED BY <1>0, <2>1, <3>1, StatusEdit DEF Statuses
  <2>2. CASE id \notin Refs
    BY <1>1, <2>2 DEF ConfirmBooking, history, Effects, Untouched, uses
  <2> QED BY <2>1, <2>2
<1>2. CASE PaymentFails(id)
  BY <1>2 DEF PaymentFails, history, Effects, Untouched, uses
<1> QED BY <1>1, <1>2 DEF Pay

LEMMA AdministerEffects == Administer => Effects
BY DEF Administer, CreateCoupon, PatchCoupon, RemoveCoupon, OthersUnchanged, history,
       Effects, Untouched, uses

LEMMA HandleEffects == TypeOK /\ Handle => Effects
BY CreateEffects, ManageEffects, PayEffects, AdministerEffects DEF Handle

LEMMA NextEffects == TypeOK /\ [Next]_vars => Effects
<1>1. TypeOK /\ Restart => Effects
  BY DEF Restart, stored, history, Effects, Untouched, uses
<1>2. TypeOK /\ TimePasses => Effects
  BY DEF TimePasses, stored, history, Effects, Untouched, uses
<1>3. UNCHANGED vars => Effects
  BY DEF vars, stored, history, Effects, Untouched, uses
<1> QED BY <1>1, <1>2, <1>3, HandleEffects DEF Next

-----------------------------------------------------------------------------
(* What the effects keep *)

\* What is left of a record that is neither inserted nor deleted.
Same(i) == /\ bookings'[i] \in Booking
           /\ bookings'[i].serial = bookings[i].serial
           /\ bookings'[i].owner = bookings[i].owner
           /\ bookings'[i].coupon = bookings[i].coupon

EditFacts ==
  /\ Refs' = Refs
  /\ \A i \in Refs : /\ Same(i)
                     /\ bookings'[i].status = "Cancelled" => bookings[i].status = "Cancelled"

LEMMA EditedRecords ==
  ASSUME BookingsOK, NEW id \in Refs, NEW b \in Booking, Edited(id, b)
  PROVE  EditFacts
<1>1. Refs' = Refs
  BY DEF Edited, Refs
<1>2. bookings'[id] = b /\ \A i \in Refs \ {id} : bookings'[i] = bookings[i]
  BY DEF Edited, Refs
<1> QED BY <1>1, <1>2 DEF BookingsOK, Edited, EditFacts, Same

\* What a cancellation leaves.
DropFacts(id) ==
  /\ Refs' = Refs
  /\ \A i \in Refs : Same(i) /\ (i # id => bookings'[i] = bookings[i])
  /\ lapsed' = lapsed \cup {bookings[id].serial}
  /\ DOMAIN redemptions' = DOMAIN redemptions \ {id}
  /\ \A i \in DOMAIN redemptions' : redemptions'[i] = redemptions[i]

LEMMA DroppedRecords ==
  ASSUME BookingsOK, NEW id \in Refs, Dropped(id)
  PROVE  DropFacts(id)
<1> DEFINE b == [bookings[id] EXCEPT !.status = "Cancelled"]
<1>1. bookings' = [bookings EXCEPT ![id] = b]
  BY DEF Dropped, Cancelled, SetStatus
<1>2. b \in Booking /\ b.serial = bookings[id].serial /\ b.owner = bookings[id].owner
      /\ b.coupon = bookings[id].coupon
  BY DEF BookingsOK, Booking, Statuses
<1>3. Refs' = Refs /\ bookings'[id] = b /\ \A i \in Refs \ {id} : bookings'[i] = bookings[i]
  BY <1>1 DEF Refs
<1>4. redemptions' = [i \in DOMAIN redemptions \ {id} |-> redemptions[i]]
  BY DEF Dropped, Cancelled, Release
<1> HIDE DEF b
<1> QED BY <1>2, <1>3, <1>4 DEF BookingsOK, Dropped, Cancelled, DropFacts, Same

\* What an insert adds.  The coupon passed its check.
InsertFacts(r, c, id) ==
  /\ id \notin Refs /\ Refs' = Refs \cup {id}
  /\ bookings'[id] \in Booking
  /\ bookings'[id].coupon = c /\ bookings'[id].owner = r.owner
  /\ bookings'[id].status # "Cancelled"
  /\ \A i \in Refs : bookings'[i] = bookings[i]
  /\ r.owner \in Customers
  /\ c = None => redemptions' = redemptions
  /\ c # None => /\ c \in Coupons /\ Checked(c, r.owner)
                 /\ DOMAIN redemptions' = DOMAIN redemptions \cup {id}
                 /\ redemptions'[id] = [coupon |-> c, email |-> r.owner]
                 /\ \A i \in DOMAIN redemptions \ {id} : redemptions'[i] = redemptions[i]

LEMMA InsertedRecords ==
  ASSUME CountsOK, NEW r \in Requests, NEW id \in 1..MaxId, NEW c \in Found(r),
         Inserted(r, c, id), BookingsOK
  PROVE  InsertFacts(r, c, id)
<1>1. r \in [owner : Customers, coupon : BOOLEAN, online : BOOLEAN,
             period : Periods, vehicle : Vehicles \cup {None}]
  BY BookingsAssumption
<1>2. c = None \/ (c \in Coupons /\ Checked(c, r.owner))
  BY DEF Found
<1>3. id \notin Refs
  <2>1. \A i \in Refs : i < id
    BY DEF Inserted, NewBookingId
  <2>2. ~(id < id)
    OBVIOUS
  <2> QED BY <2>1, <2>2
<1>4. Refs' = Refs \cup {id} /\ bookings'[id] = NewBooking(r, c)
      /\ \A i \in Refs : bookings'[i] = bookings[i]
  BY <1>3 DEF Inserted, Refs
<1>5. created + 1 \in Nat
  BY DEF CountsOK
<1>6. NewBooking(r, c) \in Booking /\ NewBooking(r, c).coupon = c
      /\ NewBooking(r, c).owner = r.owner /\ NewBooking(r, c).status # "Cancelled"
  BY <1>1, <1>2, <1>5 DEF NewBooking, Booking, Statuses
<1>7. redemptions' = Redeemed(c, id, r.owner)
  BY DEF Inserted
<1>8. c = None => redemptions' = redemptions
  BY <1>7 DEF Redeemed
<1>9. c # None => /\ DOMAIN redemptions' = DOMAIN redemptions \cup {id}
                  /\ redemptions'[id] = [coupon |-> c, email |-> r.owner]
                  /\ \A i \in DOMAIN redemptions \ {id} : redemptions'[i] = redemptions[i]
  BY <1>7 DEF Redeemed
<1> QED BY <1>1, <1>2, <1>3, <1>4, <1>6, <1>8, <1>9 DEF InsertFacts

LEMMA EffectsType ==
  ASSUME BookingsOK, RedemptionsOK, CountsOK, Effects
  PROVE  /\ BookingsOK' /\ RedemptionsOK'
         /\ created' \in Nat /\ lapsed' \subseteq Nat
<1>1. CASE Untouched
  BY <1>1 DEF Untouched, uses, BookingsOK, RedemptionsOK, CountsOK, Refs
<1>2. ASSUME NEW r \in Requests, NEW id \in 1..MaxId, NEW c \in Found(r), Inserted(r, c, id)
      PROVE  BookingsOK' /\ RedemptionsOK' /\ created' \in Nat /\ lapsed' \subseteq Nat
  <2>0. InsertFacts(r, c, id)
    BY <1>2, InsertedRecords
  <2>1. BookingsOK'
    BY <2>0 DEF BookingsOK, InsertFacts
  <2>2. RedemptionsOK'
    BY <2>0 DEF RedemptionsOK, Redemption, InsertFacts
  <2> QED BY <1>2, <2>1, <2>2 DEF Inserted, CountsOK
<1>3. ASSUME NEW id \in Refs, NEW b \in Booking, Edited(id, b)
      PROVE  BookingsOK' /\ RedemptionsOK' /\ created' \in Nat /\ lapsed' \subseteq Nat
  <2>1. BookingsOK'
    BY <1>3, EditedRecords DEF BookingsOK, EditFacts, Same
  <2> QED BY <1>3, <2>1 DEF Edited, RedemptionsOK, CountsOK
<1>4. ASSUME NEW id \in Refs, Dropped(id)
      PROVE  BookingsOK' /\ RedemptionsOK' /\ created' \in Nat /\ lapsed' \subseteq Nat
  <2>0. DropFacts(id)
    BY <1>4, DroppedRecords
  <2>1. bookings[id].serial \in Nat
    BY DEF BookingsOK, Booking
  <2>2. BookingsOK' /\ RedemptionsOK'
    BY <2>0 DEF BookingsOK, RedemptionsOK, DropFacts, Same
  <2> QED BY <1>4, <2>0, <2>1, <2>2 DEF CountsOK, Dropped, DropFacts
<1>5. ASSUME NEW id \in Refs, Deleted(id)
      PROVE  BookingsOK' /\ RedemptionsOK' /\ created' \in Nat /\ lapsed' \subseteq Nat
  BY <1>5 DEF Deleted, BookingsOK, RedemptionsOK, CountsOK, Refs
<1> QED BY <1>1, <1>2, <1>3, <1>4, <1>5 DEF Effects, SomeInserted, SomeEdited

LEMMA EffectsDiscount ==
  ASSUME BookingsOK, RedemptionsOK, CountsOK, DiscountIsCounted, Effects
  PROVE  DiscountIsCounted'
<1> SUFFICES ASSUME NEW i \in Refs', bookings'[i].coupon # None,
                    bookings'[i].serial \notin lapsed'
             PROVE  /\ i \in DOMAIN redemptions'
                    /\ redemptions'[i] = [coupon |-> bookings'[i].coupon, email |-> bookings'[i].owner]
  BY DEF DiscountIsCounted, Refs
<1> DEFINE Counted == /\ i \in DOMAIN redemptions'
                      /\ redemptions'[i] = [coupon |-> bookings'[i].coupon, email |-> bookings'[i].owner]
<1>0. ASSUME i \in Refs, bookings[i].coupon # None, bookings[i].serial \notin lapsed
      PROVE  /\ i \in DOMAIN redemptions
             /\ redemptions[i] = [coupon |-> bookings[i].coupon, email |-> bookings[i].owner]
  BY <1>0 DEF DiscountIsCounted
<1>1. CASE Untouched
  BY <1>0, <1>1 DEF Untouched, uses, Refs
<1>2. ASSUME NEW r \in Requests, NEW id \in 1..MaxId, NEW c \in Found(r), Inserted(r, c, id)
      PROVE  Counted
  <2>1. lapsed' = lapsed
    BY <1>2 DEF Inserted
  <2>0. InsertFacts(r, c, id)
    BY <1>2, InsertedRecords
  <2>2. CASE i = id
    BY <2>0, <2>2 DEF InsertFacts
  <2>3. CASE i # id
    BY <1>0, <2>0, <2>1, <2>3 DEF InsertFacts
  <2> QED BY <2>2, <2>3
<1>3. ASSUME NEW id \in Refs, NEW b \in Booking, Edited(id, b)
      PROVE  Counted
  <2>0. EditFacts
    BY <1>3, EditedRecords
  <2> QED BY <1>0, <1>3, <2>0 DEF Edited, EditFacts, Same
<1>4. ASSUME NEW id \in Refs, Dropped(id)
      PROVE  Counted
  <2>0. DropFacts(id)
    BY <1>4, DroppedRecords
  <2> QED BY <1>0, <2>0 DEF DropFacts, Same
<1>5. ASSUME NEW id \in Refs, Deleted(id)
      PROVE  Counted
  BY <1>0, <1>5 DEF Deleted, Refs
<1> QED BY <1>1, <1>2, <1>3, <1>4, <1>5 DEF Effects, SomeInserted, SomeEdited

\* The half of CancelledHoldsNothing that is about coupons; the other half is
\* the definition of HoldsUnit.
CancelledIsReleased ==
  \A id \in Refs : bookings[id].status = "Cancelled" => id \notin DOMAIN redemptions

LEMMA CancelledHolds == CancelledIsReleased <=> CancelledHoldsNothing
BY DEF CancelledIsReleased, CancelledHoldsNothing, HoldsUnit

LEMMA EffectsCancelled ==
  ASSUME BookingsOK, RedemptionsOK, CountsOK, CancelledIsReleased, Effects
  PROVE  CancelledIsReleased'
<1> SUFFICES ASSUME NEW i \in Refs', bookings'[i].status = "Cancelled"
             PROVE  i \notin DOMAIN redemptions'
  BY DEF CancelledIsReleased, Refs
<1>0. i \in Refs /\ bookings[i].status = "Cancelled" => i \notin DOMAIN redemptions
  BY DEF CancelledIsReleased
<1>1. CASE Untouched
  BY <1>0, <1>1 DEF Untouched, uses, Refs
<1>2. ASSUME NEW r \in Requests, NEW id \in 1..MaxId, NEW c \in Found(r), Inserted(r, c, id)
      PROVE  i \notin DOMAIN redemptions'
  <2>0. InsertFacts(r, c, id)
    BY <1>2, InsertedRecords
  <2> QED BY <1>0, <2>0 DEF InsertFacts
<1>3. ASSUME NEW id \in Refs, NEW b \in Booking, Edited(id, b)
      PROVE  i \notin DOMAIN redemptions'
  <2>0. EditFacts
    BY <1>3, EditedRecords
  <2> QED BY <1>0, <1>3, <2>0 DEF Edited, EditFacts, Same
<1>4. ASSUME NEW id \in Refs, Dropped(id)
      PROVE  i \notin DOMAIN redemptions'
  <2>0. DropFacts(id)
    BY <1>4, DroppedRecords
  <2> QED BY <1>0, <2>0 DEF DropFacts, Same
<1>5. ASSUME NEW id \in Refs, Deleted(id)
      PROVE  i \notin DOMAIN redemptions'
  BY <1>0, <1>5 DEF Deleted, Refs
<1> QED BY <1>1, <1>2, <1>3, <1>4, <1>5 DEF Effects, SomeInserted, SomeEdited

\* A booking is replaced by none: an insert takes a free reference.
Kept == \A i \in Refs : i \in DOMAIN bookings' => bookings'[i].serial = bookings[i].serial

LEMMA EffectsKept ==
  ASSUME BookingsOK, CountsOK, Effects
  PROVE  Kept
<1>1. CASE Untouched
  BY <1>1 DEF Untouched, uses, Kept
<1>2. ASSUME NEW r \in Requests, NEW id \in 1..MaxId, NEW c \in Found(r), Inserted(r, c, id)
      PROVE  Kept
  <2>0. InsertFacts(r, c, id)
    BY <1>2, InsertedRecords
  <2> QED BY <2>0 DEF InsertFacts, Kept
<1>3. ASSUME NEW id \in Refs, NEW b \in Booking, Edited(id, b)
      PROVE  Kept
  <2>0. EditFacts
    BY <1>3, EditedRecords
  <2> QED BY <2>0 DEF EditFacts, Same, Kept
<1>4. ASSUME NEW id \in Refs, Dropped(id)
      PROVE  Kept
  <2>0. DropFacts(id)
    BY <1>4, DroppedRecords
  <2> QED BY <2>0 DEF DropFacts, Same, Kept
<1>5. ASSUME NEW id \in Refs, Deleted(id)
      PROVE  Kept
  BY <1>5 DEF Deleted, Kept, Refs
<1> QED BY <1>1, <1>2, <1>3, <1>4, <1>5 DEF Effects, SomeInserted, SomeEdited

-----------------------------------------------------------------------------
(* The limits of a coupon *)

NewUses(c) == {id \in DOMAIN redemptions' : redemptions'[id].coupon = c}
NewUsesOf(c, who) == {id \in NewUses(c) : redemptions'[id].email = who}

WithinLimit(c) ==
  \/ NewUses(c) \subseteq Uses(c)
  \/ /\ c \in DOMAIN coupons /\ coupons[c].active
     /\ Cardinality(NewUses(c)) <= coupons[c].limit
     /\ \A id \in NewUses(c) \ Uses(c) :
          coupons[c].once => Cardinality(NewUsesOf(c, redemptions'[id].email)) = 1

\* A use more than there were, of a coupon that passed its check.
LEMMA InsertWithinLimit ==
  ASSUME StoredOK, CountsOK, NEW r \in Requests, NEW id \in 1..MaxId, NEW c \in Found(r),
         Inserted(r, c, id), NEW d \in Coupons
  PROVE  WithinLimit(d)
<1>0. InsertFacts(r, c, id)
  BY InsertedRecords DEF StoredOK
<1>1. CASE c = None
  BY <1>0, <1>1 DEF InsertFacts, WithinLimit, NewUses, Uses
<1>2. CASE c # None /\ d # c
  BY <1>0, <1>2 DEF InsertFacts, WithinLimit, NewUses, Uses
<1>3. CASE c # None /\ d = c
  <2>1. /\ DOMAIN redemptions' = DOMAIN redemptions \cup {id}
        /\ redemptions'[id] = [coupon |-> c, email |-> r.owner]
        /\ \A i \in DOMAIN redemptions \ {id} : redemptions'[i] = redemptions[i]
        /\ c \in DOMAIN coupons /\ coupons[c].active
        /\ Cardinality(Uses(c)) < coupons[c].limit
        /\ coupons[c].once => ~HasRedeemed(c, r.owner)
    BY <1>0, <1>3 DEF InsertFacts, Checked
  <2>2. NewUses(c) = Uses(c) \cup {id}
    BY <2>1 DEF NewUses, Uses
  <2>3. IsFiniteSet(Uses(c)) /\ Cardinality(Uses(c)) \in Nat
    <3>1. IsFiniteSet(1..MaxId)
      BY BookingsAssumption, FS_Interval
    <3>2. Uses(c) \subseteq 1..MaxId
      BY DEF Uses, StoredOK, RedemptionsOK
    <3>3. IsFiniteSet(Uses(c))
      BY <3>1, <3>2, FS_Subset
    <3> QED BY <3>3, FS_CardinalityType
  <2>4. coupons[c].limit \in Nat
    BY <2>1, BookingsAssumption DEF StoredOK, CouponsOK
  <2>5. Cardinality(NewUses(c)) <= coupons[c].limit
    <3>1. Cardinality(NewUses(c)) \in {Cardinality(Uses(c)), Cardinality(Uses(c)) + 1}
      BY <2>2, <2>3, FS_AddElement
    <3> QED BY <2>1, <2>3, <2>4, <3>1
  <2>6. ASSUME NEW i \in NewUses(c) \ Uses(c), coupons[c].once
        PROVE  Cardinality(NewUsesOf(c, redemptions'[i].email)) = 1
    <3>1. i = id /\ redemptions'[i].email = r.owner
      BY <2>1, <2>2, <2>6
    <3>2. \A j \in Uses(c) : redemptions[j].email # r.owner
      BY <2>1, <2>6 DEF HasRedeemed
    <3>3. id \notin Uses(c)
      BY <2>6, <3>1
    <3>4. \A j \in NewUses(c) : redemptions'[j].email = r.owner => j = id
      BY <2>1, <2>2, <3>2, <3>3 DEF Uses
    <3>5. NewUsesOf(c, r.owner) = {id}
      BY <2>1, <2>2, <3>4 DEF NewUsesOf
    <3> QED BY <3>1, <3>5, FS_Singleton
  <2> QED BY <1>3, <2>1, <2>5, <2>6 DEF WithinLimit
<1> QED BY <1>1, <1>2, <1>3

LEMMA EffectsLimit ==
  ASSUME StoredOK, CountsOK, Effects, NEW d \in Coupons
  PROVE  WithinLimit(d)
<1>1. ASSUME UNCHANGED redemptions PROVE WithinLimit(d)
  BY <1>1 DEF WithinLimit, NewUses, Uses
<1>2. ASSUME NEW id \in Refs, Dropped(id) PROVE WithinLimit(d)
  <2>0. DropFacts(id)
    BY <1>2, DroppedRecords DEF StoredOK
  <2> QED BY <2>0 DEF DropFacts, WithinLimit, NewUses, Uses
<1> QED BY <1>1, <1>2, InsertWithinLimit
        DEF Effects, Untouched, uses, SomeInserted, SomeEdited, Edited, Deleted

-----------------------------------------------------------------------------
(* The types of the rest *)

LEMMA LeaveType ==
  ASSUME ThreadsOK, NEW t \in Threads, Leave(t)
  PROVE  ThreadsOK'
<1>1. NoTask \in [id : 0..MaxId]
  BY BookingsAssumption DEF NoTask
<1> QED BY <1>1 DEF ThreadsOK, Leave

LEMMA PlaceType ==
  ASSUME ThreadsOK, CountsOK, NEW t \in Threads, NEW r \in Requests, Place(t, r)
  PROVE  ThreadsOK'
<1>1. ASSUME NEW c \in Found(r), NEW id \in 1..MaxId, Insert(t, r, c, id)
      PROVE  ThreadsOK'
  <2>1. CASE r.online /\ orders[id] = "none"
    <3>1. /\ pc' = [pc EXCEPT ![t] = "order"] /\ task' = [task EXCEPT ![t] = [id |-> id]]
      BY <1>1, <2>1 DEF Insert
    <3>2. [id |-> id] \in [id : 1..MaxId] /\ [id |-> id] \in [id : 0..MaxId]
      OBVIOUS
    <3> QED BY <3>1, <3>2 DEF ThreadsOK
  <2>2. CASE ~(r.online /\ orders[id] = "none")
    BY <1>1, <2>2, LeaveType DEF Insert
  <2> QED BY <2>1, <2>2
<1> QED BY <1>1, LeaveType DEF Place

LEMMA OrderType ==
  ASSUME OrdersOK, NEW id \in 1..MaxId, NEW s \in {"none", "open", "paid"},
         orders' = [orders EXCEPT ![id] = s]
  PROVE  OrdersOK'
BY DEF OrdersOK

\* What the variables that no effect is about keep.
RestOK == CouponsOK /\ OrdersOK /\ ThreadsOK /\ now \in Nat /\ requests \in Nat /\ crashes \in Nat

LEMMA CreateType ==
  ASSUME RestOK, CountsOK, NEW t \in Threads, Create(t)
  PROVE  RestOK'
<1> USE DEF RestOK, CouponsOK, OrdersOK
<1>1. ASSUME NEW r \in Requests, CreateBooking(t, r) PROVE RestOK'
  BY <1>1, PlaceType DEF CreateBooking, couponVars, Asked
<1>2. ASSUME NEW r \in Requests, CreateTrip(t, r) PROVE RestOK'
  <2>1. ThreadsOK'
    BY <1>2 DEF CreateTrip, ThreadsOK
  <2> QED BY <1>2, <2>1 DEF CreateTrip, stored, couponVars, Asked
<1>3. CASE RouteArrives(t)
  <2>1. task[t] \in Requests
    BY <1>3 DEF RouteArrives, ThreadsOK
  <2> QED BY <1>3, <2>1, PlaceType DEF RouteArrives, couponVars, counts
<1>4. CASE OrderCreated(t)
  <2>1. task[t].id \in 1..MaxId
    BY <1>4 DEF OrderCreated, ThreadsOK
  <2>2. ThreadsOK'
    BY <1>4, LeaveType DEF OrderCreated
  <2>3. OrdersOK'
    BY <1>4, <2>1 DEF OrderCreated, OpenOrder
  <2> QED BY <1>4, <2>2, <2>3 DEF OrderCreated, couponVars, counts
<1>5. CASE OrderFails(t)
  <2>2. ThreadsOK'
    BY <1>5, LeaveType DEF OrderFails
  <2> QED BY <1>5, <2>2 DEF OrderFails, couponVars, counts
<1> QED BY <1>1, <1>2, <1>3, <1>4, <1>5 DEF Create

LEMMA ManageType ==
  ASSUME RestOK, BookingsOK, NEW id \in Refs, Manage(id)
  PROVE  RestOK'
<1> USE DEF RestOK, CouponsOK, OrdersOK, ThreadsOK, Asked, couponVars
<1>1. CASE CancelBooking(id)
  BY <1>1 DEF CancelBooking
<1>2. ASSUME NEW s \in Statuses, UpdateBooking(id, s) PROVE RestOK'
  BY <1>2 DEF UpdateBooking
<1>3. CASE CloseTrip(id)
  BY <1>3 DEF CloseTrip
<1>4. ASSUME NEW p \in Periods, ModifyBooking(id, p) PROVE RestOK'
  BY <1>4 DEF ModifyBooking
<1>5. CASE DeleteBooking(id)
  BY <1>5 DEF DeleteBooking
<1>6. CASE ReleaseHold(id)
  BY <1>6 DEF ReleaseHold
<1>7. CASE RetryPayment(id)
  <2>1. id \in 1..MaxId
    BY DEF BookingsOK
  <2> QED BY <1>7, <2>1 DEF RetryPayment, OpenOrder
<1> QED BY <1>1, <1>2, <1>3, <1>4, <1>5, <1>6, <1>7 DEF Manage

LEMMA AdministerType == RestOK /\ Administer => RestOK'
<1> SUFFICES ASSUME RestOK, Administer PROVE RestOK'
  OBVIOUS
<1> USE DEF RestOK, CouponsOK, OrdersOK, ThreadsOK, Asked, OthersUnchanged
<1>1. ASSUME NEW c \in Coupons, NEW row \in CouponRows, CreateCoupon(c, row) PROVE RestOK'
  BY <1>1 DEF CreateCoupon
<1>2. ASSUME NEW c \in DOMAIN coupons, RemoveCoupon(c) PROVE RestOK'
  BY <1>2 DEF RemoveCoupon
<1>3. ASSUME NEW c \in DOMAIN coupons, NEW row \in CouponRows, PatchCoupon(c, row) PROVE RestOK'
  BY <1>3 DEF PatchCoupon
<1> QED BY <1>1, <1>2, <1>3 DEF Administer

LEMMA NextType == RestOK /\ BookingsOK /\ CountsOK /\ [Next]_vars => RestOK'
<1> SUFFICES ASSUME RestOK, BookingsOK, CountsOK, [Next]_vars PROVE RestOK'
  OBVIOUS
<1>1. ASSUME NEW id \in 1..MaxId, Pay(id) PROVE RestOK'
  BY <1>1 DEF Pay, ConfirmBooking, PaymentFails, RestOK, CouponsOK, OrdersOK, ThreadsOK,
              couponVars, counts
<1>2. CASE Restart
  <2>1. NoTask \in [id : 0..MaxId]
    BY BookingsAssumption DEF NoTask
  <2>2. ThreadsOK'
    BY <1>2, <2>1 DEF Restart, ThreadsOK
  <2> QED BY <1>2, <2>2 DEF Restart, RestOK, CouponsOK, OrdersOK, stored, couponVars
<1>3. CASE TimePasses
  BY <1>3 DEF TimePasses, RestOK, CouponsOK, OrdersOK, ThreadsOK, stored, couponVars, counts
<1>4. CASE UNCHANGED vars
  BY <1>4 DEF vars, RestOK, CouponsOK, OrdersOK, ThreadsOK, stored, couponVars, counts
<1> QED BY <1>1, <1>2, <1>3, <1>4, CreateType, ManageType, AdministerType DEF Next, Handle

-----------------------------------------------------------------------------
(* The sweep beside the bookings *)

\* A sweep leaves the bookings alone; every other step is one of Bookings.
LEMMA ReminderSteps == [ReminderNext]_allVars => [Next]_vars
BY DEF ReminderNext, allVars, Sweep, SweepThrows, HandleMeanwhile, Reboot, ClockAdvances, Next

LEMMA ReminderImplements == ReminderSpec => Spec
<1>1. ReminderInit => Init
  BY DEF ReminderInit
<1> QED BY <1>1, ReminderSteps, PTL DEF ReminderSpec, Spec

\* What is kept of the sweeps: the day of the next announcement is tomorrow in
\* the evening and today in the morning.
DueDay == IF Evening THEN today + 1 ELSE today

SweepsOK ==
  /\ lastSwept \in Int /\ lastSwept <= today
  /\ ~Evening => lastSwept < today
  /\ ~Evening \/ lastSwept = today =>
       \A id \in Refs \ late :
         Live(bookings[id]) /\ bookings[id].period[1] = DueDay => Key(id) \in reminded

LEMMA SweepsSafe == SweepsOK => TripsAreReminded
BY DEF SweepsOK, TripsAreReminded, DueDay

\* The two halves of a day.
LEMMA Days ==
  ASSUME NEW n \in Nat
  PROVE  /\ n \div 2 \in Nat
         /\ n % 2 = 1 => (n + 1) \div 2 = n \div 2 + 1 /\ (n + 1) % 2 # 1
         /\ n % 2 # 1 => (n + 1) \div 2 = n \div 2 /\ (n + 1) % 2 = 1
OBVIOUS

\* A record that an effect changes in what the sweep reads is touched.
LEMMA UntouchedRecords ==
  ASSUME BookingsOK, CountsOK, Effects, NEW id \in Refs', id \notin Touched
  PROVE  /\ id \in Refs /\ bookings'[id].status = bookings[id].status
         /\ bookings'[id].period = bookings[id].period
         /\ bookings'[id].owner = bookings[id].owner
<1>1. id \in Refs /\ bookings'[id].status = bookings[id].status
      /\ bookings'[id].period = bookings[id].period
  BY DEF Touched, Refs
<1>2. CASE Untouched
  BY <1>1, <1>2 DEF Untouched, uses
<1>3. ASSUME NEW r \in Requests, NEW i \in 1..MaxId, NEW c \in Found(r), Inserted(r, c, i)
      PROVE  bookings'[id].owner = bookings[id].owner
  <2>0. InsertFacts(r, c, i)
    BY <1>3, InsertedRecords
  <2> QED BY <1>1, <2>0 DEF InsertFacts
<1>4. ASSUME NEW i \in Refs, NEW b \in Booking, Edited(i, b)
      PROVE  bookings'[id].owner = bookings[id].owner
  <2>0. EditFacts
    BY <1>4, EditedRecords
  <2> QED BY <1>1, <2>0 DEF EditFacts, Same
<1>5. ASSUME NEW i \in Refs, Dropped(i)
      PROVE  bookings'[id].owner = bookings[id].owner
  <2>0. DropFacts(i)
    BY <1>5, DroppedRecords
  <2> QED BY <1>1, <2>0 DEF DropFacts, Same
<1>6. ASSUME NEW i \in Refs, Deleted(i)
      PROVE  bookings'[id].owner = bookings[id].owner
  BY <1>1, <1>6 DEF Deleted, Refs
<1> QED BY <1>1, <1>2, <1>3, <1>4, <1>5, <1>6 DEF Effects, SomeInserted, SomeEdited

LEMMA HandleSweeps ==
  ASSUME BookingsOK, CountsOK, SweepsOK, Effects, HandleMeanwhile, UNCHANGED now
  PROVE  SweepsOK'
<1>1. UNCHANGED <<now, lastSwept, reminded>> /\ late' = late \cup Touched
  BY DEF HandleMeanwhile
<1>2. today' = today /\ (Evening' <=> Evening) /\ DueDay' = DueDay
  BY <1>1 DEF today, Evening, DueDay
<1>3. ASSUME ~Evening \/ lastSwept = today, NEW id \in Refs' \ late',
             Live(bookings'[id]), bookings'[id].period[1] = DueDay
      PROVE  <<id, bookings'[id].owner>> \in reminded
  <2>1. id \notin Touched /\ id \notin late
    BY <1>1, <1>3
  <2>2. /\ id \in Refs /\ bookings'[id].status = bookings[id].status
        /\ bookings'[id].period = bookings[id].period
        /\ bookings'[id].owner = bookings[id].owner
    BY <1>3, <2>1, UntouchedRecords
  <2> QED BY <1>3, <2>1, <2>2 DEF SweepsOK, Live, Key
<1> QED BY <1>1, <1>2, <1>3 DEF SweepsOK, Key, Live

LEMMA HandleKeepsNow == Handle => UNCHANGED now
BY DEF Handle, Create, CreateBooking, CreateTrip, RouteArrives, OrderCreated, OrderFails,
       Manage, CancelBooking, UpdateBooking, CloseTrip, ModifyBooking, DeleteBooking,
       ReleaseHold, RetryPayment, Administer, CreateCoupon, PatchCoupon, RemoveCoupon,
       OthersUnchanged, Pay, ConfirmBooking, PaymentFails

LEMMA NextSweeps ==
  ASSUME TypeOK, SweepsOK, [ReminderNext]_allVars
  PROVE  SweepsOK'
<1>0. BookingsOK /\ CountsOK /\ now \in Nat
  BY TypeParts DEF StoredOK, CountsOK
<1>1. today \in Nat
  BY <1>0, Days DEF today
<1>2. CASE Sweep
  <2>1. UNCHANGED <<bookings, now>>
    BY <1>2 DEF Sweep, vars, stored
  <2>2. today' = today /\ Evening /\ Evening' /\ DueDay' = today + 1 /\ Refs' = Refs
    BY <1>2, <2>1 DEF today, Evening, DueDay, Refs, Sweep, SweepDue
  <2>3. \A id \in Refs : Live(bookings[id]) /\ bookings[id].period[1] = today + 1
                           => Key(id) \in reminded'
    BY <1>2 DEF Sweep, DueBookings
  <2> QED BY <1>1, <1>2, <2>1, <2>2, <2>3 DEF Sweep, SweepsOK, Key, Live
<1>3. CASE SweepThrows
  <2>1. UNCHANGED <<bookings, now>>
    BY <1>3 DEF SweepThrows, vars, stored
  <2>2. today' = today /\ Evening /\ Evening' /\ Refs' = Refs
    BY <1>3, <2>1 DEF today, Evening, Refs, SweepThrows, SweepDue
  <2> QED BY <1>1, <1>3, <2>2 DEF SweepThrows, SweepsOK
<1>4. CASE HandleMeanwhile
  <2>1. Effects /\ UNCHANGED now
    BY <1>4, HandleEffects, HandleKeepsNow DEF HandleMeanwhile
  <2> QED BY <1>0, <1>4, <2>1, HandleSweeps
<1>5. CASE Reboot
  <2>1. UNCHANGED <<bookings, now, reminded, late>> /\ lastSwept' = -1
    BY <1>5 DEF Reboot, Restart, stored, Never
  <2>2. today' = today /\ (Evening' <=> Evening) /\ DueDay' = DueDay /\ Refs' = Refs
    BY <2>1 DEF today, Evening, DueDay, Refs
  <2> QED BY <1>1, <2>1, <2>2 DEF SweepsOK, Key, Live
<1>6. CASE ClockAdvances
  <2>1. UNCHANGED <<bookings, lastSwept, reminded, late>> /\ now' = now + 1
    BY <1>6 DEF ClockAdvances, TimePasses, stored, reminderVars
  <2>2. Refs' = Refs
    BY <2>1 DEF Refs
  <2>3. CASE Evening
    <3>1. lastSwept = today
      BY <1>6, <2>3 DEF ClockAdvances, SweepDue
    <3>2. today' = today + 1 /\ ~Evening' /\ DueDay' = today + 1 /\ DueDay = today + 1
      BY <1>0, <2>1, <2>3, Days DEF today, Evening, DueDay
    <3> QED BY <1>1, <2>1, <2>2, <3>1, <3>2 DEF SweepsOK, Key, Live
  <2>4. CASE ~Evening
    <3>1. today' = today /\ Evening'
      BY <1>0, <2>1, <2>4, Days DEF today, Evening
    <3> QED BY <1>1, <2>1, <2>2, <2>4, <3>1 DEF SweepsOK
  <2> QED BY <2>3, <2>4
<1>7. CASE UNCHANGED allVars
  BY <1>7 DEF allVars, vars, stored, reminderVars, SweepsOK, DueDay, today, Evening, Refs, Key, Live
<1> QED BY <1>2, <1>3, <1>4, <1>5, <1>6, <1>7 DEF ReminderNext

-----------------------------------------------------------------------------
(* The theorems *)

LEMMA InitType == Init => TypeOK
BY BookingsAssumption DEF Init, TypeOK, NoTask, Refs

\* Every variable of the bookings stays in the set its code keeps it in.
THEOREM TypeCorrect == Spec => []TypeOK
<1>1. TypeOK /\ [Next]_vars => TypeOK'
  BY TypeParts, NextEffects, EffectsType, NextType DEF StoredOK, CountsOK, RestOK
<1> QED BY <1>1, InitType, PTL DEF Spec

\* The discount of every booking that was never cancelled stays counted.
THEOREM DiscountCounted == Spec => []DiscountIsCounted
<1>1. Init => DiscountIsCounted
  BY DEF Init, DiscountIsCounted, Refs
<1>2. TypeOK /\ DiscountIsCounted /\ [Next]_vars => DiscountIsCounted'
  BY TypeParts, NextEffects, EffectsDiscount DEF StoredOK
<1> QED BY <1>1, <1>2, TypeCorrect, PTL DEF Spec

\* A cancelled booking holds neither a coupon's use nor a vehicle.
THEOREM CancelledReleased == Spec => []CancelledHoldsNothing
<1>1. Init => CancelledIsReleased
  BY DEF Init, CancelledIsReleased, Refs
<1>2. TypeOK /\ CancelledIsReleased /\ [Next]_vars => CancelledIsReleased'
  BY TypeParts, NextEffects, EffectsCancelled DEF StoredOK
<1> QED BY <1>1, <1>2, TypeCorrect, CancelledHolds, PTL DEF Spec

\* No step replaces a booking on file by another one.
THEOREM NeverReplaced == Spec => BookingsKept
<1>1. TypeOK /\ [Next]_vars => [Kept]_vars
  BY TypeParts, NextEffects, EffectsKept DEF StoredOK
<1>2. [Kept]_vars => [\A id \in Refs : id \in DOMAIN bookings' =>
                        bookings'[id].serial = bookings[id].serial]_vars
  BY DEF Kept
<1> QED BY <1>1, <1>2, TypeCorrect, PTL DEF Spec, BookingsKept

\* No step adds a use beyond the coupon's limits of that moment.
THEOREM LimitsHold == Spec => UsesWithinLimit
<1>1. TypeOK /\ [Next]_vars => [\A c \in Coupons : WithinLimit(c)]_vars
  BY TypeParts, NextEffects, EffectsLimit
<1>2. [\A c \in Coupons : WithinLimit(c)]_vars =>
      [\A c \in Coupons :
         LET uss == {id \in DOMAIN redemptions' : redemptions'[id].coupon = c}
             of(who) == {id \in uss : redemptions'[id].email = who}
         IN uss \subseteq Uses(c)
            \/ /\ c \in DOMAIN coupons /\ coupons[c].active
               /\ Cardinality(uss) <= coupons[c].limit
               /\ \A id \in uss \ Uses(c) :
                    coupons[c].once => Cardinality(of(redemptions'[id].email)) = 1]_vars
  BY DEF WithinLimit, NewUses, NewUsesOf
<1> QED BY <1>1, <1>2, TypeCorrect, PTL DEF Spec, UsesWithinLimit

\* The morning of a trip finds it announced, however many handlers, restarts
\* and failed sweeps the days before saw.
THEOREM TripsReminded == ReminderSpec => []TripsAreReminded
<1>1. ReminderInit => SweepsOK
  BY BookingsAssumption DEF ReminderInit, Init, SweepsOK, Never, Refs, today, Evening
<1>2. TypeOK /\ SweepsOK /\ [ReminderNext]_allVars => SweepsOK'
  BY NextSweeps
<1> QED BY <1>1, <1>2, SweepsSafe, TypeCorrect, ReminderImplements, PTL DEF ReminderSpec

=============================================================================
