------------------------------- MODULE Quotes -------------------------------
(***************************************************************************)
(* From the results page to the final invoice: quoteTrip shows a price,    *)
(* createBooking prices the trip again over the same cached route          *)
(* (routing.js), an admin changes rates meanwhile, and closeTrip bills     *)
(* what the trip ran up.                                                   *)
(*                                                                         *)
(* A request waits for the routing service only; other visitors' requests  *)
(* share the cache.  What has no route (a package, a vehicle's card, an     *)
(* enquiry) is priced on the spot, and an old booking may be on file.      *)
(***************************************************************************)
EXTENDS Fares, FiniteSets

CONSTANTS
  Keys,         \* routes, rounded to four digits
  Requesters,   \* requests in flight
  Trips,        \* what the planner sends
  Road,         \* route -> km the routing service answers
  Estimate,     \* route -> km of the haversine estimate
  Cards,        \* rate cards the admin sets
  Coupons,      \* the coupon the customer enters
  Plans,        \* percentages asked in advance; 0 pays in full
  Listings,     \* requests without a route: [price, mode, percent] of the
                \* package (price 0: none), [vehicle, fare, km] of the client
  LegacyFares,  \* fares of bookings from before prices were itemised
  Closings,     \* [km, included, rate, other, tolls] of the trip's end, the
                \* included km and the rate None unless the admin gives them
  Ttl,          \* how long a route is kept
  CacheMax,     \* routes kept
  MaxNow, MaxRequests,   \* bounds of a behaviour
  None

\* Distances are rounded up to one km; an admin's form takes no negative rate,
\* a package asks for 99 percent at most.
ASSUME QuotesAssumption ==
  /\ Road \in [Keys -> Nat \ {0}] /\ Estimate \in [Keys -> Nat \ {0}]
  /\ \A raw \in Trips : raw.key \in Keys /\ raw.from \in Nat /\ raw.to \in Nat
  /\ \A c \in Cards : /\ c.perKm \in Nat /\ c.bata \in Nat /\ c.extraKm \in Nat
                      /\ c.local \in [DOMAIN PackageKms -> Nat]
  /\ \A c \in Coupons : c.value \in Nat /\ c.maxDiscount \in Nat /\ c.minAmount \in Nat
  /\ Plans \subseteq 0..99 /\ LegacyFares \subseteq Nat
  /\ \A l \in Listings : /\ l.price \in Nat /\ l.fare \in Nat /\ l.km \in Nat
                          /\ l.percent \in 0..99 /\ l.vehicle \in BOOLEAN
  /\ \A e \in Closings : /\ e.km \in Nat /\ e.other \in Nat /\ e.tolls \in Nat
                         /\ e.included # None => e.included \in Nat
                         /\ e.rate # None => e.rate \in Nat
  /\ Ttl \in Nat /\ CacheMax \in Nat \ {0}

VARIABLES
  card,      \* the vehicle's rates
  cache,     \* route -> what the Map has of it, with its place
  inserts,   \* history: cacheSet calls so far
  waiting,   \* requester -> what it asked the routing service for
  now, requests,
  shown,     \* the quote on the customer's screen
  booked,    \* the booking
  closure    \* its tripClosure

vars == <<card, cache, inserts, waiting, now, requests, shown, booked, closure>>

Idle == [kind |-> "none"]

-----------------------------------------------------------------------------
(* routing.js *)

NoRoute == [at |-> 0, km |-> 0, nth |-> 0]
Held == {key \in Keys : cache[key] # NoRoute}

TooOld(key) == now - cache[key].at > Ttl
Known(key) == key \in Held /\ ~TooOld(key)

\* cacheGet drops the entry it finds too old.
Pruned(key) == IF TooOld(key) THEN [cache EXCEPT ![key] = NoRoute] ELSE cache

First == {key \in Held : \A k \in Held : cache[key].nth <= cache[k].nth}
Last  == {key \in Held : \A k \in Held : cache[key].nth >= cache[k].nth}
Without(keys) == [key \in Keys |-> IF key \in keys THEN NoRoute ELSE cache[key]]

FullNewestFirst == IF Cardinality(Held) < CacheMax THEN cache ELSE Without(Last)   \* mutant
MadeRoom == IF Cardinality(Held) < CacheMax THEN cache ELSE Without(First)

\* cacheSet: a key that is still there keeps its place.
Stored(key) ==
  [MadeRoom EXCEPT ![key] =
     [at |-> now, km |-> Road[key], nth |-> IF @ = NoRoute THEN inserts + 1 ELSE @.nth]]

-----------------------------------------------------------------------------
(* What a request does with its route *)

Routed(trip, km) == [type |-> trip.type, days |-> trip.days, pkg |-> trip.pkg, km |-> km]

\* The quote of the results page remembers, as history, the entry it used.
Shown(trip, km, nth, at) ==
  [trip |-> trip, card |-> card, km |-> km, nth |-> nth, at |-> at,
   gross |-> Gross(card, Routed(trip, km))]

\* createBooking: coupon before GST, advance on the total.
PricingAfter(gross, c) ==
  LET off  == IF c = None THEN 0 ELSE CouponDiscount(gross, c)
      bill == ApplyGst(gross - off)
  IN [gross |-> gross, discount |-> off,
      subtotal |-> bill.subtotal, gst |-> bill.gst, total |-> bill.total]

AdvanceOf(total, percent) == IF percent = 0 THEN 0 ELSE Advance(total, percent)

CouponAccepted(gross, c) == c # None => CouponFits(gross, c)

TripBooking(trip, km, c, percent) ==
  LET t == Routed(trip, km)
      pricing == PricingAfter(Gross(card, t), c)
  IN [source |-> "trip", pricing |-> pricing, percent |-> percent,
      advance |-> AdvanceOf(pricing.total, percent), trip |-> trip, card |-> card, km |-> km,
      vehicle |-> TRUE, included |-> BillKm(t), perKm |-> card.perKm]

Answer(req, km, nth, at) ==
  CASE req.kind = "quote" -> /\ shown' = IF Serves(card, Routed(req.trip, km))
                                           THEN Shown(req.trip, km, nth, at) ELSE None
                             /\ UNCHANGED booked
    [] req.kind = "book"  -> /\ booked' = IF /\ Serves(card, Routed(req.trip, km))
                                             /\ CouponAccepted(Gross(card, Routed(req.trip, km)), req.coupon)
                                          THEN TripBooking(req.trip, km, req.coupon, req.plan)
                                          ELSE None
                             /\ UNCHANGED shown
    [] req.kind = "other" -> UNCHANGED <<shown, booked>>

\* An hourly rental has no route.
Ask(r, req) ==
  /\ waiting[r] = Idle /\ requests < MaxRequests
  /\ requests' = requests + 1
  /\ IF req.kind # "other" /\ req.trip.type = "hourly"
       THEN Answer(req, 0, 0, now) /\ UNCHANGED <<cache, waiting>>
       ELSE /\ cache' = Pruned(req.key)
            /\ IF Known(req.key)
                 THEN /\ LET hit == cache[req.key] IN Answer(req, hit.km, hit.nth, hit.at)
                      /\ UNCHANGED waiting
                 ELSE waiting' = [waiting EXCEPT ![r] = req] /\ UNCHANGED <<shown, booked>>
  /\ UNCHANGED <<card, inserts, now, closure>>

QuoteTrip(r, raw) ==
  /\ booked = None
  /\ ValidTrip(raw)
  /\ Ask(r, [kind |-> "quote", trip |-> NormalizedTrip(raw), key |-> raw.key])

CreateBooking(r, c, plan) ==
  /\ shown # None /\ booked = None
  /\ \A q \in Requesters : waiting[q].kind # "book"
  /\ Ask(r, [kind |-> "book", trip |-> shown.trip, key |-> shown.trip.key,
             coupon |-> c, plan |-> plan])

\* priceBookingRequest without a trip: a package without a price goes on as a
\* booking of its vehicle.  A client that sends a distance and a fare is an old
\* one; its fare is kept, unpriced.
Priced(l) ==
  IF l.price > 0 THEN QuotePackage(l.price)
  ELSE IF l.vehicle /\ ~(l.km > 0 /\ l.fare > 0) /\ card.local["8h80"] > 0
    THEN QuoteVehicleIndicative(card)
  ELSE QuoteEstimate(l.fare)

\* The package's mode overrides the client's plan; an estimate is not charged.
PlanOf(l, source, plan) ==
  CASE source = "estimate" -> 0
    [] source # "estimate" /\ l.mode = "none" -> plan
    [] source # "estimate" /\ l.mode = "partial" -> l.percent
    [] OTHER -> 0

ListedBooking(l, priced, c, percent) ==
  LET pricing == PricingAfter(priced.gross, c)
  IN [source |-> priced.source, pricing |-> pricing, percent |-> percent,
      advance |-> AdvanceOf(pricing.total, percent), trip |-> None, card |-> card, km |-> 0,
      vehicle |-> l.vehicle, included |-> IF priced.billKm > 0 THEN priced.billKm ELSE l.km,
      perKm |-> priced.perKm]

BookListed(l, c, plan) ==
  LET priced == Priced(l)
  IN /\ booked = None /\ \A q \in Requesters : waiting[q].kind # "book"
     /\ requests < MaxRequests /\ requests' = requests + 1
     /\ priced.gross > 0
     /\ IF priced.source = "estimate" THEN c = None ELSE CouponAccepted(priced.gross, c)
     /\ booked' = ListedBooking(l, priced, c, PlanOf(l, priced.source, plan))
     /\ UNCHANGED <<card, cache, inserts, waiting, now, shown, closure>>

OtherVisitor(r, key) == Ask(r, [kind |-> "other", key |-> key])

RouteFound(r) ==
  LET req == waiting[r]
  IN /\ req # Idle
     /\ inserts' = inserts + 1
     /\ cache' = Stored(req.key)
     /\ LET new == Stored(req.key)[req.key] IN Answer(req, new.km, new.nth, new.at)
     /\ waiting' = [waiting EXCEPT ![r] = Idle]
     /\ UNCHANGED <<card, now, requests, closure>>

\* The service does not answer in time: the estimate is used and not kept.
RouteEstimated(r) ==
  LET req == waiting[r]
  IN /\ req # Idle
     /\ Answer(req, Estimate[req.key], 0, now)
     /\ waiting' = [waiting EXCEPT ![r] = Idle]
     /\ UNCHANGED <<card, cache, inserts, now, requests, closure>>

UpdateVehicle(c) ==
  /\ requests < MaxRequests /\ requests' = requests + 1
  /\ c # card /\ card' = c
  /\ UNCHANGED <<cache, inserts, waiting, now, shown, booked, closure>>

\* An hourly rental has its own rate for more km; else it is the rate of the
\* price, or what the vehicle costs by now.
Hourly == booked.source = "trip" /\ booked.trip.type = "hourly"

DefaultRate ==
  IF Hourly /\ card.extraKm > 0 THEN card.extraKm
  ELSE IF booked.perKm > 0 THEN booked.perKm
  ELSE IF ~Hourly /\ booked.vehicle THEN card.perKm ELSE 0

\* A trip beyond its km needs a rate.  Closing again replaces the closure.
CloseTrip(end) ==
  LET included == IF end.included = None THEN booked.included ELSE end.included
      rate     == IF end.rate = None THEN DefaultRate ELSE end.rate
  IN /\ booked # None
     /\ requests < MaxRequests /\ requests' = requests + 1
     /\ end.km <= included \/ rate > 0
     /\ closure' = Closure(included, end.km, rate, end.other, end.tolls)
     /\ UNCHANGED <<card, cache, inserts, waiting, now, shown, booked>>

TimePasses == /\ now < MaxNow /\ now' = now + 1
              /\ UNCHANGED <<card, cache, inserts, waiting, requests, shown, booked, closure>>

LegacyBooking(fare) ==
  [source |-> "legacy", pricing |-> PricingOf(fare), percent |-> 0, advance |-> 0,
   trip |-> None, card |-> card, km |-> 0, vehicle |-> TRUE, included |-> 0, perKm |-> 0]

Init == /\ card \in Cards
        /\ cache = [key \in Keys |-> NoRoute] /\ inserts = 0
        /\ waiting = [r \in Requesters |-> Idle]
        /\ now = 0 /\ requests = 0
        /\ shown = None /\ closure = None
        /\ \/ booked = None
           \/ \E fare \in LegacyFares : booked = LegacyBooking(fare)

Next == \/ \E r \in Requesters :
             \/ \E raw \in Trips : QuoteTrip(r, raw)
             \/ \E c \in Coupons \cup {None}, plan \in Plans : CreateBooking(r, c, plan)
             \/ \E key \in Keys : OtherVisitor(r, key)
             \/ RouteFound(r)
             \/ RouteEstimated(r)
        \/ \E l \in Listings, c \in Coupons \cup {None}, plan \in Plans : BookListed(l, c, plan)
        \/ \E c \in Cards : UpdateVehicle(c)
        \/ \E end \in Closings : CloseTrip(end)
        \/ TimePasses

Spec == Init /\ [][Next]_vars

-----------------------------------------------------------------------------
\* A price shown for a route the service answered holds for a day, even if the
\* service is down when the customer books: the route is still in the cache as
\* it was, unless more routes than it holds have come since.
QuoteSurvivesOutage ==
  shown # None /\ shown.nth > 0 /\ now - shown.at <= Ttl /\ inserts - shown.nth < CacheMax =>
    Known(shown.trip.key) /\ cache[shown.trip.key].km = shown.km

\* The same trip over fewer kilometres or on fewer days never costs more: the
\* minimum distances and their local exceptions leave no dearer short trip.
LongerCostsNoLess ==
  booked # None /\ booked.source = "trip" /\ ~Hourly =>
    \A k \in 1..booked.km, d \in 1..booked.trip.days :
      Gross(booked.card, [Routed(booked.trip, k) EXCEPT !.days = d]) <= booked.pricing.gross

\* The amounts of a booking fit together: what coupon, tax and advance take,
\* add or leave sums up to the charge, and no part is below nothing.  On the
\* final invoice of a closed trip the tax rows print the tax that is in the
\* total, and what was paid with the balance that is printed settles it.
\* Left out is a fare that its advance may exceed, being in whole rupees and
\* one at least: a fare below one rupee, or of which less than half a rupee is
\* left to pay later.
AdvanceFits ==
  LET total == booked.pricing.total
  IN total >= Rupee /\ total * (100 - booked.percent) >= 50 * Rupee

ChargeAddsUp ==
  booked # None =>
    LET price == booked.pricing
    IN /\ price.discount \in 0..price.gross
       /\ price.total = price.gross - price.discount + price.gst
       /\ booked.source # "legacy" => 100 * price.gst - GstRate * price.subtotal \in -50..50
       /\ AdvanceFits => /\ booked.advance \in 0..price.total
                         /\ booked.advance + BalanceDue(price.total, booked.advance) \in {0, price.total}

InvoiceSettles ==
  booked # None /\ closure # None =>
    LET price == booked.pricing
        final == FinalTotal(price.total, closure)
        tax   == price.gst + closure.gst
    IN /\ \A intra \in BOOLEAN :
            RowsTotal(GstRows(price.gst, intra)) + RowsTotal(GstRows(closure.gst, intra)) = tax
       /\ final = price.subtotal + closure.subtotal + closure.tolls + tax
       /\ AdvanceFits => booked.advance + InvoiceBalance(final, booked.advance) = final
       /\ final >= price.total

AmountsAddUp == ChargeAddsUp /\ InvoiceSettles

=============================================================================
