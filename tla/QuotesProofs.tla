---------------------------- MODULE QuotesProofs ----------------------------
(***************************************************************************)
(* Proofs about Quotes and Fares, for every tax rate, rate card, coupon,   *)
(* route and size of the cache.                                            *)
(*                                                                         *)
(* Three arguments: the arithmetic of the amounts, one lemma per operator  *)
(* of Fares; what a booking on file is, whatever made it; and the cache,   *)
(* where a route that was shown keeps its place until as many routes came  *)
(* after it as the cache holds.                                            *)
(***************************************************************************)
EXTENDS Quotes, FiniteSetTheorems, TLAPS

-----------------------------------------------------------------------------
(* Arithmetic.                                                              *)

LEMMA ProductNat == ASSUME NEW a \in Nat, NEW b \in Nat PROVE a * b \in Nat
OBVIOUS

LEMMA ProductMonotone ==
  ASSUME NEW a \in Nat, NEW b \in Nat, NEW c \in Nat, a <= b
  PROVE  a * c <= b * c
OBVIOUS

LEMMA RoundedByHundred ==
  ASSUME NEW n \in Nat
  PROVE  Rounded(n, 100) \in Nat /\ 100 * Rounded(n, 100) - n \in -50..50
BY DEF Rounded

LEMMA RoundedByRupee ==
  ASSUME NEW n \in Nat
  PROVE  Rounded(n, 100 * Rupee) \in Nat /\ 100 * Rupee * Rounded(n, 100 * Rupee) <= n + 50 * Rupee
BY DEF Rounded, Rupee

LEMMA GstFacts ==
  ASSUME NEW base \in Nat
  PROVE  GstOf(base) \in Nat /\ 100 * GstOf(base) - GstRate * base \in -50..50
<1>1. base * GstRate \in Nat /\ base * GstRate = GstRate * base
  BY GstAssumption DEF GstAssumption
<1> QED BY <1>1, RoundedByHundred DEF GstOf

LEMMA DiscountFacts ==
  ASSUME NEW gross \in Nat, NEW c \in Coupons
  PROVE  CouponDiscount(gross, c) \in 0..gross
<1>1. c.value \in Nat /\ c.maxDiscount \in Nat
  BY QuotesAssumption DEF QuotesAssumption
<1>2. (gross * c.value) \div 100 \in Nat
  <2>1. gross * c.value \in Nat
    BY <1>1, ProductNat
  <2> QED BY <2>1
<1> DEFINE part == (gross * c.value) \div 100
           off  == IF c.type = "flat" THEN c.value
                   ELSE IF c.maxDiscount > 0 THEN Smaller(part, c.maxDiscount) ELSE part
<1>3. off \in Nat
  <2> HIDE DEF part
  <2> QED BY <1>1, <1>2 DEF Smaller, part
<1>4. CouponDiscount(gross, c) = Smaller(gross, WholeRupees(off))
  BY DEF CouponDiscount
<1> HIDE DEF off
<1>5. WholeRupees(off) \in Nat
  BY <1>3 DEF WholeRupees, Rupee
<1> QED BY <1>4, <1>5 DEF Smaller

LEMMA AdvanceFacts ==
  ASSUME NEW total \in Nat, NEW percent \in 0..99
  PROVE  /\ AdvanceOf(total, percent) \in Nat
         /\ (total >= Rupee /\ total * (100 - percent) >= 50 * Rupee)
              => AdvanceOf(total, percent) <= total
<1>1. total * percent \in Nat /\ total * (100 - percent) = 100 * total - total * percent
  OBVIOUS
<1> DEFINE x == total * percent
<1>2. x \in Nat /\ total * (100 - percent) = 100 * total - x
  BY <1>1
<1> HIDE DEF x
<1>3. Rounded(x, 100 * Rupee) \in Nat /\ 100 * Rupee * Rounded(x, 100 * Rupee) <= x + 50 * Rupee
  BY <1>2, RoundedByRupee
<1>4. Advance(total, percent) = Larger(Rupee, Rounded(x, 100 * Rupee) * Rupee)
  BY DEF Advance, x
<1>5. Advance(total, percent) \in Nat
  BY <1>3, <1>4 DEF Larger, Rupee
<1>6. ASSUME total >= Rupee, total * (100 - percent) >= 50 * Rupee
      PROVE  Advance(total, percent) <= total
  <2> DEFINE r == Rounded(x, 100 * Rupee)
  <2>1. r \in Nat /\ 10000 * r <= x + 5000 /\ 100 * total - x >= 5000
    BY <1>2, <1>3, <1>6 DEF Rupee
  <2>2. Advance(total, percent) = Larger(Rupee, r * Rupee)
    BY <1>4
  <2> HIDE DEF r
  <2>3. r * 100 <= total
    BY <1>2, <2>1
  <2> QED BY <1>6, <2>1, <2>2, <2>3 DEF Larger, Rupee
<1> QED BY <1>5, <1>6 DEF AdvanceOf

-----------------------------------------------------------------------------
(* Trips and what they are billed.                                          *)

NTrips == {t \in [key : Keys, type : TripTypes, days : Nat \ {0},
                  pkg : DOMAIN PackageKms \cup {"none"}] :
             /\ t.type # "roundtrip" => t.days = 1
             /\ t.type = "hourly" => t.pkg \in DOMAIN PackageKms}

LEMMA Normalizing ==
  ASSUME NEW raw \in Trips, ValidTrip(raw)
  PROVE  NormalizedTrip(raw) \in NTrips /\ NormalizedTrip(raw).key = raw.key
<1>1. raw.key \in Keys /\ raw.from \in Nat /\ raw.to \in Nat /\ raw.type \in TripTypes
  BY QuotesAssumption DEF QuotesAssumption, ValidTrip
<1>2. raw.type = "hourly" => raw.pkg \in DOMAIN PackageKms
  BY DEF ValidTrip
<1> DEFINE days == IF raw.type = "roundtrip" THEN TripDays(raw.from, raw.to) ELSE 1
           pkg  == IF raw.type = "hourly" THEN raw.pkg ELSE "none"
<1>3. days \in Nat \ {0} /\ (raw.type # "roundtrip" => days = 1)
  BY <1>1 DEF TripDays, Larger
<1>4. pkg \in DOMAIN PackageKms \cup {"none"} /\ (raw.type = "hourly" => pkg \in DOMAIN PackageKms)
  BY <1>2
<1>5. NormalizedTrip(raw) = [key |-> raw.key, type |-> raw.type, days |-> days, pkg |-> pkg]
  BY DEF NormalizedTrip
<1> HIDE DEF days, pkg
<1> QED BY <1>1, <1>3, <1>4, <1>5 DEF NTrips

LEMMA PackageFacts == \A p \in DOMAIN PackageKms : PackageKms[p] \in Nat
BY DEF PackageKms

LEMMA CardFacts ==
  ASSUME NEW c \in Cards
  PROVE  /\ c.perKm \in Nat /\ c.bata \in Nat /\ c.extraKm \in Nat
         /\ \A p \in DOMAIN PackageKms : c.local[p] \in Nat
BY QuotesAssumption DEF QuotesAssumption

LEMMA BillFacts ==
  ASSUME NEW trip \in NTrips, NEW km \in Nat
  PROVE  BillKm(Routed(trip, km)) \in Nat
<1> DEFINE t == Routed(trip, km)
<1>1. /\ t.type = trip.type /\ t.days = trip.days /\ t.pkg = trip.pkg /\ t.km = km
      /\ trip.type \in TripTypes /\ trip.days \in Nat \ {0}
  BY DEF Routed, NTrips
<1> HIDE DEF t
<1>2. trip.type = "hourly" => BillKm(t) \in Nat
  BY <1>1, PackageFacts DEF BillKm, NTrips
<1>3. ASSUME trip.type # "hourly" PROVE BillKm(t) \in Nat
  <2>1. MinKm(t) \in Nat /\ DrivenKm(t) \in Nat
    BY <1>1, <1>3 DEF MinKm, DrivenKm, TripTypes, AirportMinKm, OnewayMinKm, RoundtripMinKmPerDay
  <2> QED BY <1>1, <1>3, <2>1 DEF BillKm, Larger
<1> QED BY <1>2, <1>3 DEF t

LEMMA GrossType ==
  ASSUME NEW c \in Cards, NEW trip \in NTrips, NEW km \in Nat
  PROVE  Gross(c, Routed(trip, km)) \in Nat
<1> DEFINE t == Routed(trip, km)
<1>1. t.type = trip.type /\ t.days = trip.days /\ t.pkg = trip.pkg
  BY DEF Routed
<1>2. CASE trip.type = "hourly"
  BY <1>1, <1>2, CardFacts DEF Gross, NTrips
<1>3. CASE trip.type # "hourly"
  <2>1. BillKm(t) \in Nat /\ c.perKm \in Nat /\ c.bata \in Nat
    BY BillFacts, CardFacts
  <2>2. BataDays(t) \in Nat
    BY <1>1 DEF BataDays, NTrips
  <2>3. BillKm(t) * c.perKm \in Nat /\ BataDays(t) * c.bata \in Nat
    BY <2>1, <2>2, ProductNat
  <2>4. Gross(c, t) = BillKm(t) * c.perKm + BataDays(t) * c.bata
    BY <1>1, <1>3 DEF Gross
  <2> QED BY <2>3, <2>4
<1> QED BY <1>2, <1>3

\* The billed distance and the days of bata grow with distance and days.
LEMMA BillGrows ==
  ASSUME NEW trip \in NTrips, trip.type # "hourly", NEW km \in Nat,
         NEW k \in 1..km, NEW d \in 1..trip.days
  PROVE  LET s == [Routed(trip, k) EXCEPT !.days = d]
             t == Routed(trip, km)
         IN /\ BillKm(s) \in Nat /\ BataDays(s) \in Nat
            /\ BillKm(s) <= BillKm(t) /\ BataDays(s) <= BataDays(t)
<1> DEFINE s == [Routed(trip, k) EXCEPT !.days = d]
           t == Routed(trip, km)
<1>1. /\ s.type = trip.type /\ s.days = d /\ s.km = k
      /\ t.type = trip.type /\ t.days = trip.days /\ t.km = km
  BY DEF Routed
<1>2. /\ trip.type \in {"airport", "oneway", "roundtrip"} /\ trip.days \in Nat \ {0}
      /\ (trip.type # "roundtrip" => trip.days = 1) /\ k \in Nat /\ d \in Nat /\ d >= 1
      /\ k <= km /\ d <= trip.days
  BY DEF NTrips, TripTypes
<1> HIDE DEF s, t
<1> USE DEF LocalTripKm, AirportMinKm, OnewayMinKm, RoundtripMinKmPerDay
<1>3. CASE trip.type = "airport"
  BY <1>1, <1>2, <1>3 DEF BillKm, DrivenKm, MinKm, BataDays, Larger, s, t
<1>4. CASE trip.type = "oneway"
  <2>1. BillKm(s) \in Nat /\ BillKm(s) <= BillKm(t)
    BY <1>1, <1>2, <1>4 DEF BillKm, DrivenKm, MinKm, LocalTrip, Larger
  <2>2. BataDays(s) \in Nat /\ BataDays(s) <= BataDays(t)
    BY <1>1, <1>2, <1>4 DEF BataDays, LocalTrip
  <2> QED BY <2>1, <2>2 DEF s, t
<1>5. CASE trip.type = "roundtrip"
  <2>1. BillKm(s) \in Nat /\ BillKm(s) <= BillKm(t)
    BY <1>1, <1>2, <1>5 DEF BillKm, DrivenKm, MinKm, LocalTrip, Larger
  <2>2. BataDays(s) \in Nat /\ BataDays(s) <= BataDays(t)
    BY <1>1, <1>2, <1>5 DEF BataDays, LocalTrip
  <2> QED BY <2>1, <2>2 DEF s, t
<1> QED BY <1>2, <1>3, <1>4, <1>5

LEMMA GrossGrows ==
  ASSUME NEW c \in Cards, NEW trip \in NTrips, trip.type # "hourly", NEW km \in Nat,
         NEW k \in 1..km, NEW d \in 1..trip.days
  PROVE  Gross(c, [Routed(trip, k) EXCEPT !.days = d]) <= Gross(c, Routed(trip, km))
<1> DEFINE s == [Routed(trip, k) EXCEPT !.days = d]
           t == Routed(trip, km)
<1>1. s.type # "hourly" /\ t.type # "hourly"
  BY DEF Routed
<1>2. /\ BillKm(s) \in Nat /\ BataDays(s) \in Nat
      /\ BillKm(s) <= BillKm(t) /\ BataDays(s) <= BataDays(t)
  BY BillGrows
<1>3. /\ BillKm(t) \in Nat /\ c.perKm \in Nat /\ c.bata \in Nat
  BY BillFacts, CardFacts
<1>4. BataDays(t) \in Nat
  BY DEF BataDays, NTrips, Routed
<1>5. /\ Gross(c, s) = BillKm(s) * c.perKm + BataDays(s) * c.bata
      /\ Gross(c, t) = BillKm(t) * c.perKm + BataDays(t) * c.bata
  BY <1>1 DEF Gross
<1> HIDE DEF s, t
<1>6. BillKm(s) * c.perKm <= BillKm(t) * c.perKm /\ BataDays(s) * c.bata <= BataDays(t) * c.bata
  BY <1>2, <1>3, <1>4, ProductMonotone
<1>7. /\ BillKm(s) * c.perKm \in Nat /\ BillKm(t) * c.perKm \in Nat
      /\ BataDays(s) * c.bata \in Nat /\ BataDays(t) * c.bata \in Nat
  BY <1>2, <1>3, <1>4, ProductNat
<1>8. Gross(c, s) <= Gross(c, t)
  BY <1>5, <1>6, <1>7
<1> QED BY <1>8 DEF s, t

-----------------------------------------------------------------------------
(* What is on file.                                                         *)

Routes   == [at : Nat, km : Nat, nth : Nat]
Requests == {q \in [kind : {"quote"}, trip : NTrips, key : Keys]
                   \cup [kind : {"book"}, trip : NTrips, key : Keys,
                         coupon : Coupons \cup {None}, plan : Plans] : q.trip.key = q.key}
            \cup [kind : {"other"}, key : Keys]
Showns   == [trip : NTrips, card : Cards, km : Nat, nth : Nat, at : Nat, gross : Nat]
Prices   == [gross : Nat, discount : Nat, subtotal : Nat, gst : Nat, total : Nat]
Bookings == [source : {"trip", "package", "indicative", "estimate", "legacy"}, pricing : Prices,
             percent : 0..99, advance : Nat, trip : NTrips \cup {None}, card : Cards,
             km : Nat, vehicle : BOOLEAN, included : Nat, perKm : Nat]
Closures == [extraKm : Nat, subtotal : Nat, gst : Nat, tolls : Nat, total : Nat]

TypeInv ==
  /\ card \in Cards /\ cache \in [Keys -> Routes] /\ inserts \in Nat
  /\ waiting \in [Requesters -> Requests \cup {Idle}] /\ now \in Nat /\ requests \in Nat
  /\ shown \in Showns \cup {None} /\ booked \in Bookings \cup {None}
  /\ closure \in Closures \cup {None}

PriceOk(p) == p.discount <= p.gross /\ p.subtotal = p.gross - p.discount /\ p.total = p.subtotal + p.gst

BookingOk(b) ==
  /\ PriceOk(b.pricing)
  /\ b.source # "legacy" => b.pricing.gst = GstOf(b.pricing.subtotal)
  /\ b.advance = AdvanceOf(b.pricing.total, b.percent)
  /\ b.source = "trip" => /\ b.trip \in NTrips
                          /\ b.pricing.gross = Gross(b.card, Routed(b.trip, b.km))

BookedInv  == booked # None => BookingOk(booked)
ClosureInv == closure # None => closure.total = closure.subtotal + closure.gst + closure.tolls

LEMMA PricingFacts ==
  ASSUME NEW gross \in Nat, NEW c \in Coupons \cup {None}
  PROVE  LET p == PricingAfter(gross, c)
         IN p \in Prices /\ PriceOk(p) /\ p.gross = gross /\ p.gst = GstOf(p.subtotal)
<1> DEFINE off == IF c = None THEN 0 ELSE CouponDiscount(gross, c)
<1>1. off \in 0..gross
  BY DiscountFacts
<1> HIDE DEF off
<1>2. gross - off \in Nat /\ off \in Nat /\ off <= gross
  BY <1>1
<1>3. GstOf(gross - off) \in Nat
  BY <1>2, GstFacts
<1>4. PricingAfter(gross, c) = [gross |-> gross, discount |-> off, subtotal |-> gross - off,
                                gst |-> GstOf(gross - off), total |-> gross - off + GstOf(gross - off)]
  BY DEF PricingAfter, ApplyGst, off
<1> QED BY <1>2, <1>3, <1>4 DEF Prices, PriceOk

LEMMA TripBookingFacts ==
  ASSUME card \in Cards, NEW trip \in NTrips, NEW km \in Nat, NEW c \in Coupons \cup {None},
         NEW percent \in 0..99
  PROVE  TripBooking(trip, km, c, percent) \in Bookings /\ BookingOk(TripBooking(trip, km, c, percent))
<1> DEFINE g == Gross(card, Routed(trip, km))
           p == PricingAfter(g, c)
           i == BillKm(Routed(trip, km))
           a == AdvanceOf(p.total, percent)
           b == [source |-> "trip", pricing |-> p, percent |-> percent, advance |-> a, trip |-> trip,
                 card |-> card, km |-> km, vehicle |-> TRUE, included |-> i, perKm |-> card.perKm]
<1>1. TripBooking(trip, km, c, percent) = b
  BY DEF TripBooking
<1>2. g \in Nat
  BY GrossType
<1>3. p \in Prices /\ PriceOk(p) /\ p.gross = g /\ p.gst = GstOf(p.subtotal)
  <2> HIDE DEF g
  <2> QED BY <1>2, PricingFacts
<1>4. i \in Nat /\ card.perKm \in Nat
  BY BillFacts, CardFacts
<1> HIDE DEF p
<1>5. a \in Nat
  BY <1>3, AdvanceFacts DEF Prices
<1> HIDE DEF i, a
<1>6. b \in Bookings
  BY <1>3, <1>4, <1>5 DEF Bookings
<1>7. BookingOk(b)
  BY <1>3 DEF BookingOk, a
<1> QED BY <1>1, <1>6, <1>7

LEMMA PricedFacts ==
  ASSUME card \in Cards, NEW l \in Listings
  PROVE  /\ Priced(l).source \in {"package", "indicative", "estimate"}
         /\ Priced(l).gross \in Nat /\ Priced(l).billKm \in Nat /\ Priced(l).perKm \in Nat
<1>1. l.price \in Nat /\ l.fare \in Nat
  BY QuotesAssumption DEF QuotesAssumption
<1>2. "8h80" \in DOMAIN PackageKms
  BY DEF PackageKms
<1>3. card.local["8h80"] \in Nat /\ PackageKms["8h80"] \in Nat /\ card.perKm \in Nat
  BY <1>2, CardFacts, PackageFacts
<1> QED BY <1>1, <1>3 DEF Priced, QuotePackage, QuoteVehicleIndicative, QuoteEstimate

LEMMA PlanFacts ==
  ASSUME NEW l \in Listings, NEW source, NEW plan \in Plans
  PROVE  PlanOf(l, source, plan) \in 0..99
BY QuotesAssumption DEF QuotesAssumption, PlanOf

LEMMA ListedBookingFacts ==
  ASSUME card \in Cards, NEW l \in Listings, NEW c \in Coupons \cup {None}, NEW percent \in 0..99
  PROVE  /\ ListedBooking(l, Priced(l), c, percent) \in Bookings
         /\ BookingOk(ListedBooking(l, Priced(l), c, percent))
<1> DEFINE q == Priced(l)
           p == PricingAfter(q.gross, c)
           i == IF q.billKm > 0 THEN q.billKm ELSE l.km
           a == AdvanceOf(p.total, percent)
           b == [source |-> q.source, pricing |-> p, percent |-> percent, advance |-> a, trip |-> None,
                 card |-> card, km |-> 0, vehicle |-> l.vehicle, included |-> i, perKm |-> q.perKm]
<1>1. ListedBooking(l, q, c, percent) = b
  BY DEF ListedBooking
<1>2. /\ q.source \in {"package", "indicative", "estimate"}
      /\ q.gross \in Nat /\ q.billKm \in Nat /\ q.perKm \in Nat
  BY PricedFacts
<1> HIDE DEF q
<1>3. p \in Prices /\ PriceOk(p) /\ p.gst = GstOf(p.subtotal)
  BY <1>2, PricingFacts
<1> HIDE DEF p
<1>4. i \in Nat /\ l.vehicle \in BOOLEAN
  BY <1>2, QuotesAssumption DEF QuotesAssumption
<1>5. a \in Nat
  BY <1>3, AdvanceFacts DEF Prices
<1> HIDE DEF i, a
<1>6. b \in Bookings
  BY <1>2, <1>3, <1>4, <1>5 DEF Bookings
<1>7. BookingOk(b)
  BY <1>2, <1>3 DEF BookingOk, a
<1> QED BY <1>1, <1>6, <1>7 DEF q

LEMMA ClosureFacts ==
  ASSUME NEW included \in Nat, NEW end \in Closings, NEW rate \in Nat
  PROVE  LET f == Closure(included, end.km, rate, end.other, end.tolls)
         IN f \in Closures /\ f.total = f.subtotal + f.gst + f.tolls
<1>1. end.km \in Nat /\ end.other \in Nat /\ end.tolls \in Nat
  BY QuotesAssumption DEF QuotesAssumption
<1> DEFINE extra == Larger(0, end.km - included)
           base  == extra * rate + end.other
<1>2. extra \in Nat
  BY <1>1 DEF Larger
<1> HIDE DEF extra
<1>3. base \in Nat
  <2>1. extra * rate \in Nat
    BY <1>2, ProductNat
  <2> QED BY <1>1, <2>1
<1>4. Closure(included, end.km, rate, end.other, end.tolls) =
        [extraKm |-> extra, subtotal |-> base, gst |-> GstOf(base), tolls |-> end.tolls,
         total |-> base + GstOf(base) + end.tolls]
  BY DEF Closure, ApplyGst, extra
<1> HIDE DEF base
<1>5. GstOf(base) \in Nat
  BY <1>3, GstFacts
<1> QED BY <1>1, <1>2, <1>3, <1>4, <1>5 DEF Closures

-----------------------------------------------------------------------------
(* What a step does to the cache and the quote, to the booking and to its   *)
(* closure.                                                                 *)

Showing(key, km, nth, at) ==
  \/ shown' \in {shown, None}
  \/ \E trip \in NTrips : trip.key = key /\ shown' = Shown(trip, km, nth, at)

Unrouted(key)  == \E km \in Nat : Showing(key, km, 0, now)
Remembered(key) == Known(key) /\ Showing(key, cache[key].km, cache[key].nth, cache[key].at)
Learned(key) ==
  LET new == Stored(key)[key] IN cache' = Stored(key) /\ Showing(key, new.km, new.nth, new.at)

CacheMoves ==
  \/ now' \in {now, now + 1} /\ UNCHANGED <<cache, inserts, shown>>
  \/ /\ now' = now /\ inserts' = inserts
     /\ \E key \in Keys : cache' \in {cache, Pruned(key)} /\ (Unrouted(key) \/ Remembered(key))
  \/ /\ now' = now /\ inserts' = inserts + 1
     /\ \E key \in Keys : Learned(key)

BookedMoves ==
  \/ booked' \in {booked, None}
  \/ \E trip \in NTrips, km \in Nat, c \in Coupons \cup {None}, percent \in 0..99 :
        booked' = TripBooking(trip, km, c, percent)
  \/ \E l \in Listings, c \in Coupons \cup {None}, percent \in 0..99 :
        booked' = ListedBooking(l, Priced(l), c, percent)

ClosureMoves ==
  \/ closure' = closure
  \/ \E included \in Nat, end \in Closings, rate \in Nat :
        closure' = Closure(included, end.km, rate, end.other, end.tolls)

OtherTypes == /\ card' \in Cards /\ requests' \in Nat
              /\ waiting' \in [Requesters -> Requests \cup {Idle}]

StepShape == CacheMoves /\ BookedMoves /\ ClosureMoves /\ OtherTypes

LEMMA RequestFacts ==
  ASSUME NEW req \in Requests
  PROVE  /\ req.kind \in {"quote", "book", "other"} /\ req.key \in Keys
         /\ req.kind # "other" => req.trip \in NTrips /\ req.trip.key = req.key
         /\ req.kind = "book" => req.coupon \in Coupons \cup {None} /\ req.plan \in 0..99
<1>1. Plans \subseteq 0..99
  BY QuotesAssumption DEF QuotesAssumption
<1> QED BY <1>1 DEF Requests

LEMMA Answered ==
  ASSUME NEW req \in Requests, NEW km \in Nat, NEW nth, NEW at, Answer(req, km, nth, at)
  PROVE  Showing(req.key, km, nth, at) /\ BookedMoves
<1>1. CASE req.kind = "quote"
  <2>1. booked' = booked /\ shown' \in {None, Shown(req.trip, km, nth, at)}
    BY <1>1 DEF Answer
  <2>2. req.trip \in NTrips /\ req.trip.key = req.key
    BY <1>1, RequestFacts
  <2> QED BY <2>1, <2>2 DEF Showing, BookedMoves
<1>2. CASE req.kind = "book"
  <2>1. shown' = shown /\ booked' \in {None, TripBooking(req.trip, km, req.coupon, req.plan)}
    BY <1>2 DEF Answer
  <2>2. req.trip \in NTrips /\ req.coupon \in Coupons \cup {None} /\ req.plan \in 0..99
    BY <1>2, RequestFacts
  <2>3. BookedMoves
    BY <2>1, <2>2 DEF BookedMoves
  <2> QED BY <2>1, <2>3 DEF Showing
<1>3. CASE req.kind = "other"
  BY <1>3 DEF Answer, Showing, BookedMoves
<1> QED BY <1>1, <1>2, <1>3, RequestFacts

LEMMA Asked ==
  ASSUME TypeInv, NEW r \in Requesters, NEW req \in Requests, Ask(r, req)
  PROVE  StepShape
<1>1. req.key \in Keys
  BY RequestFacts
<1>2. /\ now' = now /\ inserts' = inserts /\ closure' = closure /\ card' = card
      /\ requests' \in Nat
  BY DEF Ask, TypeInv
<1>3. CASE req.kind # "other" /\ req.trip.type = "hourly"
  <2>1. Answer(req, 0, 0, now) /\ cache' = cache /\ waiting' = waiting
    BY <1>3 DEF Ask
  <2>2. Showing(req.key, 0, 0, now) /\ BookedMoves
    BY <2>1, Answered
  <2>3. CacheMoves
    BY <1>1, <1>2, <2>1, <2>2 DEF CacheMoves, Unrouted
  <2> QED BY <1>2, <2>1, <2>2, <2>3 DEF StepShape, ClosureMoves, OtherTypes, TypeInv
<1>4. CASE ~(req.kind # "other" /\ req.trip.type = "hourly") /\ Known(req.key)
  <2> DEFINE hit == cache[req.key]
  <2>1. Answer(req, hit.km, hit.nth, hit.at) /\ cache' = Pruned(req.key) /\ waiting' = waiting
    BY <1>4 DEF Ask
  <2>2. hit.km \in Nat
    BY <1>1 DEF TypeInv, Routes
  <2>3. Showing(req.key, hit.km, hit.nth, hit.at) /\ BookedMoves
    BY <2>1, <2>2, Answered
  <2>4. CacheMoves
    BY <1>1, <1>2, <1>4, <2>1, <2>3 DEF CacheMoves, Remembered
  <2> QED BY <1>2, <2>1, <2>3, <2>4 DEF StepShape, ClosureMoves, OtherTypes, TypeInv
<1>5. CASE ~(req.kind # "other" /\ req.trip.type = "hourly") /\ ~Known(req.key)
  <2>1. /\ cache' = Pruned(req.key) /\ waiting' = [waiting EXCEPT ![r] = req]
        /\ shown' = shown /\ booked' = booked
    BY <1>5 DEF Ask
  <2>2. CacheMoves
    BY <1>1, <1>2, <2>1 DEF CacheMoves, Unrouted, Showing
  <2>3. waiting' \in [Requesters -> Requests \cup {Idle}]
    BY <2>1 DEF TypeInv
  <2> QED BY <1>2, <2>1, <2>2, <2>3 DEF StepShape, BookedMoves, ClosureMoves, OtherTypes, TypeInv
<1> QED BY <1>3, <1>4, <1>5

LEMMA RateFacts ==
  ASSUME TypeInv, booked # None
  PROVE  DefaultRate \in Nat /\ booked.included \in Nat
<1>1. booked.perKm \in Nat /\ booked.included \in Nat
  BY DEF TypeInv, Bookings
<1>2. card.extraKm \in Nat /\ card.perKm \in Nat
  BY CardFacts DEF TypeInv
<1> QED BY <1>1, <1>2 DEF DefaultRate

LEMMA StoredRoute ==
  ASSUME TypeInv, NEW key \in Keys
  PROVE  /\ MadeRoom \in [Keys -> Routes] /\ Stored(key) \in [Keys -> Routes]
         /\ Stored(key)[key].at = now /\ Stored(key)[key].km = Road[key]
         /\ Stored(key)[key].nth = IF MadeRoom[key] = NoRoute THEN inserts + 1 ELSE MadeRoom[key].nth
         /\ \A k \in Keys : k # key => Stored(key)[k] = MadeRoom[k]
<1>1. NoRoute \in Routes
  BY DEF NoRoute, Routes
<1>2. MadeRoom \in [Keys -> Routes]
  BY <1>1 DEF MadeRoom, Without, TypeInv
<1> DEFINE n == IF MadeRoom[key] = NoRoute THEN inserts + 1 ELSE MadeRoom[key].nth
           e == [at |-> now, km |-> Road[key], nth |-> n]
<1>3. n \in Nat
  BY <1>2 DEF TypeInv, Routes
<1>4. Stored(key) = [MadeRoom EXCEPT ![key] = e]
  BY DEF Stored
<1> HIDE DEF n
<1>5. e \in Routes /\ e.at = now /\ e.km = Road[key] /\ e.nth = n
  BY <1>3, QuotesAssumption DEF QuotesAssumption, TypeInv, Routes
<1> HIDE DEF e
<1> QED BY <1>2, <1>4, <1>5 DEF n

LEMMA StepMoves ==
  ASSUME TypeInv, [Next]_vars
  PROVE  StepShape
<1> USE DEF StepShape, CacheMoves, BookedMoves, ClosureMoves, OtherTypes
<1>1. CASE UNCHANGED vars
  BY <1>1 DEF vars, TypeInv
<1>2. ASSUME NEW r \in Requesters, NEW raw \in Trips, QuoteTrip(r, raw)
      PROVE  StepShape
  <2> DEFINE req == [kind |-> "quote", trip |-> NormalizedTrip(raw), key |-> raw.key]
  <2>1. Ask(r, req)
    BY <1>2 DEF QuoteTrip
  <2>2. req \in Requests
    <3>1. NormalizedTrip(raw) \in NTrips /\ NormalizedTrip(raw).key = raw.key
      BY <1>2, Normalizing DEF QuoteTrip
    <3>2. raw.key \in Keys
      BY QuotesAssumption DEF QuotesAssumption
    <3> QED BY <3>1, <3>2 DEF Requests
  <2> HIDE DEF req
  <2> QED BY <2>1, <2>2, Asked
<1>3. ASSUME NEW r \in Requesters, NEW c \in Coupons \cup {None}, NEW plan \in Plans,
             CreateBooking(r, c, plan)
      PROVE  StepShape
  <2> DEFINE req == [kind |-> "book", trip |-> shown.trip, key |-> shown.trip.key,
                     coupon |-> c, plan |-> plan]
  <2>1. Ask(r, req)
    BY <1>3 DEF CreateBooking
  <2>2. req \in Requests
    <3>1. shown.trip \in NTrips
      BY <1>3 DEF CreateBooking, TypeInv, Showns
    <3>2. shown.trip.key \in Keys
      BY <3>1 DEF NTrips
    <3> QED BY <3>1, <3>2 DEF Requests
  <2> HIDE DEF req
  <2> QED BY <2>1, <2>2, Asked
<1>4. ASSUME NEW r \in Requesters, NEW key \in Keys, OtherVisitor(r, key)
      PROVE  StepShape
  <2>1. [kind |-> "other", key |-> key] \in Requests
    BY DEF Requests
  <2> QED BY <1>4, <2>1, Asked DEF OtherVisitor
<1>5. ASSUME NEW r \in Requesters, RouteFound(r)
      PROVE  StepShape
  <2>1. PICK req \in Requests : req = waiting[r]
    BY <1>5 DEF RouteFound, TypeInv
  <2>2. req.key \in Keys
    BY RequestFacts
  <2>3. PICK e \in Routes : e = Stored(req.key)[req.key]
    BY <2>2, StoredRoute
  <2>4. Answer(req, e.km, e.nth, e.at)
    BY <1>5, <2>1, <2>3 DEF RouteFound
  <2>5. Showing(req.key, e.km, e.nth, e.at) /\ BookedMoves
    <3>1. e.km \in Nat
      BY DEF Routes
    <3> QED BY <2>4, <3>1, Answered
  <2>6. /\ now' = now /\ inserts' = inserts + 1 /\ cache' = Stored(req.key)
        /\ closure' = closure /\ card' = card /\ requests' = requests
        /\ waiting' = [waiting EXCEPT ![r] = Idle]
    BY <1>5, <2>1 DEF RouteFound
  <2>7. CacheMoves
    BY <2>2, <2>3, <2>5, <2>6 DEF Learned
  <2> QED BY <2>5, <2>6, <2>7 DEF TypeInv
<1>6. ASSUME NEW r \in Requesters, RouteEstimated(r)
      PROVE  StepShape
  <2>1. PICK req \in Requests : req = waiting[r]
    BY <1>6 DEF RouteEstimated, TypeInv
  <2>2. req.key \in Keys /\ Estimate[req.key] \in Nat
    BY RequestFacts, QuotesAssumption DEF QuotesAssumption
  <2>3. Answer(req, Estimate[req.key], 0, now)
    BY <1>6, <2>1 DEF RouteEstimated
  <2>4. Showing(req.key, Estimate[req.key], 0, now) /\ BookedMoves
    BY <2>2, <2>3, Answered
  <2>5. /\ now' = now /\ inserts' = inserts /\ cache' = cache
        /\ closure' = closure /\ card' = card /\ requests' = requests
        /\ waiting' = [waiting EXCEPT ![r] = Idle]
    BY <1>6 DEF RouteEstimated
  <2>6. CacheMoves
    BY <2>2, <2>4, <2>5 DEF Unrouted
  <2> QED BY <2>4, <2>5, <2>6 DEF TypeInv
<1>7. ASSUME NEW l \in Listings, NEW c \in Coupons \cup {None}, NEW plan \in Plans,
             BookListed(l, c, plan)
      PROVE  StepShape
  <2>1. PlanOf(l, Priced(l).source, plan) \in 0..99
    BY PlanFacts
  <2>2. booked' = ListedBooking(l, Priced(l), c, PlanOf(l, Priced(l).source, plan))
    BY <1>7 DEF BookListed
  <2>3. BookedMoves
    BY <2>1, <2>2
  <2>4. /\ requests' = requests + 1
        /\ UNCHANGED <<card, cache, inserts, waiting, now, shown, closure>>
    BY <1>7 DEF BookListed
  <2> QED BY <2>3, <2>4 DEF TypeInv
<1>8. ASSUME NEW c \in Cards, UpdateVehicle(c)
      PROVE  StepShape
  BY <1>8 DEF UpdateVehicle, TypeInv
<1>9. ASSUME NEW end \in Closings, CloseTrip(end)
      PROVE  StepShape
  <2> DEFINE included == IF end.included = None THEN booked.included ELSE end.included
             rate     == IF end.rate = None THEN DefaultRate ELSE end.rate
  <2>1. included \in Nat /\ rate \in Nat
    BY <1>9, RateFacts, QuotesAssumption DEF QuotesAssumption, CloseTrip
  <2>2. closure' = Closure(included, end.km, rate, end.other, end.tolls)
    BY <1>9 DEF CloseTrip
  <2>3. ClosureMoves
    <3> HIDE DEF included, rate
    <3> QED BY <2>1, <2>2
  <2> QED BY <1>9, <2>3 DEF CloseTrip, TypeInv
<1>10. CASE TimePasses
  BY <1>10 DEF TimePasses, TypeInv
<1> QED BY <1>1, <1>2, <1>3, <1>4, <1>5, <1>6, <1>7, <1>8, <1>9, <1>10 DEF Next

-----------------------------------------------------------------------------
(* Type correctness, and what a booking and a closure are.                  *)

LEMMA ShownType ==
  ASSUME TypeInv, NEW trip \in NTrips, NEW km \in Nat, NEW nth \in Nat, NEW at \in Nat
  PROVE  Shown(trip, km, nth, at) \in Showns
<1>1. card \in Cards /\ Gross(card, Routed(trip, km)) \in Nat
  BY GrossType DEF TypeInv
<1> QED BY <1>1 DEF Shown, Showns

LEMMA CacheType ==
  ASSUME TypeInv, CacheMoves
  PROVE  /\ now' \in Nat /\ now <= now' /\ inserts' \in Nat
         /\ cache' \in [Keys -> Routes] /\ shown' \in Showns \cup {None}
<1>1. NoRoute \in Routes
  BY DEF NoRoute, Routes
<1>2. ASSUME NEW key, NEW km \in Nat, NEW nth \in Nat, NEW at \in Nat, Showing(key, km, nth, at)
      PROVE  shown' \in Showns \cup {None}
  BY <1>2, ShownType DEF Showing, TypeInv
<1>3. CASE now' \in {now, now + 1} /\ UNCHANGED <<cache, inserts, shown>>
  BY <1>3 DEF TypeInv
<1>4. ASSUME NEW key \in Keys, now' = now, inserts' = inserts, cache' \in {cache, Pruned(key)},
             Unrouted(key) \/ Remembered(key)
      PROVE  /\ now' \in Nat /\ now <= now' /\ inserts' \in Nat
             /\ cache' \in [Keys -> Routes] /\ shown' \in Showns \cup {None}
  <2>1. cache' \in [Keys -> Routes]
    BY <1>1, <1>4 DEF Pruned, TypeInv
  <2>2. now \in Nat /\ inserts \in Nat /\ cache[key] \in Routes
    BY DEF TypeInv
  <2>3. shown' \in Showns \cup {None}
    BY <1>2, <1>4, <2>2 DEF Unrouted, Remembered, Routes
  <2> QED BY <1>4, <2>1, <2>2, <2>3
<1>5. ASSUME NEW key \in Keys, now' = now, inserts' = inserts + 1, Learned(key)
      PROVE  /\ now' \in Nat /\ now <= now' /\ inserts' \in Nat
             /\ cache' \in [Keys -> Routes] /\ shown' \in Showns \cup {None}
  <2>1. cache' \in [Keys -> Routes] /\ Stored(key)[key] \in Routes
    BY <1>5, StoredRoute DEF Learned
  <2>2. shown' \in Showns \cup {None}
    BY <1>2, <1>5, <2>1 DEF Learned, Routes
  <2> QED BY <1>5, <2>1, <2>2 DEF TypeInv
<1> QED BY <1>3, <1>4, <1>5 DEF CacheMoves

LEMMA TypeStep == TypeInv /\ [Next]_vars => TypeInv'
<1> SUFFICES ASSUME TypeInv, [Next]_vars PROVE TypeInv'
  OBVIOUS
<1>1. StepShape
  BY StepMoves
<1>2. booked' \in Bookings \cup {None}
  BY <1>1, TripBookingFacts, ListedBookingFacts DEF StepShape, BookedMoves, TypeInv
<1>3. closure' \in Closures \cup {None}
  BY <1>1, ClosureFacts DEF StepShape, ClosureMoves, TypeInv
<1> QED BY <1>1, <1>2, <1>3, CacheType DEF StepShape, OtherTypes, TypeInv

LEMMA BookedStep == TypeInv /\ BookedInv /\ [Next]_vars => BookedInv'
<1> SUFFICES ASSUME TypeInv, BookedInv, [Next]_vars, booked' # None PROVE BookingOk(booked')
  BY DEF BookedInv, BookingOk, PriceOk
<1>1. BookedMoves /\ card \in Cards
  BY StepMoves DEF StepShape, TypeInv
<1> QED BY <1>1, TripBookingFacts, ListedBookingFacts DEF BookedMoves, BookedInv

LEMMA ClosureStep == TypeInv /\ ClosureInv /\ [Next]_vars => ClosureInv'
<1> SUFFICES ASSUME TypeInv, ClosureInv, [Next]_vars PROVE ClosureInv'
  OBVIOUS
<1>1. ClosureMoves
  BY StepMoves DEF StepShape
<1> QED BY <1>1, ClosureFacts DEF ClosureMoves, ClosureInv

-----------------------------------------------------------------------------
(* The cache.  The places of its routes are different numbers up to the     *)
(* number of inserts, so the oldest of a full cache has CacheMax - 1        *)
(* inserts after it, and one more when it goes.                             *)

CacheInv ==
  /\ \A k \in Keys : cache[k] # NoRoute =>
       /\ cache[k].nth \in 1..inserts /\ cache[k].at <= now /\ cache[k].km = Road[k]
  /\ \A j, k \in Keys : (cache[j] # NoRoute /\ cache[k] # NoRoute /\ cache[j].nth = cache[k].nth) => j = k

StillThere(s) ==
  (s.nth > 0 /\ now - s.at <= Ttl /\ inserts - s.nth < CacheMax) =>
    cache[s.trip.key].nth = s.nth /\ cache[s.trip.key].at >= s.at

ShownOk(s) ==
  /\ s.at <= now /\ s.nth <= inserts
  /\ s.nth > 0 => s.km = Road[s.trip.key]
  /\ StillThere(s)

ShownInv == shown # None => ShownOk(shown)

LEMMA HeldFacts ==
  ASSUME TypeInv, CacheInv, NEW k \in Keys, ~(Cardinality(Held) < CacheMax),
         k \in First
  PROVE  inserts + 1 - cache[k].nth >= CacheMax
<1> DEFINE n == cache[k].nth
           rest == Held \ {k}
           f == [j \in rest |-> cache[j].nth]
<1>1. n \in 1..inserts /\ inserts \in Nat /\ k \in Held
  BY DEF CacheInv, First, Held, TypeInv
<1>2. \A j \in rest : f[j] \in (n + 1)..inserts
  <2> SUFFICES ASSUME NEW j \in rest PROVE cache[j].nth \in (n + 1)..inserts
    OBVIOUS
  <2>1. j \in Held /\ j # k /\ j \in Keys /\ cache[j] # NoRoute /\ cache[k] # NoRoute
    BY <1>1 DEF Held
  <2>2. cache[j].nth \in 1..inserts /\ cache[j].nth # n
    BY <2>1 DEF CacheInv
  <2>3. n <= cache[j].nth
    BY <2>1 DEF First
  <2> QED BY <1>1, <2>2, <2>3
<1>3. f \in Injection(rest, (n + 1)..inserts)
  <2>1. f \in [rest -> (n + 1)..inserts]
    BY <1>2
  <2>2. \A a, b \in rest : f[a] = f[b] => a = b
    BY DEF CacheInv, Held
  <2>3. DOMAIN f = rest
    OBVIOUS
  <2> HIDE DEF f
  <2> QED BY <2>1, <2>2, <2>3 DEF Injection, IsInjective
<1>4. IsFiniteSet((n + 1)..inserts) /\ Cardinality((n + 1)..inserts) = inserts - n
  <2>1. n + 1 \in Int /\ inserts \in Int
    BY <1>1
  <2>2. /\ IsFiniteSet((n + 1)..inserts)
        /\ Cardinality((n + 1)..inserts) = IF n + 1 > inserts THEN 0 ELSE inserts - (n + 1) + 1
    BY <2>1, FS_Interval
  <2> QED BY <1>1, <2>2
<1>5. IsFiniteSet(rest) /\ Cardinality(rest) <= inserts - n
  BY <1>3, <1>4, FS_Injection
<1>6. /\ IsFiniteSet(rest \cup {k}) /\ Cardinality(rest \cup {k}) = Cardinality(rest) + 1
      /\ Cardinality(rest) \in Nat
  BY <1>5, FS_AddElement, FS_CardinalityType
<1>7. rest \cup {k} = Held
  BY <1>1
<1>8. CacheMax \in Nat
  BY QuotesAssumption DEF QuotesAssumption
<1>9. CacheMax <= Cardinality(rest) + 1
  BY <1>6, <1>7, <1>8
<1> HIDE DEF rest, n
<1>10. n \in Nat /\ inserts \in Nat
  BY <1>1
<1>11. inserts + 1 - n >= CacheMax
  BY <1>5, <1>6, <1>8, <1>9, <1>10
<1> QED BY <1>11 DEF n

LEMMA RoomFacts ==
  ASSUME TypeInv, CacheInv, NEW k \in Keys
  PROVE  /\ MadeRoom[k] \in {cache[k], NoRoute}
         /\ (cache[k] # NoRoute /\ MadeRoom[k] = NoRoute) => inserts + 1 - cache[k].nth >= CacheMax
<1>1. CASE Cardinality(Held) < CacheMax
  BY <1>1 DEF MadeRoom
<1>2. CASE ~(Cardinality(Held) < CacheMax)
  <2>1. MadeRoom[k] = IF k \in First THEN NoRoute ELSE cache[k]
    BY <1>2 DEF MadeRoom, Without
  <2> QED BY <1>2, <2>1, HeldFacts
<1> QED BY <1>1, <1>2

LEMMA PrunedFacts ==
  ASSUME TypeInv, NEW key \in Keys, NEW k \in Keys
  PROVE  /\ Pruned(key)[k] \in {cache[k], NoRoute}
         /\ Pruned(key)[k] # cache[k] => now - cache[k].at > Ttl
BY DEF Pruned, TooOld, TypeInv

LEMMA RoadFacts == \A k \in Keys : Road[k] \in Nat \ {0}
BY QuotesAssumption DEF QuotesAssumption

LEMMA NoRouteFacts == NoRoute.at = 0 /\ NoRoute.km = 0 /\ NoRoute.nth = 0
BY DEF NoRoute

LEMMA CacheStep == TypeInv /\ CacheInv /\ [Next]_vars => CacheInv'
<1> SUFFICES ASSUME TypeInv, CacheInv, [Next]_vars PROVE CacheInv'
  OBVIOUS
<1>1. CacheMoves
  BY StepMoves DEF StepShape
<1>2. now \in Nat /\ inserts \in Nat /\ \A k \in Keys : cache[k] \in Routes
  BY DEF TypeInv
<1>3. ASSUME \A k \in Keys : cache'[k] \in {cache[k], NoRoute}, now' \in {now, now + 1}, inserts' = inserts
      PROVE  CacheInv'
  <2>1. ASSUME NEW k \in Keys, cache'[k] # NoRoute
        PROVE  cache'[k].nth \in 1..inserts' /\ cache'[k].at <= now' /\ cache'[k].km = Road[k]
    <3>1. cache'[k] = cache[k] /\ cache[k].at \in Nat
      BY <1>2, <1>3, <2>1 DEF Routes
    <3> QED BY <1>2, <1>3, <2>1, <3>1 DEF CacheInv
  <2>2. \A j, k \in Keys : (cache'[j] # NoRoute /\ cache'[k] # NoRoute /\ cache'[j].nth = cache'[k].nth) => j = k
    BY <1>3 DEF CacheInv
  <2> QED BY <2>1, <2>2 DEF CacheInv
<1>4. CASE now' \in {now, now + 1} /\ UNCHANGED <<cache, inserts, shown>>
  BY <1>3, <1>4
<1>5. ASSUME NEW key \in Keys, now' = now, inserts' = inserts, cache' \in {cache, Pruned(key)}
      PROVE  CacheInv'
  BY <1>3, <1>5, PrunedFacts
<1>6. ASSUME NEW key \in Keys, now' = now, inserts' = inserts + 1, Learned(key)
      PROVE  CacheInv'
  <2>1. cache' = Stored(key)
    BY <1>6 DEF Learned
  <2>2. ASSUME NEW k \in Keys
        PROVE  /\ cache'[k] # NoRoute =>
                    cache'[k].nth \in 1..inserts' /\ cache'[k].at <= now' /\ cache'[k].km = Road[k]
               /\ cache'[k] # NoRoute =>
                    \/ cache'[k].nth = inserts + 1 /\ k = key
                    \/ cache[k] # NoRoute /\ cache'[k].nth = cache[k].nth
    <3>1. MadeRoom[k] \in {cache[k], NoRoute} /\ cache[k].at \in Nat
      BY <1>2, RoomFacts DEF Routes
    <3>2. CASE k = key
      <4>1. /\ cache'[k].at = now /\ cache'[k].km = Road[k]
            /\ cache'[k].nth = IF MadeRoom[k] = NoRoute THEN inserts + 1 ELSE MadeRoom[k].nth
        BY <2>1, <3>2, StoredRoute
      <4>2. CASE MadeRoom[k] = NoRoute
        <5>1. cache'[k].nth = inserts + 1 /\ inserts + 1 \in 1..(inserts + 1)
          BY <1>2, <4>1, <4>2
        <5>2. cache'[k].nth \in 1..inserts' /\ cache'[k].at <= now'
          BY <1>2, <1>6, <4>1, <5>1
        <5>3. cache'[k].km = Road[k] /\ cache'[k].nth = inserts + 1 /\ k = key
          BY <3>2, <4>1, <5>1
        <5> QED BY <5>2, <5>3
      <4>3. CASE MadeRoom[k] # NoRoute
        <5>1. MadeRoom[k] = cache[k] /\ cache[k] # NoRoute
          BY <3>1, <4>3
        <5>2. cache[k].nth \in 1..inserts
          BY <5>1 DEF CacheInv
        <5> QED BY <1>2, <1>6, <4>1, <4>3, <5>1, <5>2
      <4> QED BY <4>2, <4>3
    <3>3. CASE k # key
      <4>1. cache'[k] = MadeRoom[k]
        BY <2>1, <3>3, StoredRoute
      <4>2. cache'[k] # NoRoute => cache'[k] = cache[k] /\ cache[k] # NoRoute
        BY <3>1, <4>1
      <4> QED BY <1>2, <1>6, <4>2 DEF CacheInv
    <3> QED BY <3>2, <3>3
  <2>3. \A j, k \in Keys : (cache'[j] # NoRoute /\ cache'[k] # NoRoute /\ cache'[j].nth = cache'[k].nth) => j = k
    <3> SUFFICES ASSUME NEW j \in Keys, NEW k \in Keys, cache'[j] # NoRoute, cache'[k] # NoRoute,
                        cache'[j].nth = cache'[k].nth
                 PROVE  j = k
      OBVIOUS
    <3>1. \A i \in Keys : cache[i] # NoRoute => cache[i].nth \in 1..inserts
      BY DEF CacheInv
    <3>2. \/ j = key /\ k = key
          \/ cache[j] # NoRoute /\ cache[k] # NoRoute /\ cache[j].nth = cache[k].nth
      BY <1>2, <2>2, <3>1
    <3> QED BY <3>2 DEF CacheInv
  <2> QED BY <2>2, <2>3 DEF CacheInv
<1> QED BY <1>1, <1>4, <1>5, <1>6 DEF CacheMoves

\* What was true of a quote stays true of it.
LEMMA QuoteStays ==
  ASSUME TypeInv, CacheInv, CacheMoves, NEW s \in Showns, ShownOk(s)
  PROVE  ShownOk(s)'
<1> DEFINE key == s.trip.key
<1>1. /\ s.at \in Nat /\ s.nth \in Nat /\ key \in Keys /\ now \in Nat /\ inserts \in Nat
      /\ cache[key] \in Routes /\ cache[key].at \in Nat /\ Ttl \in Nat /\ CacheMax \in Nat
  <2>1. key \in Keys /\ s.at \in Nat /\ s.nth \in Nat
    BY DEF Showns, NTrips
  <2>2. cache[key] \in Routes
    BY <2>1 DEF TypeInv
  <2> QED BY <2>1, <2>2, QuotesAssumption DEF QuotesAssumption, TypeInv, Routes
<1>2. now' \in {now, now + 1} /\ inserts' \in {inserts, inserts + 1}
  BY DEF CacheMoves
<1>3. ASSUME s.nth > 0, now' - s.at <= Ttl, inserts' - s.nth < CacheMax
      PROVE  cache'[key].nth = s.nth /\ cache'[key].at >= s.at
  <2>1. cache[key].nth = s.nth /\ cache[key].at >= s.at
    BY <1>1, <1>2, <1>3 DEF ShownOk, StillThere
  <2>2. cache[key] # NoRoute
    BY <1>3, <2>1, NoRouteFacts
  <2>3. ASSUME NEW k \in Keys, now' = now, cache' \in {cache, Pruned(k)}
        PROVE  cache'[key] = cache[key]
    <3>1. Pruned(k)[key] # cache[key] => now - cache[key].at > Ttl
      BY <1>1, PrunedFacts
    <3>2. now - cache[key].at <= Ttl
      BY <1>1, <1>3, <2>1, <2>3
    <3> QED BY <1>1, <2>3, <3>1, <3>2
  <2>4. ASSUME NEW k \in Keys, now' = now, inserts' = inserts + 1, cache' = Stored(k)
        PROVE  cache'[key].nth = cache[key].nth /\ cache'[key].at >= cache[key].at
    <3>1. MadeRoom[key] = cache[key]
      <4>1. MadeRoom[key] = NoRoute => inserts + 1 - cache[key].nth >= CacheMax
        BY <1>1, <2>2, RoomFacts
      <4>2. MadeRoom[key] # NoRoute
        BY <1>1, <1>3, <2>1, <2>4, <4>1
      <4> QED BY <1>1, <4>2, RoomFacts
    <3>2. CASE k = key
      <4>1. cache'[key].at = now /\ cache'[key].nth = cache[key].nth
        BY <1>1, <2>2, <2>4, <3>1, <3>2, StoredRoute
      <4>2. cache[key].at <= now
        BY <1>1, <2>2 DEF CacheInv
      <4> QED BY <4>1, <4>2, <1>1
    <3>3. CASE k # key
      BY <1>1, <2>4, <3>1, <3>3, StoredRoute
    <3> QED BY <3>2, <3>3
  <2>5. CASE cache' = cache
    BY <2>1, <2>5
  <2>6. CASE \E k \in Keys : now' = now /\ cache' \in {cache, Pruned(k)}
    BY <2>1, <2>3, <2>6
  <2>7. ASSUME NEW k \in Keys, now' = now, inserts' = inserts + 1, Learned(k)
        PROVE  cache'[key].nth = s.nth /\ cache'[key].at >= s.at
    <3>1. cache'[key].nth = cache[key].nth /\ cache'[key].at >= cache[key].at
      BY <2>4, <2>7 DEF Learned
    <3>2. cache'[key].at \in Nat
      BY <1>1, <2>7, StoredRoute DEF Learned, Routes
    <3> QED BY <1>1, <2>1, <3>1, <3>2
  <2> QED BY <2>5, <2>6, <2>7 DEF CacheMoves
<1>4. s.at <= now' /\ s.nth <= inserts'
  BY <1>1, <1>2 DEF ShownOk
<1> QED BY <1>3, <1>4 DEF ShownOk, StillThere

LEMMA ShownStep == TypeInv /\ CacheInv /\ ShownInv /\ [Next]_vars => ShownInv'
<1> SUFFICES ASSUME TypeInv, CacheInv, ShownInv, [Next]_vars, shown' # None PROVE ShownOk(shown)'
  BY DEF ShownInv
<1>1. CacheMoves
  BY StepMoves DEF StepShape
<1>2. /\ now \in Nat /\ inserts \in Nat
      /\ \A k \in Keys : cache[k] \in Routes /\ cache[k].at \in Nat /\ cache[k].nth \in Nat /\ cache[k].km \in Nat
  BY DEF TypeInv, Routes
<1>3. CASE shown' = shown
  <2>1. PICK s \in Showns : s = shown
    BY <1>3 DEF TypeInv
  <2>2. ShownOk(s)
    BY <1>3, <2>1 DEF ShownInv
  <2>3. ShownOk(s)'
    BY <1>1, <2>2, QuoteStays
  <2> QED BY <1>3, <2>1, <2>3 DEF ShownOk, StillThere
<1>4. ASSUME NEW key \in Keys, NEW trip \in NTrips, trip.key = key, NEW km \in Nat, NEW nth \in Nat,
             NEW at \in Nat, shown' = Shown(trip, km, nth, at),
             at <= now', nth <= inserts', nth > 0 => km = Road[key],
             nth > 0 => cache'[key].nth = nth /\ cache'[key].at >= at
      PROVE  ShownOk(shown)'
  <2>1. shown'.trip = trip /\ shown'.km = km /\ shown'.nth = nth /\ shown'.at = at
    BY <1>4 DEF Shown
  <2> QED BY <1>4, <2>1 DEF ShownOk, StillThere
<1>5. CASE now' \in {now, now + 1} /\ UNCHANGED <<cache, inserts, shown>>
  BY <1>3, <1>5
<1>6. ASSUME NEW key \in Keys, now' = now, inserts' = inserts, NEW km \in Nat, Showing(key, km, 0, now)
      PROVE  ShownOk(shown)'
  BY <1>2, <1>3, <1>4, <1>6 DEF Showing
<1>7. ASSUME NEW key \in Keys, now' = now, inserts' = inserts, cache' \in {cache, Pruned(key)}, Remembered(key)
      PROVE  ShownOk(shown)'
  <2>1. cache' = cache /\ cache[key] # NoRoute
    BY <1>7 DEF Remembered, Known, Pruned, Held
  <2>2. cache[key].nth <= inserts /\ cache[key].at <= now /\ cache[key].km = Road[key]
    BY <1>2, <2>1 DEF CacheInv
  <2>3. Showing(key, cache[key].km, cache[key].nth, cache[key].at)
    BY <1>7 DEF Remembered
  <2>4. CASE shown' = shown
    BY <1>3, <2>4
  <2>5. CASE shown' # shown
    <3>1. PICK trip \in NTrips :
            trip.key = key /\ shown' = Shown(trip, cache[key].km, cache[key].nth, cache[key].at)
      BY <2>3, <2>5 DEF Showing
    <3>2. cache'[key].at >= cache[key].at
      BY <1>2, <2>1
    <3> QED BY <1>2, <1>4, <1>7, <2>1, <2>2, <3>1, <3>2
  <2> QED BY <2>4, <2>5
<1>8. ASSUME NEW key \in Keys, now' = now, inserts' = inserts + 1, Learned(key)
      PROVE  ShownOk(shown)'
  <2>1. PICK e \in Routes : e = Stored(key)[key] /\ e = cache'[key]
    BY <1>8, StoredRoute DEF Learned
  <2>2. e.at = now /\ e.km = Road[key] /\ e.nth \in Nat /\ e.km \in Nat
    BY <2>1, StoredRoute DEF Routes
  <2>3. e.nth <= inserts'
    <3>1. e.km # 0
      BY <2>2, RoadFacts
    <3>2. CacheInv'
      BY CacheStep
    <3>3. cache'[key] # NoRoute
      BY <2>1, <3>1, NoRouteFacts
    <3>4. e.nth \in 1..inserts'
      BY <2>1, <3>2, <3>3 DEF CacheInv
    <3> QED BY <3>4
  <2>4. Showing(key, e.km, e.nth, e.at)
    BY <1>8, <2>1 DEF Learned
  <2>5. CASE shown' = shown
    BY <1>3, <2>5
  <2>6. CASE shown' # shown
    <3>1. PICK trip \in NTrips : trip.key = key /\ shown' = Shown(trip, e.km, e.nth, e.at)
      BY <2>4, <2>6 DEF Showing
    <3> QED BY <1>2, <1>4, <1>8, <2>1, <2>2, <2>3, <3>1
  <2> QED BY <2>5, <2>6
<1> QED BY <1>1, <1>5, <1>6, <1>7, <1>8 DEF CacheMoves, Unrouted

-----------------------------------------------------------------------------
(* The invariant of the module, and what follows.                           *)

Inv == TypeInv /\ BookedInv /\ ClosureInv /\ CacheInv /\ ShownInv

LEMMA LegacyFacts ==
  ASSUME card \in Cards, NEW fare \in LegacyFares
  PROVE  LegacyBooking(fare) \in Bookings /\ BookingOk(LegacyBooking(fare))
<1>1. fare \in Nat
  BY QuotesAssumption DEF QuotesAssumption
<1>2. PricingOf(fare) \in Prices /\ PriceOk(PricingOf(fare))
  BY <1>1 DEF PricingOf, Prices, PriceOk
<1> QED BY <1>2 DEF LegacyBooking, Bookings, BookingOk, AdvanceOf

LEMMA InitInv == Init => Inv
<1> SUFFICES ASSUME Init PROVE Inv
  OBVIOUS
<1>1. booked \in Bookings \cup {None} /\ BookedInv
  BY LegacyFacts DEF Init, BookedInv
<1>2. cache \in [Keys -> Routes]
  BY DEF Init, NoRoute, Routes
<1>3. TypeInv
  BY <1>1, <1>2 DEF Init, TypeInv
<1>4. ClosureInv /\ CacheInv /\ ShownInv
  BY DEF Init, ClosureInv, CacheInv, ShownInv
<1> QED BY <1>1, <1>3, <1>4 DEF Inv

LEMMA InvStep == Inv /\ [Next]_vars => Inv'
BY TypeStep, BookedStep, ClosureStep, CacheStep, ShownStep DEF Inv

LEMMA Invariance == Spec => []Inv
BY InitInv, InvStep, PTL DEF Spec

LEMMA InvQuote == Inv => QuoteSurvivesOutage
<1> SUFFICES ASSUME Inv, shown # None, shown.nth > 0, now - shown.at <= Ttl, inserts - shown.nth < CacheMax
             PROVE  Known(shown.trip.key) /\ cache[shown.trip.key].km = shown.km
  BY DEF QuoteSurvivesOutage
<1> DEFINE key == shown.trip.key
<1>1. key \in Keys /\ shown.at \in Nat /\ shown.nth \in Nat /\ now \in Nat /\ Ttl \in Nat
  BY QuotesAssumption DEF QuotesAssumption, Inv, TypeInv, Showns, NTrips
<1>2. cache[key] \in Routes /\ cache[key].at \in Nat
  BY <1>1 DEF Inv, TypeInv, Routes
<1>3. cache[key].nth = shown.nth /\ cache[key].at >= shown.at /\ shown.km = Road[key]
  BY DEF Inv, ShownInv, ShownOk, StillThere
<1>4. cache[key] # NoRoute
  BY <1>3, NoRouteFacts
<1>5. cache[key].km = Road[key]
  BY <1>1, <1>4 DEF Inv, CacheInv
<1>6. ~(now - cache[key].at > Ttl)
  BY <1>1, <1>2, <1>3
<1> QED BY <1>1, <1>3, <1>4, <1>5, <1>6 DEF Known, Held, TooOld

LEMMA InvLonger == Inv => LongerCostsNoLess
<1> SUFFICES ASSUME Inv, booked # None, booked.source = "trip", ~Hourly,
                    NEW k \in 1..booked.km, NEW d \in 1..booked.trip.days
             PROVE  Gross(booked.card, [Routed(booked.trip, k) EXCEPT !.days = d]) <= booked.pricing.gross
  BY DEF LongerCostsNoLess
<1>1. booked.card \in Cards /\ booked.km \in Nat
  BY DEF Inv, TypeInv, Bookings
<1>2. booked.trip \in NTrips /\ booked.pricing.gross = Gross(booked.card, Routed(booked.trip, booked.km))
  BY DEF Inv, BookedInv, BookingOk
<1>3. booked.trip.type # "hourly"
  BY DEF Hourly
<1> QED BY <1>1, <1>2, <1>3, GrossGrows

\* The tax of a base in two rows or one.
LEMMA RowFacts ==
  ASSUME NEW gst \in Nat, NEW intra \in BOOLEAN
  PROVE  RowsTotal(GstRows(gst, intra)) = gst
<1>1. Rounded(gst, 2) \in Int
  BY DEF Rounded
<1>2. CASE intra
  <2>1. GstRows(gst, intra) = <<Rounded(gst, 2), gst - Rounded(gst, 2)>>
    BY <1>2 DEF GstRows
  <2> QED BY <1>1, <2>1 DEF RowsTotal
<1>3. CASE ~intra
  <2>1. GstRows(gst, intra) = <<gst>>
    BY <1>3 DEF GstRows
  <2> QED BY <2>1 DEF RowsTotal
<1> QED BY <1>2, <1>3

LEMMA BookedFacts ==
  ASSUME Inv, booked # None
  PROVE  LET p == booked.pricing
         IN /\ p.gross \in Nat /\ p.discount \in Nat /\ p.subtotal \in Nat /\ p.gst \in Nat /\ p.total \in Nat
            /\ p.discount <= p.gross /\ p.subtotal = p.gross - p.discount /\ p.total = p.subtotal + p.gst
            /\ booked.source # "legacy" => p.gst = GstOf(p.subtotal)
            /\ booked.advance \in Nat /\ (AdvanceFits => booked.advance <= p.total)
<1>1. booked \in Bookings /\ BookingOk(booked)
  BY DEF Inv, TypeInv, BookedInv
<1>2. booked.pricing \in Prices /\ booked.percent \in 0..99 /\ booked.advance \in Nat
  BY <1>1 DEF Bookings
<1>3. booked.pricing.total \in Nat
  BY <1>2 DEF Prices
<1>4. AdvanceFits => booked.advance <= booked.pricing.total
  BY <1>1, <1>2, <1>3, AdvanceFacts DEF BookingOk, AdvanceFits
<1> QED BY <1>1, <1>2, <1>4 DEF Prices, BookingOk, PriceOk

LEMMA InvCharge == Inv => ChargeAddsUp
<1> SUFFICES ASSUME Inv, booked # None
             PROVE  LET price == booked.pricing
                    IN /\ price.discount \in 0..price.gross
                       /\ price.total = price.gross - price.discount + price.gst
                       /\ booked.source # "legacy" => 100 * price.gst - GstRate * price.subtotal \in -50..50
                       /\ AdvanceFits =>
                            /\ booked.advance \in 0..price.total
                            /\ booked.advance + BalanceDue(price.total, booked.advance) \in {0, price.total}
  BY DEF ChargeAddsUp
<1> DEFINE p == booked.pricing
<1>1. /\ p.discount \in 0..p.gross /\ p.total = p.gross - p.discount + p.gst
  BY BookedFacts
<1>2. booked.source # "legacy" => 100 * p.gst - GstRate * p.subtotal \in -50..50
  BY BookedFacts, GstFacts
<1>3. AdvanceFits => /\ booked.advance \in 0..p.total
                     /\ booked.advance + BalanceDue(p.total, booked.advance) \in {0, p.total}
  BY BookedFacts DEF BalanceDue
<1> QED BY <1>1, <1>2, <1>3

LEMMA InvInvoice == Inv => InvoiceSettles
<1> SUFFICES ASSUME Inv, booked # None, closure # None
             PROVE  LET price == booked.pricing
                        final == FinalTotal(price.total, closure)
                        tax   == price.gst + closure.gst
                    IN /\ \A intra \in BOOLEAN :
                            RowsTotal(GstRows(price.gst, intra)) + RowsTotal(GstRows(closure.gst, intra)) = tax
                       /\ final = price.subtotal + closure.subtotal + closure.tolls + tax
                       /\ AdvanceFits => booked.advance + InvoiceBalance(final, booked.advance) = final
                       /\ final >= price.total
  BY DEF InvoiceSettles
<1> DEFINE p == booked.pricing
           final == FinalTotal(p.total, closure)
<1>1. /\ closure.subtotal \in Nat /\ closure.gst \in Nat /\ closure.tolls \in Nat /\ closure.total \in Nat
      /\ closure.total = closure.subtotal + closure.gst + closure.tolls
  BY DEF Inv, TypeInv, ClosureInv, Closures
<1>2. \A intra \in BOOLEAN :
        RowsTotal(GstRows(p.gst, intra)) + RowsTotal(GstRows(closure.gst, intra)) = p.gst + closure.gst
  BY <1>1, BookedFacts, RowFacts
<1>3. /\ final = p.subtotal + closure.subtotal + closure.tolls + (p.gst + closure.gst)
      /\ final >= p.total /\ final \in Nat
  BY <1>1, BookedFacts DEF FinalTotal
<1>4. AdvanceFits => booked.advance + InvoiceBalance(final, booked.advance) = final
  <2> HIDE DEF final
  <2> QED BY <1>3, BookedFacts DEF InvoiceBalance, Larger
<1> QED BY <1>2, <1>3, <1>4

\* The variables are typed: the cache holds routes, and the quote, the booking
\* and its closure are records of amounts in whole paise (round2).
THEOREM TypesHold == Spec => []TypeInv
BY Invariance, PTL DEF Inv

\* For every size of the cache: a route that was shown is found again while it
\* is fresh and fewer routes came after it than the cache holds (cacheSet).
THEOREM QuotesSurvive == Spec => []QuoteSurvivesOutage
BY Invariance, InvQuote, PTL

\* For every rate card, distance and number of days: a shorter trip does not
\* cost more (quoteVehicleTrip).
THEOREM FaresGrow == Spec => []LongerCostsNoLess
BY Invariance, InvLonger, PTL

\* For every tax rate, coupon, advance and closing bill: the amounts of bill
\* and invoice add up (applyCoupon, quoteTripClosure, renderInvoiceHtml).
THEOREM AmountsFit == Spec => []AmountsAddUp
<1>1. Inv => AmountsAddUp
  BY InvCharge, InvInvoice DEF AmountsAddUp
<1> QED BY Invariance, <1>1, PTL

=============================================================================
