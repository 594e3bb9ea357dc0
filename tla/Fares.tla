-------------------------------- MODULE Fares --------------------------------
(***************************************************************************)
(* What a booking costs: pricing.js with the amounts of billing.js,        *)
(* bookingView.js and the invoice.  An amount is an integer of paise and   *)
(* arithmetic is exact, as round2 makes it; labels and details of the      *)
(* lines are left out.                                                     *)
(*                                                                         *)
(* A rate card is what an admin sets on a vehicle:                         *)
(*   [perKm, bata, extraKm : Nat, local : [package key -> Nat]]            *)
(* and a trip is [type, km, days, pkg].                                    *)
(***************************************************************************)
EXTENDS Integers, Sequences

CONSTANT GstRate   \* percent

ASSUME GstAssumption == GstRate \in Nat

Rupee == 100

Larger(a, b)  == IF a >= b THEN a ELSE b
Smaller(a, b) == IF a <= b THEN a ELSE b

\* The quotient rounded to the nearest integer, halves up.
Rounded(n, d) == (2 * n + d) \div (2 * d)

-----------------------------------------------------------------------------
(* FARE_RULES and HOURLY_PACKAGES *)

TripTypes == {"airport", "oneway", "roundtrip", "hourly"}
AirportMinKm == 30
OnewayMinKm == 130
RoundtripMinKmPerDay == 250
LocalTripKm == 50

PackageKms == [p \in {"4h40", "8h80", "12h120"} |->
                 CASE p = "4h40" -> 40 [] p = "8h80" -> 80 [] p = "12h120" -> 120]

\* First and last day of a round trip, as numbers.
TripDays(from, to) == Larger(1, to - from + 1)

StopTripTypes == {"oneway", "roundtrip"}
MaxStops == 5

\* normalizeTrip of what the planner sends, [key, type, drop, stops, from, to,
\* pkg], with key the route through its places and drop whether it has one.
\* Places and times the form cannot send are left out.
ValidTrip(raw) ==
  /\ raw.type \in TripTypes
  /\ raw.type # "hourly" => raw.drop
  /\ raw.stops <= MaxStops
  /\ raw.stops > 0 => raw.type \in StopTripTypes
  /\ raw.type = "roundtrip" => raw.from <= raw.to
  /\ raw.type = "hourly" => raw.pkg \in DOMAIN PackageKms

NormalizedTrip(raw) ==
  [key  |-> raw.key, type |-> raw.type,
   days |-> IF raw.type = "roundtrip" THEN TripDays(raw.from, raw.to) ELSE 1,
   pkg  |-> IF raw.type = "hourly" THEN raw.pkg ELSE "none"]

\* A short trip is billed for what it is.
LocalTrip(trip) == /\ trip.km <= LocalTripKm
                   /\ trip.type = "oneway" \/ (trip.type = "roundtrip" /\ trip.days = 1)

MinKmSwapped(trip) ==   \* mutant: the local and the outstation minimum swapped
  CASE trip.type = "airport"   -> AirportMinKm
    [] trip.type = "oneway"    -> IF LocalTrip(trip) THEN OnewayMinKm ELSE AirportMinKm
    [] trip.type = "roundtrip" -> RoundtripMinKmPerDay * trip.days

MinKm(trip) ==
  CASE trip.type = "airport"   -> AirportMinKm
    [] trip.type = "oneway"    -> IF LocalTrip(trip) THEN AirportMinKm ELSE OnewayMinKm
    [] trip.type = "roundtrip" -> IF LocalTrip(trip) THEN 2 * AirportMinKm
                                  ELSE RoundtripMinKmPerDay * trip.days

\* Up and down on a round trip.
DrivenKm(trip) == IF trip.type = "roundtrip" THEN 2 * trip.km ELSE trip.km

BillKm(trip) == IF trip.type = "hourly" THEN PackageKms[trip.pkg]
                ELSE Larger(DrivenKm(trip), MinKm(trip))

BataDays(trip) == CASE trip.type = "oneway" /\ ~LocalTrip(trip) -> 1
                    [] trip.type = "roundtrip" -> trip.days
                    [] OTHER -> 0

\* quoteVehicleTrip: can the vehicle serve the trip, and the charge lines.
Serves(card, trip) == IF trip.type = "hourly" THEN card.local[trip.pkg] > 0
                      ELSE card.perKm > 0

Gross(card, trip) ==
  IF trip.type = "hourly" THEN card.local[trip.pkg]
  ELSE BillKm(trip) * card.perKm + BataDays(trip) * card.bata

\* What has no route: a package at its listed price, a vehicle at its rate for
\* eight hours and 80 km, and otherwise what the client says.  0 is no price.
QuotePackage(price) ==
  [source |-> "package", gross |-> price, billKm |-> 0, perKm |-> 0]
QuoteVehicleIndicative(card) ==
  [source |-> "indicative", gross |-> card.local["8h80"],
   billKm |-> PackageKms["8h80"], perKm |-> card.perKm]
QuoteEstimate(fare) ==
  [source |-> "estimate", gross |-> fare, billKm |-> 0, perKm |-> 0]

-----------------------------------------------------------------------------
(* GST, coupons, closure *)

GstOf(base) == Rounded(base * GstRate, 100)

ApplyGst(base) == [subtotal |-> base, gst |-> GstOf(base), total |-> base + GstOf(base)]

WholeRupees(paise) == (paise \div Rupee) * Rupee

\* A percentage is capped by maxDiscount (0: no cap); a flat value is not.
CouponDiscount(gross, c) ==
  LET part == (gross * c.value) \div 100
      off  == IF c.type = "flat" THEN c.value
              ELSE IF c.maxDiscount > 0 THEN Smaller(part, c.maxDiscount) ELSE part
  IN Smaller(gross, WholeRupees(off))

\* checkCoupon's share that depends on the amount.
CouponFits(gross, c) == gross >= c.minAmount /\ CouponDiscount(gross, c) > 0

\* quoteTripClosure.
Closure(includedKm, actualKm, rate, other, tolls) ==
  LET extra == Larger(0, actualKm - includedKm)
      taxed == ApplyGst(extra * rate + other)
  IN [extraKm |-> extra, subtotal |-> taxed.subtotal, gst |-> taxed.gst,
      tolls |-> tolls, total |-> taxed.total + tolls]

\* Bookings from before prices were itemised have one amount and no tax.
PricingOf(fare) == [gross |-> fare, discount |-> 0, subtotal |-> fare, gst |-> 0, total |-> fare]

FinalTotal(total, closure) == total + closure.total

-----------------------------------------------------------------------------
(* What is paid when *)

\* The advance is in whole rupees, and one at least.
Advance(fare, percent) == Larger(Rupee, Rounded(fare * percent, 100 * Rupee) * Rupee)

BalanceDue(fare, advance) == IF advance = 0 THEN 0 ELSE fare - advance

\* The rows of the tax on an invoice: central and state tax within the state.
EvenHalves(gst, intra) == IF intra THEN <<Rounded(gst, 2), Rounded(gst, 2)>> ELSE <<gst>>   \* mutant
GstRows(gst, intra) == IF intra THEN <<Rounded(gst, 2), gst - Rounded(gst, 2)>> ELSE <<gst>>
RowsTotal(rows) == rows[1] + (IF Len(rows) = 2 THEN rows[2] ELSE 0)

InvoiceBalance(total, paid) == Larger(0, total - paid)

=============================================================================
