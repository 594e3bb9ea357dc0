------------------------------ MODULE MCQuotes ------------------------------
(* Instances of Quotes for TLC: routes on both sides of the minimum          *)
(* distances, rates with odd paise, coupons that cover a part or all.        *)
EXTENDS Quotes, TLC

CONSTANTS k1, k2, k3

RoadKms   == (k1 :> 50) @@ (k2 :> 60) @@ (k3 :> 27)
Estimates == (k1 :> 51) @@ (k2 :> 49) @@ (k3 :> 27)

Percents == {0, 33}
Trip(key, type, to, pkg) == [key |-> key, type |-> type, drop |-> type # "hourly",
                             stops |-> 0, from |-> 1, to |-> to, pkg |-> pkg]
MCTrips == {Trip(k2, "oneway", 1, "none"), Trip(k1, "roundtrip", 1, "none"),
            [Trip(k2, "roundtrip", 2, "none") EXCEPT !.stops = 1],
            Trip(k3, "airport", 1, "none"), Trip(k1, "hourly", 1, "4h40"),
            Trip(k1, "hourly", 1, "9h90"), Trip(k1, "roundtrip", 0, "none"),
            [Trip(k3, "airport", 1, "none") EXCEPT !.stops = 1]}
Local(p) == [k \in {"4h40", "8h80", "12h120"} |-> p]
MCCards == {[perKm |-> 1333, bata |-> 40050, extraKm |-> 1499, local |-> Local(99950)],
            [perKm |-> 1, bata |-> 0, extraKm |-> 0, local |-> Local(0)]}
MCCoupons == {[type |-> "percent", value |-> 100, maxDiscount |-> 0, minAmount |-> 0],
              [type |-> "percent", value |-> 15, maxDiscount |-> 10050, minAmount |-> 5000],
              [type |-> "flat", value |-> 60075, maxDiscount |-> 100, minAmount |-> 0]}
RequesterSymmetry == Permutations(Requesters)

Ends == {[km |-> 301, included |-> None, rate |-> None, other |-> 0, tolls |-> 12345],
         [km |-> 20, included |-> None, rate |-> None, other |-> 4999, tolls |-> 0],
         [km |-> 90, included |-> 80, rate |-> 1777, other |-> 0, tolls |-> 0]}

Request(price, mode, vehicle, fare, km) ==
  [price |-> price, mode |-> mode, percent |-> 35, vehicle |-> vehicle, fare |-> fare, km |-> km]
Listed == {Request(499951, "partial", FALSE, 0, 0), Request(0, "online", TRUE, 150, 0),
           Request(0, "none", TRUE, 77701, 0), Request(0, "none", TRUE, 77701, 44)}
OldFares == {123457}

=============================================================================
