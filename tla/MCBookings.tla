----------------------------- MODULE MCBookings -----------------------------
(* Instances of Bookings for TLC. *)
EXTENDS Reminders, TLC
Tomorrow == <<1, 1>>
Days == {Tomorrow, <<2, 2>>}
\* A planned trip paid online with the coupon, and a plain one on arrival.
Asks == [owner : Customers, coupon : {TRUE}, online : {TRUE}, period : {Tomorrow}, vehicle : Vehicles]
        \cup [owner : Customers, coupon : {FALSE}, online : {FALSE}, period : {Tomorrow}, vehicle : {None}]
Rows == {[active |-> TRUE, limit |-> 1, once |-> FALSE], [active |-> TRUE, limit |-> 2, once |-> TRUE]}
MCSymmetry == Permutations(Customers) \cup Permutations(Threads)
=============================================================================
