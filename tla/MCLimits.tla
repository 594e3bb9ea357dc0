------------------------------ MODULE MCLimits ------------------------------
(* Instances of Limits for TLC: the reviews have the longer window, as ten   *)
(* minutes to one.                                                           *)
EXTENDS Limits, TLC

Names == {"login", "sensitive", "reviews"}
Windows == [l \in Names |-> IF l = "reviews" THEN 4 ELSE 2]
Budgets == [l \in Names |-> IF l = "login" THEN 3 ELSE 2]

PhoneSymmetry == Permutations(Phones)

=============================================================================
