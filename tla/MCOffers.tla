------------------------------ MODULE MCOffers ------------------------------
(* An instance of Offers for TLC: a mailbox, the admin's and a phone-only    *)
(* account, with the default number a mobile as it is unless configured.     *)
EXTENDS Offers

=============================================================================
