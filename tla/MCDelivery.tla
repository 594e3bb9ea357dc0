----------------------------- MODULE MCDelivery -----------------------------
(* Instances of Delivery for TLC. *)
EXTENDS Delivery, TLC

CONSTANTS k1, e1, e2, w1, w2

\* Two emissions with one key: a repeated one, or a second modification of a
\* booking, whose business key is the booking's id again.
Once       == [e \in {e1} |-> k1]
Twice      == [e \in {e1, e2} |-> k1]
EmailSms  == <<"email", "sms">>

\* The customer left no phone number.
NoPhone == {<<k1, "sms">>}

WorkerSymmetry == Permutations(Workers)

=============================================================================
