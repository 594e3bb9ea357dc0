----------------------------- MODULE MCPayments -----------------------------
(* Instances of Payments for TLC. *)
EXTENDS Payments, TLC

CONSTANTS o1, o2, b1, t1, t2

ThreadSymmetry == Permutations(Threads)
Symmetry == ThreadSymmetry \cup Permutations(Orders)

CaptureEvents  == {"payment.captured", "order.paid"}
AttemptEvents  == {"payment.captured", "payment.failed", "order.paid"}
PaymentEvents  == {"payment.authorized", "payment.captured", "payment.failed",
                   "refund.processed"}
NoEvents       == {}

\* One fault in all, a write that throws or a restart; one order whose status
\* is ever answered with errors; two refunds, of one order or of both.
RefundsMade == UNION {{o} \X DOMAIN gwRefunds[o] : o \in Orders}
FewFaults == /\ faults + crashes <= 1
             /\ Cardinality(misread) <= 1
             /\ Cardinality(RefundsMade) <= 2

=============================================================================
