------------------------------- MODULE Outbox -------------------------------
(***************************************************************************)
(* What the notification engine promises for each notification when        *)
(* nothing fails around it: it is posted once, its provider accepts it at   *)
(* most once, and it ends as sent exactly if the provider accepted it.     *)
(***************************************************************************)
EXTENDS Naturals

CONSTANTS Notes

VARIABLES
  box,       \* note -> "none", "pending", "sent" or "dead"
  accepted   \* note -> how often its provider has accepted it

vars == <<box, accepted>>

Move(n, from, to) == /\ box[n] = from
                     /\ box' = [box EXCEPT ![n] = to]

Init == /\ box = [n \in Notes |-> "none"]
        /\ accepted = [n \in Notes |-> 0]

Post(n) == Move(n, "none", "pending") /\ UNCHANGED accepted

Accept(n) == /\ box[n] = "pending" /\ accepted[n] = 0
             /\ accepted' = [accepted EXCEPT ![n] = 1]
             /\ UNCHANGED box

Settle(n) == accepted[n] = 1 /\ Move(n, "pending", "sent") /\ UNCHANGED accepted

GiveUp(n) == accepted[n] = 0 /\ Move(n, "pending", "dead") /\ UNCHANGED accepted

Next == \E n \in Notes : Post(n) \/ Accept(n) \/ Settle(n) \/ GiveUp(n)

Spec == Init /\ [][Next]_vars

=============================================================================
