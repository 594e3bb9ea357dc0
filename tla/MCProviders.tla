----------------------------- MODULE MCProviders -----------------------------
(* Instances of Providers for TLC: each setting missing once.                *)
EXTENDS Providers, TLC

Full == [account |-> TRUE, sender |-> TRUE, number |-> TRUE,
         template |-> [known |-> TRUE, id |-> TRUE, unresolved |-> FALSE,
                       override |-> FALSE, defaults |-> TRUE]]
MCSetups == {Full,
             [Full EXCEPT !.account = FALSE], [Full EXCEPT !.sender = FALSE, !.number = FALSE],
             [Full EXCEPT !.template.id = FALSE],
             [Full EXCEPT !.template.unresolved = TRUE],
             [Full EXCEPT !.template.unresolved = TRUE, !.template.override = TRUE]}

MessageSymmetry == Permutations(Messages)

=============================================================================
