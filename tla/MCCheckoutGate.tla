-------------------------- MODULE MCCheckoutGate --------------------------
(* Instances of CheckoutGate for TLC.                                      *)
EXTENDS CheckoutGate, TLC

Symmetry == Permutations(Requests) \cup Permutations(Tokens)
                \cup Permutations(Ips) \cup Permutations(Users)

===========================================================================
