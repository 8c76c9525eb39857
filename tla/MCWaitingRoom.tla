-------------------------- MODULE MCWaitingRoom --------------------------
(* Instances of WaitingRoom for TLC.  Users and requests are              *)
(* interchangeable, so both sets are symmetric for the safety runs.       *)
EXTENDS WaitingRoom, TLC

Symmetry == Permutations(Users) \cup Permutations(Requests)

============================================================================
