----------------------------- MODULE MCLoadTest -----------------------------
(* Instances of LoadTest for TLC.                                          *)
EXTENDS LoadTest, TLC

\* Run ids and calls are interchangeable: both are only compared for equality,
\* and the order of jobs is kept in `created`.
Symmetry == Permutations(Jobs) \cup Permutations(Callers)

=============================================================================
