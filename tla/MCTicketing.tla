--------------------------- MODULE MCTicketing ---------------------------
(* Instances of Ticketing for TLC.                                        *)
EXTENDS Ticketing, TLC

CONSTANTS u1, u2, s1, s2

\* One seat, both seats in either order, and a list with a repeated seat.
MCSeatLists == {<<s1>>, <<s1, s2>>, <<s2, s1>>, <<s1, s1>>}

Symmetry == Permutations(Users) \cup Permutations(Requests)
                \cup Permutations(HoldIds)

============================================================================
