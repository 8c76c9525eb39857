----------------------- MODULE MCTicketingLiveness -----------------------
(* The instance of TicketingLiveness for TLC; liveness allows no symmetry. *)
EXTENDS TicketingLiveness

CONSTANTS s1, s2

MCSeatLists == {<<s1, s2>>, <<s2, s1>>}

============================================================================
