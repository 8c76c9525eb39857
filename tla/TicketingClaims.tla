-------------------------- MODULE TicketingClaims --------------------------
(***************************************************************************)
(* What the repository says of holds and checkouts and Ticketing shows the *)
(* code not to do.                                                         *)
(***************************************************************************)
EXTENDS Ticketing

CONSTANTS s1, s2

ClaimSeatLists == {<<s1>>, <<s2>>}

\* internal/inventory/service.go, Hold: "max 1 active hold per user per sale".
OneActiveHoldPerUser ==
    \A u \in Users : Cardinality(ActiveHolds(u)) <= 1

\* docs/deploy.md: "Users can still register, join the queue, and checkout".  A
\* checkout that has passed all of its checks and reaches COMMIT is confirmed.
CheckoutConfirms ==
    [][\A r \in Requests : CheckoutCommit(r) => orders' # orders]_vars

============================================================================
