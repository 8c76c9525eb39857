------------------------- MODULE WaitingRoomClaims -------------------------
(***************************************************************************)
(* What a tool of the repository says of the waiting room, as a property   *)
(* that the code as modelled in WaitingRoom does not have.                 *)
(***************************************************************************)
EXTENDS WaitingRoom

\* What assert-queue counts, over the rows ordered by joined_at and again over
\* the rows ordered by position: it finds none exactly if there is none.
Inversions ==
    {<<u, v>> \in Entries \X Entries :
        position[u] < position[v] /\ joinedAt[v] < joinedAt[u]}

\* cmd/assert-queue: "verifies FIFO queue ordering for a sale (zero
\* inversions)", that is, positions never disagree with joined_at.
ZeroInversions == Inversions = {}

============================================================================
