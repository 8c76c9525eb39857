----------------------------- MODULE SeatMarket -----------------------------
(***************************************************************************)
(* What the seats of a sale promise, without transactions: a hold takes    *)
(* all of its seats at once, from nobody, and gives them up at once and    *)
(* once only, by its release or by their sale.  Ticketing is shown to      *)
(* implement this specification.                                           *)
(***************************************************************************)
CONSTANTS Seats, Holds, Nobody

VARIABLES
    holder,  \* the hold each seat belongs to, or Nobody
    sold,    \* the seats that are sold
    over     \* the holds that are over

vars == <<holder, sold, over>>

SeatsHeldBy(h) == {s \in Seats : holder[s] = h}

Take(h, taken) ==
    /\ h \notin over
    /\ SeatsHeldBy(h) = {}
    /\ taken # {}
    /\ \A s \in taken : s \notin sold /\ holder[s] = Nobody
    /\ holder' = [s \in Seats |-> IF s \in taken THEN h ELSE holder[s]]
    /\ UNCHANGED <<sold, over>>

End(h) ==
    /\ SeatsHeldBy(h) # {}
    /\ holder' = [s \in Seats |-> IF holder[s] = h THEN Nobody ELSE holder[s]]
    /\ over' = over \cup {h}

Release(h) == End(h) /\ UNCHANGED sold

Sell(h) == End(h) /\ sold' = sold \cup SeatsHeldBy(h)

Init ==
    /\ holder = [s \in Seats |-> Nobody]
    /\ sold = {}
    /\ over = {}

Next ==
    \E h \in Holds :
        (\E taken \in SUBSET Seats : Take(h, taken)) \/ Release(h) \/ Sell(h)

Spec == Init /\ [][Next]_vars

=============================================================================
