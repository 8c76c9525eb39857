------------------------ MODULE TicketingLiveness ------------------------
(***************************************************************************)
(* What Ticketing eventually does, when Postgres breaks deadlocks and the  *)
(* worker's failures come to an end.  The steps of Ticketing that stop a   *)
(* worker at a random place are left out: they lead only to states in      *)
(* which the worker is idle or between two rows, which it reaches anyway.  *)
(***************************************************************************)
EXTENDS Ticketing

CONSTANT Worker  \* the worker's name among the transactions

Transactions == Requests \cup {Worker}

Mark(t) == IF t = Worker THEN worker.mark ELSE request[t].mark

\* Transaction t waits for a row that transaction q has locked.
RequestWaitsFor(t, q) ==
    LET rec == request[t]
        s == rec.seats[rec.next] IN
    \/ rec.pc = "update" /\ seatStatus[s] = "available" /\ s \notin rec.mark
          /\ s \in Mark(q)
    \/ rec.pc = "sell" /\ seatStatus[s] = "held" /\ s \in Mark(q)
    \/ rec.pc = "insertOrder" /\ q \in Ordering
          /\ request[q].user = rec.user /\ request[q].key = rec.key
    \/ rec.pc = "commit" /\ q \in Requests /\ Pins(q, rec.hold)

WorkerWaitsFor(q) ==
    \/ /\ worker.pc = "update"
       /\ LET s == holdRow[worker.hold].seats[worker.next] IN
          seatStatus[s] = "held" /\ s \in Mark(q)
    \/ worker.pc = "delete" /\ Pins(q, worker.hold)

WaitsFor(t, q) ==
    t # q /\ IF t = Worker THEN WorkerWaitsFor(q) ELSE RequestWaitsFor(t, q)

\* A set of transactions each of which waits for another one of the set, and is
\* waited for.
Deadlocked(t) ==
    \E C \in SUBSET Transactions :
        /\ t \in C
        /\ \A a \in C : (\E b \in C : WaitsFor(a, b)) /\ (\E b \in C : WaitsFor(b, a))

\* Postgres aborts one of the transactions of a deadlock.
DeadlockVictim ==
    \/ \E r \in Requests : Deadlocked(r) /\ RequestDies(r)
    \/ Deadlocked(Worker) /\ WorkerTxFails

\* The steps a handler takes once it has begun.
RequestStep(r) ==
    \/ HoldCount(r) \/ HoldUpdate(r) \/ HoldCommit(r)
    \/ CheckoutOwned(r) \/ CheckoutReadHold(r) \/ CheckoutInsertOrder(r)
    \/ CheckoutSell(r) \/ CheckoutCommit(r)

LiveNext ==
    \/ \E r \in Requests : Hold(r) \/ Checkout(r) \/ RequestDies(r)
    \/ ReleaseExpired
    \/ DeadlockVictim
    \/ \E h \in HoldIds : Expire(h)

\* Handlers run, the worker's ticker goes on, deadlocks are detected.  Strong
\* fairness: Postgres gives a row lock that is released to the one that has been
\* waiting for it, so a wait that ends again and again ends for everyone.
LiveSpec ==
    /\ Init /\ [][LiveNext]_vars
    /\ \A r \in Requests : SF_vars(RequestStep(r))
    /\ SF_vars(ReleaseExpired)
    /\ WF_vars(DeadlockVictim)

\* Every hold that expires is released in the end, and its seats with it
\* (SeatLedger), although checkouts may be using it and deadlock with the
\* release, and a query returns only some of the expired holds.
ExpiredHoldsAreReleased ==
    \A h \in HoldIds : holdState[h] = "expired" ~> holdState[h] = "gone"

\* Every request is answered: nobody waits for ever for a row lock.
RequestsEnd == \A r \in Requests : ~At(r, "idle") ~> At(r, "idle")

============================================================================
