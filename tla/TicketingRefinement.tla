------------------------ MODULE TicketingRefinement ------------------------
(***************************************************************************)
(* Ticketing implements SeatMarket: the inductive invariant of             *)
(* TicketingProofs makes Holder, the hold that lists a held seat, well     *)
(* defined, and under it only the COMMITs of Hold and of the worker move   *)
(* seats, all those of a hold at once.                                     *)
(***************************************************************************)
EXTENDS TicketingProofs

Holders == [s \in Seats |-> Holder(s)]
Sold == {s \in Seats : seatStatus[s] = "sold"}
Over == {h \in HoldIds : holdState[h] = "gone"}

\* What Holder is in every reachable state.
HolderKnown ==
    /\ \A s \in Seats : seatStatus[s] # "held" => Holder(s) = NoHold
    /\ \A s \in Seats, h \in HoldRows : Lists(h, s) => Holder(s) = h
    /\ \A s \in Seats : Holder(s) \in HoldRows => Lists(Holder(s), s)
    /\ \A s \in Seats : Holder(s) \in HoldRows \cup {NoHold}
    /\ Sold = {}

LEMMA HolderOfSeat == IInv => HolderKnown
<1> SUFFICES ASSUME IInv PROVE HolderKnown
  OBVIOUS
<1>1. ASSUME NEW s \in Seats, seatStatus[s] # "held" PROVE Holder(s) = NoHold
  BY <1>1 DEF Holder
<1>2. ASSUME NEW s \in Seats, NEW h \in HoldRows, Lists(h, s) PROVE Holder(s) = h
  <2>1. seatStatus[s] = "held" /\ \A g \in HoldRows : Lists(g, s) => g = h
    BY <1>2 DEF IInv, SeatLedger
  <2> QED
    BY <1>2, <2>1 DEF Holder
<1>3. ASSUME NEW s \in Seats, seatStatus[s] = "held"
      PROVE  Holder(s) \in HoldRows /\ Lists(Holder(s), s)
  <2>1. PICK h \in HoldRows : Lists(h, s)
    BY <1>3 DEF IInv, SeatLedger
  <2> QED
    BY <1>2, <2>1
<1>4. NoHold \notin HoldRows
  BY ConstantsAssumption DEF HoldRows
<1>5. Sold = {}
  BY DEF IInv, NothingSold, Sold
<1> QED
  BY <1>1, <1>2, <1>3, <1>4, <1>5 DEF HolderKnown

LEMMA SeatsListed ==
    ASSUME NEW list \in SeatLists
    PROVE  SeatsOf(list) # {} /\ SeatsOf(list) \subseteq Seats
<1>1. list \in Seq(Seats) /\ 1 \in 1..Len(list)
  BY ConstantsAssumption
<1> QED
  BY <1>1 DEF SeatsOf

----------------------------------------------------------------------------
(* The two COMMITs.                                                        *)

LEMMA HoldTakes ==
    ASSUME IInv, IInv', NEW r \in Requests, HoldCommit(r), ~UNCHANGED db
    PROVE  Market!Take(request[r].hold, request[r].mark)
<1> DEFINE t == request[r]
           g == t.hold
<1>1. /\ ReqOK(t) /\ NewHoldOK(t) /\ t.pc = "insertHold"
      /\ holdRow' = [holdRow EXCEPT ![g] =
                       [user |-> t.user, key |-> t.key, seats |-> t.seats]]
      /\ holdState' = [holdState EXCEPT ![g] = "live"]
      /\ seatStatus' = [s \in Seats |-> IF s \in t.mark
                                        THEN "held" ELSE seatStatus[s]]
  BY DEF HoldCommit, IInv, ReqInv, At
<1> HIDE DEF t
<1>2. /\ g \in HoldIds /\ t.seats \in SeatLists /\ t.mark = SeatsOf(t.seats)
      /\ holdState[g] = "free" /\ \A s \in t.mark : seatStatus[s] = "available"
  BY <1>1 DEF ReqOK, NewHoldOK, HoldPCs
<1>3. t.mark # {} /\ t.mark \subseteq Seats
  BY <1>2, SeatsListed
<1>4. /\ \A h \in HoldIds \ {g} : holdRow'[h] = holdRow[h] /\ holdState'[h] = holdState[h]
      /\ holdState'[g] = "live" /\ holdRow'[g].seats = t.seats
      /\ \A s \in Seats : seatStatus'[s] = IF s \in t.mark THEN "held" ELSE seatStatus[s]
  BY <1>1, <1>2 DEF IInv, TypeOK
<1>5. HoldRows' = HoldRows \cup {g} /\ g \notin HoldRows
  BY <1>2, <1>4 DEF HoldRows
<1>6. HolderKnown /\ HolderKnown'
  BY HolderOfSeat, PTL
<1>7. Over' = Over /\ g \notin Over
  BY <1>2, <1>4 DEF Over
<1>8. \A s \in Seats : Holder(s) # g
  BY <1>2, <1>5, <1>6, ConstantsAssumption DEF HolderKnown
<1>9. \A s \in t.mark : s \notin Sold /\ Holder(s) = NoHold
  BY <1>2, <1>3, <1>6 DEF HolderKnown
<1>10. \A s \in t.mark : Holder(s)' = g
  BY <1>2, <1>3, <1>4, <1>5, <1>6 DEF HolderKnown, Lists
<1>11. ASSUME NEW s \in Seats \ t.mark PROVE Holder(s)' = Holder(s)
  <2>1. CASE seatStatus[s] = "held"
    <3>1. PICK h \in HoldRows : Lists(h, s)
      BY <2>1 DEF IInv, SeatLedger
    <3>2. h \in HoldRows' /\ Lists(h, s)'
      BY <1>4, <1>5, <3>1 DEF Lists, HoldRows
    <3> QED
      BY <1>6, <3>1, <3>2 DEF HolderKnown
  <2>2. CASE seatStatus[s] # "held"
    BY <1>4, <1>6, <2>2 DEF HolderKnown
  <2> QED
    BY <2>1, <2>2
<1>12. Sold' = Sold
  BY <1>6 DEF HolderKnown
<1>13. Holders' = [s \in Seats |-> IF s \in t.mark THEN g ELSE Holders[s]]
  BY <1>10, <1>11 DEF Holders
<1> QED
  BY <1>3, <1>7, <1>8, <1>9, <1>12, <1>13
  DEF Market!Take, Market!SeatsHeldBy, Holders, Sold, Over, t

LEMMA WorkerReleases ==
    ASSUME IInv, IInv', WorkerCommit, NEW h \in HoldIds, h = worker.hold
    PROVE  Market!Release(h)
<1> DEFINE mark == worker.mark
<1>1. /\ holdState[h] = "expired"
      /\ mark = SeatsOf(holdRow[h].seats) /\ holdRow[h].seats \in SeatLists
  BY DEF IInv, WorkerInv, WorkerCommit, HoldRowInv
<1>2. ~HoldReferenced(h, {})
  BY DEF HoldReferenced, IInv, NothingSold
<1>3. /\ seatStatus' = [s \in Seats |-> IF s \in mark THEN "available" ELSE seatStatus[s]]
      /\ holdState' = [holdState EXCEPT ![h] = "gone"]
      /\ holdRow' = holdRow
  BY <1>2 DEF WorkerCommit
<1> HIDE DEF mark
<1>4. mark # {} /\ mark \subseteq Seats
  BY <1>1, SeatsListed
<1>5. /\ \A g \in HoldIds \ {h} : holdState'[g] = holdState[g]
      /\ holdState'[h] = "gone"
      /\ \A s \in Seats : seatStatus'[s] = IF s \in mark THEN "available" ELSE seatStatus[s]
  BY <1>1, <1>3 DEF IInv, TypeOK
<1>6. HoldRows' = HoldRows \ {h} /\ h \in HoldRows
  BY <1>1, <1>5 DEF HoldRows
<1>7. HolderKnown /\ HolderKnown'
  BY HolderOfSeat, PTL
<1>8. \A s \in Seats : Lists(h, s) <=> s \in mark
  BY <1>1 DEF Lists
<1>9. \A s \in Seats : Holder(s) = h <=> s \in mark
  BY <1>6, <1>7, <1>8 DEF HolderKnown
<1>10. \A s \in mark : Holder(s)' = NoHold
  BY <1>4, <1>5, <1>7 DEF HolderKnown
<1>11. ASSUME NEW s \in Seats \ mark PROVE Holder(s)' = Holder(s)
  <2>1. CASE seatStatus[s] = "held"
    <3>1. PICK g \in HoldRows : Lists(g, s)
      BY <2>1 DEF IInv, SeatLedger
    <3>2. g \in HoldRows' /\ Lists(g, s)'
      BY <1>3, <1>6, <1>8, <3>1 DEF Lists
    <3> QED
      BY <1>7, <3>1, <3>2 DEF HolderKnown
  <2>2. CASE seatStatus[s] # "held"
    BY <1>5, <1>7, <2>2 DEF HolderKnown
  <2> QED
    BY <2>1, <2>2
<1>12. Holders' = [s \in Seats |-> IF Holders[s] = h THEN NoHold ELSE Holders[s]]
  BY <1>9, <1>10, <1>11 DEF Holders
<1>13. Over' = Over \cup {h}
  BY <1>1, <1>5 DEF Over
<1>14. Sold' = Sold
  BY <1>7 DEF HolderKnown
<1>15. \E s \in Seats : Holders[s] = h
  BY <1>4, <1>9 DEF Holders
<1> QED
  BY <1>1, <1>12, <1>13, <1>14, <1>15
  DEF Market!Release, Market!End, Market!SeatsHeldBy, Holders, Sold, Over

----------------------------------------------------------------------------
(* Every other step leaves the market as it is.                            *)

LEMMA ExpireQuiet ==
    ASSUME IInv, NEW h \in HoldIds, Expire(h)
    PROVE  UNCHANGED Market!vars
<1>1. /\ holdState[h] = "live" /\ holdState'[h] = "expired"
      /\ \A g \in HoldIds \ {h} : holdState'[g] = holdState[g]
      /\ UNCHANGED <<seatStatus, holdRow>>
  BY DEF Expire, IInv, TypeOK
<1>2. HoldRows' = HoldRows /\ Over' = Over
  BY <1>1 DEF HoldRows, Over
<1>3. Holders' = Holders
  BY <1>1, <1>2 DEF Holders, Holder, Lists
<1> QED
  BY <1>1, <1>2, <1>3 DEF Market!vars, Holders, Over

LEMMA QuietStep ==
    ASSUME UNCHANGED db
    PROVE  UNCHANGED Market!vars
BY DEF db, Market!vars, Holder, HoldRows, Lists

\* Checkout's COMMIT always rolls back.
LEMMA CommitQuiet ==
    ASSUME NEW r \in Requests, CheckoutCommit(r)
    PROVE  UNCHANGED db
BY DEF CheckoutCommit, HoldReferenced

LEMMA MarketInit == Init => Market!Init
BY DEF Init, Market!Init, Holder

LEMMA MarketStep ==
    ASSUME IInv, IInv', [Next]_vars
    PROVE  [Market!Next]_(Market!vars)
<1>1. ASSUME NEW r \in Requests, Hold(r) PROVE [Market!Next]_(Market!vars)
  <2>1. CASE UNCHANGED db
    BY <2>1, QuietStep
  <2>2. CASE HoldCommit(r) /\ ~UNCHANGED db
    <3>1. Market!Take(request[r].hold, request[r].mark)
      BY <2>2, HoldTakes
    <3>2. request[r].hold \in HoldIds /\ request[r].mark \in SUBSET Seats
      BY <2>2 DEF HoldCommit, At, IInv, TypeOK, RequestState, ReqInv, ReqOK
    <3> QED
      BY <3>1, <3>2 DEF Market!Next
  <2> QED
    BY <1>1, <2>1, <2>2 DEF Hold, HoldBegin, HoldCount, HoldUpdate
<1>2. ASSUME NEW r \in Requests, Checkout(r) PROVE UNCHANGED db
  BY <1>2, CommitQuiet
  DEF Checkout, CheckoutBegin, CheckoutOwned, CheckoutReadHold,
      CheckoutInsertOrder, CheckoutSell
<1>3. ASSUME NEW r \in Requests, RequestDies(r) PROVE UNCHANGED db
  BY <1>3 DEF RequestDies
<1>4. CASE WorkerCommit
  <2>1. \E h \in HoldIds : Market!Release(h)
    <3>1. PICK h \in HoldIds : h = worker.hold
      BY <1>4 DEF IInv, WorkerInv, WorkerCommit
    <3> QED
      BY <1>4, <3>1, WorkerReleases
  <2> QED
    BY <2>1 DEF Market!Next
<1>5. CASE WorkerScan \/ WorkerNext \/ WorkerUpdate \/ WorkerTxFails \/ WorkerRestarts
  BY <1>5, QuietStep
  DEF WorkerScan, WorkerNext, WorkerUpdate, WorkerTxFails, WorkerRestarts
<1>6. ASSUME NEW h \in HoldIds, Expire(h) PROVE UNCHANGED Market!vars
  BY <1>6, ExpireQuiet
<1>7. CASE UNCHANGED vars
  BY <1>7, QuietStep DEF vars
<1> QED
  BY <1>1, <1>2, <1>3, <1>4, <1>5, <1>6, <1>7, QuietStep DEF Next, ReleaseExpired

\* Whatever requests, worker and deadlocks do, the seats of a sale change hands
\* as in a market: all the seats of a hold at once, for any users, seats, holds
\* and requests.
THEOREM MarketImplemented == Spec => SeatsChangeHandsAtOnce
<1>1. IInv /\ IInv' /\ [Next]_vars => [Market!Next]_(Market!vars)
  BY MarketStep
<1> QED
  BY <1>1, MarketInit, Invariance, PTL
  DEF Spec, SeatsChangeHandsAtOnce, Market!Spec

============================================================================
