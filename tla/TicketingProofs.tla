-------------------------- MODULE TicketingProofs --------------------------
(***************************************************************************)
(* Proofs about Ticketing.  The inductive invariant IInv says of every     *)
(* request what its local state knows of the rows it has read or locked    *)
(* (ReqOK, CheckoutOK, NewHoldOK), that requests making holds do not share *)
(* an id or a locked seat (Apart), and that the holds the worker is about  *)
(* to release are still there (WorkerInv).                                 *)
(***************************************************************************)
EXTENDS Ticketing, TLAPS, FiniteSetTheorems

\* By its definition CheckoutCommit rolls back, since the order it would commit
\* refers to its hold; so the proofs need not follow what it would commit.
NothingSold ==
    /\ orders = {} /\ tickets = {}
    /\ \A s \in Seats : seatStatus[s] # "sold"

\* The first n seats of a list.
Prefix(list, n) == {list[i] : i \in 1..n}

\* What a request's state says by itself: it has updated the seats before
\* `next`, in the order of its list.
ReqOK(t) ==
    /\ t.pc # "idle" => t.user \in Users /\ t.key \in Keys /\ t.hold \in HoldIds
    /\ t.pc \in {"idle", "count", "owned", "readHold", "insertOrder"} =>
          t.next = 1 /\ t.mark = {}
    /\ t.pc \in HoldPCs \cup {"insertOrder", "sell", "commit"} =>
          t.seats \in SeatLists
    /\ t.pc \in {"update", "sell"} =>
          t.next \in 1..Len(t.seats) /\ t.mark = Prefix(t.seats, t.next - 1)
    /\ t.pc \in {"insertHold", "commit"} => t.mark = SeatsOf(t.seats)

\* What a checkout knows of its hold.
CheckoutOK(t) ==
    /\ t.pc \in CheckoutPCs => holdState[t.hold] # "free"
    /\ t.pc \in {"insertOrder", "sell", "commit"} =>
          t.seats = holdRow[t.hold].seats /\ t.user = holdRow[t.hold].user
    /\ t.pc \in {"sell", "commit"} =>
          t.hold \in HoldRows /\ \A s \in t.mark : seatStatus[s] = "held"

\* What a request that makes a hold knows of its id and of its seats.
NewHoldOK(t) ==
    t.pc \in HoldPCs =>
        holdState[t.hold] = "free" /\ \A s \in t.mark : seatStatus[s] = "available"

Apart(t, u) ==
    /\ t.pc \in HoldPCs => t.hold # u.hold
    /\ u.pc \in HoldPCs => t.hold # u.hold
    /\ t.pc \in HoldPCs /\ u.pc \in HoldPCs => t.mark \cap u.mark = {}

ReqInv ==
    \A r \in Requests :
        ReqOK(request[r]) /\ CheckoutOK(request[r]) /\ NewHoldOK(request[r])

ApartInv == \A q, r \in Requests : q # r => Apart(request[q], request[r])

HoldRowInv ==
    \A h \in HoldIds : holdState[h] # "free" =>
        holdRow[h].seats \in SeatLists /\ holdRow[h].user \in Users

WorkerInv ==
    /\ \A h \in worker.batch : holdState[h] = "expired"
    /\ worker.pc \in {"idle", "next"} => worker.mark = {}
    /\ worker.pc \in {"update", "delete"} =>
          /\ worker.hold \in HoldIds \ worker.batch
          /\ holdState[worker.hold] = "expired"
    /\ worker.pc = "update" =>
          /\ worker.next \in 1..Len(holdRow[worker.hold].seats)
          /\ worker.mark = Prefix(holdRow[worker.hold].seats, worker.next - 1)
    /\ worker.pc = "delete" => worker.mark = SeatsOf(holdRow[worker.hold].seats)

IInv ==
    /\ TypeOK /\ NothingSold /\ SeatLedger
    /\ ReqInv /\ ApartInv /\ HoldRowInv /\ WorkerInv

----------------------------------------------------------------------------
(* The state from one request's point of view.                             *)

LEMMA PrefixGrows ==
    ASSUME NEW list, NEW n \in Nat \ {0}
    PROVE  Prefix(list, n) = Prefix(list, n - 1) \cup {list[n]}
  BY DEF Prefix

LEMMA FirstOfList ==
    ASSUME NEW list \in SeatLists
    PROVE  1 \in 1..Len(list) /\ Prefix(list, 1 - 1) = {}
<1>1. list \in Seq(Seats) /\ Len(list) \in 1..4
  BY ConstantsAssumption
<1>2. 1 \in 1..Len(list)
  BY <1>1
<1>3. Prefix(list, 1 - 1) = {}
  BY DEF Prefix
<1>4. QED  BY <1>2, <1>3

\* A request's state changes and the rows stay.
LEMMA RequestOnly ==
    ASSUME IInv, NEW r \in Requests, NEW rec \in RequestState,
           Goto(r, rec), UNCHANGED <<db, worker>>,
           ReqOK(rec), CheckoutOK(rec), NewHoldOK(rec),
           \A q \in Requests \ {r} : Apart(request[q], rec)
    PROVE  IInv'
<1>1. request' \in [Requests -> RequestState] /\ request'[r] = rec
      /\ \A q \in Requests \ {r} : request'[q] = request[q]
  BY DEF IInv, TypeOK, Goto
<1>2. TypeOK' /\ NothingSold' /\ SeatLedger' /\ HoldRowInv' /\ WorkerInv'
  BY <1>1 DEF IInv, TypeOK, NothingSold, SeatLedger, HoldRowInv, WorkerInv,
     Lists, HoldRows, db
<1>3. ReqInv'
  BY <1>1 DEF IInv, ReqInv, ReqOK, CheckoutOK, NewHoldOK, HoldRows, db
<1>4. ApartInv'
  BY <1>1 DEF IInv, ApartInv, Apart
<1>5. QED  BY <1>2, <1>3, <1>4 DEF IInv

LEMMA IdleIsFine ==
    ASSUME IInv, NEW r \in Requests
    PROVE  /\ Idle \in RequestState
           /\ ReqOK(Idle) /\ CheckoutOK(Idle) /\ NewHoldOK(Idle)
           /\ \A q \in Requests : Apart(request[q], Idle)
<1>1. \A q \in Requests : request[q].pc \in HoldPCs => request[q].hold \in HoldIds
  BY DEF IInv, ReqInv, ReqOK, HoldPCs
<1>2. \A q \in Requests : Apart(request[q], Idle)
  BY <1>1, ConstantsAssumption DEF Apart, Idle, HoldPCs
<1>3. Idle \in RequestState
  BY DEF Idle, RequestState
<1>4. ReqOK(Idle) /\ CheckoutOK(Idle) /\ NewHoldOK(Idle)
  BY DEF Idle, ReqOK, CheckoutOK, NewHoldOK, HoldPCs, CheckoutPCs
<1>5. QED  BY <1>2, <1>3, <1>4

\* The handler returns without having changed a row.
LEMMA FinishStep ==
    ASSUME IInv, NEW r \in Requests, Finish(r), UNCHANGED <<db, worker>>
    PROVE  IInv'
  BY IdleIsFine, RequestOnly DEF Finish

----------------------------------------------------------------------------
(* Hold.                                                                   *)

LEMMA HoldBeginStep ==
    ASSUME IInv, NEW r \in Requests, NEW u \in Users, NEW k \in Keys,
           NEW list \in SeatLists, NEW h \in HoldIds, HoldBegin(r, u, k, list, h)
    PROVE  IInv'
<1> DEFINE rec == [Idle EXCEPT !.pc = "count", !.user = u, !.key = k,
                               !.hold = h, !.seats = list]
<1>1. rec.pc = "count" /\ rec.user = u /\ rec.key = k /\ rec.hold = h
      /\ rec.seats = list /\ rec.next = 1 /\ rec.mark = {}
  BY DEF Idle
<1>2. rec \in RequestState
  BY IdleIsFine DEF RequestState, HoldPCs
<1>5. Goto(r, rec) /\ UNCHANGED <<db, worker>>
  BY DEF HoldBegin
<1> HIDE DEF rec
<1>3. ReqOK(rec) /\ CheckoutOK(rec) /\ NewHoldOK(rec)
  BY <1>1 DEF ReqOK, CheckoutOK, NewHoldOK, HoldPCs, CheckoutPCs, HoldBegin
<1>4. \A q \in Requests \ {r} : Apart(request[q], rec)
  BY <1>1 DEF HoldBegin, Apart
<1>6. QED  BY <1>1, <1>2, <1>3, <1>4, <1>5, RequestOnly

LEMMA HoldCountStep ==
    ASSUME IInv, NEW r \in Requests, HoldCount(r)
    PROVE  IInv'
<1> DEFINE t == request[r]
           rec == [t EXCEPT !.pc = "update"]
<1>1. CASE Finish(r)
  BY <1>1, FinishStep DEF HoldCount
<1>2. CASE Goto(r, rec)
  <2>1. t \in RequestState /\ ReqOK(t) /\ CheckoutOK(t) /\ NewHoldOK(t) /\ t.pc = "count"
        /\ \A q \in Requests \ {r} : Apart(request[q], t)
    BY DEF IInv, TypeOK, ReqInv, ApartInv, HoldCount, At
  <2> HIDE DEF t
  <2>2. /\ rec \in RequestState /\ rec.pc = "update" /\ rec.user = t.user
        /\ rec.key = t.key /\ rec.hold = t.hold /\ rec.seats = t.seats
        /\ rec.next = t.next /\ rec.mark = t.mark
    BY <2>1 DEF RequestState, HoldPCs
  <2> HIDE DEF rec
  <2>3. ReqOK(rec)
    <3>1. t.seats \in SeatLists /\ t.next = 1 /\ t.mark = {}
      BY <2>1 DEF ReqOK, HoldPCs
    <3>2. 1 \in 1..Len(t.seats) /\ Prefix(t.seats, 1 - 1) = {}
      BY <3>1, FirstOfList
    <3>3. QED  BY <2>1, <2>2, <3>1, <3>2 DEF ReqOK
  <2>4. CheckoutOK(rec) /\ NewHoldOK(rec)
    BY <2>1, <2>2 DEF CheckoutOK, NewHoldOK, HoldPCs, CheckoutPCs
  <2>5. \A q \in Requests \ {r} : Apart(request[q], rec)
    BY <2>1, <2>2 DEF Apart, HoldPCs
  <2>6. UNCHANGED <<db, worker>>
    BY DEF HoldCount
  <2>7. QED  BY <1>2, <2>2, <2>3, <2>4, <2>5, <2>6, RequestOnly
<1>3. QED  BY <1>1, <1>2 DEF HoldCount

\* A request that has updated one more seat of its list.
Advanced(t, last) ==
    [t EXCEPT !.mark = @ \cup {t.seats[t.next]},
              !.next = @ + 1,
              !.pc = IF t.next = Len(t.seats) THEN last ELSE @]

LEMMA AdvanceOK ==
    ASSUME NEW t \in RequestState, ReqOK(t), NEW last,
           \/ t.pc = "update" /\ last = "insertHold"
           \/ t.pc = "sell" /\ last = "commit",
           NEW rec, rec = Advanced(t, last)
    PROVE  /\ rec \in RequestState /\ ReqOK(rec)
           /\ rec.pc \in {t.pc, last}
           /\ rec.user = t.user /\ rec.hold = t.hold /\ rec.seats = t.seats
           /\ rec.mark = t.mark \cup {t.seats[t.next]}
           /\ t.seats[t.next] \in SeatsOf(t.seats)
<1>1. /\ t.seats \in SeatLists /\ t.next \in 1..Len(t.seats)
      /\ t.mark = Prefix(t.seats, t.next - 1)
  BY DEF ReqOK, HoldPCs
<1>2. t.seats \in Seq(Seats) /\ Len(t.seats) \in 1..4
  BY <1>1, ConstantsAssumption
<1>3. t.seats[t.next] \in Seats /\ t.seats[t.next] \in SeatsOf(t.seats)
  BY <1>1, <1>2 DEF SeatsOf
<1>4. /\ rec.pc = IF t.next = Len(t.seats) THEN last ELSE t.pc
      /\ rec.next = t.next + 1 /\ rec.mark = t.mark \cup {t.seats[t.next]}
      /\ rec.user = t.user /\ rec.hold = t.hold /\ rec.seats = t.seats
      /\ rec.key = t.key
  BY DEF RequestState, Advanced
<1>5. rec \in RequestState
  <2>1. t.next + 1 \in 1..5 /\ t.mark \cup {t.seats[t.next]} \in SUBSET Seats
    BY <1>1, <1>2, <1>3 DEF RequestState
  <2>2. (IF t.next = Len(t.seats) THEN last ELSE t.pc)
          \in {"idle"} \cup HoldPCs \cup CheckoutPCs
    BY DEF HoldPCs, CheckoutPCs
  <2>3. QED  BY <2>1, <2>2 DEF RequestState, Advanced
<1>6. rec.mark = Prefix(t.seats, t.next)
  BY <1>1, <1>2, <1>4, PrefixGrows
<1>7. t.next = Len(t.seats) => rec.mark = SeatsOf(t.seats)
  BY <1>6 DEF Prefix, SeatsOf
<1>8. ReqOK(rec)
  <2>1. t.next # Len(t.seats) => rec.next \in 1..Len(t.seats) /\ rec.next - 1 = t.next
    BY <1>1, <1>2, <1>4
  <2>2. rec.pc \in {t.pc, last}
    BY <1>4
  <2>3. t.user \in Users /\ t.key \in Keys /\ t.hold \in HoldIds
    BY DEF ReqOK
  <2>4. QED  BY <1>1, <1>4, <1>6, <1>7, <2>1, <2>2, <2>3 DEF ReqOK
<1>9. QED  BY <1>3, <1>4, <1>5, <1>8

LEMMA HoldUpdateStep ==
    ASSUME IInv, NEW r \in Requests, HoldUpdate(r)
    PROVE  IInv'
<1> DEFINE t == request[r]
           s == t.seats[t.next]
           rec == Advanced(t, "insertHold")
<1>1. CASE Finish(r)
  BY <1>1, FinishStep DEF HoldUpdate
<1>2. CASE /\ seatStatus[s] = "available" /\ SeatFreeForRequest(r, s)
           /\ Goto(r, rec)
  <2>1. t \in RequestState /\ ReqOK(t) /\ CheckoutOK(t) /\ NewHoldOK(t) /\ t.pc = "update"
        /\ \A q \in Requests \ {r} : Apart(request[q], t)
    BY DEF IInv, TypeOK, ReqInv, ApartInv, HoldUpdate, At
  <2>2. \A q \in Requests \ {r} : s \notin request[q].mark
    BY <1>2 DEF SeatFreeForRequest
  <2>3. /\ rec \in RequestState /\ ReqOK(rec) /\ rec.pc \in {"update", "insertHold"}
        /\ rec.hold = t.hold /\ rec.mark = t.mark \cup {s}
    BY <2>1, AdvanceOK
  <2> HIDE DEF t, s, rec
  <2>4. CheckoutOK(rec)
    BY <2>3 DEF CheckoutOK, CheckoutPCs
  <2>5. NewHoldOK(rec)
    BY <1>2, <2>1, <2>3 DEF NewHoldOK, HoldPCs
  <2>6. \A q \in Requests \ {r} : Apart(request[q], rec)
    BY <2>1, <2>2, <2>3 DEF Apart, HoldPCs
  <2>7. UNCHANGED <<db, worker>>
    BY DEF HoldUpdate
  <2>8. QED  BY <1>2, <2>3, <2>4, <2>5, <2>6, <2>7, RequestOnly
<1>3. QED  BY <1>1, <1>2 DEF HoldUpdate, Advance, Advanced

\* A hold is inserted: its seats were locked and available, so no other hold
\* lists them.
LEMMA NewHold ==
    ASSUME IInv, NEW r \in Requests, At(r, "insertHold"), Finish(r),
           NEW t, t = request[r], NEW g, g = t.hold,
           UNCHANGED <<orders, tickets, worker>>,
           holdRow' = [holdRow EXCEPT ![g] =
                         [user |-> t.user, key |-> t.key, seats |-> t.seats]],
           holdState' = [holdState EXCEPT ![g] = "live"],
           seatStatus' = [s \in Seats |-> IF s \in t.mark
                                         THEN "held" ELSE seatStatus[s]]
    PROVE  IInv'
<1>1. /\ t \in RequestState /\ ReqOK(t) /\ NewHoldOK(t) /\ t.pc = "insertHold"
      /\ \A q \in Requests \ {r} : Apart(request[q], t)
  BY DEF IInv, TypeOK, ReqInv, ApartInv, At
<1>2. /\ t.user \in Users /\ t.key \in Keys /\ g \in HoldIds /\ t.seats \in SeatLists
      /\ t.mark = SeatsOf(t.seats) /\ holdState[g] = "free"
      /\ \A s \in t.mark : seatStatus[s] = "available"
  BY <1>1 DEF ReqOK, NewHoldOK, HoldPCs
<1>3. /\ \A h \in HoldIds \ {g} : holdRow'[h] = holdRow[h] /\ holdState'[h] = holdState[h]
      /\ holdState'[g] = "live" /\ holdRow'[g].seats = t.seats
      /\ holdRow'[g].user = t.user
      /\ \A s \in Seats : seatStatus'[s] = IF s \in t.mark THEN "held" ELSE seatStatus[s]
  BY <1>2 DEF IInv, TypeOK
<1>4. /\ request' \in [Requests -> RequestState] /\ request'[r] = Idle
      /\ \A q \in Requests \ {r} : request'[q] = request[q]
  BY IdleIsFine DEF IInv, TypeOK, Finish, Goto
<1>5. TypeOK'
  <2>1. holdRow' \in [HoldIds -> [user : Users \cup {NoUser}, key : Keys \cup {NoKey},
                                  seats : SeatLists \cup {<<>>}]]
    BY <1>2 DEF IInv, TypeOK
  <2>2. /\ holdState' \in [HoldIds -> {"free", "live", "expired", "gone"}]
        /\ seatStatus' \in [Seats -> {"available", "held", "sold"}]
    BY <1>2 DEF IInv, TypeOK
  <2>3. QED  BY <1>4, <2>1, <2>2 DEF IInv, TypeOK
<1>6. NothingSold'
  BY <1>3 DEF IInv, NothingSold
<1>7. HoldRows' = HoldRows \cup {g} /\ g \notin HoldRows
  BY <1>2, <1>3 DEF HoldRows
<1>8. SeatLedger'
  <2>1. \A h \in HoldRows, s \in Seats : Lists(h, s)' <=> Lists(h, s)
    BY <1>3, <1>7 DEF Lists, HoldRows
  <2>2. \A s \in Seats : Lists(g, s)' <=> s \in t.mark
    BY <1>2, <1>3 DEF Lists
  <2>3. \A s \in t.mark : \A h \in HoldRows : s \in Seats => ~Lists(h, s)
    BY <1>2 DEF IInv, SeatLedger
  <2>4. QED  BY <1>3, <1>7, <2>1, <2>2, <2>3 DEF IInv, SeatLedger
<1>9. ReqInv'
  <2>1. ASSUME NEW q \in Requests \ {r}
        PROVE  ReqOK(request[q])' /\ CheckoutOK(request[q])' /\ NewHoldOK(request[q])'
    <3> DEFINE u == request[q]
    <3>1. /\ u \in RequestState /\ ReqOK(u) /\ CheckoutOK(u) /\ NewHoldOK(u)
          /\ Apart(u, t) /\ request'[q] = u
      BY <1>1, <1>4 DEF IInv, TypeOK, ReqInv
    <3> HIDE DEF u
    <3>2. u.pc # "idle" => u.hold \in HoldIds \ {g}
      BY <1>1, <3>1 DEF ReqOK, Apart, HoldPCs
    <3>3. u.mark \subseteq Seats
      BY <3>1 DEF RequestState
    <3>4. ReqOK(u)
      BY <3>1
    <3>5. u.pc \in CheckoutPCs => u.pc # "idle"
      BY DEF CheckoutPCs
    <3>6. /\ u.pc \in CheckoutPCs => holdState'[u.hold] # "free"
          /\ u.pc \in {"insertOrder", "sell", "commit"} =>
                u.seats = holdRow'[u.hold].seats /\ u.user = holdRow'[u.hold].user
          /\ u.pc \in {"sell", "commit"} =>
                u.hold \in HoldRows' /\ \A s \in u.mark : seatStatus'[s] = "held"
      BY <1>3, <1>7, <3>1, <3>2, <3>3, <3>5 DEF CheckoutOK
    <3>7. u.pc \in HoldPCs =>
            holdState'[u.hold] = "free" /\ \A s \in u.mark : seatStatus'[s] = "available"
      BY <1>1, <1>3, <3>1, <3>2, <3>3 DEF NewHoldOK, Apart, HoldPCs
    <3>8. QED  BY <3>1, <3>4, <3>6, <3>7 DEF ReqOK, CheckoutOK, NewHoldOK
  <2>2. ReqOK(request[r])' /\ CheckoutOK(request[r])' /\ NewHoldOK(request[r])'
    BY <1>4 DEF Idle, ReqOK, CheckoutOK, NewHoldOK, HoldPCs, CheckoutPCs
  <2>3. QED  BY <2>1, <2>2 DEF ReqInv
<1>10. ApartInv'
  BY <1>4, IdleIsFine DEF IInv, ApartInv, Apart
<1>11. HoldRowInv'
  BY <1>2, <1>3 DEF IInv, HoldRowInv
<1>12. WorkerInv'
  <2>1. \A h \in HoldIds : holdState[h] = "expired" =>
           holdState'[h] = "expired" /\ holdRow'[h] = holdRow[h]
    BY <1>2, <1>3
  <2>2. worker.batch \subseteq HoldIds
    BY DEF IInv, TypeOK, WorkerState
  <2>3. QED  BY <2>1, <2>2 DEF IInv, WorkerInv
<1>13. QED  BY <1>5, <1>6, <1>8, <1>9, <1>10, <1>11, <1>12 DEF IInv

LEMMA HoldCommitStep ==
    ASSUME IInv, NEW r \in Requests, HoldCommit(r)
    PROVE  IInv'
<1>1. CASE UNCHANGED db
  BY <1>1, FinishStep DEF HoldCommit
<1>2. CASE ~UNCHANGED db
  <2> DEFINE t == request[r]
             g == t.hold
  <2>1. /\ At(r, "insertHold") /\ Finish(r) /\ UNCHANGED <<orders, tickets, worker>>
        /\ holdRow' = [holdRow EXCEPT ![g] =
                         [user |-> t.user, key |-> t.key, seats |-> t.seats]]
        /\ holdState' = [holdState EXCEPT ![g] = "live"]
        /\ seatStatus' = [s \in Seats |-> IF s \in t.mark
                                         THEN "held" ELSE seatStatus[s]]
    BY <1>2 DEF HoldCommit
  <2>2. QED  BY <2>1, NewHold
<1>3. QED  BY <1>1, <1>2

----------------------------------------------------------------------------
(* Checkout.                                                               *)

LEMMA CheckoutBeginStep ==
    ASSUME IInv, NEW r \in Requests, NEW u \in Users, NEW k \in Keys,
           NEW h \in HoldIds, CheckoutBegin(r, u, k, h)
    PROVE  IInv'
<1> DEFINE rec == [Idle EXCEPT !.pc = "owned", !.user = u, !.key = k, !.hold = h]
<1>1. rec.pc = "owned" /\ rec.user = u /\ rec.key = k /\ rec.hold = h
      /\ rec.next = 1 /\ rec.mark = {}
  BY DEF Idle
<1>2. rec \in RequestState
  BY IdleIsFine DEF RequestState, CheckoutPCs
<1>3. Goto(r, rec) /\ UNCHANGED <<db, worker>> /\ holdState[h] # "free"
  BY DEF CheckoutBegin
<1> HIDE DEF rec
<1>4. ReqOK(rec) /\ CheckoutOK(rec) /\ NewHoldOK(rec)
  BY <1>1, <1>3 DEF ReqOK, CheckoutOK, NewHoldOK, HoldPCs, CheckoutPCs
<1>5. \A q \in Requests \ {r} : Apart(request[q], rec)
  BY <1>1, <1>3 DEF IInv, ReqInv, NewHoldOK, Apart, HoldPCs
<1>6. QED  BY <1>1, <1>2, <1>3, <1>4, <1>5, RequestOnly

LEMMA CheckoutOwnedStep ==
    ASSUME IInv, NEW r \in Requests, CheckoutOwned(r)
    PROVE  IInv'
<1> DEFINE t == request[r]
           n == Cardinality({k \in tickets : k.user = request[r].user})
           rec == [t EXCEPT !.pc = "readHold", !.owned = n]
<1>1. n \in Nat
  <2>1. {k \in tickets : k.user = request[r].user} = {}
    BY DEF IInv, NothingSold
  <2>2. QED  BY <2>1, FS_EmptySet
<1>2. Goto(r, rec) /\ UNCHANGED <<db, worker>>
  BY DEF CheckoutOwned
<1>3. t \in RequestState /\ ReqOK(t) /\ CheckoutOK(t) /\ NewHoldOK(t) /\ t.pc = "owned"
      /\ \A q \in Requests \ {r} : Apart(request[q], t)
  BY DEF IInv, TypeOK, ReqInv, ApartInv, CheckoutOwned, At
<1> HIDE DEF t, n
<1>4. rec.pc = "readHold" /\ rec.user = t.user /\ rec.key = t.key /\ rec.hold = t.hold
      /\ rec.next = t.next /\ rec.mark = t.mark
  BY <1>3 DEF RequestState
<1>5. rec \in RequestState
  BY <1>1, <1>3 DEF RequestState, CheckoutPCs
<1> HIDE DEF rec
<1>6. ReqOK(rec) /\ CheckoutOK(rec) /\ NewHoldOK(rec)
  BY <1>3, <1>4 DEF ReqOK, CheckoutOK, NewHoldOK, HoldPCs, CheckoutPCs
<1>7. \A q \in Requests \ {r} : Apart(request[q], rec)
  BY <1>3, <1>4 DEF Apart, HoldPCs
<1>8. QED  BY <1>2, <1>5, <1>6, <1>7, RequestOnly

LEMMA CheckoutReadHoldStep ==
    ASSUME IInv, NEW r \in Requests, CheckoutReadHold(r)
    PROVE  IInv'
<1> DEFINE t == request[r]
           row == holdRow[t.hold]
           rec == [t EXCEPT !.pc = "insertOrder", !.seats = row.seats]
<1>1. CASE Finish(r)
  BY <1>1, FinishStep DEF CheckoutReadHold
<1>2. CASE holdState[t.hold] = "live" /\ row.user = t.user /\ Goto(r, rec)
  <2>1. t \in RequestState /\ ReqOK(t) /\ CheckoutOK(t) /\ NewHoldOK(t) /\ t.pc = "readHold"
        /\ \A q \in Requests \ {r} : Apart(request[q], t)
    BY DEF IInv, TypeOK, ReqInv, ApartInv, CheckoutReadHold, At
  <2>2. row.seats \in SeatLists
    BY <1>2, <2>1 DEF IInv, HoldRowInv, ReqOK
  <2>3. UNCHANGED <<db, worker>>
    BY DEF CheckoutReadHold
  <2> HIDE DEF t
  <2>4. rec.pc = "insertOrder" /\ rec.user = t.user /\ rec.key = t.key
        /\ rec.hold = t.hold /\ rec.seats = row.seats
        /\ rec.next = t.next /\ rec.mark = t.mark
    BY <2>1 DEF RequestState
  <2>5. rec \in RequestState
    BY <2>1, <2>2 DEF RequestState, CheckoutPCs
  <2> HIDE DEF rec
  <2>6. ReqOK(rec) /\ CheckoutOK(rec) /\ NewHoldOK(rec)
    BY <1>2, <2>1, <2>2, <2>4 DEF ReqOK, CheckoutOK, NewHoldOK, HoldPCs, CheckoutPCs
  <2>7. \A q \in Requests \ {r} : Apart(request[q], rec)
    BY <2>1, <2>4 DEF Apart, HoldPCs
  <2>8. QED  BY <1>2, <2>3, <2>5, <2>6, <2>7, RequestOnly
<1>3. QED  BY <1>1, <1>2 DEF CheckoutReadHold

LEMMA CheckoutInsertOrderStep ==
    ASSUME IInv, NEW r \in Requests, CheckoutInsertOrder(r)
    PROVE  IInv'
<1> DEFINE t == request[r]
           rec == [t EXCEPT !.pc = "sell"]
<1>1. CASE Finish(r)
  BY <1>1, FinishStep DEF CheckoutInsertOrder
<1>2. CASE t.hold \in HoldRows /\ Goto(r, rec)
  <2>1. t \in RequestState /\ ReqOK(t) /\ CheckoutOK(t) /\ NewHoldOK(t)
        /\ t.pc = "insertOrder"
        /\ \A q \in Requests \ {r} : Apart(request[q], t)
    BY DEF IInv, TypeOK, ReqInv, ApartInv, CheckoutInsertOrder, At
  <2>2. UNCHANGED <<db, worker>>
    BY DEF CheckoutInsertOrder
  <2> HIDE DEF t
  <2>3. rec.pc = "sell" /\ rec.user = t.user /\ rec.key = t.key
        /\ rec.hold = t.hold /\ rec.seats = t.seats
        /\ rec.next = t.next /\ rec.mark = t.mark
    BY <2>1 DEF RequestState
  <2>4. rec \in RequestState
    BY <2>1 DEF RequestState, CheckoutPCs
  <2> HIDE DEF rec
  <2>5. ReqOK(rec)
    <3>1. t.seats \in SeatLists /\ t.next = 1 /\ t.mark = {}
      BY <2>1 DEF ReqOK, HoldPCs
    <3>2. 1 \in 1..Len(t.seats) /\ Prefix(t.seats, 1 - 1) = {}
      BY <3>1, FirstOfList
    <3>3. QED  BY <2>1, <2>3, <3>1, <3>2 DEF ReqOK
  <2>6. t.mark = {}
    BY <2>1 DEF ReqOK
  <2>7. CheckoutOK(rec) /\ NewHoldOK(rec)
    BY <1>2, <2>1, <2>3, <2>6 DEF CheckoutOK, NewHoldOK, HoldPCs, CheckoutPCs
  <2>8. \A q \in Requests \ {r} : Apart(request[q], rec)
    BY <2>1, <2>3 DEF Apart, HoldPCs
  <2>9. QED  BY <1>2, <2>2, <2>4, <2>5, <2>7, <2>8, RequestOnly
<1>3. QED  BY <1>1, <1>2 DEF CheckoutInsertOrder, HoldReferable

LEMMA CheckoutSellStep ==
    ASSUME IInv, NEW r \in Requests, CheckoutSell(r)
    PROVE  IInv'
<1> DEFINE t == request[r]
           s == t.seats[t.next]
           rec == Advanced(t, "commit")
<1>1. CASE Finish(r)
  BY <1>1, FinishStep DEF CheckoutSell
<1>2. CASE seatStatus[s] = "held" /\ Goto(r, rec)
  <2>1. t \in RequestState /\ ReqOK(t) /\ CheckoutOK(t) /\ NewHoldOK(t) /\ t.pc = "sell"
        /\ \A q \in Requests \ {r} : Apart(request[q], t)
    BY DEF IInv, TypeOK, ReqInv, ApartInv, CheckoutSell, At
  <2>2. /\ rec \in RequestState /\ ReqOK(rec) /\ rec.pc \in {"sell", "commit"}
        /\ rec.user = t.user /\ rec.hold = t.hold /\ rec.seats = t.seats
        /\ rec.mark = t.mark \cup {s}
    BY <2>1, AdvanceOK
  <2> HIDE DEF t, s, rec
  <2>3. CheckoutOK(rec)
    BY <1>2, <2>1, <2>2 DEF CheckoutOK, CheckoutPCs
  <2>4. NewHoldOK(rec) /\ \A q \in Requests \ {r} : Apart(request[q], rec)
    BY <2>1, <2>2 DEF NewHoldOK, Apart, HoldPCs
  <2>5. UNCHANGED <<db, worker>>
    BY DEF CheckoutSell
  <2>6. QED  BY <1>2, <2>2, <2>3, <2>4, <2>5, RequestOnly
<1>3. QED  BY <1>1, <1>2 DEF CheckoutSell, Advance, Advanced

\* The order that was just inserted refers to the hold, so the DELETE fails and
\* the COMMIT rolls back.
LEMMA CheckoutCommitStep ==
    ASSUME IInv, NEW r \in Requests, CheckoutCommit(r)
    PROVE  IInv'
  BY FinishStep DEF CheckoutCommit, HoldReferenced

----------------------------------------------------------------------------
(* The worker and the clock.                                               *)

LEMMA WorkerIdleTyped == WorkerIdle \in WorkerState
  BY DEF WorkerIdle, WorkerState

LEMMA WorkerOnly ==
    ASSUME IInv, UNCHANGED <<db, request>>, WorkerInv',
           worker' \in WorkerState
    PROVE  IInv'
<1>1. TypeOK' /\ NothingSold' /\ SeatLedger' /\ HoldRowInv'
  BY DEF IInv, TypeOK, NothingSold, SeatLedger, HoldRowInv, Lists, HoldRows, db
<1>2. ReqInv' /\ ApartInv'
  BY DEF IInv, ReqInv, ReqOK, CheckoutOK, NewHoldOK, HoldRows, db, ApartInv, Apart
<1>3. QED  BY <1>1, <1>2 DEF IInv

LEMMA WorkerScanStep == IInv /\ WorkerScan => IInv'
<1> SUFFICES ASSUME IInv, WorkerScan PROVE IInv'
  OBVIOUS
<1>1. PICK batch \in SUBSET {h \in HoldIds : holdState[h] = "expired"} :
        worker' = [worker EXCEPT !.pc = "next", !.batch = batch]
  BY DEF WorkerScan
<1>2. worker.pc = "idle" /\ UNCHANGED <<db, request>>
  BY DEF WorkerScan
<1>3. worker'.pc = "next" /\ worker'.batch = batch /\ worker'.mark = {}
  BY <1>1, <1>2 DEF IInv, TypeOK, WorkerInv
<1>4. WorkerInv'
  BY <1>2, <1>3 DEF WorkerInv, db
<1>5. worker' \in WorkerState
  BY <1>1 DEF IInv, TypeOK, WorkerState
<1>6. QED  BY <1>2, <1>4, <1>5, WorkerOnly

LEMMA RowTaken ==
    ASSUME NEW w \in WorkerState, NEW h \in HoldIds, NEW b \in SUBSET HoldIds
    PROVE  [w EXCEPT !.pc = "update", !.hold = h, !.next = 1, !.batch = b] \in WorkerState
<1>1. 1 \in 1..5 /\ h \in HoldIds \cup {NoHold}
  OBVIOUS
<1>2. QED  BY <1>1 DEF WorkerState

LEMMA WorkerNextStep == IInv /\ WorkerNext => IInv'
<1> SUFFICES ASSUME IInv, WorkerNext PROVE IInv'
  OBVIOUS
<1>1. worker.pc = "next" /\ UNCHANGED <<db, request>> /\ worker.mark = {}
  BY DEF WorkerNext, IInv, WorkerInv
<1>2. CASE worker' = WorkerIdle
  <2>1. WorkerInv'
    BY <1>2 DEF WorkerInv, WorkerIdle
  <2>2. QED  BY <1>1, <1>2, <2>1, WorkerOnly, WorkerIdleTyped
<1>3. ASSUME NEW h \in worker.batch,
             worker' = [worker EXCEPT !.pc = "update", !.hold = h, !.next = 1,
                                      !.batch = @ \ {h}]
      PROVE  IInv'
  <2>1. h \in HoldIds /\ holdState[h] = "expired" /\ holdRow[h].seats \in SeatLists
    BY DEF IInv, TypeOK, WorkerState, WorkerInv, HoldRowInv
  <2>3. 1 \in 1..Len(holdRow[h].seats) /\ Prefix(holdRow[h].seats, 1 - 1) = {}
    BY <2>1, FirstOfList
  <2>4. /\ worker'.pc = "update" /\ worker'.hold = h /\ worker'.next = 1
        /\ worker'.batch = worker.batch \ {h} /\ worker'.mark = {}
    BY <1>1, <1>3 DEF IInv, TypeOK
  <2>5. WorkerInv'
    BY <1>1, <2>1, <2>3, <2>4 DEF IInv, WorkerInv, db
  <2>6. worker' \in WorkerState
    <3>1. worker.batch \ {h} \in SUBSET HoldIds
      BY DEF IInv, TypeOK, WorkerState
    <3>2. worker \in WorkerState
      BY DEF IInv, TypeOK
    <3>3. QED  BY <1>3, <2>1, <3>1, <3>2, RowTaken
  <2>7. QED  BY <1>1, <2>5, <2>6, WorkerOnly
<1>4. QED  BY <1>2, <1>3 DEF WorkerNext

\* The hold is still in the table, so all of its seats are held.
LEMMA WorkerUpdateStep == IInv /\ WorkerUpdate => IInv'
<1> SUFFICES ASSUME IInv, WorkerUpdate PROVE IInv'
  OBVIOUS
<1> DEFINE h == worker.hold
           list == holdRow[h].seats
           n == worker.next
           s == list[n]
<1>1. /\ worker.pc = "update" /\ UNCHANGED <<db, request>>
      /\ worker' = [worker EXCEPT
                       !.mark = IF seatStatus[s] = "held" THEN @ \cup {s} ELSE @,
                       !.next = @ + 1,
                       !.pc = IF n = Len(list) THEN "delete" ELSE @]
  BY DEF WorkerUpdate
<1>2. /\ h \in HoldIds \ worker.batch /\ holdState[h] = "expired"
      /\ n \in 1..Len(list) /\ worker.mark = Prefix(list, n - 1)
  BY <1>1 DEF IInv, WorkerInv
<1>3. list \in Seq(Seats) /\ Len(list) \in 1..4
  BY <1>2, ConstantsAssumption DEF IInv, HoldRowInv
<1>4. s \in Seats /\ Lists(h, s)
  BY <1>2, <1>3 DEF Lists, SeatsOf
<1>5. seatStatus[s] = "held"
  BY <1>2, <1>4 DEF IInv, SeatLedger, HoldRows
<1>6. /\ worker'.mark = worker.mark \cup {s} /\ worker'.next = n + 1
      /\ worker'.pc = IF n = Len(list) THEN "delete" ELSE "update"
      /\ worker'.batch = worker.batch /\ worker'.hold = h
  BY <1>1, <1>5 DEF IInv, TypeOK
<1>7. worker' \in WorkerState
  <2>1. n + 1 \in 1..5 /\ worker.mark \cup {s} \in SUBSET Seats
    BY <1>2, <1>3, <1>4 DEF IInv, TypeOK, WorkerState
  <2>2. QED  BY <1>1, <1>5, <2>1 DEF IInv, TypeOK, WorkerState
<1>8. worker'.mark = Prefix(list, n)
  BY <1>2, <1>3, <1>6, PrefixGrows
<1>9. worker'.pc = "delete" => worker'.mark = SeatsOf(list)
  BY <1>6, <1>8 DEF Prefix, SeatsOf
<1>10. worker'.pc = "update" => worker'.next \in 1..Len(list) /\ worker'.next - 1 = n
  BY <1>2, <1>3, <1>6
<1>11. holdRow' = holdRow /\ holdState' = holdState
  BY <1>1 DEF db
<1> HIDE DEF h, n, s
<1>12. holdRow'[worker'.hold].seats = list
  BY <1>6, <1>11
<1>13. WorkerInv'
  <2>1. \A g \in worker.batch : holdState[g] = "expired"
    BY DEF IInv, WorkerInv
  <2>2. worker'.pc \in {"update", "delete"}
    BY <1>6
  <2> HIDE DEF list
  <2>3. QED  BY <1>2, <1>6, <1>8, <1>9, <1>10, <1>11, <1>12, <2>1, <2>2 DEF WorkerInv
<1>14. QED  BY <1>1, <1>7, <1>13, WorkerOnly

LEMMA WorkerStopsStep == IInv /\ (WorkerTxFails \/ WorkerRestarts) => IInv'
<1> SUFFICES ASSUME IInv, WorkerTxFails \/ WorkerRestarts PROVE IInv'
  OBVIOUS
<1>1. UNCHANGED <<db, request>>
  BY DEF WorkerTxFails, WorkerRestarts
<1>2. CASE worker' = WorkerIdle
  <2>1. WorkerInv'
    BY <1>2 DEF WorkerInv, WorkerIdle
  <2>2. QED  BY <1>1, <1>2, <2>1, WorkerOnly, WorkerIdleTyped
<1>3. CASE worker' = [WorkerIdle EXCEPT !.pc = "next", !.batch = worker.batch]
  <2>1. worker'.pc = "next" /\ worker'.batch = worker.batch /\ worker'.mark = {}
    BY <1>3 DEF WorkerIdle
  <2>2. WorkerInv'
    BY <1>1, <2>1 DEF IInv, WorkerInv, db
  <2>3. worker.batch \in SUBSET HoldIds
    BY DEF IInv, TypeOK, WorkerState
  <2>4. worker' \in WorkerState
    BY <1>3, <2>3, WorkerIdleTyped DEF WorkerState
  <2>5. QED  BY <1>1, <2>2, <2>4, WorkerOnly
<1>4. QED  BY <1>2, <1>3 DEF WorkerTxFails, WorkerRestarts

\* The seats of an expired hold are put back and the hold is deleted; no
\* checkout that has begun its transaction uses it.
LEMMA ReleaseStep ==
    ASSUME IInv, NEW h, h = worker.hold, NEW mark, mark = worker.mark,
           worker.pc = "delete",
           \A q \in Requests : ~Pins(q, h),
           seatStatus' = [s \in Seats |-> IF s \in mark
                                         THEN "available" ELSE seatStatus[s]],
           holdState' = [holdState EXCEPT ![h] = "gone"],
           UNCHANGED <<holdRow, orders, tickets, request>>,
           worker' = [WorkerIdle EXCEPT !.pc = "next", !.batch = worker.batch]
    PROVE  IInv'
<1>1. /\ h \in HoldIds /\ h \notin worker.batch /\ holdState[h] = "expired"
      /\ mark = SeatsOf(holdRow[h].seats) /\ mark \subseteq Seats
      /\ worker.batch \subseteq HoldIds
  BY DEF IInv, TypeOK, WorkerState, WorkerInv
<1>2. /\ \A g \in HoldIds \ {h} : holdState'[g] = holdState[g]
      /\ holdState'[h] = "gone"
      /\ \A s \in Seats : seatStatus'[s] = IF s \in mark THEN "available"
                                                        ELSE seatStatus[s]
  BY <1>1 DEF IInv, TypeOK
<1>3. HoldRows' = HoldRows \ {h} /\ h \in HoldRows
  BY <1>1, <1>2 DEF HoldRows
<1>4. \A g \in HoldIds, s \in Seats : Lists(g, s)' <=> Lists(g, s)
  BY DEF Lists
<1>5. \A s \in Seats : Lists(h, s) <=> s \in mark
  BY <1>1 DEF Lists
<1>6. \A g \in HoldRows \ {h}, s \in Seats : Lists(g, s) => s \notin mark
  BY <1>3, <1>5 DEF IInv, SeatLedger
<1>7. worker'.pc = "next" /\ worker'.batch = worker.batch /\ worker'.mark = {}
  BY DEF WorkerIdle
<1>8. TypeOK'
  <2>1. seatStatus' \in [Seats -> {"available", "held", "sold"}]
    BY DEF IInv, TypeOK
  <2>2. holdState' \in [HoldIds -> {"free", "live", "expired", "gone"}]
    BY <1>1 DEF IInv, TypeOK
  <2>3. worker' \in WorkerState
    BY <1>1, WorkerIdleTyped DEF WorkerState
  <2>4. QED  BY <2>1, <2>2, <2>3 DEF IInv, TypeOK
<1>9. NothingSold'
  BY <1>2 DEF IInv, NothingSold
<1>10. SeatLedger'
  <2>1. HoldRows \subseteq HoldIds
    BY DEF HoldRows
  <2>2. ASSUME NEW s \in Seats
        PROVE  seatStatus'[s] = "held" <=> \E g \in HoldRows' : Lists(g, s)
    BY <1>2, <1>3, <1>5, <1>6, <2>1 DEF IInv, SeatLedger
  <2>3. QED  BY <1>3, <1>4, <2>1, <2>2 DEF IInv, SeatLedger
<1>11. ReqInv'
  <2> SUFFICES ASSUME NEW q \in Requests
               PROVE  (ReqOK(request[q]) /\ CheckoutOK(request[q])
                                         /\ NewHoldOK(request[q]))'
    BY DEF ReqInv
  <2> DEFINE u == request[q]
  <2>1. /\ u \in RequestState /\ ReqOK(u) /\ CheckoutOK(u) /\ NewHoldOK(u)
        /\ request'[q] = u
    BY DEF IInv, TypeOK, ReqInv
  <2>2. u.pc \in {"sell", "commit"} => u.hold # h
    BY DEF Pins, Ordering
  <2> HIDE DEF u
  <2>3. u.pc # "idle" => u.hold \in HoldIds
    BY <2>1 DEF ReqOK
  <2>4. u.mark \subseteq Seats
    BY <2>1 DEF RequestState
  <2>5. u.pc \in {"sell", "commit"} => \A s \in u.mark : Lists(u.hold, s)
    BY <2>1 DEF ReqOK, CheckoutOK, Lists, Prefix, SeatsOf
  <2>6. /\ u.pc \in CheckoutPCs => holdState'[u.hold] # "free"
        /\ u.pc \in {"insertOrder", "sell", "commit"} =>
              u.seats = holdRow'[u.hold].seats /\ u.user = holdRow'[u.hold].user
        /\ u.pc \in {"sell", "commit"} =>
              u.hold \in HoldRows' /\ \A s \in u.mark : seatStatus'[s] = "held"
    BY <1>2, <1>3, <1>6, <2>1, <2>2, <2>3, <2>4, <2>5 DEF CheckoutOK, CheckoutPCs
  <2>7. u.pc \in HoldPCs =>
          holdState'[u.hold] = "free" /\ \A s \in u.mark : seatStatus'[s] = "available"
    BY <1>1, <1>2, <2>1, <2>3, <2>4 DEF NewHoldOK, HoldPCs
  <2>8. QED  BY <2>1, <2>6, <2>7 DEF ReqOK, CheckoutOK, NewHoldOK
<1>12. ApartInv'
  BY DEF IInv, ApartInv, Apart
<1>13. HoldRowInv'
  BY <1>1, <1>2 DEF IInv, HoldRowInv
<1>14. WorkerInv'
  BY <1>1, <1>2, <1>7 DEF IInv, WorkerInv
<1>15. QED  BY <1>8, <1>9, <1>10, <1>11, <1>12, <1>13, <1>14 DEF IInv

LEMMA WorkerCommitStep == IInv /\ WorkerCommit => IInv'
<1> SUFFICES ASSUME IInv, WorkerCommit PROVE IInv'
  OBVIOUS
<1>1. ~HoldReferenced(worker.hold, {})
  BY DEF HoldReferenced, IInv, NothingSold
<1>2. QED  BY <1>1, ReleaseStep DEF WorkerCommit

LEMMA ExpireStep ==
    ASSUME IInv, NEW h \in HoldIds, Expire(h)
    PROVE  IInv'
<1>1. /\ holdState[h] = "live" /\ holdState'[h] = "expired"
      /\ \A g \in HoldIds \ {h} : holdState'[g] = holdState[g]
      /\ UNCHANGED <<seatStatus, holdRow, orders, tickets, request, worker>>
  BY DEF Expire, IInv, TypeOK
<1>2. HoldRows' = HoldRows
  BY <1>1 DEF HoldRows
<1>3. TypeOK'
  BY DEF Expire, IInv, TypeOK
<1>4. NothingSold' /\ SeatLedger' /\ ApartInv' /\ HoldRowInv'
  BY <1>1, <1>2 DEF IInv, NothingSold, SeatLedger, Lists, ApartInv, Apart, HoldRowInv
<1>5. ReqInv'
  <2>1. \A q \in Requests : request[q].pc # "idle" => request[q].hold \in HoldIds
    BY DEF IInv, ReqInv, ReqOK
  <2>2. QED
    BY <1>1, <1>2, <2>1 DEF IInv, ReqInv, ReqOK, CheckoutOK, NewHoldOK, HoldPCs, CheckoutPCs
<1>6. WorkerInv'
  BY <1>1 DEF IInv, WorkerInv, TypeOK, WorkerState
<1>7. QED  BY <1>3, <1>4, <1>5, <1>6 DEF IInv

----------------------------------------------------------------------------
(* The theorems.                                                           *)

LEMMA InitIInv == Init => IInv
<1> SUFFICES ASSUME Init PROVE IInv
  OBVIOUS
<1>1. Idle \in RequestState
  BY DEF Idle, RequestState
<1>2. TypeOK
  BY <1>1, WorkerIdleTyped DEF Init, TypeOK, NoRow
<1>3. NothingSold /\ SeatLedger /\ HoldRowInv /\ WorkerInv
  BY DEF Init, NothingSold, SeatLedger, HoldRows, HoldRowInv, WorkerInv, WorkerIdle
<1>4. ReqInv /\ ApartInv
  BY DEF Init, Idle, ReqInv, ReqOK, CheckoutOK, NewHoldOK, ApartInv, Apart,
     HoldPCs, CheckoutPCs
<1>5. QED  BY <1>2, <1>3, <1>4 DEF IInv

LEMMA NextIInv == IInv /\ [Next]_vars => IInv'
<1> SUFFICES ASSUME IInv, [Next]_vars PROVE IInv'
  OBVIOUS
<1>1. ASSUME NEW r \in Requests, Hold(r) PROVE IInv'
  BY <1>1, HoldBeginStep, HoldCountStep, HoldUpdateStep, HoldCommitStep DEF Hold
<1>2. ASSUME NEW r \in Requests, Checkout(r) PROVE IInv'
  BY <1>2, CheckoutBeginStep, CheckoutOwnedStep, CheckoutReadHoldStep,
     CheckoutInsertOrderStep, CheckoutSellStep, CheckoutCommitStep DEF Checkout
<1>3. ASSUME NEW r \in Requests, RequestDies(r) PROVE IInv'
  BY <1>3, FinishStep DEF RequestDies
<1>4. CASE ReleaseExpired
  BY <1>4, WorkerScanStep, WorkerNextStep, WorkerUpdateStep, WorkerCommitStep
     DEF ReleaseExpired
<1>5. CASE WorkerTxFails \/ WorkerRestarts
  BY <1>5, WorkerStopsStep
<1>6. ASSUME NEW h \in HoldIds, Expire(h) PROVE IInv'
  BY <1>6, ExpireStep
<1>7. CASE UNCHANGED vars
  <2>1. TypeOK' /\ NothingSold' /\ SeatLedger' /\ HoldRowInv' /\ WorkerInv'
    BY <1>7 DEF vars, db, IInv, TypeOK, NothingSold, SeatLedger, Lists, HoldRows,
       HoldRowInv, WorkerInv
  <2>2. ReqInv' /\ ApartInv'
    BY <1>7 DEF vars, db, IInv, ReqInv, ReqOK, CheckoutOK, NewHoldOK, HoldRows,
       ApartInv, Apart
  <2>3. QED  BY <2>1, <2>2 DEF IInv
<1>8. QED  BY <1>1, <1>2, <1>3, <1>4, <1>5, <1>6, <1>7 DEF Next

LEMMA Invariance == Spec => []IInv
  BY InitIInv, NextIInv, PTL DEF Spec

\* Every variable keeps its type: in particular no UPDATE of Hold, Checkout or
\* ReleaseExpired runs past the end of its list of seats.
THEOREM TypeCorrect == Spec => []TypeOK
<1>1. IInv => TypeOK
  BY DEF IInv
<1>2. QED  BY <1>1, Invariance, PTL

\* Every held seat belongs to exactly one hold in the table, for any number of
\* users, requests and seats: Hold, Checkout and ReleaseExpired keep seats and
\* holds in step through their separate transactions.
THEOREM SeatsAndHoldsAgree == Spec => []SeatLedger
<1>1. IInv => SeatLedger
  BY DEF IInv
<1>2. QED  BY <1>1, Invariance, PTL

\* A checkout only ever updates seats of its own hold, although it read that
\* hold before its transaction began and the worker may have released it since.
THEOREM CheckoutOnOwnHold == Spec => []CheckoutSellsOwnSeats
<1>1. IInv => CheckoutSellsOwnSeats
  <2> SUFFICES ASSUME IInv, NEW r \in Ordering
               PROVE  /\ request[r].hold \in HoldRows
                      /\ holdRow[request[r].hold].user = request[r].user
                      /\ \A s \in request[r].mark :
                            Lists(request[r].hold, s) /\ seatStatus[s] = "held"
    BY DEF CheckoutSellsOwnSeats
  <2> DEFINE t == request[r]
  <2>1. ReqOK(t) /\ CheckoutOK(t) /\ t.pc \in {"sell", "commit"}
    BY DEF IInv, ReqInv, Ordering
  <2> HIDE DEF t
  <2>2. t.hold \in HoldRows /\ holdRow[t.hold].user = t.user
        /\ holdRow[t.hold].seats = t.seats
        /\ \A s \in t.mark : seatStatus[s] = "held"
    BY <2>1 DEF CheckoutOK
  <2>3. t.mark \subseteq SeatsOf(t.seats)
    BY <2>1 DEF ReqOK, Prefix, SeatsOf
  <2>4. QED  BY <2>2, <2>3 DEF Lists, t
<1>2. QED  BY <1>1, Invariance, PTL

============================================================================
