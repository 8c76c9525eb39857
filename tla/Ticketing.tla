----------------------------- MODULE Ticketing -----------------------------
(***************************************************************************)
(* The seats of one sale: Service.Hold and ReleaseExpired                  *)
(* (internal/inventory/service.go), Service.Checkout                       *)
(* (internal/orders/service.go) and the schema they run on                 *)
(* (migrations/001_init.sql).                                              *)
(*                                                                         *)
(* Every SQL statement is one step, except that a transaction's last       *)
(* statement is taken together with its COMMIT: in between the others can  *)
(* only wait.  Transactions are READ COMMITTED.  An UPDATE that finds its  *)
(* row not matching does nothing at once; one that finds it matching waits *)
(* for the transaction that has the row locked, and looks again.  Inserting *)
(* an order locks the row of its hold (FOR KEY SHARE) for the foreign key, *)
(* and a hold that an order refers to cannot be deleted.  A statement that *)
(* fails aborts its transaction.                                           *)
(***************************************************************************)
EXTENDS Naturals, Sequences, FiniteSets

CONSTANTS
    Users, Seats,
    Keys,          \* idempotency keys a client may send
    Requests,      \* API requests that may be in flight at one time
    HoldIds,       \* bound: the ids of all the holds ever made
    NoUser, NoKey, NoHold,  \* fields of a request or hold that has none
    SeatLists,     \* the lists of seats a client may ask for
    MaxPerUser,    \* sales.max_tickets_per_user
    ReleaseLimit,  \* LIMIT of the worker's query for expired holds
    CountMayFail   \* whether Hold's COUNT may fail; its error is dropped

ASSUME ConstantsAssumption ==
    /\ NoUser \notin Users /\ NoKey \notin Keys /\ NoHold \notin HoldIds
    /\ SeatLists \subseteq {l \in Seq(Seats) : Len(l) \in 1..4}
    /\ MaxPerUser \in Nat
    /\ ReleaseLimit \in Nat \ {0}
    /\ CountMayFail \in BOOLEAN

VARIABLES
    \* The committed rows.
    seatStatus,  \* seats.status
    holdRow,     \* holds: user, key and seats of every hold ever inserted
    holdState,   \* free (no row yet), live, expired, gone (deleted)
    orders,      \* orders
    tickets,     \* tickets
    \* The processes, with what their open transactions have done so far.
    request,
    worker

db == <<seatStatus, holdRow, holdState, orders, tickets>>
vars == <<db, request, worker>>

\* A slip: seats counted from zero.
IdleFromZero ==
    [pc |-> "idle", user |-> NoUser, key |-> NoKey, hold |-> NoHold,
     seats |-> <<>>, next |-> 0, mark |-> {}, owned |-> 0]

Idle ==
    [pc |-> "idle", user |-> NoUser, key |-> NoKey, hold |-> NoHold,
     seats |-> <<>>, next |-> 1, mark |-> {}, owned |-> 0]

NoRow == [user |-> NoUser, key |-> NoKey, seats |-> <<>>]

WorkerIdle ==
    [pc |-> "idle", batch |-> {}, hold |-> NoHold, next |-> 1, mark |-> {}]

SeatsOf(list) == {list[i] : i \in 1..Len(list)}

\* The hold rows in the table.
HoldRows == {h \in HoldIds : holdState[h] \in {"live", "expired"}}

At(r, pc) == request[r].pc = pc
Goto(r, rec) == request' = [request EXCEPT ![r] = rec]

\* The handler returns; its deferred Rollback undoes an open transaction.
Finish(r) == Goto(r, Idle)

\* Row locks: `mark` holds the seats a transaction has updated.
SeatFreeForRequest(r, s) ==
    /\ s \notin worker.mark
    /\ \A q \in Requests \ {r} : s \notin request[q].mark

SeatFreeForWorker(s) == \A q \in Requests : s \notin request[q].mark

\* The checkouts with an uncommitted order: they hold FOR KEY SHARE on their hold.
Ordering == {q \in Requests : request[q].pc \in {"sell", "commit"}}

Pins(q, h) == q \in Ordering /\ request[q].hold = h

----------------------------------------------------------------------------
(* Hold.                                                                   *)

\* The SELECT by idempotency key.  A hold found there is answered, or refused
\* as expired, without effect.  The id is the UUID the request will generate.
HoldBegin(r, u, k, list, h) ==
    /\ At(r, "idle")
    /\ ~\E g \in HoldRows : holdRow[g].user = u /\ holdRow[g].key = k
    /\ holdState[h] = "free"
    /\ \A q \in Requests : request[q].hold # h
    /\ Goto(r, [Idle EXCEPT !.pc = "count", !.user = u, !.key = k,
                            !.hold = h, !.seats = list])
    /\ UNCHANGED <<db, worker>>

ActiveHolds(u) == {h \in HoldIds : holdState[h] = "live" /\ holdRow[h].user = u}

\* "max 1 active hold per user per sale": a COUNT before the transaction.
HoldCount(r) ==
    /\ At(r, "count")
    /\ \/ /\ ActiveHolds(request[r].user) = {} \/ CountMayFail
          /\ Goto(r, [request[r] EXCEPT !.pc = "update"])
       \/ /\ ActiveHolds(request[r].user) # {}
          /\ Finish(r)
    /\ UNCHANGED <<db, worker>>

Advance(r, s, last) ==
    Goto(r, [request[r] EXCEPT
                !.mark = @ \cup {s},
                !.next = @ + 1,
                !.pc = IF request[r].next = Len(request[r].seats)
                       THEN last ELSE @])

\* A slip: no Rollback when a seat is unavailable.
HoldUpdateLeaksTx(r) ==
    /\ At(r, "update")
    /\ LET s == request[r].seats[request[r].next] IN
       IF seatStatus[s] = "available" /\ s \notin request[r].mark
       THEN SeatFreeForRequest(r, s) /\ Advance(r, s, "insertHold")
       ELSE UNCHANGED request
    /\ UNCHANGED <<db, worker>>

\* UPDATE seats SET status = 'held' WHERE status = 'available', seat by seat.
HoldUpdate(r) ==
    /\ At(r, "update")
    /\ LET s == request[r].seats[request[r].next] IN
       IF seatStatus[s] = "available" /\ s \notin request[r].mark
       THEN SeatFreeForRequest(r, s) /\ Advance(r, s, "insertHold")
       ELSE Finish(r)
    /\ UNCHANGED <<db, worker>>

\* INSERT INTO holds, with UNIQUE (sale_id, user_id, idempotency_key), COMMIT.
HoldCommit(r) ==
    /\ At(r, "insertHold")
    /\ LET t == request[r] IN
       IF \E g \in HoldRows : holdRow[g].user = t.user /\ holdRow[g].key = t.key
       THEN UNCHANGED db
       ELSE /\ holdRow' = [holdRow EXCEPT ![t.hold] =
                             [user |-> t.user, key |-> t.key, seats |-> t.seats]]
            /\ holdState' = [holdState EXCEPT ![t.hold] = "live"]
            /\ seatStatus' = [s \in Seats |->
                                IF s \in t.mark THEN "held" ELSE seatStatus[s]]
            /\ UNCHANGED <<orders, tickets>>
    /\ Finish(r)
    /\ UNCHANGED worker

Hold(r) ==
    \/ \E u \in Users, k \in Keys, list \in SeatLists, h \in HoldIds :
          HoldBegin(r, u, k, list, h)
    \/ HoldCount(r)
    \/ HoldUpdate(r)
    \/ HoldCommit(r)

----------------------------------------------------------------------------
(* Checkout.                                                               *)

Ordered(u, k) == \E o \in orders : o.user = u /\ o.key = k

\* The SELECT by idempotency key; an order found there is answered.
CheckoutBegin(r, u, k, h) ==
    /\ At(r, "idle")
    /\ ~Ordered(u, k)
    /\ holdState[h] # "free"
    /\ Goto(r, [Idle EXCEPT !.pc = "owned", !.user = u, !.key = k, !.hold = h])
    /\ UNCHANGED <<db, worker>>

\* SELECT COUNT of the user's active tickets.
CheckoutOwned(r) ==
    /\ At(r, "owned")
    /\ Goto(r, [request[r] EXCEPT !.pc = "readHold",
                  !.owned = Cardinality({t \in tickets : t.user = request[r].user})])
    /\ UNCHANGED <<db, worker>>

\* The hold must be the user's and not expired, and its seats within the cap.
CheckoutReadHold(r) ==
    /\ At(r, "readHold")
    /\ LET t == request[r]
           row == holdRow[t.hold] IN
       IF /\ holdState[t.hold] = "live"
          /\ row.user = t.user
          /\ t.owned + Len(row.seats) <= MaxPerUser
       THEN Goto(r, [t EXCEPT !.pc = "insertOrder", !.seats = row.seats])
       ELSE Finish(r)
    /\ UNCHANGED <<db, worker>>

\* A slip: a column without the reference.
HoldReferableUnchecked(h) == TRUE

\* Foreign key orders.hold_id, checked and locked when the order is inserted.
HoldReferable(h) == h \in HoldRows

\* BEGIN; INSERT INTO orders, with UNIQUE (sale_id, user_id, idempotency_key):
\* it waits for an uncommitted order with the same key.
CheckoutInsertOrder(r) ==
    /\ At(r, "insertOrder")
    /\ LET t == request[r] IN
       /\ ~\E q \in Ordering : request[q].user = t.user /\ request[q].key = t.key
       /\ IF HoldReferable(t.hold) /\ ~Ordered(t.user, t.key)
          THEN Goto(r, [t EXCEPT !.pc = "sell"])
          ELSE Finish(r)
    /\ UNCHANGED <<db, worker>>

\* UPDATE seats SET status = 'sold' WHERE status = 'held' and INSERT INTO
\* tickets, with UNIQUE (seat_id), seat by seat.
CheckoutSell(r) ==
    /\ At(r, "sell")
    /\ LET s == request[r].seats[request[r].next] IN
       IF seatStatus[s] = "held" /\ ~\E t \in tickets : t.seat = s
       THEN SeatFreeForRequest(r, s) /\ Advance(r, s, "commit")
       ELSE Finish(r)
    /\ UNCHANGED <<db, worker>>

\* The orders whose foreign key forbids deleting hold h: NO ACTION looks at the
\* committed orders and at the transaction's own.
HoldReferenced(h, own) == h \in own \cup {o.hold : o \in orders}

\* DELETE FROM holds, whose error is dropped, then COMMIT.  The DELETE waits
\* for the other checkouts of the hold.  If it fails the transaction is
\* aborted and COMMIT rolls back, which is reported as an error.
CheckoutCommit(r) ==
    /\ At(r, "commit")
    /\ LET t == request[r] IN
       /\ \A q \in Requests \ {r} : ~Pins(q, t.hold)
       /\ IF HoldReferenced(t.hold, {t.hold})
          THEN UNCHANGED db
          ELSE /\ orders' = orders \cup {[user |-> t.user, key |-> t.key,
                                          hold |-> t.hold]}
               /\ tickets' = tickets \cup {[seat |-> s, user |-> t.user] :
                                             s \in t.mark}
               /\ seatStatus' = [s \in Seats |->
                                   IF s \in t.mark THEN "sold" ELSE seatStatus[s]]
               /\ holdState' = [holdState EXCEPT ![t.hold] = "gone"]
               /\ UNCHANGED holdRow
    /\ Finish(r)
    /\ UNCHANGED worker

Checkout(r) ==
    \/ \E u \in Users, k \in Keys, h \in HoldIds : CheckoutBegin(r, u, k, h)
    \/ CheckoutOwned(r)
    \/ CheckoutReadHold(r)
    \/ CheckoutInsertOrder(r)
    \/ CheckoutSell(r)
    \/ CheckoutCommit(r)

\* The client goes away, the API process stops, a statement fails, or Postgres
\* picks the transaction as the victim of a deadlock: all is rolled back.
RequestDies(r) ==
    /\ ~At(r, "idle")
    /\ Finish(r)
    /\ UNCHANGED <<db, worker>>

----------------------------------------------------------------------------
(* ReleaseExpired, in the worker.                                          *)

\* The SELECT of expired holds, at most ReleaseLimit of them in any order.
WorkerScan ==
    /\ worker.pc = "idle"
    /\ \E batch \in SUBSET {h \in HoldIds : holdState[h] = "expired"} :
          /\ batch # {}
          /\ Cardinality(batch) <= ReleaseLimit
          /\ worker' = [worker EXCEPT !.pc = "next", !.batch = batch]
    /\ UNCHANGED <<db, request>>

\* The next row of the result, and BEGIN.
WorkerNext ==
    /\ worker.pc = "next"
    /\ IF worker.batch = {}
       THEN worker' = WorkerIdle
       ELSE \E h \in worker.batch :
               worker' = [worker EXCEPT !.pc = "update", !.hold = h, !.next = 1,
                                        !.batch = @ \ {h}]
    /\ UNCHANGED <<db, request>>

\* A slip: the UPDATE goes to the pool and not to the transaction, and so is
\* committed at once.
WorkerUpdateOutsideTx ==
    /\ worker.pc = "update"
    /\ LET list == holdRow[worker.hold].seats
           s == list[worker.next] IN
       /\ seatStatus[s] = "held" => SeatFreeForWorker(s)
       /\ seatStatus' = [seatStatus EXCEPT
                           ![s] = IF @ = "held" THEN "available" ELSE @]
       /\ worker' = [worker EXCEPT
                       !.next = @ + 1,
                       !.pc = IF worker.next = Len(list) THEN "delete" ELSE @]
    /\ UNCHANGED <<holdRow, holdState, orders, tickets, request>>

\* UPDATE seats SET status = 'available' WHERE status = 'held', seat by seat.
WorkerUpdate ==
    /\ worker.pc = "update"
    /\ LET list == holdRow[worker.hold].seats
           s == list[worker.next] IN
       /\ seatStatus[s] = "held" => SeatFreeForWorker(s)
       /\ worker' = [worker EXCEPT
                       !.mark = IF seatStatus[s] = "held" THEN @ \cup {s} ELSE @,
                       !.next = @ + 1,
                       !.pc = IF worker.next = Len(list) THEN "delete" ELSE @]
    /\ UNCHANGED <<db, request>>

\* A slip: the seats are put back and the hold stays.
WorkerCommitKeepsHold ==
    /\ worker.pc = "delete"
    /\ seatStatus' = [s \in Seats |-> IF s \in worker.mark
                                      THEN "available" ELSE seatStatus[s]]
    /\ worker' = [WorkerIdle EXCEPT !.pc = "next", !.batch = worker.batch]
    /\ UNCHANGED <<request, holdRow, holdState, orders, tickets>>

\* DELETE FROM holds, which waits for the checkouts that pin the hold, then
\* COMMIT.  As in Checkout, a DELETE that is refused undoes the transaction.
WorkerCommit ==
    /\ worker.pc = "delete"
    /\ \A q \in Requests : ~Pins(q, worker.hold)
    /\ IF HoldReferenced(worker.hold, {})
       THEN UNCHANGED db
       ELSE /\ seatStatus' = [s \in Seats |-> IF s \in worker.mark
                                              THEN "available" ELSE seatStatus[s]]
            /\ holdState' = [holdState EXCEPT ![worker.hold] = "gone"]
            /\ UNCHANGED <<holdRow, orders, tickets>>
    /\ worker' = [WorkerIdle EXCEPT !.pc = "next", !.batch = worker.batch]
    /\ UNCHANGED request

\* A statement of the transaction fails, or it is a deadlock's victim: the
\* errors are dropped, COMMIT rolls back, and the next row is taken.
WorkerTxFails ==
    /\ worker.pc \in {"update", "delete"}
    /\ worker' = [WorkerIdle EXCEPT !.pc = "next", !.batch = worker.batch]
    /\ UNCHANGED <<db, request>>

\* The worker process stops and is started again.
WorkerRestarts ==
    /\ worker.pc # "idle"
    /\ worker' = WorkerIdle
    /\ UNCHANGED <<db, request>>

ReleaseExpired == WorkerScan \/ WorkerNext \/ WorkerUpdate \/ WorkerCommit

----------------------------------------------------------------------------
\* now() passes expires_at.
Expire(h) ==
    /\ holdState[h] = "live"
    /\ holdState' = [holdState EXCEPT ![h] = "expired"]
    /\ UNCHANGED <<seatStatus, holdRow, orders, tickets, request, worker>>

Init ==
    /\ seatStatus = [s \in Seats |-> "available"]
    /\ holdRow = [h \in HoldIds |-> NoRow]
    /\ holdState = [h \in HoldIds |-> "free"]
    /\ orders = {}
    /\ tickets = {}
    /\ request = [r \in Requests |-> Idle]
    /\ worker = WorkerIdle

Next ==
    \/ \E r \in Requests : Hold(r) \/ Checkout(r) \/ RequestDies(r)
    \/ ReleaseExpired \/ WorkerTxFails \/ WorkerRestarts
    \/ \E h \in HoldIds : Expire(h)

Spec == Init /\ [][Next]_vars

----------------------------------------------------------------------------
(* Properties.                                                             *)

HoldPCs == {"count", "update", "insertHold"}
CheckoutPCs == {"owned", "readHold", "insertOrder", "sell", "commit"}

RequestState ==
    [pc : {"idle"} \cup HoldPCs \cup CheckoutPCs,
     user : Users \cup {NoUser}, key : Keys \cup {NoKey},
     hold : HoldIds \cup {NoHold}, seats : SeatLists \cup {<<>>},
     next : 1..5, mark : SUBSET Seats, owned : Nat]

WorkerState ==
    [pc : {"idle", "next", "update", "delete"}, batch : SUBSET HoldIds,
     hold : HoldIds \cup {NoHold}, next : 1..5, mark : SUBSET Seats]

\* The type of every variable.
TypeOK ==
    /\ seatStatus \in [Seats -> {"available", "held", "sold"}]
    /\ holdRow \in [HoldIds -> [user : Users \cup {NoUser},
                                 key : Keys \cup {NoKey},
                                 seats : SeatLists \cup {<<>>}]]
    /\ holdState \in [HoldIds -> {"free", "live", "expired", "gone"}]
    /\ orders \subseteq [user : Users, key : Keys, hold : HoldIds]
    /\ tickets \subseteq [seat : Seats, user : Users]
    /\ request \in [Requests -> RequestState]
    /\ worker \in WorkerState

Lists(h, s) == s \in SeatsOf(holdRow[h].seats)

\* A seat is held exactly if one hold in the table lists it, and never two do:
\* no seat is lost to a hold that is gone and no release frees a seat that is
\* someone else's, through races of Hold, Checkout and ReleaseExpired.
SeatLedger ==
    \A s \in Seats :
        /\ seatStatus[s] = "held" <=> \E h \in HoldRows : Lists(h, s)
        /\ \A g, h \in HoldRows : Lists(g, s) /\ Lists(h, s) => g = h

\* A checkout reads its hold before its transaction begins, so the hold may
\* have expired, been released, and its seats held by another user by the time
\* it updates them.  It never marks such a seat: the seats it has updated are
\* still held by its own hold, which is in the table.
CheckoutSellsOwnSeats ==
    \A r \in Ordering :
        LET t == request[r] IN
        /\ t.hold \in HoldRows
        /\ holdRow[t.hold].user = t.user
        /\ \A s \in t.mark : Lists(t.hold, s) /\ seatStatus[s] = "held"

\* The hold a held seat belongs to.
Holder(s) ==
    IF seatStatus[s] = "held"
    THEN CHOOSE h \in HoldRows : Lists(h, s)
    ELSE NoHold

Market == INSTANCE SeatMarket WITH
    Holds <- HoldIds,
    Nobody <- NoHold,
    holder <- [s \in Seats |-> Holder(s)],
    sold <- {s \in Seats : seatStatus[s] = "sold"},
    over <- {h \in HoldIds : holdState[h] = "gone"}

\* Although Hold, Checkout and ReleaseExpired update seats one by one and check
\* some of what they rely on outside their transactions, together they are a
\* market: a hold gets all its seats at once, from nobody, and they all return
\* at once when it is over, which it never is twice.
SeatsChangeHandsAtOnce == Market!Spec

============================================================================
