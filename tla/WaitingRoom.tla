---------------------------- MODULE WaitingRoom ----------------------------
(***************************************************************************)
(* The waiting room of one sale: Service.Join, Service.Status and the      *)
(* worker's admission drip (internal/waitingroom/service.go,               *)
(* cmd/worker/main.go).  API requests run concurrently; every database or  *)
(* Redis statement is one step, so requests, the worker, the sale's clock  *)
(* and losses of Redis keys interleave between any two statements.         *)
(*                                                                         *)
(* Postgres is durable and checks its unique keys.  Redis is a cache that  *)
(* may lose a key (deploy/docker-compose.prod.yml runs it with             *)
(* allkeys-lru and no volume).  A missing key and the value 0 are the same *)
(* state: INCR, INCRBY and both GETs of the code treat them alike for a    *)
(* positive cap, and createSale only stores positive caps.                 *)
(***************************************************************************)
EXTENDS Naturals, FiniteSets

CONSTANTS
    Users,           \* user accounts
    NoUser,          \* the user of a request that is not in flight
    Requests,        \* API requests that may be in flight at one time
    WaitingRoomCap,  \* sales.waiting_room_cap
    AdmitPerMinute,  \* sales.admit_per_minute
    MaxAdmit,        \* bound: the worker stops once next_admit is this large
    MaxLosses        \* bound: number of times Redis loses keys

ASSUME ConstantsAssumption ==
    /\ IsFiniteSet(Users)
    /\ NoUser \notin Users
    /\ IsFiniteSet(Requests)
    /\ Requests # {}
    /\ WaitingRoomCap \in Nat \ {0}
    /\ AdmitPerMinute \in Nat \ {0}
    /\ MaxAdmit \in Nat
    /\ MaxLosses \in Nat

VARIABLES
    stage,       \* where now() is: before opens_at, open, or past ends_at
    queueSeq,    \* Redis sale:<id>:queue_seq
    nextAdmit,   \* Redis sale:<id>:next_admit
    position,    \* queue_entries.position of each user, 0 when there is no row
    joinedAt,    \* queue_entries.joined_at, as a rank; 0 when there is no row
    admittedAt,  \* users whose queue_entries.admitted_at is set
    request,     \* the local state of each API request
    worker,      \* the admission worker: idle, or between query and INCRBY
    losses,      \* how often Redis has lost keys
    \* What clients have observed.
    told,        \* positions answered to each user by Join or Status
    granted,     \* users who were handed an admission token
    ahead        \* for each entry, the users already told a position when the
                 \* Join that created it began

queueVars == <<position, joinedAt, admittedAt>>
redisVars == <<queueSeq, nextAdmit, losses>>
seenVars == <<told, granted, ahead>>
vars == <<stage, queueVars, redisVars, request, worker, seenVars>>

Idle ==
    [pc |-> "idle", user |-> NoUser, pos |-> 0, marked |-> FALSE, seen |-> {}]

\* A slip: without the floor of 1, a slow sale admits nobody.
BatchNoFloor == AdmitPerMinute \div 12

\* The number of positions an admission tick releases.
Batch == IF AdmitPerMinute \div 12 < 1 THEN 1 ELSE AdmitPerMinute \div 12

\* The users that have a row in queue_entries.
Entries == {u \in Users : position[u] # 0}

\* saleOpenForQueue looks at opens_at and at the phase, not at ends_at.
SaleOpenForQueue == stage # "before"

\* What Status computes as `admitted` from the row and next_admit.
Admitted(pos, marked) == marked \/ pos <= nextAdmit

Admissible(u) == position[u] # 0 /\ Admitted(position[u], u \in admittedAt)

----------------------------------------------------------------------------
(* Steps shared by the handlers.                                           *)

At(r, pc) == request[r].pc = pc

Goto(r, rec) == request' = [request EXCEPT ![r] = rec]

\* A slip: the handler goes on after it has answered.
FinishFallsThrough(r) == Goto(r, [request[r] EXCEPT !.user = NoUser])

\* The handler returns; nothing stays of the request.
Finish(r) == Goto(r, Idle)

Tell(u, pos) == told' = [told EXCEPT ![u] = @ \cup {pos}]

----------------------------------------------------------------------------
(* Join.                                                                   *)

\* getSale and saleOpenForQueue; a closed sale is refused without effect.
JoinBegin(r, u) ==
    /\ At(r, "idle")
    /\ SaleOpenForQueue
    /\ Goto(r, [Idle EXCEPT !.pc = "select", !.user = u,
                            !.seen = {v \in Users : told[v] # {}}])
    /\ UNCHANGED <<stage, queueVars, redisVars, worker, seenVars>>

\* A user who already has a row is answered with its position.
JoinSelect(r) ==
    /\ At(r, "select")
    /\ LET u == request[r].user IN
       IF position[u] # 0
       THEN Tell(u, position[u]) /\ Finish(r)
       ELSE /\ Goto(r, [request[r] EXCEPT !.pc = "checkCap"])
            /\ UNCHANGED told
    /\ UNCHANGED <<stage, queueVars, redisVars, worker, granted, ahead>>

\* A slip: > for >=.
JoinCheckCapOffByOne(r) ==
    /\ At(r, "checkCap")
    /\ IF queueSeq > WaitingRoomCap
       THEN Finish(r)
       ELSE Goto(r, [request[r] EXCEPT !.pc = "incr"])
    /\ UNCHANGED <<stage, queueVars, redisVars, worker, seenVars>>

\* GET queue_seq; a full room is refused.
JoinCheckCap(r) ==
    /\ At(r, "checkCap")
    /\ IF queueSeq >= WaitingRoomCap
       THEN Finish(r)
       ELSE Goto(r, [request[r] EXCEPT !.pc = "incr"])
    /\ UNCHANGED <<stage, queueVars, redisVars, worker, seenVars>>

\* INCR queue_seq draws the position.
JoinIncr(r) ==
    /\ At(r, "incr")
    /\ queueSeq' = queueSeq + 1
    /\ Goto(r, [request[r] EXCEPT !.pc = "insert", !.pos = queueSeq + 1])
    /\ UNCHANGED <<stage, queueVars, nextAdmit, losses, worker, seenVars>>

\* UNIQUE (sale_id, user_id) and UNIQUE (sale_id, position).
Conflict(u, pos) == position[u] # 0 \/ \E v \in Users : position[v] = pos

\* A slip: ON CONFLICT (sale_id, user_id) DO UPDATE.
UpsertRow(u, pos, seen) ==
    /\ \A v \in Users : position[v] # pos
    /\ position' = [position EXCEPT ![u] = pos]
    /\ joinedAt' = [joinedAt EXCEPT ![u] = Cardinality(Entries) + 1]
    /\ ahead' = [ahead EXCEPT ![u] = seen]

InsertRow(u, pos, seen) ==
    /\ ~Conflict(u, pos)
    /\ position' = [position EXCEPT ![u] = pos]
    /\ joinedAt' = [joinedAt EXCEPT ![u] = Cardinality(Entries) + 1]
    /\ ahead' = [ahead EXCEPT ![u] = seen]

\* A slip: the number is read back from Redis after the INCR.
JoinInsertReadsCounter(r) ==
    /\ At(r, "insert")
    /\ LET j == request[r] IN
       InsertRow(j.user, queueSeq, j.seen) /\ Tell(j.user, queueSeq)
    /\ Finish(r)
    /\ UNCHANGED <<stage, admittedAt, redisVars, worker, granted>>

\* The INSERT succeeds and the user is told the new position.
JoinInsert(r) ==
    /\ At(r, "insert")
    /\ LET j == request[r] IN
       InsertRow(j.user, j.pos, j.seen) /\ Tell(j.user, j.pos)
    /\ Finish(r)
    /\ UNCHANGED <<stage, admittedAt, redisVars, worker, granted>>

\* The INSERT reports an error: a unique key, or a lost connection, in which
\* case the row may or may not have been written.
JoinInsertError(r) ==
    /\ At(r, "insert")
    /\ \/ LET j == request[r] IN InsertRow(j.user, j.pos, j.seen)
       \/ UNCHANGED <<position, joinedAt, ahead>>
    /\ Goto(r, [request[r] EXCEPT !.pc = "reselect"])
    /\ UNCHANGED <<stage, admittedAt, redisVars, worker, told, granted>>

\* A slip: answering with the number this request drew.
JoinReselectOwnNumber(r) ==
    /\ At(r, "reselect")
    /\ Tell(request[r].user, request[r].pos)
    /\ Finish(r)
    /\ UNCHANGED <<stage, queueVars, redisVars, worker, granted, ahead>>

\* "unique violation = race, return existing"; without a row the error is
\* returned.
JoinReselect(r) ==
    /\ At(r, "reselect")
    /\ LET u == request[r].user IN
       IF position[u] # 0 THEN Tell(u, position[u]) ELSE UNCHANGED told
    /\ Finish(r)
    /\ UNCHANGED <<stage, queueVars, redisVars, worker, granted, ahead>>

Join(r) ==
    \/ \E u \in Users : JoinBegin(r, u)
    \/ JoinSelect(r)
    \/ JoinCheckCap(r)
    \/ JoinIncr(r)
    \/ JoinInsert(r)
    \/ JoinInsertError(r)
    \/ JoinReselect(r)

----------------------------------------------------------------------------
(* Status.                                                                 *)

\* The SELECT of position and admitted_at; no row is ErrNotInQueue.
StatusSelect(r, u) ==
    /\ At(r, "idle")
    /\ u \in Entries
    /\ Goto(r, [Idle EXCEPT !.pc = "getAdmit", !.user = u,
                            !.pos = position[u], !.marked = (u \in admittedAt)])
    /\ UNCHANGED <<stage, queueVars, redisVars, worker, seenVars>>

\* A slip: positions taken for zero-based.
StatusGetAdmitOffByOne(r) ==
    /\ At(r, "getAdmit")
    /\ LET s == request[r] IN
       IF Admitted(s.pos - 1, s.marked) /\ ~s.marked
       THEN Goto(r, [s EXCEPT !.pc = "mark"]) /\ UNCHANGED <<told, granted>>
       ELSE /\ Tell(s.user, s.pos)
            /\ granted' = IF s.marked THEN granted \cup {s.user} ELSE granted
            /\ Finish(r)
    /\ UNCHANGED <<stage, queueVars, redisVars, worker, ahead>>

\* GET next_admit.  An entry that is not admitted, or that the row says was
\* admitted before, is answered at once; otherwise the row is marked first.
StatusGetAdmit(r) ==
    /\ At(r, "getAdmit")
    /\ LET s == request[r] IN
       IF Admitted(s.pos, s.marked) /\ ~s.marked
       THEN Goto(r, [s EXCEPT !.pc = "mark"]) /\ UNCHANGED <<told, granted>>
       ELSE /\ Tell(s.user, s.pos)
            /\ granted' = IF s.marked THEN granted \cup {s.user} ELSE granted
            /\ Finish(r)
    /\ UNCHANGED <<stage, queueVars, redisVars, worker, ahead>>

\* UPDATE admitted_at, whose error is dropped, then the token is issued.
StatusMark(r) ==
    /\ At(r, "mark")
    /\ LET s == request[r] IN
       /\ \/ admittedAt' = admittedAt \cup {s.user}
          \/ UNCHANGED admittedAt
       /\ Tell(s.user, s.pos)
       /\ granted' = granted \cup {s.user}
    /\ Finish(r)
    /\ UNCHANGED <<stage, position, joinedAt, redisVars, worker, ahead>>

Status(r) ==
    \/ \E u \in Users : StatusSelect(r, u)
    \/ StatusGetAdmit(r)
    \/ StatusMark(r)

\* A slip: a Join that fails puts queue_seq back to what it had found.
RequestDiesGivesBack(r) ==
    /\ ~At(r, "idle")
    /\ Finish(r)
    /\ queueSeq' = IF At(r, "insert") THEN request[r].pos - 1 ELSE queueSeq
    /\ UNCHANGED <<stage, queueVars, nextAdmit, losses, worker, seenVars>>

\* The client goes away, the API process stops, or a statement fails with an
\* error the handler returns: the request ends where it is.
RequestDies(r) ==
    /\ ~At(r, "idle")
    /\ Finish(r)
    /\ UNCHANGED <<stage, queueVars, redisVars, worker, seenVars>>

----------------------------------------------------------------------------
(* The worker's drip, one sale's share of runAdmission.                    *)

\* The query selects sales by phase and ends_at; opens_at is not looked at.
WorkerQuery ==
    /\ worker = "idle"
    /\ stage # "ended"
    /\ nextAdmit < MaxAdmit
    /\ worker' = "advance"
    /\ UNCHANGED <<stage, queueVars, redisVars, request, seenVars>>

\* AdvanceAdmission: INCRBY next_admit, whatever the length of the queue.
WorkerAdvance ==
    /\ worker = "advance"
    /\ nextAdmit' = nextAdmit + Batch
    /\ worker' = "idle"
    /\ UNCHANGED <<stage, queueVars, queueSeq, losses, request, seenVars>>

\* The INCRBY fails and is logged, or the worker restarts: a tick is skipped.
WorkerSkips ==
    /\ worker = "advance"
    /\ worker' = "idle"
    /\ UNCHANGED <<stage, queueVars, redisVars, request, seenVars>>

----------------------------------------------------------------------------
(* The environment: the sale's clock and Redis.                            *)

ClockPasses ==
    /\ \/ stage = "before" /\ stage' = "open"
       \/ stage = "open" /\ stage' = "ended"
    /\ UNCHANGED <<queueVars, redisVars, request, worker, seenVars>>

\* Redis evicts one of the sale's keys, or restarts and loses both.
RedisLosesKeys ==
    /\ losses < MaxLosses
    /\ \E keep \in SUBSET {"queue_seq", "next_admit"} :
       /\ keep # {"queue_seq", "next_admit"}
       /\ queueSeq' = IF "queue_seq" \in keep THEN queueSeq ELSE 0
       /\ nextAdmit' = IF "next_admit" \in keep THEN nextAdmit ELSE 0
    /\ losses' = losses + 1
    /\ UNCHANGED <<stage, queueVars, request, worker, seenVars>>

----------------------------------------------------------------------------
Init ==
    /\ stage = "before"
    /\ queueSeq = 0
    /\ nextAdmit = 0
    /\ position = [u \in Users |-> 0]
    /\ joinedAt = [u \in Users |-> 0]
    /\ admittedAt = {}
    /\ request = [r \in Requests |-> Idle]
    /\ worker = "idle"
    /\ losses = 0
    /\ told = [u \in Users |-> {}]
    /\ granted = {}
    /\ ahead = [u \in Users |-> {}]

Next ==
    \/ \E r \in Requests : Join(r) \/ Status(r) \/ RequestDies(r)
    \/ WorkerQuery \/ WorkerAdvance \/ WorkerSkips
    \/ ClockPasses \/ RedisLosesKeys

Spec == Init /\ [][Next]_vars

\* The worker ticks for as long as the sale runs, and its INCRBY does not
\* fail every time.
Fairness == WF_vars(WorkerQuery) /\ SF_vars(WorkerAdvance)

FairSpec == Spec /\ Fairness

----------------------------------------------------------------------------
(* Properties.                                                             *)

PCs == {"idle", "select", "checkCap", "incr", "insert", "reselect",
        "getAdmit", "mark"}

RequestState == [pc : PCs, user : Users \cup {NoUser}, pos : Nat,
                 marked : BOOLEAN, seen : SUBSET Users]

\* The type of every variable; a request that is in flight has a user.
TypeOK ==
    /\ stage \in {"before", "open", "ended"}
    /\ queueSeq \in Nat
    /\ nextAdmit \in Nat
    /\ position \in [Users -> Nat]
    /\ joinedAt \in [Users -> Nat]
    /\ admittedAt \subseteq Users
    /\ request \in [Requests -> RequestState]
    /\ \A r \in Requests : request[r].pc # "idle" => request[r].user \in Users
    /\ worker \in {"idle", "advance"}
    /\ losses \in Nat
    /\ told \in [Users -> SUBSET Nat]
    /\ granted \subseteq Users
    /\ ahead \in [Users -> SUBSET Users]

\* Whatever Join and Status ever answered a user is the one position of that
\* user's row, and no two users share a position, also when two Joins of one
\* user race, an INSERT's answer is lost, or Redis forgets queue_seq.
OnePositionPerUser ==
    /\ \A u \in Users : told[u] \subseteq {position[u]} \ {0}
    /\ \A u, v \in Entries : position[u] = position[v] => u = v

\* The cap is checked before INCR and not with it, so concurrent joins can pass
\* it; but there are no more entries than the cap and the other requests in
\* flight, and no position is beyond that, whatever numbers failed joins have
\* used up and however often Redis loses the counter the cap is checked against.
CapOvershootBounded ==
    LET most == WaitingRoomCap + Cardinality(Requests) - 1 IN
    /\ Cardinality(Entries) <= most
    /\ \A u \in Entries : position[u] <= most

\* Until Redis loses a key, a user who was already told a position when
\* another user's Join began is ahead of that other user: nobody who comes
\* later gets in front.
LatecomersStayBehind ==
    losses = 0 =>
        \A u \in Entries : \A v \in ahead[u] :
            position[v] # 0 /\ position[v] < position[u]

\* Until Redis loses a key, tokens go out in order of position: everybody in
\* front of a user who was handed a token may have one too.
AdmittedInOrder ==
    losses = 0 =>
        \A v \in granted : \A u \in Entries :
            position[u] <= position[v] => Admissible(u)

\* Until Redis loses a key, no more users hold a token or are marked as admitted
\* than the worker's ticks have let in, although admissions pile up while nobody
\* waits, and rows, marks and tokens are written at different moments.
TokensWithinDrip ==
    losses = 0 => Cardinality(granted \cup admittedAt) <= nextAdmit

\* An entry that may be admitted stays so; only a loss of next_admit can take
\* it back, and only from an entry whose admitted_at was never written.
AdmissionNotRevoked ==
    [][\A u \in Users :
         Admissible(u) =>
            \/ Admissible(u)'
            \/ losses' # losses /\ nextAdmit' = 0 /\ u \notin admittedAt]_vars

\* Every user in the queue becomes admissible, or the sale ends first.
EveryEntryIsReached ==
    \A u \in Users :
        position[u] # 0 ~> (Admissible(u) \/ stage = "ended")

\* The number a request has drawn and not stored yet.
Drawn(r) == IF request[r].pc = "insert" THEN request[r].pos ELSE 0

Line == INSTANCE TicketLine WITH
    last <- queueSeq,
    hand <- [r \in Requests |-> Drawn(r)],
    line <- position,
    front <- nextAdmit,
    served <- granted

\* Until Redis loses a key, Join, Status and the drip are a ticket dispenser: the
\* separate INCR and INSERT never store a number that the same request did not
\* draw or that another stored, nobody's place changes, and nobody is handed a
\* token before the front has come to their number.
ServedAsATicketLine ==
    Line!Init /\ [][losses' = 0 => [Line!Next]_(Line!vars)]_vars

============================================================================
