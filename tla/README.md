# traffic: a TLA+ model of the waiting room, the ticket sale and the load lab

`traffic` sells the seats of a sale behind a virtual waiting room. Fans join a
queue, a worker lets in a number of them per minute, those who are in get an
admission token, hold seats with it and check out. Next to the product stands
a load lab: the API accepts k6 runs, a sidecar executes them one at a time.

This directory holds the specifications of the parts whose correctness depends
on interleavings, failures and time, the TLC runs that check them, and proofs
of the properties that matter most. `PROJECT.json` is the index: components,
runs, the source lines behind every definition, hazards, findings, theorems.

    tlc -config WaitingRoomSafety.cfg MCWaitingRoom.tla     # one run
    tlapm WaitingRoomProofs.tla                             # one proof module

## 1. Inventory

| Component | State it keeps | Operations | Interacts with |
|---|---|---|---|
| Waiting room, `internal/waitingroom` | Postgres `queue_entries`; Redis `queue_seq`, `next_admit` | `Join`, `Status`, `AdvanceAdmission` | handlers, worker |
| Worker, `cmd/worker` | none of its own | every 5 s the admission drip, then `ReleaseExpired` | waiting room, inventory |
| Inventory, `internal/inventory` | `seats`, `holds` | `CreateSeats`, `Hold`, `ReleaseExpired`, `ListAvailable` | shares rows with orders |
| Orders, `internal/orders` | `orders`, `tickets`, and the rows of inventory | `Checkout`, `Transfer` (refuses), `Stats` | shares rows with inventory |
| Tokens, `internal/auth` | Redis `admission:used:...` | issue and parse user and admission tokens, `ConsumeAdmission` | issued by login and by the waiting room, asked for by joins, seats, holds and checkout |
| Rate limiter, `internal/antibot` | Redis `ratelimit:...` | `Allow`, `AllowJoin`, `AllowCheckout` | handlers |
| Load-test queue, `internal/loadtest` | files `jobs/`, `results/` | `Submit`, the store, `Limits` | API and runner share the directories |
| Load-test runner, `cmd/loadtest-runner` | one run in progress | list, claim, run k6, evaluate, remove | k6 writes into `results/` too |
| Traffic simulation, `internal/simulation` | the toggles, the demo sale, the cancel function of the running workers; the worker goroutines | `Update`, `SetSaleID`, `SetupDemo`, the loops | called by concurrent handlers, and itself a client of the API |
| Lottery, `internal/lottery` | `pre_registrations`, `access_codes`, `sales.phase` | `PreRegister`, `Draw`, `ValidateAccessCode`, `OpenGeneralSale` | called by nothing |
| Handlers, `internal/httpapi` | none | route, check, call a service | everything |
| Dashboard, metrics, config, db, web UI, k6 scenarios, `cmd/assert-queue` | none | read and report | |

What is hard in them, and what makes each correct:

* **Waiting room.** `Join` is SELECT, GET, INCR, INSERT with nothing around
  them; `Status` reads a row and a counter at different moments and drops the
  error of its UPDATE; Redis may evict either counter (production runs it with
  `allkeys-lru` and no volume) while the rows stay. Correct means: one stable
  position per user, nobody overtaken by a latecomer, tokens in order of
  position, the cap kept within the races the code allows, admissions not
  taken back, everyone reached while the sale lasts.
* **Inventory and orders.** Three kinds of transaction lock the same rows in
  different orders, each reads something before it begins, and the schema's
  foreign keys take part in the outcome. Correct means: a seat is held by
  exactly one hold, a checkout sells only the seats of its own hold, expired
  holds come back, no request hangs.
* **Gate.** A token is checked and consumed at different moments, and its
  record and the limiter's counters live in keys that expire; tokens of login
  and of the waiting room are signed with one secret, and the middleware in front
  of checkout tells them apart by nothing. Correct means: a token opens one
  checkout for as long as its record lives, and no stretch of time sees more than
  the limit.
* **Load lab.** Two processes and k6 write the same files, and the runner may
  stop anywhere. Correct means: a result is never overwritten, the queue limit
  is kept within the races the code allows, every run is reported.
* **Simulation.** Handlers run concurrently; a mutex guards the toggles and the
  sale, but not the cancel function they share, and a loop may be in the middle
  of a round when it is cancelled. Correct means: the workers that run are those
  of the last toggles, a generation of workers is lost only to a race, toggles
  that are on have workers, traffic that is switched off ends.

`PROJECT.json` lists the hazards at their lines, with the properties that
cover each, or the reason why none does.

## 2. Modules

    TicketLine       SeatMarket                        RunLedger    abstract
        ↑                ↑                                 ↑        implemented by
    WaitingRoom      Ticketing ── TicketingLiveness    LoadTest
    CheckoutGate     Simulation

`TicketLine`, `SeatMarket` and `RunLedger` are what the waiting room, the seats and
the load lab promise, without statements, transactions, files and races. Any other
module without a suffix models the code. `MC...` gives it instances for TLC
(symmetry, lists of seats). `...Claims` states what a document, a tool or a comment
says and the code does not do. `...Proofs` holds the theorems, and `...Refinement`
the theorem that the module implements its abstract one. Definitions whose comment
begins with "A slip" or "As if" are mutations: the form a plausible bug would give
the definition after them. They are in no specification; each shows that some
property can tell it from the code.

### WaitingRoom

One sale. `position`, `joinedAt` and `admittedAt` are `queue_entries`;
`queueSeq` and `nextAdmit` are the Redis counters; `request` is the local state
of each API request, one step per SQL or Redis statement; `worker` is the drip;
`stage` is where `now()` is relative to `opens_at` and `ends_at`. `told`,
`granted` and `ahead` record what clients were answered, for the properties.

`JoinBegin … JoinReselect` are `Service.Join`, including the INSERT whose
answer is lost (`JoinInsertError`) and the second SELECT after a unique
violation. `StatusSelect`, `StatusGetAdmit`, `StatusMark` are `Service.Status`.
`WorkerQuery`, `WorkerAdvance`, `WorkerSkips` are one sale's share of
`runAdmission`. `RedisLosesKeys` loses either counter or both. `RequestDies`
ends a request anywhere.

Left out: EstimatedWaitSec and the messages (no property is about them), the
limiter (CheckoutGate), other sales (their keys and rows are disjoint), and an
INCR that the Redis client sends again because its answer was lost: one Join would
then use up two numbers.

The instance `Line` maps the waiting room to `TicketLine`, a ticket dispenser:
the last number drawn is `queueSeq`, a request has a number in hand between its
INCR and its INSERT, the line is `position`, the front is `nextAdmit`, and those
who were given a token are served. The audit of `cmd/assert-queue` is the
definition `Inversions` of `WaitingRoomClaims`.

### Ticketing and TicketingLiveness

One sale's `seats`, `holds`, `orders`, `tickets`. A transaction's uncommitted
work is in `request[r]` or `worker`: `mark` is the set of seats it has updated,
which is also the set of rows it has locked. Each SQL statement is one step;
the last one is taken with COMMIT, because in between the others can only wait
for the transaction's locks. READ COMMITTED, unique keys, `FOR KEY SHARE` from
the foreign key, and the abort of a transaction by a failed statement are
modelled from how the code uses them (`external` in the map).

`HoldBegin … HoldCommit` are `Service.Hold`, `CheckoutBegin … CheckoutCommit`
are `Service.Checkout`, `WorkerScan … WorkerCommit` are `ReleaseExpired`.
A hold found by its idempotency key is answered without effect, so
`HoldBegin` only starts where none is found. `Expire` lets `expires_at` pass.
`WorkerTxFails` and `WorkerRestarts` are the failures of the worker.

`TicketingLiveness` adds who waits for whom, and Postgres' deadlock detection.

The instance `Market` maps it to `SeatMarket`, where a hold takes all its seats
at once, from nobody, and gives them up at once and once only: a seat belongs to
the committed hold that lists it, and a hold is over when its row is gone.

Left out: `CreateSeats` (the sale starts with its seats, whichever they are),
prices and names.

### CheckoutGate

The tokens that `register`, `login` and `Status` issue, `AdmissionMiddleware`,
`ConsumeAdmission` and the limiter in front of `queueJoin` and `checkout`, in the
handlers' order: token, address, user. A token has a `kind`, which the code does
not look at: `CheckoutBegin` takes every token that has not expired. Times are
remaining lives, as Redis keeps them, so the clock needs no bound.
Counters are counted to one above the limit; beyond that every value is
refused alike. `uses` and `passed` record what came through: `passed[k][a]` is
how many attempts on a key, no older than `a` ticks, were let through, so the
window at any moment is `passed[k][Window - 1]`.

Left out: signatures and passwords (library code). The middleware in front of
`queueJoin` takes every token too and keeps no state, so `JoinBegin` asks for none.
`CheckoutGateClaims` states what the documents say of a checkout's token. The gate
is modelled for one sale: `checkout` takes the sale from the URL and does not
compare it with the token's, so nothing is said here about tokens across sales.
Holds and the seat map ask for a token without consuming it and keep no state of the
gate.

### LoadTest

`jobFiles` and `result` are the two directories, `created` the order of
`created_at`, `age` how old a `running` marker is (45 minutes and 2 hours are
the limits the code compares with), `caller` a `Submit` in progress, `runner`
the sidecar. `RunnerList … RunnerRemoveJob` are the loop and `runJob`;
`RunnerK6Writes` is k6 writing its summary over the marker, possibly truncated;
`RunnerCrashes`, `RunnerStarts` and `RunnerFileFails` are its failures.

The instance `Ledger` maps the two directories to `RunLedger`: a run is open
while its job's file is there and no final result is; the run that is executed
is the one the runner has taken up and not reported; the lapses are the faults.
A Submit is its write, a report the result that is written, whoever writes it;
the removal of the job's file, the markers and k6's report change nothing there.

Left out: `Limits.Apply` (clamping numbers), the contents of a scenario, and
errors in reading a file that exists (`isJobClaimed` takes an unreadable result for
none, and the runner reports an unreadable summary as an error).

### Simulation

`cfg`, `saleID` and `stop` are the engine's fields. A call of `setSimulation`
gets a number when it begins, and the workers it may start are the generation of
that number: `stop` is the generation the cancel function belongs to, `loops`
says which of a generation's loops wait for a tick and which are in a round,
`cancelled` holds the generations whose context is done.

`StartSimulation`, `StartSetup`, `Setup...` and `SetSale` are `setSimulation`,
`demoSetup`, `demoReset`, the setup in `startLoadTest` and the one at start-up,
which end in `SetSaleID`; an answer that is an error yields the sale `""`.
`Update` and `RestartReadStop … RestartInstall` are `Engine.Update` and
`restartWorkers`, with a step for each access to `e.stop`. The accesses race.
The model gives them word-sized reads and writes in program order, which is what
the compiler makes of the lines: the field is loaded once for the test and the
call. `LoopTick`, `LoopIterated` and `LoopDone` are `Engine.loop`.

Left out: what a loop does in its round, and the counters of the page.

## 3. Runs

| Run | Instance | Shows |
|---|---|---|
| `waiting_room_safety` | 3 users, 2 requests, cap 2, one loss of Redis keys | `TypeOK`, `OnePositionPerUser`, `CapOvershootBounded`, `AdmissionNotRevoked`; until the loss `LatecomersStayBehind`, `AdmittedInOrder`, `TokensWithinDrip`, `ServedAsATicketLine` |
| `waiting_room_live` | 2 users, 1 request, 6 admissions a minute, one loss | `EveryEntryIsReached` |
| `ticketing_safety` | 2 users, 3 requests, 2 seats, 2 holds, the worker | `TypeOK`, `SeatLedger`, `CheckoutSellsOwnSeats`, `SeatsChangeHandsAtOnce` |
| `ticketing_liveness` | 2 users, 2 requests, 2 seats in both orders | `ExpiredHoldsAreReleased`, `RequestsEnd` |
| `checkout_gate` | 2 requests, 1 token of either kind, one lost key | `TypeOK`, `TokenUsedOnce`, `UsesSpaced`, `WindowLimit` |
| `load_test_safety` | 4 runs, 2 callers, 1 fault of the runner | `TypeOK`, `QueueOvershootBounded`, `ResultsAreFinal`, `KeepsALedger` |
| `load_test_live` | 3 runs, 1 caller, 2 faults | `EveryRunIsReported` |
| `simulation` | 3 handlers, 3 toggles, 2 updates, 1 error answer | `TypeOK`, `LostGenerationsBounded`, `LastUpdateRules`, `TogglesHaveWorkers`, `TrafficStops` |
| `claim_zero_inversions` | 3 users, 2 requests | a violation, see findings |
| `claim_one_hold` | 1 user, 2 keys, 2 requests | a violation |
| `claim_checkout` | 1 user, 2 requests | a violation |
| `claim_admission` | 1 user, 1 request, 1 token | a violation |

Why the bounds are enough to be interesting:

* Two requests are the fewest that race; every race of `Join` is one of two requests
  against each other, of one user (unique user) or two (order, position). The third
  user is the latecomer. At a cap of 2 both requests may pass the check when one
  place is left, and there is room for a gap and for an overtaker; the bound on the
  cap speaks of positions too, since there are only as many users as it allows
  entries. `MaxAdmit` only stops the drip once everyone who can be in the room is
  in.
* In `ticketing_safety` the three requests make a checkout, a second checkout
  of the same hold or a new hold of the same seats, and a third party, while
  the worker releases; the lists contain both orders and a repeated seat.
  `ReleaseLimit = 1` makes the query leave expired holds out.
* In `checkout_gate` the life of a token and the window are 2 ticks each, as in the
  code they are a minute each, and a request may pause for one, so that a token that
  was valid when it was checked is consumed after it has expired. A user token lives
  as long as a consumed key, 4 ticks, and with the pause a little longer, so that it
  can open a second checkout although nothing is lost (in the code it is 24 hours
  against two minutes). One token is enough: tokens do not interact. The joins
  exercise the limiter without needing tokens. The limits keep the code's order (for
  joins the address has the larger one, for checkouts the user).
* In `load_test_safety` the queue is limited to one: two callers race for it,
  a third and a fourth run come after a fault has given one back. After a fault
  the bound of `QueueOvershootBounded` is 4, the number of the runs, so the run
  tests it only where no fault has happened; for the rest there is the proof.
* In `simulation` two updates overlap in every way while a third handler sets up
  sales, any number of times. One toggle has a loop of its own and one stands
  for other loops; the toggles asked for are none, the first, or the second. One
  error answer is enough to wipe the sale under a running generation.

`CHECK_DEADLOCK FALSE` is set in the runs of LoadTest only: with a bounded
number of run ids the system stops when all are used up.

Symmetry is used in runs without liveness only; users, requests, holds, runs and
tokens are compared for equality and nothing else.

### Fairness

* `waiting_room_live`: the worker's ticker goes on (`WF` of its query) and
  INCRBY does not fail every time it is tried (`SF`): ticks that fail are
  logged and the next one comes 5 s later. Requests get no fairness: nobody
  needs to poll in order to be admissible.
* `ticketing_liveness`: a handler that has begun goes on, the worker's ticker
  goes on, and a lock that is released goes to the one who has been waiting
  for it, as Postgres queues lock waits (`SF` of `RequestStep`,
  `ReleaseExpired`); Postgres looks for deadlocks (`WF`). Failures of the
  worker other than deadlocks are left out of this specification: if they
  never ended, nothing would be released.
* `load_test_live`: the runner's container is restarted and its loop goes on
  (`restart: unless-stopped`; `WF`), and time passes, so that markers get old.
  There are finitely many faults.
* `simulation`: a handler that has begun goes on, and a round of a loop ends,
  since each of its requests has the client's timeout of 10 s (`WF`). When the
  context is done and the tick is ready too, Go's `select` picks at random, so
  the end of the context is taken if it is ready again and again (`SF` of
  `LoopDone`). No fairness makes a tick happen.

### Findings

* `claim_checkout` — **no checkout succeeds.** `Checkout` inserts the order,
  which refers to the hold (`orders.hold_id`, no ON DELETE), then deletes the
  hold. The DELETE violates the foreign key; its error is dropped
  (`internal/orders/service.go:123`), the transaction is aborted and COMMIT
  rolls back. So `orders` and `tickets` stay empty, which the proofs of Ticketing
  use (`NothingSold`).
* `claim_one_hold` — the "max 1 active hold per user per sale" is a COUNT
  before the transaction, so two requests with different keys both get one.
* `claim_zero_inversions` — a position is drawn before the row is written, so
  two joins at the same time may be stored in the other order; `assert-queue`
  counts that as an inversion. What does hold is `LatecomersStayBehind`.

* `claim_admission` — a checkout does not need an admission token. User tokens and
  admission tokens have the same secret and the same claims `uid` and `jti`, and
  `ParseAdmissionToken` asks for nothing else, so a token of login passes. It lives
  for 24 hours and the key that marks it as used for two minutes, so it is not
  single-use either. What does hold is `UsesSpaced`, and `TokenUsedOnce` of the
  tokens that `Status` issues.

One more difference needs no run. `docs/how-it-works.md:76` gives the statuses of
a run as Queued, Running, Passed or Failed. k6's summary has no status and
replaces the running marker, so until the runner has evaluated it the run has an
empty status and counts as pending (`Status`, `Claimed` in LoadTest).

## 4. Proofs

The proof modules prove, for every value of the constants, what the runs check
on small ones. All assumptions are the `ConstantsAssumption` of the modules.

| Module | Theorems | Assumed of the constants |
|---|---|---|
| `WaitingRoomProofs` | `TypeCorrect`, `OnePosition`, `CapOvershoot`, `FirstComeFirst`, `AdmissionInOrder`, `AdmissionsBounded`, `AdmissionStays` | finitely many users and requests, at least one request, a positive cap and rate |
| `WaitingRoomRefinement` | `LineImplemented` | the same |
| `TicketingProofs` | `TypeCorrect`, `SeatsAndHoldsAgree`, `CheckoutOnOwnHold` | lists of one to four seats (the code's limit; a list may repeat a seat) |
| `TicketingRefinement` | `MarketImplemented` | the same |
| `CheckoutGateProofs` | `TypeCorrect`, `TokenOnce`, `SpacedUses`, `WindowHolds` | finitely many requests, a pause no longer than the life of a token, positive limits and window |
| `LoadTestProofs` | `TypeCorrect`, `ResultsFinal`, `OvershootBounded` | finitely many runs and callers, positive limits |
| `LoadTestRefinement` | `LedgerImplemented` | the same |
| `SimulationProofs` | `TypeCorrect`, `LostBounded`, `LastUpdate`, `TogglesServed` | finitely many handlers, a toggle other than `mixed_realistic` and `late_surge` |

The bounds that TLC needs (`MaxAdmit`, `MaxLosses`, `MaxFaults`, `MaxUpdates`)
are any numbers, so they play no part.

The invariants are not inductive by themselves; each proof module has a
strengthening `IInv`, which TLC checked before it was proved.

* **Positions** (`RowInv`). A position a user was told is the row's, and rows are never
  updated or deleted; uniqueness comes from the INSERT. With this, whatever
  Redis forgets cannot show.
* **Cap** (`SeqInv`). `queue_seq` plus the requests that have passed the check
  and not yet drawn never exceeds `MaxPosition`, the cap plus one position for
  each other request. A loss of Redis only lowers the counter, so this survives
  it, and no position is drawn beyond `MaxPosition`. Positions being unique,
  there are no more entries than that.
* **Order** (`OrderInv`). While `losses = 0` no row and no number drawn is
  beyond `queue_seq`, so that a Join, when it draws, comes behind every user
  who had been told a position when it began.
* **Admission** (`AdmitInv`). While `losses = 0` whoever holds a token, is
  marked, or is about to be marked has a position within `next_admit`, which
  only grows. Their positions are distinct, so there are no more of them than
  `next_admit`, which adds up the ticks (`TokensWithinDrip`).
* **The ticket line.** Under these invariants each step is one of `TicketLine`'s or
  changes nothing of it, until the first loss: INCR draws, the INSERT enters, a
  conflict or the end of a request drops the number, a token that goes out serves
  its user.
* **Seats.** The transactions' marks are disjoint (`ApartInv`), a transaction
  marks only seats in the state its UPDATE asks for, and that state cannot
  change while the mark is there (`ReqInv`, `WorkerInv`); live and expired
  holds list only held seats, and no two list the same (`SeatLedger`). A
  checkout's uncommitted order pins its hold, which keeps `ReleaseExpired` from
  deleting it in between; this is what makes the hold read before the
  transaction safe to use inside it.
* **The seat market.** With `SeatLedger` the hold a seat belongs to is well
  defined, and only the COMMITs of `Hold` and of the worker move it. `Sell` is a
  step no checkout takes (`NothingSold`).
* **Tokens** (`Spaced`). A balance of times: every opening of a checkout, but for
  those that losses explain, has written a key with `ConsumeTTL` to live when there
  was none, so together these lives are no longer than the time since the token was
  issued and what is left of the last key. A request that still carries the token
  knows that time to within its own age. For any token that gives `UsesSpaced`; for
  an admission token, whose life and pause together are no longer than one
  `ConsumeTTL`, it gives `TokenUsedOnce`.
* **The window** (`WindowCounted`). What passed in the window is what the counter
  says, up to the limit, and one limit for each lost key. That is not inductive
  where a key expires, so the invariant looks ahead: what passed so lately that
  the window will still show it when the key expires was let through by losses,
  because every other attempt has renewed the key's life to a whole window. It is
  stated for every age, since a tick moves each age to the next.
* **Load test** (`InHand`, `MarkersAbandoned`, `LoadBounded`). A job the runner
  has in hand has no result yet. A marker that no run in progress stands behind
  was left by a fault. A call that has found room counted every pending job, so
  it is wrong by the abandoned markers and the run in progress at most; the jobs
  pending or marked plus the calls that may yet add one stay within the limit.
* **The ledger** (`LedgerInv`). A run that no Submit has written yet has neither
  a job's file nor a result, and no two calls write the same one (`Untouched`), so
  the write opens it; a job's file is removed only when its result is final
  (`RemovesReported`), so the removal cannot lose a run. With `ResultsAreFinal`
  each step is one of `RunLedger`'s or changes nothing of it, and the room for
  open runs is what `LoadBounded` leaves a call that has found some.
* **Simulation** (`Fresh`, `Sequential`, `SaleKept`, `Installed`, `Account`). The
  number a handler will install under is unused. While no restart overlapped
  another, a restart knows at each step what runs. What `e.stop` cancels runs,
  unless a restart has cancelled it and is about to clear the field (`Installed`).
  `Account` counts: the generations that nobody is bound to cancel and the restarts
  in progress are no more than the overlaps and one; the first restart to read
  `e.stop` makes up for what it finds there.

Only model-checked: all liveness (the prover has no rule for fairness and
ENABLED), with it the deadlocks of `TicketingLiveness`; the claims, which are
false. No specification that is proved about uses a recursive operator.

## 5. Not modelled

* **Lottery.** Nothing calls it, and the codes it draws are stored as hashes and
  handed to nobody. There are no callers whose interleavings a model could show.
* **Dashboard, metrics, configuration, start-up** keep no state or only read. The
  one thing that goes on after start-up, the automatic demo setup, is a
  `StartSetup` of Simulation.
* **Web UI and k6 scenarios** are clients that measure the API from outside; so
  are the rounds of the simulation's loops.
* `Transfer` always refuses. `CreateSeats` numbers the seats of a sale nobody
  knows yet. `Limits.Apply` clamps numbers.
* Between components: the worker's two jobs share no state, and a user's way from
  the waiting room through the gate to the seats passes on only the token, so the
  modules are checked side by side and not as a product.

## 6. Plan

The models above cover the parts whose state several actors share. What would
follow a change of the code:

1. When `internal/orders/service.go:123` is mended, `NothingSold` goes, and
   `SeatMarket` stays as it is: `Sell` is waiting for it. The limit of tickets
   per user then becomes checkable.
2. When `e.stop` gets the lock, `overlaps` goes and `LostGenerationsBounded`
   becomes `Lost = {}`.
3. When the middleware asks for the kind of a token, `CheckoutBegin` gets that
   guard and `CheckoutNeedsAdmission` becomes an invariant of `checkout_gate`.
4. When the lottery gets handlers: draw, codes, and the phases that Join and the
   worker look at.
