------------------------- MODULE WaitingRoomProofs -------------------------
(***************************************************************************)
(* Proofs about WaitingRoom, for any users, requests, cap and drip.        *)
(***************************************************************************)
EXTENDS WaitingRoom, FiniteSetTheorems, TLAPS

----------------------------------------------------------------------------
(* Lemmas about the operators.                                             *)

LEMMA EntriesFinite ==
    /\ IsFiniteSet(Entries)
    /\ Cardinality(Entries) \in Nat
BY ConstantsAssumption, FS_Subset, FS_CardinalityType DEF Entries

LEMMA BatchPositive == Batch \in Nat \ {0}
BY ConstantsAssumption DEF Batch

LEMMA IdleType ==
    /\ Idle \in RequestState
    /\ Idle.pc = "idle"
BY DEF Idle, RequestState, PCs

\* A request in flight has a user.
InFlightHasUser(q) == q.pc # "idle" => q.user \in Users

\* Moving a request's pc on, and drawing a position, keep its other fields.
LEMMA MovedPc ==
    ASSUME NEW q \in RequestState, NEW p \in PCs
    PROVE  LET m == [q EXCEPT !.pc = p] IN
           /\ m \in RequestState
           /\ m.pc = p /\ m.user = q.user /\ m.pos = q.pos
           /\ m.marked = q.marked /\ m.seen = q.seen
BY DEF RequestState

LEMMA Drew ==
    ASSUME NEW q \in RequestState, NEW n \in Nat
    PROVE  LET m == [q EXCEPT !.pc = "insert", !.pos = n] IN
           /\ m \in RequestState
           /\ m.pc = "insert" /\ m.user = q.user /\ m.pos = n
           /\ m.marked = q.marked /\ m.seen = q.seen
BY DEF RequestState, PCs

\* The part of TypeOK about the requests.
RequestsTyped ==
    /\ request \in [Requests -> RequestState]
    /\ \A q \in Requests : InFlightHasUser(request[q])

\* The requests other than r stay as they are.
Kept(r) == \A q \in Requests \ {r} : request'[q] = request[q]

LEMMA Went ==
    ASSUME TypeOK, NEW r \in Requests, NEW m \in RequestState,
           InFlightHasUser(m), Goto(r, m)
    PROVE  RequestsTyped' /\ Kept(r) /\ request'[r] = m
BY DEF TypeOK, Goto, InFlightHasUser, RequestsTyped, Kept

\* The five ways a handler's step changes its request: it returns, moves its pc
\* on, draws a position, or begins a Join or a Status.
LEMMA Finishes ==
    ASSUME TypeOK, NEW r \in Requests, Finish(r)
    PROVE  RequestsTyped' /\ Kept(r) /\ request'[r].pc = "idle"
BY IdleType, Went DEF Finish, InFlightHasUser

LEMMA Moves ==
    ASSUME TypeOK, NEW r \in Requests, NEW p \in PCs, request[r].pc # "idle",
           Goto(r, [request[r] EXCEPT !.pc = p])
    PROVE  /\ RequestsTyped' /\ Kept(r)
           /\ request'[r].pc = p
           /\ request'[r].user = request[r].user
           /\ request'[r].pos = request[r].pos
           /\ request'[r].marked = request[r].marked
           /\ request'[r].seen = request[r].seen
<1>1. request[r] \in RequestState /\ request[r].user \in Users
  BY DEF TypeOK
<1> DEFINE m == [request[r] EXCEPT !.pc = p]
<1>2. /\ m \in RequestState
      /\ m.pc = p /\ m.user = request[r].user /\ m.pos = request[r].pos
      /\ m.marked = request[r].marked /\ m.seen = request[r].seen
  BY <1>1, MovedPc
<1>3. Goto(r, m) /\ InFlightHasUser(m)
  BY <1>1, <1>2 DEF InFlightHasUser
<1> HIDE DEF m
<1> QED
  BY <1>2, <1>3, Went

LEMMA Draws ==
    ASSUME TypeOK, NEW r \in Requests, JoinIncr(r)
    PROVE  /\ RequestsTyped' /\ Kept(r)
           /\ request'[r].pc = "insert"
           /\ request'[r].pos = queueSeq + 1
           /\ request'[r].seen = request[r].seen
<1>1. /\ request[r] \in RequestState /\ request[r].user \in Users
      /\ queueSeq + 1 \in Nat
  BY DEF TypeOK, JoinIncr, At
<1> DEFINE m == [request[r] EXCEPT !.pc = "insert", !.pos = queueSeq + 1]
<1>2. /\ m \in RequestState
      /\ m.pc = "insert" /\ m.user = request[r].user
      /\ m.pos = queueSeq + 1 /\ m.seen = request[r].seen
  BY <1>1, Drew
<1>3. Goto(r, m) /\ InFlightHasUser(m)
  BY <1>1, <1>2 DEF InFlightHasUser, JoinIncr
<1> HIDE DEF m
<1> QED
  BY <1>2, <1>3, Went

LEMMA Begins ==
    ASSUME TypeOK, NEW r \in Requests, NEW u \in Users, JoinBegin(r, u)
    PROVE  /\ RequestsTyped' /\ Kept(r)
           /\ request'[r].pc = "select"
           /\ request'[r].seen = {v \in Users : told[v] # {}}
<1> DEFINE seen == {v \in Users : told[v] # {}}
           m == [Idle EXCEPT !.pc = "select", !.user = u, !.seen = seen]
<1>1. seen \in SUBSET Users
  OBVIOUS
<1>2. m \in RequestState /\ m.pc = "select" /\ m.user = u /\ m.seen = seen
  BY <1>1 DEF Idle, RequestState, PCs
<1>3. Goto(r, m) /\ InFlightHasUser(m)
  BY <1>2 DEF JoinBegin, InFlightHasUser
<1> HIDE DEF m
<1> QED
  BY <1>2, <1>3, Went

LEMMA BeginsStatus ==
    ASSUME TypeOK, NEW r \in Requests, NEW u \in Users, StatusSelect(r, u)
    PROVE  /\ RequestsTyped' /\ Kept(r)
           /\ request'[r].pc = "getAdmit"
           /\ request'[r].user = u
           /\ request'[r].pos = position[u]
           /\ request'[r].marked = (u \in admittedAt)
<1> DEFINE b == u \in admittedAt
           m == [Idle EXCEPT !.pc = "getAdmit", !.user = u,
                             !.pos = position[u], !.marked = b]
<1>1. position[u] \in Nat /\ b \in BOOLEAN
  BY DEF TypeOK
<1>2. m \in RequestState /\ m.user = u
  BY <1>1 DEF Idle, RequestState, PCs
<1>3. m.pc = "getAdmit" /\ m.pos = position[u] /\ m.marked = b
  BY DEF Idle
<1>4. Goto(r, m) /\ InFlightHasUser(m)
  BY <1>2 DEF StatusSelect, InFlightHasUser
<1> HIDE DEF m
<1> QED
  BY <1>2, <1>3, <1>4, Went

----------------------------------------------------------------------------
(* Type correctness.                                                       *)

LEMMA TypeInit == Init => TypeOK
BY IdleType DEF Init, TypeOK

\* The types of all but the requests.
TypeRest ==
    /\ stage \in {"before", "open", "ended"}
    /\ queueSeq \in Nat
    /\ nextAdmit \in Nat
    /\ position \in [Users -> Nat]
    /\ joinedAt \in [Users -> Nat]
    /\ admittedAt \subseteq Users
    /\ worker \in {"idle", "advance"}
    /\ losses \in Nat
    /\ told \in [Users -> SUBSET Nat]
    /\ granted \subseteq Users
    /\ ahead \in [Users -> SUBSET Users]

LEMMA RequestsStep ==
    ASSUME TypeOK, NEW r \in Requests, Join(r) \/ Status(r) \/ RequestDies(r)
    PROVE  RequestsTyped'
<1>1. ASSUME NEW p \in PCs, request[r].pc # "idle",
             Goto(r, [request[r] EXCEPT !.pc = p])
      PROVE  RequestsTyped'
  BY <1>1, Moves
<1>2. Finish(r) => RequestsTyped'
  BY Finishes
<1>3. {"checkCap", "incr", "reselect", "mark"} \subseteq PCs
  BY DEF PCs
<1>4. CASE JoinSelect(r) \/ JoinCheckCap(r)
  BY <1>1, <1>2, <1>3, <1>4 DEF JoinSelect, JoinCheckCap, At
<1>5. CASE JoinInsert(r) \/ JoinReselect(r) \/ StatusMark(r) \/ RequestDies(r)
  BY <1>2, <1>5 DEF JoinInsert, JoinReselect, StatusMark, RequestDies
<1>6. CASE JoinInsertError(r)
  BY <1>1, <1>3, <1>6 DEF JoinInsertError, At
<1>7. CASE StatusGetAdmit(r)
  BY <1>1, <1>2, <1>3, <1>7 DEF StatusGetAdmit, At
<1> QED
  BY <1>4, <1>5, <1>6, <1>7, Begins, BeginsStatus, Draws DEF Join, Status

\* A row is inserted only for a user who has none, at a position nobody has.
LEMMA Inserted ==
    ASSUME TypeOK, NEW u \in Users, NEW pos \in Nat, NEW seen \in SUBSET Users,
           InsertRow(u, pos, seen)
    PROVE  /\ position' = [position EXCEPT ![u] = pos]
           /\ position[u] = 0
           /\ \A v \in Users : position[v] # pos
           /\ ahead' = [ahead EXCEPT ![u] = seen]
           /\ joinedAt' \in [Users -> Nat]
           /\ position' \in [Users -> Nat]
           /\ ahead' \in [Users -> SUBSET Users]
BY EntriesFinite DEF InsertRow, Conflict, TypeOK

LEMMA TypeRestStep == TypeOK /\ [Next]_vars => TypeRest'
<1> SUFFICES ASSUME TypeOK, [Next]_vars PROVE TypeRest'
  OBVIOUS
<1>0. \A r \in Requests : /\ request[r].pos \in Nat
                          /\ request[r].seen \in SUBSET Users
                          /\ request[r].pc # "idle" => request[r].user \in Users
  BY DEF TypeOK, RequestState
<1>1. ASSUME NEW r \in Requests, NEW u \in Users,
             JoinBegin(r, u) \/ StatusSelect(r, u)
      PROVE  TypeRest'
  BY <1>1
  DEF TypeOK, TypeRest, JoinBegin, StatusSelect, queueVars, redisVars, seenVars
<1>2. ASSUME NEW r \in Requests, JoinSelect(r) \/ JoinReselect(r) PROVE TypeRest'
  BY <1>2, <1>0 DEF TypeOK, TypeRest, JoinSelect, JoinReselect, Tell, At,
                    queueVars, redisVars
<1>3. ASSUME NEW r \in Requests,
             JoinCheckCap(r) \/ JoinIncr(r) \/ RequestDies(r)
      PROVE  TypeRest'
  BY <1>3 DEF TypeOK, TypeRest, JoinCheckCap, JoinIncr, RequestDies,
              queueVars, redisVars, seenVars
<1>4. ASSUME NEW r \in Requests, JoinInsert(r) \/ JoinInsertError(r)
      PROVE  TypeRest'
  <2>1. request[r].user \in Users
    BY <1>4, <1>0 DEF JoinInsert, JoinInsertError, At
  <2>2. /\ joinedAt' \in [Users -> Nat]
        /\ position' \in [Users -> Nat]
        /\ ahead' \in [Users -> SUBSET Users]
    BY <1>4, <1>0, <2>1, Inserted DEF JoinInsert, JoinInsertError, TypeOK
  <2> QED
    BY <1>4, <1>0, <2>1, <2>2
    DEF TypeOK, TypeRest, JoinInsert, JoinInsertError, Tell, redisVars
<1>5. ASSUME NEW r \in Requests, StatusGetAdmit(r) \/ StatusMark(r)
      PROVE  TypeRest'
  BY <1>5, <1>0 DEF TypeOK, TypeRest, StatusGetAdmit, StatusMark, Tell, At,
                    queueVars, redisVars
<1>6. CASE WorkerQuery \/ WorkerAdvance \/ WorkerSkips
  BY <1>6, BatchPositive
  DEF TypeOK, TypeRest, WorkerQuery, WorkerAdvance, WorkerSkips,
      queueVars, redisVars, seenVars
<1>7. CASE ClockPasses \/ RedisLosesKeys
  BY <1>7, ConstantsAssumption
  DEF TypeOK, TypeRest, ClockPasses, RedisLosesKeys, queueVars, redisVars,
      seenVars
<1>8. CASE UNCHANGED vars
  BY <1>8 DEF TypeOK, TypeRest, vars, queueVars, redisVars, seenVars
<1> QED
  BY <1>1, <1>2, <1>3, <1>4, <1>5, <1>6, <1>7, <1>8 DEF Next, Join, Status

\* Every variable keeps its type in every step.
LEMMA TypeStep == TypeOK /\ [Next]_vars => TypeOK'
<1> SUFFICES ASSUME TypeOK, [Next]_vars PROVE TypeOK'
  OBVIOUS
<1>1. TypeRest'
  BY TypeRestStep
<1>2. CASE \E r \in Requests : Join(r) \/ Status(r) \/ RequestDies(r)
  BY <1>1, <1>2, RequestsStep
  DEF TypeOK, TypeRest, RequestsTyped, InFlightHasUser
<1>3. CASE UNCHANGED request
  BY <1>1, <1>3 DEF TypeOK, TypeRest
<1> QED
  BY <1>2, <1>3 DEF Next, WorkerQuery, WorkerAdvance, WorkerSkips, ClockPasses,
                    RedisLosesKeys, vars

\* The types of TypeOK are kept for ever, for all values of the constants.
THEOREM TypeCorrect == Spec => []TypeOK
BY TypeInit, TypeStep, PTL DEF Spec

----------------------------------------------------------------------------
(* The inductive invariant, in four parts.                                 *)

MaxPosition == WaitingRoomCap + Cardinality(Requests) - 1

\* Answers, marks and snapshots agree with the rows, which never share a
\* position.
RowInv ==
    /\ \A u \in Users : told[u] \subseteq {position[u]} \ {0}
    /\ \A u, v \in Entries : position[u] = position[v] => u = v
    /\ admittedAt \subseteq Entries
    /\ granted \subseteq Entries
    /\ \A r \in Requests :
          /\ request[r].pc = "insert" => request[r].pos # 0
          /\ request[r].pc \in {"getAdmit", "mark"} =>
                 /\ request[r].pos = position[request[r].user]
                 /\ request[r].pos # 0
                 /\ request[r].marked => request[r].user \in admittedAt

\* The requests that have passed the cap and not yet drawn a position.
Passed == {r \in Requests : request[r].pc = "incr"}

\* The counter plus those requests stays within the cap and one position for
\* each other request; so does every position drawn.
SeqInv ==
    /\ queueSeq + Cardinality(Passed) <= MaxPosition
    /\ \A u \in Users : position[u] <= MaxPosition
    /\ \A r \in Requests :
          request[r].pc = "insert" => request[r].pos <= MaxPosition

\* No position is ahead of the counter, and a Join in flight is, or will be,
\* behind every user who had been told a position when it began.
OrderInv ==
    losses = 0 =>
        /\ \A u \in Users : position[u] <= queueSeq
        /\ \A r \in Requests :
              /\ request[r].pc \in {"select", "checkCap", "incr", "insert"} =>
                     \A v \in request[r].seen : position[v] # 0
              /\ request[r].pc = "insert" =>
                     /\ request[r].pos <= queueSeq
                     /\ \A v \in request[r].seen : position[v] < request[r].pos
        /\ \A u \in Entries : \A v \in ahead[u] :
              position[v] # 0 /\ position[v] < position[u]

\* Whoever has been admitted, or is about to be, is within next_admit.
AdmitInv ==
    losses = 0 =>
        /\ \A u \in granted \cup admittedAt : position[u] <= nextAdmit
        /\ \A r \in Requests :
              request[r].pc = "mark" => request[r].pos <= nextAdmit

IInv == TypeOK /\ RowInv /\ SeqInv /\ OrderInv /\ AdmitInv

LEMMA IInvInit == Init => IInv
<1> SUFFICES ASSUME Init PROVE IInv
  OBVIOUS
<1>1. TypeOK
  BY TypeInit
<1>2. RowInv /\ OrderInv /\ AdmitInv
  BY IdleType DEF Init, RowInv, OrderInv, AdmitInv, Entries
<1>3. Passed = {}
  BY IdleType DEF Init, Passed
<1>4. Cardinality(Passed) = 0 /\ Cardinality(Requests) \in Nat \ {0}
  BY <1>3, ConstantsAssumption, FS_EmptySet, FS_CardinalityType
<1>5. SeqInv
  BY <1>4, IdleType, ConstantsAssumption DEF Init, SeqInv, MaxPosition
<1> QED
  BY <1>1, <1>2, <1>5 DEF IInv

----------------------------------------------------------------------------
(* Each part is kept by every step.                                        *)

\* The facts of TypeOK that a step of request r uses.
LEMMA RequestTypes ==
    ASSUME TypeOK, NEW r \in Requests
    PROVE  /\ request[r] \in RequestState
           /\ request[r].pos \in Nat
           /\ request[r].seen \in SUBSET Users
           /\ request[r].pc # "idle" => request[r].user \in Users
BY DEF TypeOK, RequestState

LEMMA InsertStep ==
    ASSUME TypeOK, NEW r \in Requests, At(r, "insert"),
           InsertRow(request[r].user, request[r].pos, request[r].seen)
    PROVE  /\ request[r].user \in Users
           /\ position' = [position EXCEPT ![request[r].user] = request[r].pos]
           /\ position[request[r].user] = 0
           /\ \A v \in Users : position[v] # request[r].pos
           /\ ahead' = [ahead EXCEPT ![request[r].user] = request[r].seen]
BY RequestTypes, Inserted DEF At

\* Rows are only added.
LEMMA RowsKept ==
    ASSUME TypeOK, [Next]_vars
    PROVE  /\ \A u \in Entries : position'[u] = position[u]
           /\ admittedAt \subseteq admittedAt'
<1>1. ASSUME NEW r \in Requests, JoinInsert(r) \/ JoinInsertError(r)
      PROVE  \A u \in Entries : position'[u] = position[u]
  BY <1>1, InsertStep DEF JoinInsert, JoinInsertError, Entries, TypeOK
<1>2. ASSUME NEW r \in Requests, JoinInsert(r) \/ JoinInsertError(r)
      PROVE  admittedAt' = admittedAt
  BY <1>2 DEF JoinInsert, JoinInsertError
<1> QED
  BY <1>1, <1>2
  DEF Next, Join, Status, vars, queueVars, JoinBegin, JoinSelect, JoinCheckCap,
      JoinIncr, JoinReselect, StatusSelect, StatusGetAdmit, StatusMark,
      RequestDies, WorkerQuery, WorkerAdvance, WorkerSkips, ClockPasses,
      RedisLosesKeys

\* RowInv's part about one request.
RowRequest(r) ==
    /\ request[r].pc = "insert" => request[r].pos # 0
    /\ request[r].pc \in {"getAdmit", "mark"} =>
           /\ request[r].pos = position[request[r].user]
           /\ request[r].pos # 0
           /\ request[r].marked => request[r].user \in admittedAt

LEMMA RowRequestStep ==
    ASSUME TypeOK, RowInv, [Next]_vars, NEW q \in Requests
    PROVE  RowRequest(q)'
<1>0. RowRequest(q)
  BY DEF RowInv, RowRequest
<1>1. request'[q] = request[q] => RowRequest(q)'
  BY <1>0, RowsKept, RequestTypes DEF RowRequest, Entries
<1>2. request'[q].pc \in PCs \ {"insert", "getAdmit", "mark"} => RowRequest(q)'
  BY DEF RowRequest
<1>3. ASSUME NEW r \in Requests, Kept(r), r # q PROVE RowRequest(q)'
  BY <1>1, <1>3 DEF Kept
<1>4. ASSUME NEW r \in Requests, Finish(r) PROVE RowRequest(q)'
  BY <1>2, <1>3, <1>4, Finishes DEF PCs
<1>5. ASSUME NEW r \in Requests, NEW p \in {"checkCap", "incr", "reselect"},
             request[r].pc # "idle", Goto(r, [request[r] EXCEPT !.pc = p])
      PROVE  RowRequest(q)'
  BY <1>2, <1>3, <1>5, Moves DEF PCs
<1>6. ASSUME NEW r \in Requests, NEW u \in Users, JoinBegin(r, u)
      PROVE  RowRequest(q)'
  BY <1>2, <1>3, <1>6, Begins DEF PCs
<1>7. ASSUME NEW r \in Requests, JoinIncr(r) PROVE RowRequest(q)'
  BY <1>3, <1>7, Draws DEF RowRequest, TypeOK
<1>8. ASSUME NEW r \in Requests, NEW u \in Users, StatusSelect(r, u)
      PROVE  RowRequest(q)'
  BY <1>3, <1>8, BeginsStatus DEF RowRequest, StatusSelect, queueVars, Entries
<1>9. ASSUME NEW r \in Requests, StatusGetAdmit(r) PROVE RowRequest(q)'
  <2>1. CASE Finish(r)
    BY <1>4, <2>1
  <2>2. CASE Goto(r, [request[r] EXCEPT !.pc = "mark"])
    <3>1. CASE r # q
      BY <1>3, <1>9, <2>2, <3>1, Moves DEF StatusGetAdmit, At, PCs
    <3>2. CASE r = q
      BY <1>0, <1>9, <2>2, <3>2, Moves, RequestTypes
      DEF StatusGetAdmit, At, PCs, RowRequest, queueVars
    <3> QED
      BY <3>1, <3>2
  <2> QED
    BY <1>9, <2>1, <2>2 DEF StatusGetAdmit
<1>10. UNCHANGED request => RowRequest(q)'
  BY <1>1
<1> QED
  BY <1>4, <1>5, <1>6, <1>7, <1>8, <1>9, <1>10
  DEF Next, Join, Status, vars, JoinSelect, JoinCheckCap, JoinInsert,
      JoinInsertError, JoinReselect, StatusMark, RequestDies, WorkerQuery,
      WorkerAdvance, WorkerSkips, ClockPasses, RedisLosesKeys, At

\* RowInv's part about the rows.
RowTable ==
    /\ \A u \in Users : told[u] \subseteq {position[u]} \ {0}
    /\ \A u, v \in Entries : position[u] = position[v] => u = v
    /\ admittedAt \subseteq Entries
    /\ granted \subseteq Entries

LEMMA RowTableStep ==
    ASSUME TypeOK, RowInv, [Next]_vars
    PROVE  RowTable'
<1>0. RowTable /\ \A r \in Requests : RowRequest(r)
  BY DEF RowInv, RowTable, RowRequest
<1>1. UNCHANGED <<told, position, admittedAt, granted>> => RowTable'
  BY <1>0 DEF RowTable, Entries
<1>2. ASSUME NEW r \in Requests, JoinSelect(r) \/ JoinReselect(r) PROVE RowTable'
  BY <1>0, <1>2, RequestTypes
  DEF RowTable, Entries, JoinSelect, JoinReselect, Tell, At, queueVars, TypeOK
<1>3. ASSUME NEW r \in Requests, JoinInsert(r) \/ JoinInsertError(r)
      PROVE  RowTable'
  <2>1. CASE UNCHANGED position
    BY <1>0, <1>1, <1>3, <2>1, InsertStep
    DEF JoinInsert, JoinInsertError, At, RowRequest, TypeOK
  <2>2. CASE InsertRow(request[r].user, request[r].pos, request[r].seen)
    <3> DEFINE u == request[r].user
               n == request[r].pos
    <3>1. /\ u \in Users /\ n # 0 /\ position[u] = 0
          /\ \A v \in Users : position[v] # n
          /\ position'[u] = n
          /\ \A v \in Users \ {u} : position'[v] = position[v]
      BY <1>0, <1>3, <2>2, InsertStep
      DEF JoinInsert, JoinInsertError, At, RowRequest, TypeOK
    <3>2. told' = told \/ told' = [told EXCEPT ![u] = @ \cup {n}]
      BY <1>3 DEF JoinInsert, JoinInsertError, Tell
    <3>3. told[u] = {}
      BY <1>0, <3>1 DEF RowTable
    <3>4. \A v \in Users : told'[v] \subseteq {position'[v]} \ {0}
      BY <1>0, <3>1, <3>2, <3>3 DEF RowTable, TypeOK
    <3>5. admittedAt' = admittedAt /\ granted' = granted
      BY <1>3 DEF JoinInsert, JoinInsertError
    <3> QED
      BY <1>0, <3>1, <3>4, <3>5 DEF RowTable, Entries
  <2> QED
    BY <1>3, <2>1, <2>2 DEF JoinInsert, JoinInsertError
<1>4. ASSUME NEW r \in Requests, StatusGetAdmit(r) \/ StatusMark(r)
      PROVE  RowTable'
  <2>1. /\ request[r].user \in Entries
        /\ request[r].pos = position[request[r].user]
        /\ request[r].pos # 0
    BY <1>0, <1>4, RequestTypes
    DEF StatusGetAdmit, StatusMark, At, RowRequest, Entries
  <2>2. position' = position /\ Entries' = Entries
    BY <1>4 DEF StatusGetAdmit, StatusMark, queueVars, Entries
  <2>3. /\ admittedAt' \subseteq admittedAt \cup {request[r].user}
        /\ granted' \subseteq granted \cup {request[r].user}
    BY <1>4 DEF StatusGetAdmit, StatusMark, queueVars
  <2>4. told' = told \/
        told' = [told EXCEPT ![request[r].user] = @ \cup {request[r].pos}]
    BY <1>4 DEF StatusGetAdmit, StatusMark, Tell
  <2>5. \A v \in Users : told'[v] \subseteq {position'[v]} \ {0}
    BY <1>0, <2>1, <2>2, <2>4 DEF RowTable, TypeOK, Entries
  <2> QED
    BY <1>0, <2>1, <2>2, <2>3, <2>5 DEF RowTable, Entries
<1> QED
  BY <1>1, <1>2, <1>3, <1>4
  DEF Next, Join, Status, vars, queueVars, seenVars, JoinBegin, JoinCheckCap,
      JoinIncr, StatusSelect, RequestDies, WorkerQuery, WorkerAdvance,
      WorkerSkips, ClockPasses, RedisLosesKeys

LEMMA RowInvStep == TypeOK /\ RowInv /\ [Next]_vars => RowInv'
BY RowTableStep, RowRequestStep DEF RowInv, RowTable, RowRequest

LEMMA PassedFinite ==
    /\ IsFiniteSet(Passed) /\ Cardinality(Passed) \in Nat
    /\ Cardinality(Passed) <= Cardinality(Requests)
    /\ Cardinality(Requests) \in Nat \ {0}
    /\ MaxPosition \in Nat
BY ConstantsAssumption, FS_Subset, FS_CardinalityType, FS_EmptySet
DEF Passed, MaxPosition

\* The counter and the requests past the cap: a request passes the cap only
\* below it, and a draw takes one from the requests and gives it to the counter.
LEMMA CounterStep ==
    ASSUME TypeOK, SeqInv, [Next]_vars
    PROVE  queueSeq' + Cardinality(Passed') <= MaxPosition
<1>0. /\ queueSeq \in Nat /\ queueSeq' \in Nat
      /\ queueSeq + Cardinality(Passed) <= MaxPosition
  BY TypeStep DEF TypeOK, SeqInv
<1>1. IsFiniteSet(Passed') /\ Cardinality(Passed') \in Nat
      /\ Cardinality(Passed') <= Cardinality(Requests)
  BY ConstantsAssumption, FS_Subset, FS_CardinalityType DEF Passed
<1>2. ASSUME queueSeq' <= queueSeq, Passed' \subseteq Passed
      PROVE  queueSeq' + Cardinality(Passed') <= MaxPosition
  BY <1>0, <1>1, <1>2, PassedFinite, FS_Subset
<1>3. ASSUME NEW r \in Requests, Kept(r), request'[r].pc # "incr"
      PROVE  Passed' \subseteq Passed
  BY <1>3 DEF Passed, Kept
<1>4. ASSUME NEW r \in Requests, Finish(r) PROVE Passed' \subseteq Passed
  BY <1>3, <1>4, Finishes
<1>5. ASSUME NEW r \in Requests, NEW p \in {"checkCap", "reselect", "mark"},
             request[r].pc # "idle", Goto(r, [request[r] EXCEPT !.pc = p])
      PROVE  Passed' \subseteq Passed
  BY <1>3, <1>5, Moves DEF PCs
<1>6. ASSUME NEW r \in Requests, NEW u \in Users,
             JoinBegin(r, u) \/ StatusSelect(r, u)
      PROVE  Passed' \subseteq Passed
  BY <1>3, <1>6, Begins, BeginsStatus
<1>7. ASSUME NEW r \in Requests, JoinIncr(r)
      PROVE  queueSeq' + Cardinality(Passed') <= MaxPosition
  <2>1. Passed' = Passed \ {r} /\ r \in Passed /\ queueSeq' = queueSeq + 1
    BY <1>7, Draws DEF Passed, Kept, JoinIncr, At
  <2>2. Cardinality(Passed') = Cardinality(Passed) - 1
    BY <2>1, PassedFinite, FS_RemoveElement
  <2> QED
    BY <1>0, <2>1, <2>2, PassedFinite
<1>8. ASSUME NEW r \in Requests, JoinCheckCap(r)
      PROVE  queueSeq' + Cardinality(Passed') <= MaxPosition
  <2>1. CASE Finish(r)
    BY <1>0, <1>2, <1>4, <1>8, <2>1 DEF JoinCheckCap, redisVars
  <2>2. CASE queueSeq < WaitingRoomCap
    BY <1>0, <1>1, <1>8, <2>2, PassedFinite, ConstantsAssumption
    DEF JoinCheckCap, redisVars, MaxPosition
  <2> QED
    BY <1>0, <1>8, <2>1, <2>2, ConstantsAssumption DEF JoinCheckCap
<1>9. queueSeq' <= queueSeq \/ \E r \in Requests : JoinIncr(r)
  <2>1. RedisLosesKeys => queueSeq' <= queueSeq
    BY <1>0 DEF RedisLosesKeys
  <2>2. UNCHANGED queueSeq => queueSeq' <= queueSeq
    BY <1>0
  <2>3. UNCHANGED redisVars => UNCHANGED queueSeq
    BY DEF redisVars
  <2> QED
    BY <2>1, <2>2, <2>3
    DEF Next, Join, Status, vars, JoinBegin, JoinSelect, JoinCheckCap,
        JoinInsert, JoinInsertError, JoinReselect, StatusSelect,
        StatusGetAdmit, StatusMark, RequestDies, WorkerQuery, WorkerAdvance,
        WorkerSkips, ClockPasses
<1>10. UNCHANGED request => Passed' \subseteq Passed
  BY DEF Passed
<1>11. \/ Passed' \subseteq Passed
       \/ \E r \in Requests : JoinIncr(r) \/ JoinCheckCap(r)
  BY <1>4, <1>5, <1>6, <1>10
  DEF Next, Join, Status, vars, JoinSelect, JoinInsert, JoinInsertError,
      JoinReselect, StatusGetAdmit, StatusMark, RequestDies, WorkerQuery,
      WorkerAdvance, WorkerSkips, ClockPasses, RedisLosesKeys, At
<1> QED
  BY <1>2, <1>7, <1>8, <1>9, <1>11

\* A request about to insert drew its position from the counter.
LEMMA DrawnStep ==
    ASSUME TypeOK, [Next]_vars, NEW q \in Requests, request'[q].pc = "insert"
    PROVE  \/ request'[q] = request[q]
           \/ JoinIncr(q) /\ request'[q].pos = queueSeq + 1
<1>1. ASSUME NEW r \in Requests, Kept(r), request'[r].pc # "insert"
      PROVE  request'[q] = request[q]
  BY <1>1 DEF Kept
<1>2. ASSUME NEW r \in Requests, Finish(r) PROVE request'[q] = request[q]
  BY <1>1, <1>2, Finishes
<1>3. ASSUME NEW r \in Requests,
             NEW p \in {"checkCap", "incr", "reselect", "mark"},
             request[r].pc # "idle", Goto(r, [request[r] EXCEPT !.pc = p])
      PROVE  request'[q] = request[q]
  BY <1>1, <1>3, Moves DEF PCs
<1>4. ASSUME NEW r \in Requests, NEW u \in Users,
             JoinBegin(r, u) \/ StatusSelect(r, u)
      PROVE  request'[q] = request[q]
  BY <1>1, <1>4, Begins, BeginsStatus
<1>5. ASSUME NEW r \in Requests, JoinIncr(r)
      PROVE  \/ request'[q] = request[q]
             \/ JoinIncr(q) /\ request'[q].pos = queueSeq + 1
  BY <1>5, Draws DEF Kept
<1> QED
  BY <1>2, <1>3, <1>4, <1>5
  DEF Next, Join, Status, vars, JoinSelect, JoinCheckCap, JoinInsert,
      JoinInsertError, JoinReselect, StatusGetAdmit, StatusMark, RequestDies,
      WorkerQuery, WorkerAdvance, WorkerSkips, ClockPasses, RedisLosesKeys, At

\* A row that appears is the row of a request that was about to insert.
LEMMA RowAppears ==
    ASSUME TypeOK, [Next]_vars
    PROVE  \/ position' = position /\ ahead' = ahead
           \/ \E r \in Requests :
                 /\ At(r, "insert")
                 /\ InsertRow(request[r].user, request[r].pos, request[r].seen)
                 /\ queueSeq' = queueSeq /\ losses' = losses
BY DEF Next, Join, Status, vars, queueVars, seenVars, redisVars, JoinBegin,
       JoinSelect, JoinCheckCap, JoinIncr, JoinInsert, JoinInsertError,
       JoinReselect, StatusSelect, StatusGetAdmit, StatusMark, RequestDies,
       WorkerQuery, WorkerAdvance, WorkerSkips, ClockPasses, RedisLosesKeys

LEMMA SeqInvStep == TypeOK /\ SeqInv /\ [Next]_vars => SeqInv'
<1> SUFFICES ASSUME TypeOK, SeqInv, [Next]_vars PROVE SeqInv'
  OBVIOUS
<1>1. MaxPosition' = MaxPosition /\ MaxPosition \in Nat
  BY PassedFinite DEF MaxPosition
<1>2. \A u \in Users : position'[u] <= MaxPosition
  BY RowAppears, InsertStep DEF SeqInv, TypeOK, At
<1>3. ASSUME NEW q \in Requests, request'[q].pc = "insert"
      PROVE  request'[q].pos <= MaxPosition
  <2>1. CASE request'[q] = request[q]
    BY <1>3, <2>1 DEF SeqInv
  <2>2. CASE JoinIncr(q) /\ request'[q].pos = queueSeq + 1
    <3>1. queueSeq' = queueSeq + 1 /\ queueSeq \in Nat
      BY <2>2 DEF JoinIncr, TypeOK
    <3>2. Cardinality(Passed') \in Nat
      BY ConstantsAssumption, FS_Subset, FS_CardinalityType DEF Passed
    <3> QED
      BY <1>1, <2>2, <3>1, <3>2, CounterStep
  <2> QED
    BY <1>3, <2>1, <2>2, DrawnStep
<1> QED
  BY <1>1, <1>2, <1>3, CounterStep DEF SeqInv

\* Redis forgets only once losses has counted it.
LEMMA RedisKept ==
    ASSUME TypeOK, [Next]_vars, losses' = 0
    PROVE  losses = 0 /\ queueSeq <= queueSeq' /\ nextAdmit <= nextAdmit'
<1>1. queueSeq \in Nat /\ nextAdmit \in Nat /\ losses \in Nat
  BY DEF TypeOK
<1>2. ~RedisLosesKeys
  BY <1>1 DEF RedisLosesKeys
<1>3. UNCHANGED redisVars => UNCHANGED <<queueSeq, nextAdmit, losses>>
  BY DEF redisVars
<1>4. ASSUME NEW r \in Requests, JoinIncr(r)
      PROVE  losses = 0 /\ queueSeq <= queueSeq' /\ nextAdmit <= nextAdmit'
  BY <1>1, <1>4 DEF JoinIncr
<1>5. WorkerAdvance =>
          losses = 0 /\ queueSeq <= queueSeq' /\ nextAdmit <= nextAdmit'
  BY <1>1, BatchPositive DEF WorkerAdvance
<1>6. UNCHANGED redisVars =>
          losses = 0 /\ queueSeq <= queueSeq' /\ nextAdmit <= nextAdmit'
  BY <1>1, <1>3
<1> QED
  BY <1>2, <1>4, <1>5, <1>6
  DEF Next, Join, Status, vars, JoinBegin, JoinSelect, JoinCheckCap,
      JoinInsert, JoinInsertError, JoinReselect, StatusSelect,
      StatusGetAdmit, StatusMark, RequestDies, WorkerQuery, WorkerSkips,
      ClockPasses

\* OrderInv's part about one request.
OrderRequest(r) ==
    /\ request[r].pc \in {"select", "checkCap", "incr", "insert"} =>
           \A v \in request[r].seen : position[v] # 0
    /\ request[r].pc = "insert" =>
           /\ request[r].pos <= queueSeq
           /\ \A v \in request[r].seen : position[v] < request[r].pos

OrderRows ==
    /\ \A u \in Users : position[u] <= queueSeq
    /\ \A u \in Entries : \A v \in ahead[u] :
          position[v] # 0 /\ position[v] < position[u]

LEMMA OrderRequestStep ==
    ASSUME TypeOK, RowInv, OrderRows, [Next]_vars, losses' = 0,
           NEW q \in Requests, OrderRequest(q)
    PROVE  OrderRequest(q)'
<1>0. /\ \A u \in Users : position[u] # 0 => position'[u] = position[u]
      /\ queueSeq <= queueSeq' /\ queueSeq \in Nat /\ queueSeq' \in Nat
      /\ \A u \in Users : position[u] \in Nat
      /\ request[q].seen \in SUBSET Users /\ request[q].pos \in Nat
  BY RowsKept, RedisKept, RequestTypes, TypeStep DEF Entries, TypeOK
<1>1. request'[q] = request[q] => OrderRequest(q)'
  BY <1>0 DEF OrderRequest
<1>2. request'[q].pc \in PCs \ {"select", "checkCap", "incr", "insert"} =>
          OrderRequest(q)'
  BY DEF OrderRequest
<1>3. ASSUME NEW r \in Requests, Kept(r), r # q PROVE OrderRequest(q)'
  BY <1>1, <1>3 DEF Kept
<1>4. ASSUME NEW r \in Requests, Finish(r) PROVE OrderRequest(q)'
  BY <1>2, <1>3, <1>4, Finishes DEF PCs
<1>5. ASSUME NEW r \in Requests, NEW p \in {"reselect", "mark"},
             request[r].pc # "idle", Goto(r, [request[r] EXCEPT !.pc = p])
      PROVE  OrderRequest(q)'
  BY <1>2, <1>3, <1>5, Moves DEF PCs
<1>6. ASSUME NEW r \in Requests, NEW p \in {"checkCap", "incr"},
             request[r].pc \in {"select", "checkCap"},
             Goto(r, [request[r] EXCEPT !.pc = p])
      PROVE  OrderRequest(q)'
  <2>1. CASE r = q
    BY <1>0, <1>6, <2>1, Moves DEF PCs, OrderRequest
  <2>2. CASE r # q
    BY <1>3, <1>6, <2>2, Moves DEF PCs
  <2> QED
    BY <2>1, <2>2
<1>7. ASSUME NEW r \in Requests, NEW u \in Users, JoinBegin(r, u)
      PROVE  OrderRequest(q)'
  <2>1. \A v \in Users : told[v] # {} => position[v] # 0
    BY DEF RowInv
  <2>2. CASE r = q
    BY <1>0, <1>7, <2>1, <2>2, Begins DEF OrderRequest
  <2>3. CASE r # q
    BY <1>3, <1>7, <2>3, Begins
  <2> QED
    BY <2>2, <2>3
<1>8. ASSUME NEW r \in Requests, JoinIncr(r) PROVE OrderRequest(q)'
  <2>1. CASE r = q
    <3>1. /\ request'[q].pc = "insert" /\ request'[q].pos = queueSeq + 1
          /\ request'[q].seen = request[q].seen /\ queueSeq' = queueSeq + 1
      BY <1>8, <2>1, Draws DEF JoinIncr
    <3>2. \A v \in request[q].seen : position[v] # 0 /\ position[v] <= queueSeq
      BY <1>0, <1>8, <2>1 DEF JoinIncr, At, OrderRequest, OrderRows
    <3>3. \A v \in request[q].seen :
              position'[v] # 0 /\ position'[v] < queueSeq + 1
      BY <1>0, <3>2
    <3> QED
      BY <1>0, <3>1, <3>3 DEF OrderRequest
  <2>2. CASE r # q
    BY <1>3, <1>8, <2>2, Draws
  <2> QED
    BY <2>1, <2>2
<1>9. ASSUME NEW r \in Requests, NEW u \in Users, StatusSelect(r, u)
      PROVE  OrderRequest(q)'
  BY <1>2, <1>3, <1>9, BeginsStatus DEF PCs
<1>10. UNCHANGED request => OrderRequest(q)'
  BY <1>1
<1> QED
  BY <1>4, <1>5, <1>6, <1>7, <1>8, <1>9, <1>10
  DEF Next, Join, Status, vars, JoinSelect, JoinCheckCap, JoinInsert,
      JoinInsertError, JoinReselect, StatusGetAdmit, StatusMark, RequestDies,
      WorkerQuery, WorkerAdvance, WorkerSkips, ClockPasses, RedisLosesKeys, At

LEMMA OrderRowsStep ==
    ASSUME TypeOK, OrderRows, \A r \in Requests : OrderRequest(r),
           [Next]_vars, losses' = 0
    PROVE  OrderRows'
<1>0. /\ queueSeq <= queueSeq' /\ queueSeq \in Nat /\ queueSeq' \in Nat
      /\ position \in [Users -> Nat] /\ ahead \in [Users -> SUBSET Users]
  BY RedisKept, TypeStep DEF TypeOK
<1>1. CASE position' = position /\ ahead' = ahead
  BY <1>0, <1>1 DEF OrderRows, Entries
<1>2. ASSUME NEW r \in Requests, At(r, "insert"),
             InsertRow(request[r].user, request[r].pos, request[r].seen),
             queueSeq' = queueSeq
      PROVE  OrderRows'
  <2> DEFINE u == request[r].user
             n == request[r].pos
             seen == request[r].seen
  <2>1. /\ u \in Users /\ n \in Nat /\ seen \subseteq Users
        /\ position[u] = 0
        /\ position' = [position EXCEPT ![u] = n]
        /\ ahead' = [ahead EXCEPT ![u] = seen]
    BY <1>2, InsertStep, RequestTypes
  <2>2. /\ n <= queueSeq
        /\ \A v \in seen : position[v] # 0 /\ position[v] < n
    BY <1>2 DEF At, OrderRequest
  <2> HIDE DEF u, n, seen
  <2>3. \A v \in Users : position'[v] <= queueSeq'
    BY <1>0, <1>2, <2>1, <2>2 DEF OrderRows
  <2>4. \A v \in Users : v # u => position'[v] = position[v] /\ ahead'[v] = ahead[v]
    BY <1>0, <2>1
  <2>5. \A v \in ahead'[u] : position'[v] # 0 /\ position'[v] < position'[u]
    BY <1>0, <2>1, <2>2, <2>4
  <2>6. ASSUME NEW w \in Users, w # u, position'[w] # 0, NEW v \in ahead'[w]
        PROVE  position'[v] # 0 /\ position'[v] < position'[w]
    BY <1>0, <2>1, <2>4, <2>6 DEF OrderRows, Entries
  <2> QED
    BY <2>3, <2>5, <2>6 DEF OrderRows, Entries
<1> QED
  BY <1>1, <1>2, RowAppears

LEMMA OrderInvStep == TypeOK /\ RowInv /\ OrderInv /\ [Next]_vars => OrderInv'
<1> SUFFICES ASSUME TypeOK, RowInv, OrderInv, [Next]_vars, losses' = 0
             PROVE  OrderRows' /\ \A r \in Requests : OrderRequest(r)'
  BY DEF OrderInv, OrderRows, OrderRequest
<1>1. losses = 0
  BY RedisKept
<1>2. OrderRows /\ \A r \in Requests : OrderRequest(r)
  BY <1>1 DEF OrderInv, OrderRows, OrderRequest
<1> QED
  BY <1>2, OrderRowsStep, OrderRequestStep

LEMMA AdmitRequestStep ==
    ASSUME TypeOK, RowInv, AdmitInv, [Next]_vars, losses' = 0,
           NEW q \in Requests, request'[q].pc = "mark"
    PROVE  request'[q].pos <= nextAdmit'
<1>0. /\ losses = 0 /\ nextAdmit <= nextAdmit'
      /\ nextAdmit \in Nat /\ nextAdmit' \in Nat /\ request[q].pos \in Nat
  BY RedisKept, RequestTypes, TypeStep DEF TypeOK
<1>1. CASE request'[q] = request[q]
  BY <1>0, <1>1 DEF AdmitInv
<1>2. ASSUME NEW r \in Requests, Kept(r), request'[r].pc # "mark"
      PROVE  request'[q] = request[q]
  BY <1>2 DEF Kept
<1>3. ASSUME NEW r \in Requests, Finish(r) PROVE request'[q] = request[q]
  BY <1>2, <1>3, Finishes
<1>4. ASSUME NEW r \in Requests, NEW p \in {"checkCap", "incr", "reselect"},
             request[r].pc # "idle", Goto(r, [request[r] EXCEPT !.pc = p])
      PROVE  request'[q] = request[q]
  BY <1>2, <1>4, Moves DEF PCs
<1>5. ASSUME NEW r \in Requests, NEW u \in Users,
             JoinBegin(r, u) \/ StatusSelect(r, u)
      PROVE  request'[q] = request[q]
  BY <1>2, <1>5, Begins, BeginsStatus
<1>6. ASSUME NEW r \in Requests, JoinIncr(r) PROVE request'[q] = request[q]
  BY <1>2, <1>6, Draws
<1>7. ASSUME NEW r \in Requests, StatusGetAdmit(r)
      PROVE  request'[q] = request[q] \/ request'[q].pos <= nextAdmit'
  <2>1. CASE Finish(r)
    BY <1>3, <2>1
  <2>2. CASE /\ Admitted(request[r].pos, request[r].marked)
             /\ ~request[r].marked
             /\ Goto(r, [request[r] EXCEPT !.pc = "mark"])
    <3>1. request[r].pos <= nextAdmit
      BY <2>2 DEF Admitted
    <3>2. Kept(r) /\ request'[r].pos = request[r].pos
      BY <1>7, <2>2, Moves DEF StatusGetAdmit, At, PCs
    <3> QED
      BY <1>0, <3>1, <3>2, RequestTypes DEF Kept
  <2> QED
    BY <1>7, <2>1, <2>2 DEF StatusGetAdmit
<1> QED
  BY <1>1, <1>3, <1>4, <1>5, <1>6, <1>7
  DEF Next, Join, Status, vars, JoinSelect, JoinCheckCap, JoinInsert,
      JoinInsertError, JoinReselect, StatusMark, RequestDies,
      WorkerQuery, WorkerAdvance, WorkerSkips, ClockPasses, RedisLosesKeys, At

LEMMA AdmitRowsStep ==
    ASSUME TypeOK, RowInv, AdmitInv, [Next]_vars, losses' = 0,
           NEW u \in (granted \cup admittedAt)'
    PROVE  position'[u] <= nextAdmit'
<1>0. /\ losses = 0 /\ nextAdmit <= nextAdmit'
      /\ nextAdmit \in Nat /\ nextAdmit' \in Nat
      /\ \A v \in Users : position[v] \in Nat
      /\ granted \cup admittedAt \subseteq Entries
      /\ \A v \in Entries : position'[v] = position[v]
  BY RedisKept, TypeStep, RowsKept DEF TypeOK, RowInv
<1>1. CASE u \in granted \cup admittedAt
  BY <1>0, <1>1 DEF AdmitInv, Entries
<1>2. ASSUME NEW r \in Requests, StatusGetAdmit(r)
      PROVE  u \in granted \cup admittedAt
  BY <1>2 DEF StatusGetAdmit, At, queueVars, RowInv
<1>3. ASSUME NEW r \in Requests, StatusMark(r), u = request[r].user
      PROVE  position'[u] <= nextAdmit'
  <2>1. /\ request[r].pos = position[u] /\ position[u] <= nextAdmit
        /\ position[u] # 0 /\ u \in Users
    BY <1>0, <1>3, RequestTypes DEF StatusMark, At, RowInv, AdmitInv
  <2> QED
    BY <1>0, <2>1 DEF Entries
<1>4. \/ u \in granted \cup admittedAt
      \/ \E r \in Requests : StatusMark(r) /\ u = request[r].user
  BY <1>2
  DEF Next, Join, Status, vars, queueVars, seenVars, JoinBegin, JoinSelect,
      JoinCheckCap, JoinIncr, JoinInsert, JoinInsertError, JoinReselect,
      StatusSelect, StatusMark, RequestDies, WorkerQuery, WorkerAdvance,
      WorkerSkips, ClockPasses, RedisLosesKeys
<1> QED
  BY <1>1, <1>3, <1>4

LEMMA AdmitInvStep == TypeOK /\ RowInv /\ AdmitInv /\ [Next]_vars => AdmitInv'
BY AdmitRequestStep, AdmitRowsStep DEF AdmitInv

LEMMA IInvStep == IInv /\ [Next]_vars => IInv'
BY TypeStep, RowInvStep, SeqInvStep, OrderInvStep, AdmitInvStep DEF IInv

LEMMA Invariance == Spec => []IInv
BY IInvInit, IInvStep, PTL DEF Spec

----------------------------------------------------------------------------
(* What follows from it.                                                   *)

\* Join and Status only ever answer a user's one position, which is no other
\* user's, through races of Join, lost answers of INSERT and losses of Redis.
THEOREM OnePosition == Spec => []OnePositionPerUser
<1>1. IInv => OnePositionPerUser
  BY DEF IInv, RowInv, OnePositionPerUser
<1> QED
  BY <1>1, Invariance, PTL

\* Positions are distinct and at most MaxPosition, so there are no more rows.
LEMMA EntriesBounded == IInv => CapOvershootBounded
<1> SUFFICES ASSUME IInv PROVE Cardinality(Entries) <= MaxPosition
  BY DEF CapOvershootBounded, MaxPosition, IInv, SeqInv, Entries
<1> DEFINE T == 1..MaxPosition
           f == [u \in Entries |-> position[u]]
<1>1. MaxPosition \in Nat
  BY PassedFinite
<1>2. IsFiniteSet(T) /\ Cardinality(T) = MaxPosition
  BY <1>1, FS_Interval
<1>3. \A u \in Entries : position[u] \in T
  BY <1>1 DEF IInv, TypeOK, SeqInv, Entries
<1>4. \A u, v \in Entries : position[u] = position[v] => u = v
  BY DEF IInv, RowInv
<1>5. f \in Injection(Entries, T)
  BY <1>3, <1>4 DEF Injection, IsInjective
<1> HIDE DEF f, T
<1>6. Cardinality(Entries) <= Cardinality(T)
  BY <1>2, <1>5, FS_Injection
<1> QED
  BY <1>2, <1>6

\* The entries and their positions exceed the cap by less than the number of
\* requests in flight, however often Redis loses the counter.
THEOREM CapOvershoot == Spec => []CapOvershootBounded
BY Invariance, EntriesBounded, PTL

\* As long as Redis keeps its keys, nobody gets in front of a user who had been
\* told a position before the other's Join began.
THEOREM FirstComeFirst == Spec => []LatecomersStayBehind
<1>1. IInv => LatecomersStayBehind
  BY DEF IInv, OrderInv, LatecomersStayBehind
<1> QED
  BY <1>1, Invariance, PTL

\* As long as Redis keeps its keys, whoever is in front of a user who was handed
\* a token can have one.
THEOREM AdmissionInOrder == Spec => []AdmittedInOrder
<1>1. ASSUME IInv, losses = 0, NEW v \in granted, NEW u \in Entries,
             position[u] <= position[v]
      PROVE  Admissible(u)
  <2>1. position[v] <= nextAdmit /\ v \in Users
    BY <1>1 DEF IInv, AdmitInv, RowInv, Entries
  <2> QED
    BY <1>1, <2>1 DEF IInv, TypeOK, Entries, Admissible, Admitted
<1>2. IInv => AdmittedInOrder
  BY <1>1 DEF AdmittedInOrder
<1> QED
  BY <1>2, Invariance, PTL

\* Whoever was admitted has a position within the front, and positions are
\* distinct.
LEMMA AdmittedBounded == IInv => TokensWithinDrip
<1> SUFFICES ASSUME IInv, losses = 0
             PROVE  Cardinality(granted \cup admittedAt) <= nextAdmit
  BY DEF TokensWithinDrip
<1> DEFINE A == granted \cup admittedAt
           T == 1..nextAdmit
           f == [u \in A |-> position[u]]
<1>1. nextAdmit \in Nat
  BY DEF IInv, TypeOK
<1>2. IsFiniteSet(T) /\ Cardinality(T) = nextAdmit
  BY <1>1, FS_Interval
<1>3. A \subseteq Entries
  BY DEF IInv, RowInv
<1>4. \A u \in A : position[u] \in T
  BY <1>1, <1>3 DEF IInv, TypeOK, AdmitInv, Entries
<1>5. \A u, v \in A : position[u] = position[v] => u = v
  BY <1>3 DEF IInv, RowInv
<1>6. f \in Injection(A, T)
  BY <1>4, <1>5 DEF Injection, IsInjective
<1> HIDE DEF f, T, A
<1>7. Cardinality(A) <= Cardinality(T)
  BY <1>2, <1>6, FS_Injection
<1> QED
  BY <1>2, <1>7 DEF A

\* As long as Redis keeps its keys, no more users are admitted than the ticks of
\* the worker have let in.
THEOREM AdmissionsBounded == Spec => []TokensWithinDrip
BY Invariance, AdmittedBounded, PTL

\* A step takes an admission back only by losing a key of Redis, and never from
\* an entry whose admitted_at is written.
THEOREM AdmissionStays == Spec => AdmissionNotRevoked
<1>1. ASSUME IInv, [Next]_vars, NEW u \in Users, Admissible(u)
      PROVE  \/ Admissible(u)'
             \/ losses' # losses /\ nextAdmit' = 0 /\ u \notin admittedAt
  <2>1. /\ u \in Entries /\ position'[u] = position[u]
        /\ admittedAt \subseteq admittedAt' /\ TypeOK /\ TypeOK'
    BY <1>1, RowsKept, TypeStep DEF IInv, Admissible, Entries
  <2>2. CASE u \in admittedAt
    BY <2>1, <2>2 DEF Admissible, Admitted, Entries
  <2>3. CASE RedisLosesKeys /\ u \notin admittedAt
    <3>1. losses' # losses /\ nextAdmit' \in {0, nextAdmit}
      BY <2>1, <2>3 DEF RedisLosesKeys, TypeOK
    <3>2. position[u] <= nextAdmit
      BY <1>1, <2>3 DEF Admissible, Admitted
    <3> QED
      BY <2>1, <2>3, <3>1, <3>2 DEF Admissible, Admitted, Entries
  <2>4. CASE ~RedisLosesKeys /\ u \notin admittedAt
    <3>1. nextAdmit <= nextAdmit'
      <4>1. nextAdmit \in Nat /\ (WorkerAdvance => nextAdmit <= nextAdmit')
        BY <2>1, BatchPositive DEF TypeOK, WorkerAdvance
      <4>2. UNCHANGED redisVars => UNCHANGED nextAdmit
        BY DEF redisVars
      <4>3. UNCHANGED nextAdmit => nextAdmit <= nextAdmit'
        BY <4>1
      <4> QED
        BY <1>1, <2>4, <4>1, <4>2, <4>3
        DEF Next, Join, Status, vars, JoinBegin, JoinSelect, JoinCheckCap,
            JoinIncr, JoinInsert, JoinInsertError, JoinReselect, StatusSelect,
            StatusGetAdmit, StatusMark, RequestDies, WorkerQuery, WorkerSkips,
            ClockPasses
    <3>2. position[u] <= nextAdmit
      BY <1>1, <2>4 DEF Admissible, Admitted
    <3>3. position'[u] <= nextAdmit'
      BY <2>1, <3>1, <3>2 DEF TypeOK
    <3> QED
      BY <2>1, <3>3 DEF Admissible, Admitted, Entries
  <2> QED
    BY <2>2, <2>3, <2>4
<1>2. IInv /\ [Next]_vars =>
          [\A u \in Users :
             Admissible(u) =>
                \/ Admissible(u)'
                \/ losses' # losses /\ nextAdmit' = 0 /\ u \notin admittedAt]_vars
  BY <1>1
<1> QED
  BY <1>2, Invariance, PTL DEF Spec, AdmissionNotRevoked

============================================================================
