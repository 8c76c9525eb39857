----------------------- MODULE WaitingRoomRefinement -----------------------
(***************************************************************************)
(* WaitingRoom implements TicketLine until Redis loses a key.  The         *)
(* mapping is the instance Line of WaitingRoom: a number is in a request's *)
(* hand between its INCR and its INSERT.  Each step is mapped under the    *)
(* inductive invariant of WaitingRoomProofs.                               *)
(***************************************************************************)
EXTENDS WaitingRoomProofs

Hands == [r \in Requests |-> Drawn(r)]

\* What the line does not see of a step.
LineKept == UNCHANGED <<queueSeq, position, nextAdmit, granted>>

----------------------------------------------------------------------------
(* The hands.                                                              *)

LEMMA HandPut ==
    ASSUME NEW r \in Requests, Kept(r)
    PROVE  Hands' = [Hands EXCEPT ![r] = Drawn(r)']
<1>1. \A q \in Requests \ {r} : Drawn(q)' = Drawn(q)
  BY DEF Kept, Drawn
<1> QED
  BY <1>1 DEF Hands

\* A request that has not drawn, before and after, leaves the hands alone.
LEMMA HandsKept ==
    ASSUME NEW r \in Requests, Kept(r),
           request[r].pc # "insert", request'[r].pc # "insert"
    PROVE  Hands' = Hands
<1>1. \A q \in Requests : Drawn(q)' = Drawn(q)
  BY DEF Kept, Drawn
<1> QED
  BY <1>1 DEF Hands

\* A request that has nothing in hand after a step without other effect has
\* dropped its number, if it had one.
LEMMA Drops ==
    ASSUME NEW r \in Requests, Kept(r), request'[r].pc # "insert", LineKept
    PROVE  Line!Drop(r)
<1>1. Drawn(r)' = 0
  BY DEF Drawn
<1>2. Hands' = [Hands EXCEPT ![r] = 0]
  BY <1>1, HandPut
<1> QED
  BY <1>2 DEF Line!Drop, Hands, LineKept

\* A step that serves a user who is within next_admit.
LEMMA Serves ==
    ASSUME NEW u \in Users, position[u] # 0, position[u] <= nextAdmit,
           granted' = granted \cup {u}, Hands' = Hands,
           UNCHANGED <<queueSeq, position, nextAdmit>>
    PROVE  Line!Serve(u)
BY DEF Line!Serve, Hands

----------------------------------------------------------------------------
(* The steps that the line sees.                                           *)

LEMMA IncrDraws ==
    ASSUME TypeOK, NEW r \in Requests, JoinIncr(r)
    PROVE  Line!Draw(r)
<1>1. /\ Kept(r) /\ Drawn(r)' = queueSeq + 1 /\ Hands[r] = 0
      /\ queueSeq' = queueSeq + 1
      /\ UNCHANGED <<position, nextAdmit, granted>>
  BY Draws DEF JoinIncr, At, Drawn, Hands, queueVars, seenVars
<1>2. Hands' = [Hands EXCEPT ![r] = queueSeq']
  BY <1>1, HandPut
<1> QED
  BY <1>1, <1>2 DEF Line!Draw, Hands

\* The row that an INSERT writes has the number in the request's hand.
LEMMA InsertEnters ==
    ASSUME TypeOK, RowInv, NEW r \in Requests, At(r, "insert"),
           InsertRow(request[r].user, request[r].pos, request[r].seen),
           Kept(r), request'[r].pc # "insert",
           UNCHANGED <<queueSeq, nextAdmit, granted>>
    PROVE  Line!Enter(r, request[r].user)
<1> DEFINE u == request[r].user
<1>1. /\ u \in Users /\ position[u] = 0
      /\ position' = [position EXCEPT ![u] = request[r].pos]
  BY InsertStep
<1>2. Hands[r] = request[r].pos /\ request[r].pos # 0 /\ Drawn(r)' = 0
  BY DEF Hands, Drawn, At, RowInv
<1>3. Hands' = [Hands EXCEPT ![r] = 0]
  BY <1>2, HandPut
<1> QED
  BY <1>1, <1>2, <1>3 DEF Line!Enter, Hands

LEMMA InsertMaps ==
    ASSUME TypeOK, RowInv, NEW r \in Requests, JoinInsert(r) \/ JoinInsertError(r)
    PROVE  Line!Drop(r) \/ \E u \in Users : Line!Enter(r, u)
<1>1. request[r].user \in Users
  BY RequestTypes DEF JoinInsert, JoinInsertError, At
<1>2. Kept(r) /\ request'[r].pc # "insert"
  BY Finishes, Moves DEF JoinInsert, JoinInsertError, At, PCs
<1>3. At(r, "insert") /\ UNCHANGED <<queueSeq, nextAdmit, granted>>
  BY DEF JoinInsert, JoinInsertError, redisVars
<1>4. CASE InsertRow(request[r].user, request[r].pos, request[r].seen)
  BY <1>1, <1>2, <1>3, <1>4, InsertEnters
<1>5. CASE UNCHANGED position
  BY <1>2, <1>3, <1>5, Drops DEF LineKept
<1> QED
  BY <1>4, <1>5 DEF JoinInsert, JoinInsertError

LEMMA StatusMaps ==
    ASSUME IInv, losses = 0, NEW r \in Requests,
           StatusGetAdmit(r) \/ StatusMark(r)
    PROVE  Line!Drop(r) \/ \E u \in Users : Line!Serve(u)
<1> DEFINE u == request[r].user
<1>1. /\ u \in Users /\ position[u] = request[r].pos /\ request[r].pos # 0
      /\ request[r].pc # "insert" /\ UNCHANGED <<queueSeq, position, nextAdmit>>
  BY RequestTypes
  DEF IInv, RowInv, StatusGetAdmit, StatusMark, At, queueVars, redisVars
<1>2. Kept(r) /\ request'[r].pc # "insert"
  BY Finishes, Moves DEF IInv, StatusGetAdmit, StatusMark, At, PCs
<1>3. Hands' = Hands
  BY <1>1, <1>2, HandsKept
<1>4. CASE granted' = granted
  BY <1>1, <1>2, <1>4, Drops DEF LineKept
<1>5. CASE granted' = granted \cup {u}
  <2>1. position[u] <= nextAdmit
    <3>1. CASE StatusMark(r)
      BY <1>1, <3>1 DEF StatusMark, At, IInv, AdmitInv
    <3>2. CASE StatusGetAdmit(r) /\ request[r].marked
      <4>1. u \in admittedAt
        BY <3>2 DEF StatusGetAdmit, At, IInv, RowInv
      <4> QED
        BY <4>1 DEF IInv, AdmitInv
    <3>3. CASE StatusGetAdmit(r) /\ ~request[r].marked /\ u \in granted
      BY <3>3 DEF IInv, AdmitInv
    <3>4. CASE StatusGetAdmit(r) /\ ~request[r].marked /\ u \notin granted
      BY <1>5, <3>4 DEF StatusGetAdmit
    <3> QED
      BY <3>1, <3>2, <3>3, <3>4
  <2> QED
    BY <1>1, <1>3, <1>5, <2>1, Serves
<1> QED
  BY <1>4, <1>5 DEF StatusGetAdmit, StatusMark

LEMMA AdvanceMaps ==
    ASSUME TypeOK, WorkerAdvance
    PROVE  Line!Advance
<1>1. nextAdmit' \in Nat /\ nextAdmit' > nextAdmit
  BY BatchPositive DEF TypeOK, WorkerAdvance
<1> QED
  BY <1>1
  DEF WorkerAdvance, Line!Advance, queueVars, seenVars, Drawn

----------------------------------------------------------------------------
(* The steps that it does not see.                                         *)

\* The other steps of a request end with nothing in its hand.
LEMMA QuietRequestStep ==
    ASSUME TypeOK, NEW r \in Requests,
           \/ \E u \in Users : JoinBegin(r, u) \/ StatusSelect(r, u)
           \/ JoinSelect(r) \/ JoinCheckCap(r) \/ JoinReselect(r)
           \/ RequestDies(r)
    PROVE  Line!Drop(r)
<1>1. Kept(r) /\ request'[r].pc # "insert"
  <2>1. ASSUME NEW u \in Users, JoinBegin(r, u) \/ StatusSelect(r, u)
        PROVE  Kept(r) /\ request'[r].pc # "insert"
    BY <2>1, Begins, BeginsStatus
  <2>2. ASSUME Finish(r) PROVE Kept(r) /\ request'[r].pc # "insert"
    BY <2>2, Finishes
  <2>3. ASSUME NEW p \in {"checkCap", "incr"}, request[r].pc # "idle",
               Goto(r, [request[r] EXCEPT !.pc = p])
        PROVE  Kept(r) /\ request'[r].pc # "insert"
    BY <2>3, Moves DEF PCs
  <2> QED
    BY <2>1, <2>2, <2>3
    DEF JoinSelect, JoinCheckCap, JoinReselect, RequestDies, At
<1>2. LineKept
  BY DEF JoinBegin, StatusSelect, JoinSelect, JoinCheckCap, JoinReselect,
         RequestDies, LineKept, queueVars, redisVars, seenVars
<1> QED
  BY <1>1, <1>2, Drops

LEMMA QuietStep ==
    ASSUME WorkerQuery \/ WorkerSkips \/ ClockPasses \/ UNCHANGED vars
    PROVE  UNCHANGED Line!vars
BY DEF WorkerQuery, WorkerSkips, ClockPasses, vars, queueVars, redisVars,
       seenVars, Line!vars, Drawn

----------------------------------------------------------------------------
(* The theorem.                                                            *)

LEMMA LineInit == Init => Line!Init
BY DEF Init, Idle, Line!Init, Drawn

LEMMA LineStep ==
    ASSUME IInv, losses = 0, losses' = 0, [Next]_vars
    PROVE  [Line!Next]_(Line!vars)
<1>1. TypeOK /\ RowInv
  BY DEF IInv
<1>2. ASSUME NEW r \in Requests, Join(r) \/ Status(r) \/ RequestDies(r)
      PROVE  Line!Next
  <2>1. ASSUME Line!Drop(r) \/ \E u \in Users : Line!Enter(r, u) \/ Line!Serve(u)
        PROVE  Line!Next
    BY <2>1 DEF Line!Next
  <2>2. CASE JoinIncr(r)
    BY <1>1, <2>2, IncrDraws DEF Line!Next
  <2>3. CASE JoinInsert(r) \/ JoinInsertError(r)
    BY <1>1, <2>1, <2>3, InsertMaps
  <2>4. CASE StatusGetAdmit(r) \/ StatusMark(r)
    BY <2>1, <2>4, StatusMaps
  <2>5. CASE \/ \E u \in Users : JoinBegin(r, u) \/ StatusSelect(r, u)
             \/ JoinSelect(r) \/ JoinCheckCap(r) \/ JoinReselect(r)
             \/ RequestDies(r)
    BY <1>1, <2>1, <2>5, QuietRequestStep
  <2> QED
    BY <1>2, <2>2, <2>3, <2>4, <2>5 DEF Join, Status
<1>3. CASE WorkerAdvance
  BY <1>1, <1>3, AdvanceMaps DEF Line!Next
<1>4. ~RedisLosesKeys
  BY DEF RedisLosesKeys
<1> QED
  BY <1>2, <1>3, <1>4, QuietStep DEF Next

\* What is lost stays lost.
LEMMA LossesKept == IInv /\ [Next]_vars /\ losses' = 0 => losses = 0
<1> SUFFICES ASSUME TypeOK, [Next]_vars, losses # 0 PROVE losses' # 0
  BY DEF IInv
<1>1. RedisLosesKeys => losses' # 0
  BY DEF RedisLosesKeys, TypeOK
<1>2. UNCHANGED redisVars => losses' = losses
  BY DEF redisVars
<1>3. UNCHANGED vars => losses' = losses
  BY DEF vars, redisVars
<1> QED
  BY <1>1, <1>2, <1>3
  DEF Next, Join, Status, JoinBegin, JoinSelect, JoinCheckCap, JoinIncr,
      JoinInsert, JoinInsertError, JoinReselect, StatusSelect, StatusGetAdmit,
      StatusMark, RequestDies, WorkerQuery, WorkerAdvance, WorkerSkips,
      ClockPasses

\* Until Redis loses a key, every behaviour of Join, Status and the drip is one
\* of a ticket dispenser, for any users, requests, cap and rate, and however many
\* keys it may lose then.
THEOREM LineImplemented == Spec => ServedAsATicketLine
<1>1. IInv /\ [Next]_vars => [losses' = 0 => [Line!Next]_(Line!vars)]_vars
  <2>1. SUFFICES ASSUME IInv, [Next]_vars, losses' = 0 PROVE [Line!Next]_(Line!vars)
    OBVIOUS
  <2>2. losses = 0
    BY <2>1, LossesKept
  <2> QED
    BY <2>1, <2>2, LineStep
<1> QED
  BY <1>1, LineInit, Invariance, PTL DEF Spec, ServedAsATicketLine

============================================================================
