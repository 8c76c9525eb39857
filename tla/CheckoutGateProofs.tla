------------------------ MODULE CheckoutGateProofs ------------------------
(***************************************************************************)
(* Proofs about CheckoutGate, for any users, addresses, requests, tokens,  *)
(* limits and times.  How often a token opens a checkout rests on a        *)
(* balance of times (Spaced): every opening but those that losses of keys  *)
(* explain has written a key with ConsumeTTL to live, so the sum of those  *)
(* lives is at most the time since the token was issued and what is left   *)
(* of the last key.  That the limiter keeps its limit in every window      *)
(* rests on the renewal of the counter: it accounts for what passed as     *)
(* long as that is in the window (WindowCounted).                          *)
(***************************************************************************)
EXTENDS CheckoutGate, Integers, TLAPS, FiniteSetTheorems

RequestStates ==
    [pc : {"idle", "consume", "limitIp", "limitUser"}, handler : Handlers,
     user : Users \cup {NoUser}, ip : Ips \cup {NoIp},
     token : Tokens \cup {NoToken}, age : 0..MaxPause]

TokenStates ==
    [user : Users \cup {NoUser}, kind : {"none", "user", "admission"}, life : Nat]

Issued(t) == token[t].user # NoUser

\* Request r carries token t and has yet to consume it.
Carries(r, t) == At(r, "consume") /\ request[r].token = t

\* The requests that have consumed t and are on their way to the checkout.
InFlight(t) ==
    {r \in Requests : request[r].token = t /\ request[r].pc \in {"limitIp", "limitUser"}}

Open(t) == uses[t] + Cardinality(InFlight(t))

\* The time that the keys of t have lived or are to live.  An opening after the
\* loss of a key found none, so the losses are taken off.
Surplus(t) == (Open(t) - losses) * ConsumeTTL

\* That time has passed since t was issued, but for what is left of the last
\* key.  A request that carries t still knows how long ago t was issued, or
\* longer: t had not expired when it began.
Spaced(t) ==
    LET lifetime == Lifetime(token[t].kind) IN
    /\ Issued(t) \/ Open(t) = 0
    /\ consumed[t] <= ConsumeTTL
    /\ token[t].life > 0 => Surplus(t) <= lifetime - token[t].life + consumed[t]
    /\ \A r \in Requests :
          Carries(r, t) => Surplus(t) < lifetime + request[r].age + consumed[t]
    /\ Surplus(t) < lifetime + MaxPause + ConsumeTTL

Requested ==
    /\ \A r \in Requests : IF At(r, "idle") THEN request[r].token = NoToken
                           ELSE request[r].ip \in Ips
    /\ \A r \in Requests : At(r, "consume") =>
          request[r].token \in Tokens /\ Issued(request[r].token)
    /\ \A t \in Tokens : ~Issued(t) => token[t].life = 0 /\ consumed[t] = 0

\* What the counter of k says has passed; a counter goes beyond its limit with
\* the attempts that are refused.
Counted(k) == IF counter[k].n < Limit(k) THEN counter[k].n ELSE Limit(k)

\* What the losses of keys may have let through besides.
Excess(k) == Limit(k) * losses

\* The counter accounts for what passed in the window.  What passed so lately
\* that the window will still show it when the counter expires was let through
\* by losses: everything else has renewed the counter's life.
WindowCounted(k) ==
    \A a \in Ages :
        /\ passed[k][a] <= Excess(k) + Counted(k)
        /\ counter[k].life # 0 /\ a + counter[k].life < Window => passed[k][a] <= Excess(k)

IInv ==
    /\ TypeOK
    /\ Requested
    /\ \A t \in Tokens : Spaced(t)
    /\ \A k \in LimitKeys : WindowCounted(k)

----------------------------------------------------------------------------
(* Constants, and types.                                                   *)

LEMMA Constants ==
    /\ MaxPause \in Nat /\ AdmissionTTL \in Nat /\ Window \in Nat
    /\ AdmissionTTL > 0 /\ Window > 0 /\ MaxPause <= AdmissionTTL
    /\ UserTTL \in Nat /\ UserTTL > 0
    /\ NoUser \notin Users /\ NoToken \notin Tokens /\ MaxLosses \in Nat
    /\ IsFiniteSet(Requests)
<1>1. MaxPause \in Nat /\ MaxPause <= AdmissionTTL /\ IsFiniteSet(Requests)
  BY ConstantsAssumption
<1>2. /\ AdmissionTTL \in Nat \ {0} /\ UserTTL \in Nat \ {0} /\ Window \in Nat \ {0}
      /\ MaxLosses \in Nat
  BY ConstantsAssumption
<1>3. NoUser \notin Users /\ NoToken \notin Tokens
  BY ConstantsAssumption
<1>4. QED  BY <1>1, <1>2, <1>3

LEMMA IdleType == Idle \in RequestStates /\ Idle.pc = "idle" /\ Idle.token = NoToken
  BY Constants DEF Idle, RequestStates, Handlers

LEMMA GotoEffect ==
    ASSUME request \in [Requests -> RequestStates], NEW r \in Requests,
           NEW rec \in RequestStates, Goto(r, rec)
    PROVE  /\ request' \in [Requests -> RequestStates]
           /\ request'[r] = rec
           /\ \A q \in Requests \ {r} : request'[q] = request[q]
  BY DEF Goto

LEMMA FinishEffect ==
    ASSUME request \in [Requests -> RequestStates], NEW r \in Requests, Finish(r)
    PROVE  /\ request' \in [Requests -> RequestStates]
           /\ request'[r].pc = "idle" /\ request'[r].token = NoToken
           /\ \A q \in Requests \ {r} : request'[q] = request[q]
  BY IdleType, GotoEffect DEF Finish

\* A request goes on to pc with all else as it is.
LEMMA NextPcEffect ==
    ASSUME request \in [Requests -> RequestStates], NEW r \in Requests,
           NEW pc \in {"limitIp", "limitUser"}, Goto(r, [request[r] EXCEPT !.pc = pc])
    PROVE  /\ request' \in [Requests -> RequestStates]
           /\ request'[r].pc = pc /\ request'[r].token = request[r].token
           /\ request'[r].user = request[r].user /\ request'[r].ip = request[r].ip
           /\ \A q \in Requests \ {r} : request'[q] = request[q]
<1> DEFINE rec == [request[r] EXCEPT !.pc = pc]
<1>1. rec \in RequestStates
  BY DEF RequestStates
<1>2. /\ rec.pc = pc /\ rec.token = request[r].token
      /\ rec.user = request[r].user /\ rec.ip = request[r].ip
  BY DEF RequestStates
<1>3. Goto(r, rec)
  OBVIOUS
<1> HIDE DEF rec
<1>4. QED  BY <1>1, <1>2, <1>3, GotoEffect

\* What Allow does to the counters.
LEMMA AllowType ==
    ASSUME TypeOK, NEW k \in LimitKeys, AllowPasses(k) \/ AllowRefuses(k)
    PROVE  /\ counter' \in [LimitKeys -> [n : Nat, life : 0..Window]]
           /\ passed' \in [LimitKeys -> [Ages -> Nat]]
<1>0. /\ counter \in [LimitKeys -> [n : Nat, life : 0..Window]]
      /\ passed \in [LimitKeys -> [Ages -> Nat]]
  BY DEF TypeOK
<1>1. Incr(k) \in Nat
  <2>1. counter[k].n \in Nat
    BY <1>0
  <2>2. QED  BY <2>1 DEF Incr
<1>2. IncrExpire(k) \in [n : Nat, life : 0..Window]
  BY <1>1, Constants DEF IncrExpire
<1>3. [counter EXCEPT ![k] = IncrExpire(k)] \in [LimitKeys -> [n : Nat, life : 0..Window]]
  BY <1>0, <1>2
<1>4. [counter EXCEPT ![k].n = Incr(k)] \in [LimitKeys -> [n : Nat, life : 0..Window]]
  BY <1>0, <1>1
<1>5. [passed EXCEPT ![k] = [a \in Ages |-> @[a] + 1]] \in [LimitKeys -> [Ages -> Nat]]
  <2>1. [a \in Ages |-> passed[k][a] + 1] \in [Ages -> Nat]
    BY <1>0
  <2>2. QED  BY <1>0, <2>1
<1>6. QED  BY <1>0, <1>3, <1>4, <1>5 DEF AllowPasses, AllowRefuses

LEMMA LimitKey ==
    ASSUME TypeOK, Requested, NEW r \in Requests, ~At(r, "idle")
    PROVE  /\ <<request[r].handler, <<"ip", request[r].ip>>>> \in LimitKeys
           /\ <<request[r].handler, <<"user", request[r].user>>>> \in LimitKeys
<1>1. request[r].handler \in Handlers /\ request[r].ip \in Ips /\ request[r].user \in Users
  BY DEF TypeOK, Requested
<1>2. QED  BY <1>1 DEF LimitKeys

\* The part of TypeOK that is about requests, and Requested's first part.
RequestOK ==
    /\ request \in [Requests -> RequestStates]
    /\ \A r \in Requests : ~At(r, "idle") => request[r].user \in Users /\ request[r].ip \in Ips

LEMMA RequestStep ==
    ASSUME TypeOK, Requested, NEW r \in Requests,
           request' \in [Requests -> RequestStates],
           \A q \in Requests \ {r} : request'[q] = request[q],
           request'[r].pc # "idle" => request'[r].user \in Users /\ request'[r].ip \in Ips
    PROVE  RequestOK'
  BY DEF TypeOK, Requested, RequestOK, At

\* A new token of either kind.
Issues(t, u) == IssueAdmissionToken(t, u) \/ IssueUserToken(t, u)

LEMMA IssueEffect ==
    ASSUME TypeOK, Requested, NEW s \in Tokens, NEW u \in Users, Issues(s, u)
    PROVE  /\ token' \in [Tokens -> TokenStates]
           /\ \A t \in Tokens \ {s} : token'[t] = token[t]
           /\ ~Issued(s) /\ token'[s].user \in Users
           /\ token'[s].life = Lifetime(token'[s].kind)
           /\ UNCHANGED <<consumed, counter, request, losses, uses, passed>>
<1>1. PICK kind \in {"user", "admission"} : Issue(s, u, kind)
  BY DEF Issues, IssueAdmissionToken, IssueUserToken
<1> DEFINE new == [user |-> u, kind |-> kind, life |-> Lifetime(kind)]
<1>2. /\ token[s] = NotIssued /\ token' = [token EXCEPT ![s] = new]
      /\ UNCHANGED <<consumed, counter, request, losses, uses, passed>>
  BY <1>1 DEF Issue
<1>3. new \in TokenStates /\ new.user = u /\ new.life = Lifetime(new.kind)
  BY Constants DEF TokenStates, Lifetime
<1>4. ~Issued(s)
  BY <1>2 DEF Issued, NotIssued
<1>5. token \in [Tokens -> TokenStates]
  BY DEF TypeOK, TokenStates
<1> HIDE DEF new
<1>6. QED  BY <1>2, <1>3, <1>4, <1>5

\* The beginning of a request.
LEMMA BeginEffect ==
    ASSUME TypeOK, Requested, NEW r \in Requests, NEW ip \in Ips,
           \/ \E u \in Users : JoinBegin(r, u, ip)
           \/ \E t \in Tokens : CheckoutBegin(r, t, ip)
    PROVE  /\ request' \in [Requests -> RequestStates]
           /\ \A q \in Requests \ {r} : request'[q] = request[q]
           /\ request'[r].user \in Users /\ request'[r].ip \in Ips
           /\ UNCHANGED <<token, consumed, counter, losses, uses, passed>>
           /\ \/ request'[r].pc = "limitIp" /\ request'[r].token = NoToken
              \/ /\ request'[r].pc = "consume" /\ request'[r].age = 0
                 /\ request'[r].token \in Tokens /\ token[request'[r].token].life > 0
<1>0. request \in [Requests -> RequestStates]
  BY DEF TypeOK, RequestStates
<1>1. ASSUME NEW u \in Users, JoinBegin(r, u, ip)
      PROVE  /\ request' \in [Requests -> RequestStates]
             /\ \A q \in Requests \ {r} : request'[q] = request[q]
             /\ request'[r].user \in Users /\ request'[r].ip \in Ips
             /\ UNCHANGED <<token, consumed, counter, losses, uses, passed>>
             /\ request'[r].pc = "limitIp" /\ request'[r].token = NoToken
  <2> DEFINE rec == [Idle EXCEPT !.pc = "limitIp", !.user = u, !.ip = ip]
  <2>1. rec \in RequestStates
    BY IdleType DEF RequestStates
  <2>2. /\ rec.pc = "limitIp" /\ rec.token = NoToken
        /\ rec.user = u /\ rec.ip = ip
    BY IdleType DEF RequestStates
  <2>3. Goto(r, rec) /\ UNCHANGED <<token, consumed, counter, losses, uses, passed>>
    BY <1>1 DEF JoinBegin
  <2> HIDE DEF rec
  <2>4. QED  BY <1>0, <2>1, <2>2, <2>3, GotoEffect
<1>2. ASSUME NEW t \in Tokens, CheckoutBegin(r, t, ip)
      PROVE  /\ request' \in [Requests -> RequestStates]
             /\ \A q \in Requests \ {r} : request'[q] = request[q]
             /\ request'[r].user \in Users /\ request'[r].ip \in Ips
             /\ UNCHANGED <<token, consumed, counter, losses, uses, passed>>
             /\ request'[r].pc = "consume" /\ request'[r].age = 0
             /\ request'[r].token \in Tokens /\ token[request'[r].token].life > 0
  <2> DEFINE rec == [pc |-> "consume", handler |-> "checkout", user |-> token[t].user,
                     ip |-> ip, token |-> t, age |-> 0]
  <2>1. token[t].life > 0 /\ Goto(r, rec)
        /\ UNCHANGED <<token, consumed, counter, losses, uses, passed>>
    BY <1>2 DEF CheckoutBegin
  <2>2. token[t].user \in Users
    <3>1. Issued(t)
      BY <2>1 DEF Requested
    <3>2. QED  BY <3>1 DEF Issued, TypeOK
  <2>3. rec \in RequestStates
    BY <2>2, Constants DEF RequestStates, Handlers
  <2>4. /\ rec.pc = "consume" /\ rec.token = t /\ rec.age = 0
        /\ rec.user = token[t].user /\ rec.ip = ip
    OBVIOUS
  <2> HIDE DEF rec
  <2>5. QED  BY <1>0, <2>1, <2>2, <2>3, <2>4, GotoEffect
<1>3. QED  BY <1>1, <1>2

\* The steps of a request that has begun.
Passes(r) == CheckoutConsume(r) \/ AllowIp(r) \/ AllowUser(r) \/ RequestDies(r)

LEMMA PassesEffect ==
    ASSUME TypeOK, Requested, NEW r \in Requests, Passes(r)
    PROVE  /\ request' \in [Requests -> RequestStates]
           /\ \A q \in Requests \ {r} : request'[q] = request[q]
           /\ request'[r].pc # "idle" =>
                 /\ request'[r].pc \in {"limitIp", "limitUser"}
                 /\ request'[r].token = request[r].token
                 /\ request'[r].user = request[r].user /\ request'[r].ip = request[r].ip
           /\ request'[r].pc = "idle" => request'[r].token = NoToken
           /\ ~At(r, "idle")
           /\ UNCHANGED <<token, losses>>
<1>0. request \in [Requests -> RequestStates]
  BY DEF TypeOK, RequestStates
<1>1. CASE Finish(r)
  <2>1. ~At(r, "idle") /\ UNCHANGED <<token, losses>>
    BY DEF Passes, CheckoutConsume, AllowIp, AllowUser, RequestDies, At
  <2>2. QED  BY <1>0, <1>1, <2>1, FinishEffect
<1>2. ASSUME NEW pc \in {"limitIp", "limitUser"}, Goto(r, [request[r] EXCEPT !.pc = pc])
      PROVE  /\ request' \in [Requests -> RequestStates]
             /\ \A q \in Requests \ {r} : request'[q] = request[q]
             /\ request'[r].pc \in {"limitIp", "limitUser"}
             /\ request'[r].token = request[r].token
             /\ request'[r].user = request[r].user /\ request'[r].ip = request[r].ip
             /\ ~At(r, "idle") /\ UNCHANGED <<token, losses>>
  <2>1. ~At(r, "idle") /\ UNCHANGED <<token, losses>>
    BY DEF Passes, CheckoutConsume, AllowIp, AllowUser, RequestDies, At
  <2>2. QED  BY <1>0, <1>2, <2>1, NextPcEffect
<1>3. \/ Finish(r)
      \/ \E pc \in {"limitIp", "limitUser"} : Goto(r, [request[r] EXCEPT !.pc = pc])
  BY DEF Passes, CheckoutConsume, AllowIp, AllowUser, RequestDies
<1>4. QED  BY <1>1, <1>2, <1>3

\* What Tick makes of the lives and ages.
LEMMA TickEffect ==
    ASSUME TypeOK, Requested, Tick
    PROVE  /\ \A t \in Tokens : /\ token'[t].user = token[t].user
                                /\ token'[t].kind = token[t].kind
                                /\ token'[t].life = Older(token[t].life)
                                /\ consumed'[t] = Older(consumed[t])
           /\ token' \in [Tokens -> TokenStates]
           /\ \A r \in Requests : /\ request'[r].pc = request[r].pc
                                  /\ request'[r].token = request[r].token
                                  /\ ~At(r, "idle") => request'[r].age = request[r].age + 1
                                  /\ ~At(r, "idle") => request[r].age < MaxPause
           /\ RequestOK'
           /\ UNCHANGED <<losses, uses>>
<1>0. /\ token \in [Tokens -> TokenStates]
      /\ request \in [Requests -> RequestStates]
  BY DEF TypeOK, RequestStates, TokenStates
<1>1. ASSUME NEW t \in Tokens
      PROVE  /\ token'[t].user = token[t].user
             /\ token'[t].kind = token[t].kind
             /\ token'[t].life = Older(token[t].life)
             /\ token'[t] \in TokenStates
  <2>1. token'[t] = [token[t] EXCEPT !.life = Older(@)]
    BY DEF Tick
  <2>2. token[t] \in TokenStates
    BY <1>0
  <2>3. Older(token[t].life) \in Nat
    <3>1. token[t].life \in Nat
      BY <2>2 DEF TokenStates
    <3>2. QED  BY <3>1 DEF Older
  <2>4. QED  BY <2>1, <2>2, <2>3 DEF TokenStates
<1>2. token' \in [Tokens -> TokenStates]
  <2>1. token' = [t \in Tokens |-> [token[t] EXCEPT !.life = Older(@)]]
    BY DEF Tick
  <2>2. \A t \in Tokens :
           [token[t] EXCEPT !.life = Older(@)] \in TokenStates
    BY <1>1, <2>1
  <2>3. QED  BY <2>1, <2>2
<1>3. ASSUME NEW r \in Requests
      PROVE  /\ request'[r] \in RequestStates
             /\ request'[r].pc = request[r].pc /\ request'[r].token = request[r].token
             /\ ~At(r, "idle") => /\ request'[r].age = request[r].age + 1
                                  /\ request[r].age < MaxPause
                                  /\ request'[r].user = request[r].user
                                  /\ request'[r].ip = request[r].ip
  <2>1. CASE At(r, "idle")
    <3>1. request'[r] = Idle /\ request[r].pc = "idle"
      BY <2>1 DEF Tick, At
    <3>2. request[r].token = NoToken
      BY <2>1 DEF Requested
    <3>3. QED  BY <2>1, <3>1, <3>2, IdleType
  <2>2. CASE ~At(r, "idle")
    <3>1. request'[r] = [request[r] EXCEPT !.age = @ + 1] /\ request[r].age < MaxPause
      BY <2>2 DEF Tick
    <3>2. request[r].age + 1 \in 0..MaxPause
      <4>1. request[r].age \in 0..MaxPause
        BY <1>0 DEF RequestStates
      <4>2. QED  BY <3>1, <4>1, Constants
    <3>3. QED  BY <1>0, <2>2, <3>1, <3>2 DEF RequestStates
  <2>3. QED  BY <2>1, <2>2
<1>4. request' \in [Requests -> RequestStates]
  <2>1. request' = [r \in Requests |-> IF At(r, "idle") THEN Idle
                                       ELSE [request[r] EXCEPT !.age = @ + 1]]
    BY DEF Tick
  <2>2. \A r \in Requests : (IF At(r, "idle") THEN Idle
                             ELSE [request[r] EXCEPT !.age = @ + 1]) \in RequestStates
    BY <1>3, <2>1
  <2>3. QED  BY <2>1, <2>2
<1>5. \A r \in Requests : At(r, "idle")' => At(r, "idle")
  BY <1>3 DEF At
<1>6. RequestOK'
  BY <1>3, <1>4, <1>5 DEF RequestOK, TypeOK, Requested, At
<1>7. QED  BY <1>1, <1>2, <1>3, <1>6 DEF Tick, At

----------------------------------------------------------------------------
(* The steps.                                                              *)

LEMMA ConsumeTTLType == /\ ConsumeTTL \in Nat /\ ConsumeTTL # 0
                        /\ ConsumeTTL = AdmissionTTL + AdmissionTTL
  BY Constants DEF ConsumeTTL

\* Types that do not depend on requests.
StoreOK ==
    /\ token \in [Tokens -> TokenStates]
    /\ consumed \in [Tokens -> Nat]
    /\ counter \in [LimitKeys -> [n : Nat, life : 0..Window]]
    /\ losses \in Nat
    /\ uses \in [Tokens -> Nat]
    /\ passed \in [LimitKeys -> [Ages -> Nat]]

LEMMA TypeSplits == /\ TypeOK => StoreOK
                    /\ TypeOK' => StoreOK'
                    /\ StoreOK /\ RequestOK => TypeOK
                    /\ StoreOK' /\ RequestOK' => TypeOK'
  BY DEF TypeOK, StoreOK, RequestOK, RequestStates, TokenStates

LEMMA TypeStep == IInv /\ [Next]_vars => TypeOK'
<1> SUFFICES ASSUME TypeOK, Requested, [Next]_vars PROVE TypeOK'
  BY DEF IInv
<1>0. StoreOK
  BY TypeSplits
<1>1. ASSUME NEW t \in Tokens, NEW u \in Users, Issues(t, u) PROVE TypeOK'
  <2>1. /\ token' \in [Tokens -> TokenStates]
        /\ UNCHANGED <<consumed, counter, request, losses, uses, passed>>
    BY <1>1, IssueEffect
  <2>2. QED  BY <2>1 DEF TypeOK, TokenStates, At
<1>2. ASSUME NEW r \in Requests, NEW ip \in Ips,
             \/ \E u \in Users : JoinBegin(r, u, ip)
             \/ \E t \in Tokens : CheckoutBegin(r, t, ip)
      PROVE  TypeOK'
  <2>1. /\ request' \in [Requests -> RequestStates]
        /\ \A q \in Requests \ {r} : request'[q] = request[q]
        /\ request'[r].user \in Users /\ request'[r].ip \in Ips
        /\ UNCHANGED <<token, consumed, counter, losses, uses, passed>>
    BY <1>2, BeginEffect
  <2>2. RequestOK'
    BY <2>1, RequestStep
  <2>3. QED  BY <1>0, <2>1, <2>2, TypeSplits DEF StoreOK
<1>3. ASSUME NEW r \in Requests, Passes(r) PROVE TypeOK'
  <2>1. /\ request' \in [Requests -> RequestStates]
        /\ \A q \in Requests \ {r} : request'[q] = request[q]
        /\ request'[r].pc # "idle" =>
              request'[r].user = request[r].user /\ request'[r].ip = request[r].ip
        /\ ~At(r, "idle") /\ UNCHANGED <<token, losses>>
    BY <1>3, PassesEffect
  <2>2. request[r].user \in Users /\ request[r].ip \in Ips
    BY <2>1 DEF TypeOK, Requested
  <2>3. RequestOK'
    BY <2>1, <2>2, RequestStep
  <2>4. CASE CheckoutConsume(r)
    <3>1. UNCHANGED <<counter, uses, passed>>
      BY <2>4 DEF CheckoutConsume
    <3>2. consumed' \in [Tokens -> Nat]
      BY <1>0, <2>4, ConsumeTTLType DEF CheckoutConsume, StoreOK
    <3>3. QED  BY <1>0, <2>1, <2>3, <3>1, <3>2, TypeSplits DEF StoreOK
  <2>5. CASE AllowIp(r)
    <3> DEFINE k == <<request[r].handler, <<"ip", request[r].ip>>>>
    <3>1. k \in LimitKeys
      BY <2>1, LimitKey
    <3>2. (AllowPasses(k) \/ AllowRefuses(k)) /\ UNCHANGED <<consumed, uses>>
      BY <2>5 DEF AllowIp
    <3> HIDE DEF k
    <3>3. QED  BY <1>0, <2>1, <2>3, <3>1, <3>2, AllowType, TypeSplits DEF StoreOK
  <2>6. CASE AllowUser(r)
    <3> DEFINE k == <<request[r].handler, <<"user", request[r].user>>>>
    <3>1. k \in LimitKeys
      BY <2>1, LimitKey
    <3>2. (AllowPasses(k) \/ AllowRefuses(k)) /\ UNCHANGED <<consumed>>
      BY <2>6 DEF AllowUser
    <3> HIDE DEF k
    <3>3. uses' \in [Tokens -> Nat]
      <4>1. uses \in [Tokens -> Nat]
        BY <1>0 DEF StoreOK
      <4>2. \/ uses' = [t \in Tokens |-> IF t = request[r].token
                                         THEN uses[t] + 1 ELSE uses[t]]
            \/ uses' = uses
        BY <2>6 DEF AllowUser
      <4>3. QED  BY <4>1, <4>2
    <3>4. QED  BY <1>0, <2>1, <2>3, <3>1, <3>2, <3>3, AllowType, TypeSplits DEF StoreOK
  <2>7. CASE RequestDies(r)
    <3>1. UNCHANGED <<consumed, counter, uses, passed>>
      BY <2>7 DEF RequestDies
    <3>2. QED  BY <1>0, <2>1, <2>3, <3>1, TypeSplits DEF StoreOK
  <2>8. QED  BY <1>3, <2>4, <2>5, <2>6, <2>7 DEF Passes
<1>4. CASE Tick
  <2>1. RequestOK' /\ UNCHANGED <<losses, uses>>
        /\ token' \in [Tokens -> TokenStates]
    BY <1>4, TickEffect
  <2>2. consumed' \in [Tokens -> Nat]
    <3>1. \A t \in Tokens : Older(consumed[t]) \in Nat
      BY <1>0 DEF StoreOK, Older
    <3>2. QED  BY <1>4, <3>1 DEF Tick
  <2>3. counter' \in [LimitKeys -> [n : Nat, life : 0..Window]]
    <3>1. NoKey \in [n : Nat, life : 0..Window]
      BY Constants DEF NoKey
    <3>2. ASSUME NEW k \in LimitKeys
          PROVE  [counter[k] EXCEPT !.life = Older(@)] \in [n : Nat, life : 0..Window]
      <4>1. counter[k] \in [n : Nat, life : 0..Window]
        BY <1>0 DEF StoreOK
      <4>2. Older(counter[k].life) \in 0..Window
        <5>1. counter[k].life \in 0..Window
          BY <4>1
        <5>2. QED  BY <5>1, Constants DEF Older
      <4>3. QED  BY <4>1, <4>2
    <3>3. counter' = [k \in LimitKeys |-> IF counter[k].life = 1 THEN NoKey
                                          ELSE [counter[k] EXCEPT !.life = Older(@)]]
      BY <1>4 DEF Tick
    <3>4. QED  BY <3>1, <3>2, <3>3
  <2>4. passed' \in [LimitKeys -> [Ages -> Nat]]
    <3>1. ASSUME NEW k \in LimitKeys
          PROVE  [a \in Ages |-> IF a = 0 THEN 0 ELSE passed[k][a - 1]]
                    \in [Ages -> Nat]
      <4>1. passed[k] \in [Ages -> Nat]
        BY <1>0 DEF StoreOK
      <4>2. ASSUME NEW a \in Ages, a # 0 PROVE passed[k][a - 1] \in Nat
        <5>1. a - 1 \in Ages
          BY <4>2, Constants DEF Ages
        <5>2. QED  BY <4>1, <5>1
      <4>3. QED  BY <4>2
    <3>2. passed' = [k \in LimitKeys |->
                       [a \in Ages |-> IF a = 0 THEN 0 ELSE passed[k][a - 1]]]
      BY <1>4 DEF Tick
    <3>3. QED  BY <3>1, <3>2
  <2>5. QED  BY <1>0, <2>1, <2>2, <2>3, <2>4, TypeSplits DEF StoreOK
<1>5. CASE RedisLosesKey
  <2>1. losses' \in Nat /\ UNCHANGED <<token, request, uses, passed>>
    BY <1>0, <1>5 DEF RedisLosesKey, StoreOK
  <2>2. consumed' \in [Tokens -> Nat]
    <3>1. consumed' = consumed \/ \E t \in Tokens : consumed' = [consumed EXCEPT ![t] = 0]
      BY <1>5 DEF RedisLosesKey
    <3>2. consumed \in [Tokens -> Nat]
      BY <1>0 DEF StoreOK
    <3>3. QED  BY <3>1, <3>2
  <2>3. counter' \in [LimitKeys -> [n : Nat, life : 0..Window]]
    <3>1. NoKey \in [n : Nat, life : 0..Window]
      BY Constants DEF NoKey
    <3>2. QED  BY <1>0, <1>5, <3>1 DEF RedisLosesKey, StoreOK
  <2>4. QED  BY <2>1, <2>2, <2>3 DEF TypeOK, At
<1>6. CASE UNCHANGED vars
  BY <1>6 DEF vars, TypeOK, At
<1>7. QED  BY <1>1, <1>2, <1>3, <1>4, <1>5, <1>6 DEF Next, Passes, Issues

\* What the steps of requests do to the key of a consumed token.
LEMMA ConsumedEffect ==
    ASSUME TypeOK, Requested, NEW r \in Requests, Passes(r), NEW t \in Tokens
    PROVE  \/ consumed'[t] = consumed[t]
           \/ /\ Carries(r, t) /\ consumed[t] = 0 /\ consumed'[t] = ConsumeTTL
              /\ CheckoutConsume(r)
<1>1. consumed \in [Tokens -> Nat]
  BY DEF TypeOK
<1>2. CASE consumed' = consumed
  BY <1>2
<1>3. CASE CheckoutConsume(r) /\ consumed[request[r].token] = 0
  <2>1. consumed' = [consumed EXCEPT ![request[r].token] = ConsumeTTL] /\ At(r, "consume")
    BY <1>3 DEF CheckoutConsume
  <2>2. CASE request[r].token = t
    BY <1>1, <1>3, <2>1, <2>2 DEF Carries
  <2>3. CASE request[r].token # t
    BY <1>1, <2>1, <2>3
  <2>4. QED  BY <2>2, <2>3
<1>4. consumed' = consumed \/ (CheckoutConsume(r) /\ consumed[request[r].token] = 0)
  BY DEF Passes, CheckoutConsume, AllowIp, AllowUser, RequestDies
<1>5. QED  BY <1>2, <1>3, <1>4

LEMMA RequestedStep == IInv /\ TypeOK' /\ [Next]_vars => Requested'
<1> SUFFICES ASSUME TypeOK, TypeOK', Requested, [Next]_vars PROVE Requested'
  BY DEF IInv
<1> DEFINE Req(r) == /\ IF At(r, "idle") THEN request[r].token = NoToken
                        ELSE request[r].ip \in Ips
                     /\ At(r, "consume") =>
                           request[r].token \in Tokens /\ Issued(request[r].token)
           Tok(t) == ~Issued(t) => token[t].life = 0 /\ consumed[t] = 0
<1>0. (Requested' <=> (\A r \in Requests : Req(r)') /\ (\A t \in Tokens : Tok(t)'))
      /\ \A r \in Requests : Req(r)
      /\ \A t \in Tokens : Tok(t)
  BY DEF Requested
<1>01. \A t \in Tokens : ~Issued(t) => token[t].life = 0 /\ consumed[t] = 0
  BY DEF Requested
<1>1. ASSUME NEW t \in Tokens, NEW u \in Users, Issues(t, u) PROVE Requested'
  <2>1. UNCHANGED <<consumed, request>>
    BY <1>1, IssueEffect
  <2>3. \A s \in Tokens \ {t} : token'[s] = token[s]
    BY <1>1, IssueEffect
  <2>4. token'[t].user # NoUser
    BY <1>1, IssueEffect, Constants
  <2>5. \A s \in Tokens : Issued(s) => Issued(s)'
    BY <2>3, <2>4 DEF Issued
  <2>6. ASSUME NEW s \in Tokens PROVE Tok(s)'
    <3>1. CASE s = t
      BY <2>4, <3>1 DEF Issued
    <3>2. CASE s # t
      BY <1>01, <2>1, <2>3, <3>2 DEF Issued
    <3>3. QED  BY <3>1, <3>2
  <2>7. \A r \in Requests : Req(r)'
    BY <1>0, <2>1, <2>5 DEF At
  <2>8. QED  BY <1>0, <2>6, <2>7
<1>2. ASSUME NEW r \in Requests, NEW ip \in Ips,
             \/ \E u \in Users : JoinBegin(r, u, ip)
             \/ \E t \in Tokens : CheckoutBegin(r, t, ip)
      PROVE  Requested'
  <2>1. /\ \A q \in Requests \ {r} : request'[q] = request[q]
        /\ request'[r].ip \in Ips
        /\ UNCHANGED <<token, consumed>>
        /\ \/ request'[r].pc = "limitIp"
           \/ /\ request'[r].pc = "consume"
              /\ request'[r].token \in Tokens /\ token[request'[r].token].life > 0
    BY <1>2, BeginEffect
  <2>2. \A t \in Tokens : Tok(t)' /\ (Issued(t) => Issued(t)')
    BY <1>0, <2>1 DEF Issued
  <2>3. request'[r].pc = "consume" => Issued(request'[r].token)
    BY <1>0, <2>1
  <2>4. Req(r)'
    BY <2>1, <2>2, <2>3 DEF At
  <2>5. \A q \in Requests \ {r} : Req(q)'
    BY <1>0, <2>1, <2>2 DEF At
  <2>6. QED  BY <1>0, <2>2, <2>4, <2>5
<1>3. ASSUME NEW r \in Requests, Passes(r) PROVE Requested'
  <2>1. /\ \A q \in Requests \ {r} : request'[q] = request[q]
        /\ request'[r].pc # "idle" =>
              request'[r].pc \in {"limitIp", "limitUser"} /\ request'[r].ip = request[r].ip
        /\ request'[r].pc = "idle" => request'[r].token = NoToken
        /\ ~At(r, "idle") /\ token' = token
    BY <1>3, PassesEffect
  <2>2. \A t \in Tokens : Issued(t)' <=> Issued(t)
    BY <2>1 DEF Issued
  <2>3. ASSUME NEW t \in Tokens PROVE Tok(t)'
    <3>1. CASE consumed'[t] = consumed[t]
      BY <1>0, <2>1, <2>2, <3>1
    <3>2. CASE Carries(r, t)
      <4>1. Issued(t)
        BY <1>0, <3>2 DEF Carries
      <4>2. QED  BY <2>2, <4>1
    <3>3. QED  BY <1>3, <3>1, <3>2, ConsumedEffect
  <2>4. Req(r)'
    BY <1>0, <2>1 DEF At
  <2>5. \A q \in Requests \ {r} : Req(q)'
    BY <1>0, <2>1, <2>2 DEF At
  <2>6. QED  BY <1>0, <2>3, <2>4, <2>5
<1>4. CASE Tick
  <2>1. /\ \A t \in Tokens : /\ token'[t].user = token[t].user
                             /\ token'[t].life = Older(token[t].life)
                             /\ consumed'[t] = Older(consumed[t])
        /\ \A r \in Requests : request'[r].pc = request[r].pc /\ request'[r].token = request[r].token
        /\ RequestOK'
    BY <1>4, TickEffect
  <2>2. \A t \in Tokens : Issued(t)' <=> Issued(t)
    BY <2>1 DEF Issued
  <2>3. ASSUME NEW t \in Tokens, ~Issued(t)' PROVE token'[t].life = 0 /\ consumed'[t] = 0
    <3>1. token[t].life = 0 /\ consumed[t] = 0
      BY <1>01, <2>2, <2>3
    <3>2. Older(0) = 0
      BY DEF Older
    <3>3. QED  BY <2>1, <3>1, <3>2
  <2>4. \A r \in Requests : Req(r)'
    BY <1>0, <2>1, <2>2 DEF RequestOK, At
  <2>5. QED  BY <1>0, <2>3, <2>4
<1>5. CASE RedisLosesKey
  <2>1. UNCHANGED <<token, request>>
    BY <1>5 DEF RedisLosesKey
  <2>2. consumed' = consumed \/ \E t \in Tokens : consumed' = [consumed EXCEPT ![t] = 0]
    BY <1>5 DEF RedisLosesKey
  <2>3. \A t \in Tokens : consumed'[t] \in {0, consumed[t]}
    BY <2>2 DEF TypeOK
  <2>4. \A t \in Tokens : Issued(t)' <=> Issued(t)
    BY <2>1 DEF Issued
  <2>5. \A r \in Requests : Req(r)'
    BY <1>0, <2>1, <2>4 DEF At
  <2>6. ASSUME NEW t \in Tokens, ~Issued(t)' PROVE token'[t].life = 0 /\ consumed'[t] = 0
    BY <1>01, <2>1, <2>3, <2>4, <2>6
  <2>7. QED  BY <1>0, <2>5, <2>6
<1>6. CASE UNCHANGED vars
  BY <1>6 DEF vars, Requested, Issued, At
<1>7. QED  BY <1>1, <1>2, <1>3, <1>4, <1>5, <1>6 DEF Next, Passes, Issues

LEMMA Numbers ==
    ASSUME TypeOK, NEW t \in Tokens
    PROVE  /\ token[t].life \in Nat /\ Lifetime(token[t].kind) \in Nat
           /\ consumed[t] \in Nat /\ uses[t] \in Nat /\ losses \in Nat
           /\ \A r \in Requests : request[r].age \in Nat /\ request[r].age <= MaxPause
<1>1. /\ token \in [Tokens -> TokenStates]
      /\ consumed \in [Tokens -> Nat] /\ uses \in [Tokens -> Nat] /\ losses \in Nat
      /\ request \in [Requests -> RequestStates]
  BY DEF TypeOK, RequestStates, TokenStates
<1>2. token[t].life \in Nat
  BY <1>1 DEF TokenStates
<1>3. Lifetime(token[t].kind) \in Nat
  BY Constants DEF Lifetime
<1>4. \A r \in Requests : request[r].age \in 0..MaxPause
  BY <1>1 DEF RequestStates
<1>5. QED  BY <1>1, <1>2, <1>3, <1>4, Constants

LEMMA LossEffect ==
    ASSUME TypeOK, RedisLosesKey, NEW t \in Tokens
    PROVE  consumed'[t] \in {0, consumed[t]} /\ losses' = losses + 1
           /\ UNCHANGED <<token, request, uses>>
<1>1. consumed' = consumed \/ \E s \in Tokens : consumed' = [consumed EXCEPT ![s] = 0]
  BY DEF RedisLosesKey
<1>2. QED  BY <1>1 DEF RedisLosesKey, TypeOK

----------------------------------------------------------------------------
(* How often a token opens.                                                *)

LEMMA Flights ==
    ASSUME NEW t
    PROVE  /\ IsFiniteSet(InFlight(t)) /\ Cardinality(InFlight(t)) \in Nat
           /\ \A S \in SUBSET InFlight(t) : /\ Cardinality(S) \in Nat
                                            /\ Cardinality(S) <= Cardinality(InFlight(t))
<1>1. InFlight(t) \subseteq Requests
  BY DEF InFlight
<1>2. IsFiniteSet(InFlight(t))
  BY <1>1, Constants, FS_Subset
<1>3. \A S \in SUBSET InFlight(t) : IsFiniteSet(S)
  BY <1>2, FS_Subset
<1>4. QED  BY <1>2, <1>3, FS_Subset, FS_CardinalityType

LEMMA OpenType ==
    ASSUME TypeOK, TypeOK', NEW t \in Tokens
    PROVE  /\ Open(t) \in Nat /\ Cardinality(InFlight(t)) \in Nat
           /\ Open(t)' \in Nat
<1>1. InFlight(t) \subseteq Requests /\ InFlight(t)' \subseteq Requests
  BY DEF InFlight
<1>2. IsFiniteSet(InFlight(t)) /\ IsFiniteSet(InFlight(t)')
  BY <1>1, Constants, FS_Subset
<1>3. Cardinality(InFlight(t)) \in Nat /\ Cardinality(InFlight(t)') \in Nat
  BY <1>2, FS_CardinalityType
<1>4. uses[t] \in Nat /\ uses'[t] \in Nat
  BY DEF TypeOK
<1>5. QED  BY <1>3, <1>4 DEF Open

\* Nothing more is in flight, and nothing more was opened.
LEMMA OpenKept ==
    ASSUME TypeOK, NEW t \in Tokens, InFlight(t)' \subseteq InFlight(t), uses'[t] = uses[t]
    PROVE  Open(t)' <= Open(t)
<1>1. /\ Cardinality(InFlight(t)') \in Nat /\ Cardinality(InFlight(t)) \in Nat
      /\ Cardinality(InFlight(t)') <= Cardinality(InFlight(t))
  BY Flights
<1>2. uses[t] \in Nat
  BY Numbers
<1>3. QED  BY <1>1, <1>2 DEF Open

LEMMA PassesOpen ==
    ASSUME TypeOK, TypeOK', Requested, NEW r \in Requests, Passes(r), NEW t \in Tokens
    PROVE  \/ Open(t)' <= Open(t)
           \/ /\ Open(t)' <= Open(t) + 1 /\ Carries(r, t)
              /\ consumed[t] = 0 /\ consumed'[t] = ConsumeTTL
<1>1. /\ \A q \in Requests \ {r} : request'[q] = request[q]
      /\ request'[r].pc # "idle" =>
            request'[r].pc \in {"limitIp", "limitUser"} /\ request'[r].token = request[r].token
      /\ request'[r].pc = "idle" => request'[r].token = NoToken
  BY PassesEffect
<1>2. InFlight(t)' \subseteq InFlight(t) \cup {r}
  BY <1>1 DEF InFlight
<1>3. uses \in [Tokens -> Nat] /\ uses[t] \in Nat /\ NoToken \notin Tokens
  BY Constants DEF TypeOK
<1>4. CASE CheckoutConsume(r) /\ Carries(r, t) /\ consumed[t] = 0
  <2>1. consumed' = [consumed EXCEPT ![t] = ConsumeTTL] /\ uses' = uses
    BY <1>4 DEF CheckoutConsume, Carries
  <2>2. consumed'[t] = ConsumeTTL
    BY <2>1 DEF TypeOK
  <2>3. /\ Cardinality(InFlight(t)') \in Nat /\ Cardinality(InFlight(t)) \in Nat
        /\ Cardinality(InFlight(t)') <= Cardinality(InFlight(t)) + 1
    <3>1. IsFiniteSet(InFlight(t)) /\ Cardinality(InFlight(t)) \in Nat
      BY Flights
    <3>2. /\ IsFiniteSet(InFlight(t) \cup {r})
          /\ Cardinality(InFlight(t) \cup {r}) =
                IF r \in InFlight(t) THEN Cardinality(InFlight(t)) ELSE Cardinality(InFlight(t)) + 1
      BY <3>1, FS_AddElement
    <3>3. /\ Cardinality(InFlight(t)') <= Cardinality(InFlight(t) \cup {r})
          /\ IsFiniteSet(InFlight(t)')
      BY <1>2, <3>2, FS_Subset
    <3>4. Cardinality(InFlight(t)') \in Nat
      BY <3>3, FS_CardinalityType
    <3>5. QED  BY <3>1, <3>2, <3>3, <3>4
  <2>4. QED  BY <1>3, <1>4, <2>1, <2>2, <2>3 DEF Open
<1>5. CASE CheckoutConsume(r) /\ ~(Carries(r, t) /\ consumed[t] = 0)
  <2>1. At(r, "consume") /\ uses' = uses
    BY <1>5 DEF CheckoutConsume
  <2>2. r \notin InFlight(t)'
    <3>1. CASE request[r].token = t
      <4>1. Finish(r)
        BY <1>5, <2>1, <3>1 DEF CheckoutConsume, Carries
      <4>2. request'[r].pc = "idle"
        BY <4>1, FinishEffect DEF TypeOK, RequestStates
      <4>3. QED  BY <4>2 DEF InFlight
    <3>2. CASE request[r].token # t
      BY <1>1, <1>3, <3>2 DEF InFlight
    <3>3. QED  BY <3>1, <3>2
  <2>3. QED  BY <1>2, <2>1, <2>2, OpenKept
<1>6. CASE AllowIp(r)
  <2>1. uses' = uses /\ request[r].pc = "limitIp"
    BY <1>6 DEF AllowIp, At
  <2>2. r \in InFlight(t)' => r \in InFlight(t)
    BY <1>1, <2>1 DEF InFlight
  <2>3. QED  BY <1>2, <2>1, <2>2, OpenKept
<1>7. CASE AllowUser(r)
  <2>1. request[r].pc = "limitUser" /\ Finish(r)
        /\ \/ uses' = [s \in Tokens |-> IF s = request[r].token THEN uses[s] + 1 ELSE uses[s]]
           \/ uses' = uses
    BY <1>7 DEF AllowUser, At
  <2>2. request'[r].pc = "idle"
    BY <2>1, FinishEffect DEF TypeOK, RequestStates
  <2>3. r \notin InFlight(t)'
    BY <2>2 DEF InFlight
  <2>4. CASE uses'[t] = uses[t]
    BY <1>2, <2>3, <2>4, OpenKept
  <2>5. CASE request[r].token = t /\ uses'[t] = uses[t] + 1
    <3>1. r \in InFlight(t)
      BY <2>1, <2>5 DEF InFlight
    <3>2. IsFiniteSet(InFlight(t)) /\ Cardinality(InFlight(t)) \in Nat
      BY Flights
    <3>3. /\ IsFiniteSet(InFlight(t) \ {r})
          /\ Cardinality(InFlight(t) \ {r}) = Cardinality(InFlight(t)) - 1
      BY <3>1, <3>2, FS_RemoveElement
    <3>4. InFlight(t)' \subseteq InFlight(t) \ {r}
      BY <1>2, <2>3
    <3>5. /\ Cardinality(InFlight(t)') <= Cardinality(InFlight(t) \ {r})
          /\ IsFiniteSet(InFlight(t)')
      BY <3>3, <3>4, FS_Subset
    <3>6. Cardinality(InFlight(t)') \in Nat
      BY <3>5, FS_CardinalityType
    <3>7. QED  BY <1>3, <2>5, <3>2, <3>3, <3>5, <3>6 DEF Open
  <2>6. QED  BY <1>3, <2>1, <2>4, <2>5
<1>8. CASE RequestDies(r)
  <2>1. Finish(r) /\ uses' = uses
    BY <1>8 DEF RequestDies
  <2>2. request'[r].pc = "idle"
    BY <2>1, FinishEffect DEF TypeOK, RequestStates
  <2>3. r \notin InFlight(t)'
    BY <2>2 DEF InFlight
  <2>4. QED  BY <1>2, <2>1, <2>3, OpenKept
<1>9. QED  BY <1>4, <1>5, <1>6, <1>7, <1>8 DEF Passes

LEMMA Products ==
    ASSUME NEW n \in Int, NEW m \in Int, NEW k \in Nat
    PROVE  /\ n * k \in Int
           /\ n <= m => n * k <= m * k
           /\ (n + 1) * k = n * k + k /\ (n - 1) * k = n * k - k
<1>1. n * k \in Int /\ m * k \in Int
  OBVIOUS
<1>2. (n + 1) * k = n * k + k /\ (n - 1) * k = n * k - k
  OBVIOUS
<1>3. ASSUME n <= m PROVE n * k <= m * k
  <2>1. m - n \in Nat
    BY <1>3
  <2>2. \A d \in Nat : d * k \in Nat
    OBVIOUS
  <2>3. m * k = n * k + (m - n) * k
    OBVIOUS
  <2>4. QED  BY <1>1, <2>1, <2>2, <2>3
<1>4. QED  BY <1>1, <1>2, <1>3

\* What a step does to the surplus.
LEMMA Surpluses ==
    ASSUME TypeOK, TypeOK', NEW t \in Tokens
    PROVE  /\ Surplus(t) \in Int /\ Surplus(t)' \in Int
           /\ losses' = losses /\ Open(t)' <= Open(t) => Surplus(t)' <= Surplus(t)
           /\ losses' = losses /\ Open(t)' <= Open(t) + 1 =>
                 Surplus(t)' <= Surplus(t) + ConsumeTTL
           /\ losses' = losses + 1 /\ Open(t)' = Open(t) =>
                 Surplus(t)' = Surplus(t) - ConsumeTTL
<1> DEFINE n == Open(t) - losses
           m == Open(t)' - losses'
<1>1. /\ Open(t) \in Nat /\ Open(t)' \in Nat /\ losses \in Nat /\ losses' \in Nat
      /\ ConsumeTTL \in Nat /\ ConsumeTTL' = ConsumeTTL
  BY OpenType, ConsumeTTLType DEF TypeOK, ConsumeTTL
<1>2. Surplus(t) = n * ConsumeTTL /\ Surplus(t)' = m * ConsumeTTL
  BY <1>1 DEF Surplus
<1>3. n \in Int /\ m \in Int /\ n + 1 \in Int
  BY <1>1
<1>4. /\ losses' = losses /\ Open(t)' <= Open(t) => m <= n
      /\ losses' = losses /\ Open(t)' <= Open(t) + 1 => m <= n + 1
      /\ losses' = losses + 1 /\ Open(t)' = Open(t) => m = n - 1
  BY <1>1
<1> HIDE DEF n, m
<1>5. n * ConsumeTTL \in Int /\ m * ConsumeTTL \in Int
  BY <1>1, <1>3, Products
<1>6. m <= n => m * ConsumeTTL <= n * ConsumeTTL
  BY <1>1, <1>3, Products
<1>7. m <= n + 1 => m * ConsumeTTL <= n * ConsumeTTL + ConsumeTTL
  <2>1. m <= n + 1 => m * ConsumeTTL <= (n + 1) * ConsumeTTL
    BY <1>1, <1>3, Products
  <2>2. (n + 1) * ConsumeTTL = n * ConsumeTTL + ConsumeTTL
    BY <1>1, <1>3, Products
  <2>3. QED  BY <2>1, <2>2
<1>8. m = n - 1 => m * ConsumeTTL = n * ConsumeTTL - ConsumeTTL
  BY <1>1, <1>3, Products
<1>9. QED  BY <1>2, <1>4, <1>5, <1>6, <1>7, <1>8

\* A step that lets nothing more through, at most lets a request with a token
\* that has not expired begin.
LEMMA SpacedKept ==
    ASSUME TypeOK, TypeOK', NEW t \in Tokens, Spaced(t),
           Open(t)' <= Open(t), losses' = losses,
           token'[t] = token[t], consumed'[t] = consumed[t],
           \A r \in Requests : Carries(r, t)' =>
              \/ Carries(r, t) /\ request'[r].age = request[r].age
              \/ token[t].life > 0
    PROVE  Spaced(t)'
<1> DEFINE lifetime == Lifetime(token[t].kind)
<1>1. /\ Surplus(t) \in Int /\ Surplus(t)' \in Int /\ Surplus(t)' <= Surplus(t)
      /\ Open(t) \in Nat /\ Open(t)' \in Nat
      /\ ConsumeTTL \in Nat /\ ConsumeTTL' = ConsumeTTL
  BY Surpluses, OpenType, ConsumeTTLType DEF ConsumeTTL
<1>2. /\ token[t].life \in Nat /\ lifetime \in Nat /\ consumed[t] \in Nat
      /\ \A r \in Requests : request'[r].age \in Nat
      /\ MaxPause \in Nat
  <2>1. \A r \in Requests : request'[r].age \in 0..MaxPause
    BY DEF TypeOK
  <2>2. QED  BY <2>1, Numbers, Constants
<1>3. Lifetime(token[t].kind)' = lifetime
  BY DEF Lifetime
<1>4. /\ Issued(t) \/ Open(t) = 0
      /\ consumed[t] <= ConsumeTTL
      /\ token[t].life > 0 => Surplus(t) <= lifetime - token[t].life + consumed[t]
      /\ \A r \in Requests :
            Carries(r, t) => Surplus(t) < lifetime + request[r].age + consumed[t]
      /\ Surplus(t) < lifetime + MaxPause + ConsumeTTL
  BY DEF Spaced
<1> HIDE DEF lifetime
<1>5. Issued(t)' \/ Open(t)' = 0
  BY <1>1, <1>4 DEF Issued
<1>6. ASSUME NEW r \in Requests, Carries(r, t)'
      PROVE  Surplus(t)' < lifetime + request'[r].age + consumed[t]
  <2>1. request'[r].age \in Nat
    BY <1>2
  <2>2. CASE Carries(r, t) /\ request'[r].age = request[r].age
    <3>1. Surplus(t) < lifetime + request'[r].age + consumed[t]
      BY <1>4, <2>2
    <3>2. QED  BY <1>1, <1>2, <2>1, <3>1
  <2>3. CASE token[t].life > 0
    BY <1>1, <1>2, <1>4, <2>1, <2>3
  <2>4. QED  BY <1>6, <2>2, <2>3
<1>7. token[t].life > 0 => Surplus(t)' <= lifetime - token[t].life + consumed[t]
  BY <1>1, <1>2, <1>4
<1>8. Surplus(t)' < lifetime + MaxPause + ConsumeTTL
  BY <1>1, <1>2, <1>4
<1>9. QED  BY <1>1, <1>3, <1>4, <1>5, <1>6, <1>7, <1>8 DEF Spaced

\* The key that a request writes lives for what the opening adds.
LEMMA SpacedConsume ==
    ASSUME TypeOK, TypeOK', Requested, NEW t \in Tokens, Spaced(t),
           Open(t)' <= Open(t) + 1, losses' = losses, token' = token,
           consumed[t] = 0, consumed'[t] = ConsumeTTL,
           NEW r \in Requests, Carries(r, t),
           \A q \in Requests :
              Carries(q, t)' => Carries(q, t) /\ request'[q].age = request[q].age
    PROVE  Spaced(t)'
<1> DEFINE lifetime == Lifetime(token[t].kind)
<1>1. /\ Surplus(t) \in Int /\ Surplus(t)' \in Int
      /\ Surplus(t)' <= Surplus(t) + ConsumeTTL
      /\ ConsumeTTL \in Nat /\ ConsumeTTL' = ConsumeTTL
  BY Surpluses, ConsumeTTLType DEF ConsumeTTL
<1>2. /\ token[t].life \in Nat /\ lifetime \in Nat /\ MaxPause \in Nat
      /\ \A q \in Requests : request[q].age \in Nat /\ request[q].age <= MaxPause
  BY Numbers, Constants
<1>3. Lifetime(token[t].kind)' = lifetime
  BY DEF Lifetime
<1>4. /\ token[t].life > 0 => Surplus(t) <= lifetime - token[t].life + 0
      /\ \A q \in Requests :
            Carries(q, t) => Surplus(t) < lifetime + request[q].age + 0
  BY DEF Spaced
<1> HIDE DEF lifetime
<1>5. Issued(t)'
  BY DEF Issued, Requested, Carries
<1>6. ASSUME NEW q \in Requests, Carries(q, t)'
      PROVE  Surplus(t)' < lifetime + request'[q].age + ConsumeTTL
  <2>1. request'[q].age \in Nat /\ Surplus(t) < lifetime + request'[q].age
    BY <1>2, <1>4, <1>6
  <2>2. QED  BY <1>1, <1>2, <2>1
<1>7. token[t].life > 0 => Surplus(t)' <= lifetime - token[t].life + ConsumeTTL
  BY <1>1, <1>2, <1>4
<1>8. Surplus(t)' < lifetime + MaxPause + ConsumeTTL
  <2>1. Surplus(t) < lifetime + request[r].age
    BY <1>2, <1>4
  <2>2. QED  BY <1>1, <1>2, <2>1
<1>9. QED  BY <1>1, <1>3, <1>5, <1>6, <1>7, <1>8 DEF Spaced

\* A new token has opened nothing, and nobody carries it.
LEMMA SpacedIssue ==
    ASSUME TypeOK, TypeOK', Requested, NEW t \in Tokens, Spaced(t),
           ~Issued(t), token'[t].user \in Users,
           token'[t].life = Lifetime(token'[t].kind),
           UNCHANGED <<consumed, request, losses, uses>>
    PROVE  Spaced(t)'
<1> DEFINE lifetime == Lifetime(token[t].kind)'
<1>1. Open(t) = 0 /\ consumed[t] = 0
  BY DEF Spaced, Requested
<1>2. Open(t)' = 0 /\ \A r \in Requests : ~Carries(r, t)'
  BY <1>1 DEF Open, InFlight, Requested, Carries, At
<1>3. /\ losses' \in Nat /\ lifetime \in Nat /\ MaxPause \in Nat
      /\ ConsumeTTL \in Nat /\ ConsumeTTL' = ConsumeTTL /\ ConsumeTTL # 0
  BY Constants, ConsumeTTLType DEF TypeOK, Lifetime, ConsumeTTL
<1>4. Surplus(t)' \in Int /\ Surplus(t)' <= 0
  <2>1. Surplus(t)' = (0 - losses') * ConsumeTTL
    BY <1>2, <1>3 DEF Surplus
  <2>2. 0 - losses' \in Int /\ 0 - losses' <= 0 /\ 0 * ConsumeTTL = 0
    BY <1>3
  <2>3. QED  BY <1>3, <2>1, <2>2, Products
<1>5. Issued(t)' /\ consumed'[t] = 0 /\ token'[t].life = lifetime
  BY <1>1, Constants DEF Issued, Lifetime
<1> HIDE DEF lifetime
<1>6. Surplus(t)' < lifetime + MaxPause + ConsumeTTL /\ Surplus(t)' <= lifetime - lifetime + 0
  BY <1>3, <1>4
<1>7. QED  BY <1>2, <1>3, <1>5, <1>6 DEF Spaced, lifetime

\* A tick takes one from the life of the key and adds one to the time that has
\* passed.
LEMMA SpacedTick ==
    ASSUME TypeOK, TypeOK', Requested, Tick, NEW t \in Tokens, Spaced(t)
    PROVE  Spaced(t)'
<1> DEFINE lifetime == Lifetime(token[t].kind)
<1>0. /\ token'[t].life = Older(token[t].life) /\ consumed'[t] = Older(consumed[t])
      /\ token'[t].user = token[t].user /\ token'[t].kind = token[t].kind
      /\ \A r \in Requests : /\ request'[r].pc = request[r].pc
                             /\ request'[r].token = request[r].token
                             /\ ~At(r, "idle") => request'[r].age = request[r].age + 1
      /\ UNCHANGED <<losses, uses>>
  BY TickEffect
<1>1. Open(t)' = Open(t)
  <2>1. InFlight(t)' = InFlight(t)
    BY <1>0 DEF InFlight
  <2>2. QED  BY <1>0, <2>1 DEF Open
<1>2. /\ Surplus(t) \in Int /\ Surplus(t)' = Surplus(t)
      /\ ConsumeTTL \in Nat /\ ConsumeTTL' = ConsumeTTL
  BY <1>0, <1>1, Surpluses, ConsumeTTLType DEF Surplus, ConsumeTTL
<1>3. /\ token[t].life \in Nat /\ lifetime \in Nat /\ consumed[t] \in Nat
      /\ \A r \in Requests : request[r].age \in Nat
      /\ MaxPause \in Nat
  BY Numbers, Constants
<1>4. Lifetime(token[t].kind)' = lifetime
  BY <1>0 DEF Lifetime
<1>5. /\ Issued(t) \/ Open(t) = 0
      /\ consumed[t] <= ConsumeTTL
      /\ token[t].life > 0 => Surplus(t) <= lifetime - token[t].life + consumed[t]
      /\ \A r \in Requests :
            Carries(r, t) => Surplus(t) < lifetime + request[r].age + consumed[t]
      /\ Surplus(t) < lifetime + MaxPause + ConsumeTTL
  BY DEF Spaced
<1> HIDE DEF lifetime
<1>6. /\ consumed'[t] \in Nat /\ consumed'[t] <= consumed[t]
      /\ consumed[t] <= consumed'[t] + 1
  BY <1>0, <1>3 DEF Older
<1>7. token'[t].life > 0 => token[t].life > 0 /\ token'[t].life = token[t].life - 1
  BY <1>0, <1>3 DEF Older
<1>8. token'[t].life > 0 => Surplus(t) <= lifetime - token'[t].life + consumed'[t]
  BY <1>2, <1>3, <1>5, <1>6, <1>7
<1>9. ASSUME NEW r \in Requests, Carries(r, t)'
      PROVE  Surplus(t) < lifetime + request'[r].age + consumed'[t]
  <2>1. Carries(r, t) /\ request'[r].age = request[r].age + 1
    BY <1>0, <1>9 DEF Carries, At
  <2>2. Surplus(t) < lifetime + request[r].age + consumed[t] /\ request[r].age \in Nat
    BY <1>3, <1>5, <2>1
  <2>3. QED  BY <1>2, <1>3, <1>6, <2>1, <2>2
<1>10. consumed'[t] <= ConsumeTTL
  BY <1>2, <1>3, <1>5, <1>6
<1>11. Issued(t)' \/ Open(t)' = 0
  BY <1>0, <1>1, <1>5 DEF Issued
<1>12. QED  BY <1>2, <1>4, <1>5, <1>8, <1>9, <1>10, <1>11 DEF Spaced

\* A key that is lost has less to live than its loss takes off.
LEMMA SpacedLoss ==
    ASSUME TypeOK, TypeOK', RedisLosesKey, NEW t \in Tokens, Spaced(t)
    PROVE  Spaced(t)'
<1> DEFINE lifetime == Lifetime(token[t].kind)
<1>0. consumed'[t] \in {0, consumed[t]} /\ losses' = losses + 1
      /\ UNCHANGED <<token, request, uses>>
  BY LossEffect
<1>1. Open(t)' = Open(t)
  BY <1>0 DEF Open, InFlight
<1>2. /\ Surplus(t) \in Int /\ Surplus(t)' = Surplus(t) - ConsumeTTL
      /\ ConsumeTTL \in Nat /\ ConsumeTTL' = ConsumeTTL
  BY <1>0, <1>1, Surpluses, ConsumeTTLType DEF ConsumeTTL
<1>3. /\ token[t].life \in Nat /\ lifetime \in Nat /\ consumed[t] \in Nat
      /\ \A r \in Requests : request[r].age \in Nat
      /\ MaxPause \in Nat
  BY Numbers, Constants
<1>4. Lifetime(token[t].kind)' = lifetime
  BY <1>0 DEF Lifetime
<1>5. /\ Issued(t) \/ Open(t) = 0
      /\ consumed[t] <= ConsumeTTL
      /\ token[t].life > 0 => Surplus(t) <= lifetime - token[t].life + consumed[t]
      /\ \A r \in Requests :
            Carries(r, t) => Surplus(t) < lifetime + request[r].age + consumed[t]
      /\ Surplus(t) < lifetime + MaxPause + ConsumeTTL
  BY DEF Spaced
<1> HIDE DEF lifetime
<1>6. consumed'[t] \in Nat /\ consumed'[t] <= ConsumeTTL /\ consumed[t] <= consumed'[t] + ConsumeTTL
  BY <1>0, <1>2, <1>3, <1>5
<1>7. token[t].life > 0 => Surplus(t)' <= lifetime - token[t].life + consumed'[t]
  BY <1>2, <1>3, <1>5, <1>6
<1>8. ASSUME NEW r \in Requests, Carries(r, t)
      PROVE  Surplus(t)' < lifetime + request[r].age + consumed'[t]
  <2>1. Surplus(t) < lifetime + request[r].age + consumed[t] /\ request[r].age \in Nat
    BY <1>3, <1>5, <1>8
  <2>2. QED  BY <1>2, <1>3, <1>6, <2>1
<1>9. Surplus(t)' < lifetime + MaxPause + ConsumeTTL
  BY <1>2, <1>3, <1>5
<1>10. Issued(t)' \/ Open(t)' = 0
  BY <1>0, <1>1, <1>5 DEF Issued
<1>11. \A r \in Requests : Carries(r, t)' => Carries(r, t)
  BY <1>0 DEF Carries, At
<1>12. QED  BY <1>0, <1>2, <1>4, <1>6, <1>7, <1>8, <1>9, <1>10, <1>11 DEF Spaced

LEMMA SpacedStep ==
    IInv /\ TypeOK' /\ [Next]_vars => \A t \in Tokens : Spaced(t)'
<1> SUFFICES ASSUME TypeOK, Requested, [Next]_vars, TypeOK', NEW t \in Tokens, Spaced(t)
             PROVE  Spaced(t)'
  BY DEF IInv
<1>0. Open(t) \in Nat /\ Open(t)' \in Nat
  BY OpenType
<1>1. ASSUME NEW s \in Tokens, NEW u \in Users, Issues(s, u) PROVE Spaced(t)'
  <2>1. UNCHANGED <<consumed, request, losses, uses>>
    BY <1>1, IssueEffect
  <2>2. CASE s = t
    BY <1>1, <2>1, <2>2, IssueEffect, SpacedIssue
  <2>3. CASE s # t
    <3>1. token'[t] = token[t]
      BY <1>1, <2>3, IssueEffect
    <3>2. Open(t)' <= Open(t)
      BY <1>0, <2>1 DEF Open, InFlight
    <3>3. QED  BY <2>1, <3>1, <3>2, SpacedKept DEF Carries, At
  <2>4. QED  BY <2>2, <2>3
<1>2. ASSUME NEW r \in Requests, NEW ip \in Ips,
             \/ \E u \in Users : JoinBegin(r, u, ip)
             \/ \E s \in Tokens : CheckoutBegin(r, s, ip)
      PROVE  Spaced(t)'
  <2>1. /\ \A q \in Requests \ {r} : request'[q] = request[q]
        /\ UNCHANGED <<token, consumed, losses, uses>>
        /\ \/ request'[r].pc = "limitIp" /\ request'[r].token = NoToken
           \/ request'[r].pc = "consume" /\ token[request'[r].token].life > 0
    BY <1>2, BeginEffect
  <2>2. InFlight(t)' \subseteq InFlight(t)
    BY <2>1, Constants DEF InFlight
  <2>3. Open(t)' <= Open(t)
    BY <2>1, <2>2, OpenKept
  <2>4. ASSUME NEW q \in Requests, Carries(q, t)'
        PROVE  \/ Carries(q, t) /\ request'[q].age = request[q].age
               \/ token[t].life > 0
    BY <2>1, <2>4 DEF Carries, At
  <2>5. QED  BY <2>1, <2>3, <2>4, SpacedKept
<1>3. ASSUME NEW r \in Requests, Passes(r) PROVE Spaced(t)'
  <2>1. /\ \A q \in Requests \ {r} : request'[q] = request[q]
        /\ request'[r].pc # "consume" /\ UNCHANGED <<token, losses>>
    BY <1>3, PassesEffect
  <2>2. \A q \in Requests :
           Carries(q, t)' => Carries(q, t) /\ request'[q].age = request[q].age
    BY <2>1 DEF Carries, At
  <2>3. CASE Open(t)' <= Open(t) /\ consumed'[t] = consumed[t]
    BY <2>1, <2>2, <2>3, SpacedKept
  <2>4. CASE /\ Open(t)' <= Open(t) + 1 /\ Carries(r, t)
             /\ consumed[t] = 0 /\ consumed'[t] = ConsumeTTL
    BY <2>1, <2>2, <2>4, SpacedConsume
  <2>5. Open(t)' <= Open(t) => Open(t)' <= Open(t) + 1
    BY <1>0
  <2>6. QED  BY <1>3, <2>3, <2>4, <2>5, PassesOpen, ConsumedEffect
<1>4. CASE UNCHANGED vars
  <2>1. UNCHANGED <<token, consumed, request, losses, uses>>
    BY <1>4 DEF vars
  <2>2. Open(t)' <= Open(t)
    BY <1>0, <2>1 DEF Open, InFlight
  <2>3. QED  BY <2>1, <2>2, SpacedKept DEF Carries, At
<1>5. QED  BY <1>1, <1>2, <1>3, <1>4, SpacedTick, SpacedLoss DEF Next, Passes, Issues

----------------------------------------------------------------------------
(* How many attempts pass in a window.                                     *)

LEMMA LimitType == ASSUME NEW k \in LimitKeys PROVE Limit(k) \in Nat /\ Limit(k) > 0
<1>1. \A n \in {IpJoin, UserJoin, IpCheckout, UserCheckout} : n \in Nat /\ n > 0
  BY ConstantsAssumption
<1>2. Limit(k) \in {IpJoin, UserJoin, IpCheckout, UserCheckout}
  BY DEF Limit
<1>3. QED  BY <1>1, <1>2

LEMMA WindowNumbers ==
    ASSUME TypeOK, NEW k \in LimitKeys
    PROVE  /\ counter[k].n \in Nat /\ counter[k].life \in Nat /\ counter[k].life <= Window
           /\ \A a \in Ages : passed[k][a] \in Nat
           /\ losses \in Nat /\ Excess(k) \in Nat
           /\ Counted(k) \in Nat /\ Counted(k) <= Limit(k)
<1>1. counter[k] \in [n : Nat, life : 0..Window] /\ losses \in Nat
  BY DEF TypeOK
<1>2. counter[k].n \in Nat /\ counter[k].life \in Nat /\ counter[k].life <= Window
  BY <1>1, Constants
<1>3. \A a \in Ages : passed[k][a] \in Nat
  BY DEF TypeOK
<1>4. Limit(k) * losses \in Nat
  BY <1>1, LimitType
<1>5. Counted(k) \in Nat /\ Counted(k) <= Limit(k)
  BY <1>2, LimitType DEF Counted
<1>6. QED  BY <1>1, <1>2, <1>3, <1>4, <1>5 DEF Excess

LEMMA AgesEnds == 0 \in Ages /\ Window - 1 \in Ages /\ \A a \in Ages : a \in Nat /\ a < Window
  BY Constants DEF Ages

\* A key that a step does not touch.
LEMMA WindowKept ==
    ASSUME NEW k \in LimitKeys, WindowCounted(k),
           counter'[k] = counter[k], passed'[k] = passed[k], losses' = losses
    PROVE  WindowCounted(k)'
  BY DEF WindowCounted, Counted, Excess

LEMMA InitWindow == Init => \A k \in LimitKeys : WindowCounted(k)
<1> SUFFICES ASSUME Init, NEW k \in LimitKeys PROVE WindowCounted(k)
  OBVIOUS
<1>1. counter[k].n = 0 /\ counter[k].life = 0 /\ losses = 0
  BY DEF Init, NoKey
<1>2. \A a \in Ages : passed[k][a] = 0
  BY DEF Init
<1>3. Excess(k) = 0 /\ Counted(k) = 0
  BY <1>1, LimitType DEF Excess, Counted
<1>4. QED  BY <1>1, <1>2, <1>3 DEF WindowCounted

\* Whoever passes is counted, and the counter then outlives the window.
LEMMA PassCounted ==
    ASSUME TypeOK, NEW k \in LimitKeys, AllowPasses(k), losses' = losses, WindowCounted(k)
    PROVE  WindowCounted(k)'
<1>0. /\ counter[k].n \in Nat /\ Limit(k) \in Nat /\ Excess(k) \in Nat
      /\ \A a \in Ages : passed[k][a] \in Nat
  BY WindowNumbers, LimitType
<1>1. counter[k].n < Limit(k)
  BY DEF AllowPasses
<1>2. counter'[k] = IncrExpire(k) /\ passed'[k] = [a \in Ages |-> passed[k][a] + 1]
  BY DEF AllowPasses, TypeOK
<1>3. counter'[k].n = counter[k].n + 1 /\ counter'[k].life = Window
  <2>1. ~(counter[k].n > Limit(k))
    BY <1>0, <1>1
  <2>2. QED  BY <1>2, <2>1 DEF IncrExpire, Incr
<1>4. Counted(k) = counter[k].n /\ Counted(k)' = counter[k].n + 1
  BY <1>0, <1>1, <1>3 DEF Counted
<1>5. Excess(k)' = Excess(k)
  BY DEF Excess
<1>6. ASSUME NEW a \in Ages PROVE passed'[k][a] <= Excess(k)' + Counted(k)'
  <2>1. passed[k][a] \in Nat /\ passed[k][a] <= Excess(k) + Counted(k)
    BY <1>0 DEF WindowCounted
  <2>2. passed'[k][a] = passed[k][a] + 1
    BY <1>2
  <2>3. QED  BY <1>0, <1>4, <1>5, <2>1, <2>2
<1>7. ASSUME NEW a \in Ages PROVE ~(a + counter'[k].life < Window)
  BY <1>3, AgesEnds, Constants
<1>8. QED  BY <1>6, <1>7 DEF WindowCounted

\* A refusal never lowers the counter nor shortens its life.
LEMMA RefusalCounted ==
    ASSUME TypeOK, NEW k \in LimitKeys, AllowRefuses(k), losses' = losses, WindowCounted(k)
    PROVE  WindowCounted(k)'
<1>0. /\ counter[k].n \in Nat /\ Limit(k) \in Nat /\ Excess(k) \in Nat
      /\ \A a \in Ages : passed[k][a] \in Nat
  BY WindowNumbers, LimitType
<1>1. /\ counter'[k].n = Incr(k) /\ counter'[k].life \in {Window, counter[k].life}
      /\ passed' = passed
  BY DEF AllowRefuses, TypeOK, IncrExpire
<1>2. Counted(k) \in Nat /\ Counted(k)' \in Nat /\ Counted(k) <= Counted(k)'
  <2>1. Incr(k) \in Nat /\ counter[k].n <= Incr(k)
    BY <1>0 DEF Incr
  <2>2. QED  BY <1>0, <1>1, <2>1 DEF Counted
<1>3. Excess(k)' = Excess(k)
  BY DEF Excess
<1>4. ASSUME NEW a \in Ages PROVE passed'[k][a] <= Excess(k)' + Counted(k)'
  <2>1. passed[k][a] \in Nat /\ passed[k][a] <= Excess(k) + Counted(k)
    BY <1>0 DEF WindowCounted
  <2>2. QED  BY <1>0, <1>1, <1>2, <1>3, <2>1
<1>5. ASSUME NEW a \in Ages, counter'[k].life # 0, a + counter'[k].life < Window
      PROVE  passed'[k][a] <= Excess(k)'
  <2>1. counter'[k].life = counter[k].life
    BY <1>1, <1>5, AgesEnds, Constants
  <2>2. QED  BY <1>1, <1>3, <1>5, <2>1 DEF WindowCounted
<1>6. QED  BY <1>4, <1>5 DEF WindowCounted

LEMMA AllowCounted ==
    ASSUME TypeOK, NEW j \in LimitKeys, AllowPasses(j) \/ AllowRefuses(j),
           losses' = losses, NEW k \in LimitKeys, WindowCounted(k)
    PROVE  WindowCounted(k)'
<1>1. CASE j = k
  BY <1>1, PassCounted, RefusalCounted
<1>2. CASE j # k
  <2>1. counter'[k] = counter[k] /\ passed'[k] = passed[k]
    BY <1>2 DEF AllowPasses, AllowRefuses, TypeOK
  <2>2. QED  BY <2>1, WindowKept
<1>3. QED  BY <1>1, <1>2

\* A counter that expires leaves nothing behind that it would have to count;
\* any other grows older with what it counts.
LEMMA TickCounted ==
    ASSUME TypeOK, Tick, NEW k \in LimitKeys, WindowCounted(k)
    PROVE  WindowCounted(k)'
<1>0. /\ counter[k].n \in Nat /\ counter[k].life \in Nat /\ counter[k].life <= Window
      /\ Excess(k) \in Nat /\ Counted(k) \in Nat /\ Limit(k) \in Nat
      /\ \A a \in Ages : passed[k][a] \in Nat
  BY WindowNumbers, LimitType
<1>1. losses' = losses /\ Excess(k)' = Excess(k)
  BY DEF Tick, Excess
<1>2. ASSUME NEW a \in Ages
      PROVE  /\ a = 0 => passed'[k][a] = 0
             /\ a # 0 => a - 1 \in Ages /\ passed'[k][a] = passed[k][a - 1]
  <2>1. passed'[k] = [b \in Ages |-> IF b = 0 THEN 0 ELSE passed[k][b - 1]]
    BY DEF Tick
  <2>2. a # 0 => a - 1 \in Ages
    BY Constants DEF Ages
  <2>3. QED  BY <2>1, <2>2
\* What is younger than the rest of the counter's life.
<1>3. ASSUME NEW a \in Ages, counter[k].life # 0, a + counter[k].life <= Window
      PROVE  passed'[k][a] <= Excess(k)
  <2>1. CASE a = 0
    BY <1>0, <1>2, <2>1
  <2>2. CASE a # 0
    <3>1. a - 1 \in Ages /\ (a - 1) + counter[k].life < Window
      BY <1>0, <1>2, <1>3, <2>2, AgesEnds, Constants
    <3>2. passed[k][a - 1] <= Excess(k)
      BY <1>3, <3>1 DEF WindowCounted
    <3>3. QED  BY <1>2, <2>2, <3>2
  <2>3. QED  BY <2>1, <2>2
<1>4. CASE counter[k].life = 1
  <2>1. counter'[k] = NoKey
    BY <1>4 DEF Tick
  <2>2. Counted(k)' = 0 /\ counter'[k].life = 0
    BY <2>1, LimitType DEF Counted, NoKey
  <2>3. \A a \in Ages : passed'[k][a] <= Excess(k)
    BY <1>3, <1>4, AgesEnds, Constants
  <2>4. QED  BY <1>0, <1>1, <2>2, <2>3 DEF WindowCounted
<1>5. CASE counter[k].life # 1
  <2>1. counter'[k].n = counter[k].n /\ counter'[k].life = Older(counter[k].life)
    BY <1>5 DEF Tick, TypeOK
  <2>2. Counted(k)' = Counted(k)
    BY <2>1 DEF Counted
  <2>3. ASSUME NEW a \in Ages PROVE passed'[k][a] <= Excess(k) + Counted(k)
    <3>1. CASE a = 0
      BY <1>0, <1>2, <3>1
    <3>2. CASE a # 0
      BY <1>2, <3>2 DEF WindowCounted
    <3>3. QED  BY <3>1, <3>2
  <2>4. ASSUME NEW a \in Ages, counter'[k].life # 0, a + counter'[k].life < Window
        PROVE  passed'[k][a] <= Excess(k)
    <3>1. counter[k].life # 0 /\ a + counter[k].life <= Window
      BY <1>0, <2>1, <2>4, AgesEnds, Constants DEF Older
    <3>2. QED  BY <1>3, <3>1
  <2>5. QED  BY <1>1, <2>2, <2>3, <2>4 DEF WindowCounted
<1>6. QED  BY <1>4, <1>5

\* What a lost counter had counted is put down to its loss.
LEMMA LossCounted ==
    ASSUME TypeOK, RedisLosesKey, NEW k \in LimitKeys, WindowCounted(k)
    PROVE  WindowCounted(k)'
<1>0. /\ Excess(k) \in Nat /\ Counted(k) \in Nat /\ Counted(k) <= Limit(k)
      /\ \A a \in Ages : passed[k][a] \in Nat
      /\ Limit(k) \in Nat /\ losses \in Nat
  BY WindowNumbers, LimitType
<1>1. losses' = losses + 1 /\ passed' = passed
  BY DEF RedisLosesKey
<1>2. Excess(k)' = Excess(k) + Limit(k)
  <2>1. \A l, m \in Nat : l * (m + 1) = l * m + l
    OBVIOUS
  <2>2. Excess(k)' = Limit(k) * (losses + 1)
    BY <1>1 DEF Excess
  <2>3. QED  BY <1>0, <2>1, <2>2 DEF Excess
<1>3. \A a \in Ages : passed[k][a] <= Excess(k) + Counted(k)
  BY DEF WindowCounted
<1>4. CASE counter'[k] = counter[k]
  <2>1. Counted(k)' = Counted(k)
    BY <1>4 DEF Counted
  <2>2. \A a \in Ages : passed'[k][a] <= Excess(k)' + Counted(k)'
    BY <1>0, <1>1, <1>2, <1>3, <2>1
  <2>3. ASSUME NEW a \in Ages, counter'[k].life # 0, a + counter'[k].life < Window
        PROVE  passed'[k][a] <= Excess(k)'
    <3>1. passed[k][a] <= Excess(k)
      BY <1>4, <2>3 DEF WindowCounted
    <3>2. QED  BY <1>0, <1>1, <1>2, <3>1
  <2>4. QED  BY <2>2, <2>3 DEF WindowCounted
<1>5. CASE counter'[k] = NoKey
  <2>1. Counted(k)' = 0 /\ counter'[k].life = 0
    BY <1>5, LimitType DEF Counted, NoKey
  <2>2. \A a \in Ages : passed'[k][a] <= Excess(k)' + Counted(k)'
    BY <1>0, <1>1, <1>2, <1>3, <2>1
  <2>3. QED  BY <2>1, <2>2 DEF WindowCounted
<1>6. counter'[k] = counter[k] \/ counter'[k] = NoKey
  BY DEF RedisLosesKey, TypeOK
<1>7. QED  BY <1>4, <1>5, <1>6

LEMMA WindowStep ==
    IInv /\ [Next]_vars => \A k \in LimitKeys : WindowCounted(k)'
<1> SUFFICES ASSUME TypeOK, Requested, [Next]_vars, NEW k \in LimitKeys, WindowCounted(k)
             PROVE  WindowCounted(k)'
  BY DEF IInv
<1>1. CASE UNCHANGED <<counter, passed, losses>>
  BY <1>1, WindowKept
<1>2. ASSUME NEW r \in Requests, AllowIp(r) \/ AllowUser(r) PROVE WindowCounted(k)'
  <2>1. ~At(r, "idle") /\ losses' = losses
    BY <1>2 DEF AllowIp, AllowUser, At
  <2>2. \E j \in LimitKeys : AllowPasses(j) \/ AllowRefuses(j)
    BY <1>2, <2>1, LimitKey DEF AllowIp, AllowUser
  <2>3. QED  BY <2>1, <2>2, AllowCounted
<1>3. ASSUME NEW r \in Requests, CheckoutConsume(r) \/ RequestDies(r)
      PROVE  UNCHANGED <<counter, passed, losses>>
  BY <1>3 DEF CheckoutConsume, RequestDies
<1>4. ASSUME NEW r \in Requests, NEW ip \in Ips,
             \/ \E u \in Users : JoinBegin(r, u, ip)
             \/ \E t \in Tokens : CheckoutBegin(r, t, ip)
      PROVE  UNCHANGED <<counter, passed, losses>>
  BY <1>4 DEF JoinBegin, CheckoutBegin
<1>5. ASSUME NEW t \in Tokens, NEW u \in Users, Issues(t, u)
      PROVE  UNCHANGED <<counter, passed, losses>>
  BY <1>5, IssueEffect
<1>6. UNCHANGED vars => UNCHANGED <<counter, passed, losses>>
  BY DEF vars
<1>7. QED  BY <1>1, <1>2, <1>3, <1>4, <1>5, <1>6, TickCounted, LossCounted DEF Next, Issues

----------------------------------------------------------------------------
(* The theorems.                                                           *)

LEMMA InitIInv == Init => IInv
<1> SUFFICES ASSUME Init PROVE IInv
  OBVIOUS
<1>1. /\ \A t \in Tokens : token[t] = NotIssued /\ consumed[t] = 0 /\ uses[t] = 0
      /\ \A r \in Requests : request[r] = Idle
      /\ losses = 0
  BY DEF Init
<1>2. TypeOK
  <2>1. NotIssued \in TokenStates
    BY Constants DEF NotIssued, TokenStates
  <2>2. NoKey \in [n : Nat, life : 0..Window]
    BY Constants DEF NoKey
  <2>3. /\ token \in [Tokens -> TokenStates]
        /\ counter \in [LimitKeys -> [n : Nat, life : 0..Window]]
    BY <2>1, <2>2 DEF Init
  <2>4. request \in [Requests -> RequestStates]
    BY IdleType DEF Init
  <2>5. \A r \in Requests : At(r, "idle")
    BY <1>1, IdleType DEF At
  <2>6. /\ consumed \in [Tokens -> Nat] /\ uses \in [Tokens -> Nat] /\ losses \in Nat
        /\ passed \in [LimitKeys -> [Ages -> Nat]]
    BY DEF Init
  <2>7. QED  BY <2>3, <2>4, <2>5, <2>6 DEF TypeOK, RequestStates, TokenStates
<1>3. \A r \in Requests : At(r, "idle") /\ ~At(r, "consume")
  BY <1>1, IdleType DEF At
<1>4. \A t \in Tokens : token[t].life = 0
  BY <1>1 DEF NotIssued
<1>5. Requested
  BY <1>1, <1>3, <1>4, IdleType DEF Requested
<1>6. ASSUME NEW t \in Tokens PROVE Spaced(t)
  <2>1. InFlight(t) = {}
    BY <1>1, IdleType DEF InFlight
  <2>2. Open(t) = 0
    BY <1>1, <2>1, FS_EmptySet DEF Open
  <2>3. Surplus(t) = 0
    BY <1>1, <2>2, ConsumeTTLType DEF Surplus
  <2>4. \A r \in Requests : ~Carries(r, t)
    BY <1>3 DEF Carries
  <2>5. Lifetime(token[t].kind) \in Nat
    BY Constants DEF Lifetime
  <2>6. 0 < Lifetime(token[t].kind) + MaxPause + ConsumeTTL
    BY <2>5, Constants, ConsumeTTLType
  <2>7. QED  BY <1>1, <1>4, <2>2, <2>3, <2>4, <2>6, ConsumeTTLType DEF Spaced
<1>7. QED  BY <1>2, <1>5, <1>6, InitWindow DEF IInv

LEMMA Invariance == Spec => []IInv
<1>1. IInv /\ [Next]_vars => IInv'
  BY TypeStep, RequestedStep, SpacedStep, WindowStep DEF IInv
<1>2. QED  BY InitIInv, <1>1, PTL DEF Spec

\* The type of every variable; a request that is past the middleware has a user,
\* so that the limiter counts it under somebody (handlers.go, auth.go).
THEOREM TypeCorrect == Spec => []TypeOK
<1>1. IInv => TypeOK
  BY DEF IInv
<1>2. QED  BY Invariance, <1>1, PTL

\* What has opened a checkout is less than what the surplus counts.
LEMMA UsesSurplus ==
    ASSUME IInv, NEW t \in Tokens
    PROVE  /\ (uses[t] - losses) * ConsumeTTL \in Int
           /\ (uses[t] - losses) * ConsumeTTL
                 < Lifetime(token[t].kind) + MaxPause + ConsumeTTL
<1>1. TypeOK /\ Spaced(t)
  BY DEF IInv
<1>2. /\ uses[t] \in Nat /\ losses \in Nat /\ Cardinality(InFlight(t)) \in Nat
      /\ Lifetime(token[t].kind) \in Nat /\ MaxPause \in Nat /\ ConsumeTTL \in Nat
  <2>1. Cardinality(InFlight(t)) \in Nat
    BY Flights
  <2>2. QED  BY <1>1, <2>1, Numbers, Constants, ConsumeTTLType
<1> DEFINE n == uses[t] - losses
           m == Open(t) - losses
<1>3. n \in Int /\ m \in Int /\ n <= m
  BY <1>2 DEF Open
<1>4. Surplus(t) = m * ConsumeTTL
  BY DEF Surplus
<1> HIDE DEF n, m
<1>5. n * ConsumeTTL \in Int /\ m * ConsumeTTL \in Int /\ n * ConsumeTTL <= m * ConsumeTTL
  BY <1>2, <1>3, Products
<1>6. m * ConsumeTTL < Lifetime(token[t].kind) + MaxPause + ConsumeTTL
  BY <1>1, <1>4 DEF Spaced
<1>7. n * ConsumeTTL < Lifetime(token[t].kind) + MaxPause + ConsumeTTL
  BY <1>2, <1>5, <1>6
<1>8. QED  BY <1>5, <1>7 DEF n

\* ConsumeAdmission lets a token that Status issued open one checkout, and one
\* more for each key that Redis loses, as long as no request lives longer than
\* such a token (handlers.go: the key lives for 2 * AdmissionTTL).
THEOREM TokenOnce == Spec => []TokenUsedOnce
<1>1. IInv => TokenUsedOnce
  <2>1. SUFFICES ASSUME IInv, NEW t \in Tokens, token[t].kind = "admission",
                        uses[t] > 1 + losses
                 PROVE  FALSE
    <3>1. \A t \in Tokens : IInv => uses[t] \in Nat /\ losses \in Nat
      BY Numbers DEF IInv
    <3>2. QED  BY <3>1 DEF TokenUsedOnce
  <2> DEFINE n == uses[t] - losses
  <2>2. n \in Int /\ 2 <= n
    <3>1. uses[t] \in Nat /\ losses \in Nat
      BY <2>1, Numbers DEF IInv
    <3>2. QED  BY <2>1, <3>1
  <2>3. n * ConsumeTTL \in Int /\ n * ConsumeTTL < AdmissionTTL + MaxPause + ConsumeTTL
    BY <2>1, UsesSurplus DEF Lifetime
  <2> HIDE DEF n
  <2>4. 2 * ConsumeTTL <= n * ConsumeTTL
    BY <2>2, ConsumeTTLType, Products
  <2>5. QED  BY <2>3, <2>4, ConsumeTTLType, Constants
<1>2. QED  BY Invariance, <1>1, PTL

\* A token of either kind opens one checkout in every life of its key: the
\* middleware does not tell the kinds apart, and a user's token lives much longer
\* (auth.go, AdmissionMiddleware; handlers.go, register and login).
THEOREM SpacedUses == Spec => []UsesSpaced
<1>1. IInv => UsesSpaced
  <2>1. SUFFICES ASSUME IInv, NEW t \in Tokens
                 PROVE  uses[t] * ConsumeTTL
                           < Lifetime(token[t].kind) + MaxPause + (1 + losses) * ConsumeTTL
    BY DEF UsesSpaced, ConsumeTTL
  <2>2. /\ uses[t] \in Nat /\ losses \in Nat /\ ConsumeTTL \in Nat
        /\ Lifetime(token[t].kind) \in Nat /\ MaxPause \in Nat
    BY <2>1, Numbers, ConsumeTTLType, Constants DEF IInv
  <2>3. (uses[t] - losses) * ConsumeTTL = uses[t] * ConsumeTTL - losses * ConsumeTTL
    <3>1. \A i, j, k \in Int : (i - j) * k = i * k - j * k
      OBVIOUS
    <3>2. QED  BY <2>2, <3>1
  <2>4. (1 + losses) * ConsumeTTL = ConsumeTTL + losses * ConsumeTTL
    <3>1. \A j, k \in Int : (1 + j) * k = k + j * k
      OBVIOUS
    <3>2. QED  BY <2>2, <3>1
  <2>5. uses[t] * ConsumeTTL \in Int /\ losses * ConsumeTTL \in Int
    BY <2>2, Products
  <2>6. QED  BY <2>1, <2>2, <2>3, <2>4, <2>5, UsesSurplus
<1>2. QED  BY Invariance, <1>1, PTL

\* The fixed-window counter that Allow renews with every attempt lets no more
\* than the limit through in any stretch of time as long as the window, and as
\* many again for each key that Redis loses (antibot/limiter.go).
THEOREM WindowHolds == Spec => []WindowLimit
<1>1. IInv => WindowLimit
  <2>1. SUFFICES ASSUME TypeOK, NEW k \in LimitKeys, WindowCounted(k)
                 PROVE  passed[k][Window - 1] <= Limit(k) * (1 + losses)
    BY DEF IInv, WindowLimit
  <2>2. passed[k][Window - 1] <= Excess(k) + Counted(k) /\ passed[k][Window - 1] \in Nat
    BY <2>1, AgesEnds, WindowNumbers DEF WindowCounted
  <2>3. /\ Counted(k) \in Nat /\ Counted(k) <= Limit(k)
        /\ Excess(k) \in Nat /\ Limit(k) \in Nat /\ losses \in Nat
    BY <2>1, WindowNumbers, LimitType
  <2>4. Limit(k) * (1 + losses) = Excess(k) + Limit(k)
    <3>1. \A l, m \in Nat : l * (1 + m) = l * m + l
      OBVIOUS
    <3>2. QED  BY <2>3, <3>1 DEF Excess
  <2>5. QED  BY <2>2, <2>3, <2>4
<1>2. QED  BY Invariance, <1>1, PTL

============================================================================
