---------------------------- MODULE CheckoutGate ----------------------------
(***************************************************************************)
(* What stands before a join and before a checkout of one sale: the tokens *)
(* that login and Status issue and the middleware that reads them          *)
(* (internal/auth/auth.go), the record of the tokens that were used        *)
(* (internal/auth/admission.go), the rate limiter                          *)
(* (internal/antibot/limiter.go), and the order in which the handlers      *)
(* queueJoin and checkout (internal/httpapi/handlers.go) apply them.       *)
(*                                                                         *)
(* Requests interleave at every Redis call, and time passes in between.    *)
(* Allow pipelines INCR and EXPIRE in one buffer, which Redis executes at  *)
(* once; if the connection breaks the first may be applied alone.  Times   *)
(* are what is left of a life, as Redis keeps them, so that the clock      *)
(* needs no bound.                                                         *)
(* Signatures are not modelled: a token is one that the program issued.    *)
(* Both kinds are signed with one secret, and carry the user and an id     *)
(* under the same names.                                                   *)
(***************************************************************************)
EXTENDS Naturals, FiniteSets

CONSTANTS
    Users, Ips,
    NoUser, NoIp, NoToken,  \* fields of a request that has none
    Requests,       \* API requests that may be in flight at one time
    Tokens,         \* bound: the ids of all the tokens ever issued
    AdmissionTTL,   \* config: 60 seconds
    UserTTL,        \* 24 hours
    Window,         \* the limiter's window, one minute
    IpJoin, UserJoin, IpCheckout, UserCheckout,  \* limits: 30, 10, 3 and 5
    MaxPause,       \* the longest a request takes to get through the gate
    MaxLosses       \* bound: number of keys that Redis loses

\* Redis calls time out after seconds, so no request spends as long as an
\* admission token lives between the check of its token and its last call.
ASSUME ConstantsAssumption ==
    /\ IsFiniteSet(Requests)
    /\ NoUser \notin Users /\ NoIp \notin Ips /\ NoToken \notin Tokens
    /\ {AdmissionTTL, UserTTL, Window} \subseteq Nat \ {0}
    /\ {IpJoin, UserJoin, IpCheckout, UserCheckout} \subseteq Nat \ {0}
    /\ MaxPause \in Nat /\ MaxPause <= AdmissionTTL
    /\ MaxLosses \in Nat

VARIABLES
    token,     \* owner, kind and remaining life of every token issued
    consumed,  \* Redis admission:used:...:consumed: its remaining life, or 0
    counter,   \* Redis ratelimit:...: value and remaining life; a life of 0
               \* with a value is a key without expiry
    request,
    losses,
    \* What has come through.
    uses,      \* how many checkouts each token opened
    passed     \* passed[k][a]: how many attempts on a key that are no older than
               \* `a` the limiter let through; the window is the ages below Window

vars == <<token, consumed, counter, request, losses, uses, passed>>

Handlers == {"join", "checkout"}

\* The kinds of key, "ip_join" for <<"join", "ip">> and so on.
LimitKeys == Handlers \X ({"ip"} \X Ips \cup {"user"} \X Users)

Limit(k) ==
    CASE k[1] = "join" /\ k[2][1] = "ip" -> IpJoin
      [] k[1] = "join" /\ k[2][1] = "user" -> UserJoin
      [] k[1] = "checkout" /\ k[2][1] = "ip" -> IpCheckout
      [] OTHER -> UserCheckout

Ages == 0..(Window - 1)

NotIssued == [user |-> NoUser, kind |-> "none", life |-> 0]
Lifetime(kind) == IF kind = "user" THEN UserTTL ELSE AdmissionTTL
NoKey == [n |-> 0, life |-> 0]
Idle ==
    [pc |-> "idle", handler |-> "join", user |-> NoUser, ip |-> NoIp,
     token |-> NoToken, age |-> 0]

At(r, pc) == request[r].pc = pc
Goto(r, rec) == request' = [request EXCEPT ![r] = rec]
Finish(r) == Goto(r, Idle)

----------------------------------------------------------------------------
Issue(t, u, kind) ==
    /\ token[t] = NotIssued
    /\ token' = [token EXCEPT ![t] = [user |-> u, kind |-> kind, life |-> Lifetime(kind)]]
    /\ UNCHANGED <<consumed, counter, request, losses, uses, passed>>

\* Called by every Status of an admitted user.
IssueAdmissionToken(t, u) == Issue(t, u, "admission")

\* A slip: claims without the user.
IssueUserTokenAnonymous(t, u) == Issue(t, NoUser, "user")

\* Called by register and login.
IssueUserToken(t, u) == Issue(t, u, "user")

\* Middleware and queueJoin.  Whoever has logged in has a token that will do,
\* and one of either kind will, so no user is ever kept from joining.
JoinBegin(r, u, ip) ==
    /\ At(r, "idle")
    /\ Goto(r, [Idle EXCEPT !.pc = "limitIp", !.user = u, !.ip = ip])
    /\ UNCHANGED <<token, consumed, counter, losses, uses, passed>>

\* AdmissionMiddleware lets a token through until it expires, for any number of
\* requests, and whatever its kind; the user is the token's.
CheckoutBegin(r, t, ip) ==
    /\ At(r, "idle")
    /\ token[t].life > 0
    /\ Goto(r, [pc |-> "consume", handler |-> "checkout", user |-> token[t].user,
                ip |-> ip, token |-> t, age |-> 0])
    /\ UNCHANGED <<token, consumed, counter, losses, uses, passed>>

\* A slip: the key lives as long as an admission token and not twice as long.
ConsumeTTLOnce == AdmissionTTL

\* handlers.go: s.cfg.AdmissionTTL*2.
ConsumeTTL == 2 * AdmissionTTL

\* A slip: SET, which an earlier use does not stop.
CheckoutConsumeSet(r) ==
    /\ At(r, "consume")
    /\ consumed' = [consumed EXCEPT ![request[r].token] = ConsumeTTL]
    /\ Goto(r, [request[r] EXCEPT !.pc = "limitIp"])
    /\ UNCHANGED <<token, counter, losses, uses, passed>>

\* ConsumeAdmission: SETNX with a TTL.  It comes before the limiter, so that a
\* checkout the limiter refuses has used its token up.
CheckoutConsume(r) ==
    /\ At(r, "consume")
    /\ LET t == request[r].token IN
       IF consumed[t] = 0
       THEN /\ consumed' = [consumed EXCEPT ![t] = ConsumeTTL]
            /\ Goto(r, [request[r] EXCEPT !.pc = "limitIp"])
       ELSE Finish(r) /\ UNCHANGED consumed
    /\ UNCHANGED <<token, counter, losses, uses, passed>>

\* A counter is counted to one above its limit; beyond that it is all the same.
Incr(k) == IF counter[k].n > Limit(k) THEN counter[k].n ELSE counter[k].n + 1

\* A slip, or an attempt to end the refusals of a client that goes on trying:
\* EXPIRE only a new key.
IncrExpireNew(k) ==
    [n |-> Incr(k), life |-> IF counter[k].n = 0 THEN Window ELSE counter[k].life]

\* INCR and EXPIRE: every attempt renews the key's life, a refused one too.
IncrExpire(k) == [n |-> Incr(k), life |-> Window]

\* Allow lets the attempt through.
AllowPasses(k) ==
    /\ counter[k].n < Limit(k)
    /\ counter' = [counter EXCEPT ![k] = IncrExpire(k)]
    /\ passed' = [passed EXCEPT ![k] = [a \in Ages |-> @[a] + 1]]

\* Allow refuses it, or fails with INCR alone applied, which both handlers take
\* for a refusal.
AllowRefuses(k) ==
    /\ \/ /\ counter[k].n >= Limit(k)
          /\ counter' = [counter EXCEPT ![k] = IncrExpire(k)]
       \/ counter' = [counter EXCEPT ![k].n = Incr(k)]
    /\ UNCHANGED passed

\* AllowJoin and AllowCheckout begin with the client's address.
AllowIp(r) ==
    /\ At(r, "limitIp")
    /\ LET k == <<request[r].handler, <<"ip", request[r].ip>>>> IN
       \/ AllowPasses(k) /\ Goto(r, [request[r] EXCEPT !.pc = "limitUser"])
       \/ AllowRefuses(k) /\ Finish(r)
    /\ UNCHANGED <<token, consumed, losses, uses>>

\* They go on with the user; whoever passes reaches Join or Checkout, which
\* other modules model.
AllowUser(r) ==
    /\ At(r, "limitUser")
    /\ LET k == <<request[r].handler, <<"user", request[r].user>>>> IN
       \/ /\ AllowPasses(k)
          /\ uses' = [t \in Tokens |-> IF t = request[r].token
                                       THEN uses[t] + 1 ELSE uses[t]]
       \/ AllowRefuses(k) /\ UNCHANGED uses
    /\ Finish(r)
    /\ UNCHANGED <<token, consumed, losses>>

\* The client goes away, or a Redis call fails without effect.
RequestDies(r) ==
    /\ ~At(r, "idle")
    /\ Finish(r)
    /\ UNCHANGED <<token, consumed, counter, losses, uses, passed>>

----------------------------------------------------------------------------
\* What is left of a life one tick later.
Older(life) == IF life = 0 THEN 0 ELSE life - 1

\* Time passes, and Redis drops the keys whose time has come.
Tick ==
    /\ \A r \in Requests : ~At(r, "idle") => request[r].age < MaxPause
    /\ token' = [t \in Tokens |-> [token[t] EXCEPT !.life = Older(@)]]
    /\ consumed' = [t \in Tokens |-> Older(consumed[t])]
    /\ counter' = [k \in LimitKeys |->
                     IF counter[k].life = 1 THEN NoKey
                     ELSE [counter[k] EXCEPT !.life = Older(@)]]
    /\ request' = [r \in Requests |->
                     IF At(r, "idle") THEN Idle
                     ELSE [request[r] EXCEPT !.age = @ + 1]]
    /\ passed' = [k \in LimitKeys |->
                    [a \in Ages |-> IF a = 0 THEN 0 ELSE passed[k][a - 1]]]
    /\ UNCHANGED <<losses, uses>>

\* Redis evicts a key.
RedisLosesKey ==
    /\ losses < MaxLosses
    /\ losses' = losses + 1
    /\ \/ \E t \in Tokens : /\ consumed[t] # 0
                            /\ consumed' = [consumed EXCEPT ![t] = 0]
                            /\ UNCHANGED counter
       \/ \E k \in LimitKeys : /\ counter[k] # NoKey
                               /\ counter' = [counter EXCEPT ![k] = NoKey]
                               /\ UNCHANGED consumed
    /\ UNCHANGED <<token, request, uses, passed>>

Init ==
    /\ token = [t \in Tokens |-> NotIssued]
    /\ consumed = [t \in Tokens |-> 0]
    /\ counter = [k \in LimitKeys |-> NoKey]
    /\ request = [r \in Requests |-> Idle]
    /\ losses = 0
    /\ uses = [t \in Tokens |-> 0]
    /\ passed = [k \in LimitKeys |-> [a \in Ages |-> 0]]

Next ==
    \/ \E t \in Tokens, u \in Users : IssueAdmissionToken(t, u) \/ IssueUserToken(t, u)
    \/ \E r \in Requests, ip \in Ips :
          \/ \E u \in Users : JoinBegin(r, u, ip)
          \/ \E t \in Tokens : CheckoutBegin(r, t, ip)
    \/ \E r \in Requests :
          CheckoutConsume(r) \/ AllowIp(r) \/ AllowUser(r) \/ RequestDies(r)
    \/ Tick \/ RedisLosesKey

Spec == Init /\ [][Next]_vars

----------------------------------------------------------------------------
(* Properties.                                                             *)

\* The type of every variable; a request in flight has a user.
TypeOK ==
    /\ token \in [Tokens ->
          [user : Users \cup {NoUser}, kind : {"none", "user", "admission"}, life : Nat]]
    /\ consumed \in [Tokens -> Nat]
    /\ counter \in [LimitKeys -> [n : Nat, life : 0..Window]]
    /\ request \in [Requests ->
          [pc : {"idle", "consume", "limitIp", "limitUser"}, handler : Handlers,
           user : Users \cup {NoUser}, ip : Ips \cup {NoIp},
           token : Tokens \cup {NoToken}, age : 0..MaxPause]]
    /\ \A r \in Requests : ~At(r, "idle") => request[r].user \in Users
    /\ losses \in Nat
    /\ uses \in [Tokens -> Nat]
    /\ passed \in [LimitKeys -> [Ages -> Nat]]

\* A token that Status issued opens one checkout, however many requests carry
\* it and however late they get to consume it, and one more for each key that
\* Redis loses: its key outlives every request that could still carry it.
TokenUsedOnce ==
    \A t \in Tokens : token[t].kind = "admission" => uses[t] <= 1 + losses

\* The middleware takes tokens that live longer than their keys too.  Of
\* whatever kind a token is, it opens one checkout in every 2 * AdmissionTTL of
\* the time in which requests can carry it, and one more for each lost key.
UsesSpaced ==
    \A t \in Tokens :
        uses[t] * (2 * AdmissionTTL)
            < Lifetime(token[t].kind) + MaxPause + (1 + losses) * (2 * AdmissionTTL)

\* In any stretch of time as long as the window, wherever it begins, the
\* limiter lets no more than its limit through, and as many again for each key
\* that Redis loses.
WindowLimit ==
    \A k \in LimitKeys : passed[k][Window - 1] <= Limit(k) * (1 + losses)

============================================================================
