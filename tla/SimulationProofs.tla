------------------------- MODULE SimulationProofs -------------------------
(***************************************************************************)
(* Proofs about Simulation, for any number of handlers, toggles, updates   *)
(* and faults.  The inductive invariant IInv says that the number a        *)
(* handler will install under is unused (Fresh), what a restart knows at   *)
(* each step while no other overlaps with it (Sequential), that the sale   *)
(* stays as long as no setup was faulty (SaleKept), what e.stop is when    *)
(* restarts are over (StopKept, Installed), and how many generations are   *)
(* lost or may still be (Account).                                         *)
(***************************************************************************)
EXTENDS Simulation, Integers, TLAPS, FiniteSetTheorems

Fresh ==
    /\ \A h \in Handlers : handler[h].number <= updates
    /\ \A h, k \in Handlers :
          h # k /\ handler[h].number # 0 => handler[h].number # handler[k].number
    /\ \A h \in Handlers : At(h, "idle") => handler[h].number = 0
    /\ \A g \in Generations :
          (g > updates \/ \E h \in Handlers : handler[h].number = g)
              => /\ loops[g] = NoLoops /\ g \notin cancelled /\ stop # g
                 /\ \A k \in Handlers : handler[k].mine # g

RestartKnows(h) ==
    /\ At(h, "readStop") => Live \subseteq {stop}
    /\ At(h, "cancel") => Live \subseteq {handler[h].mine}
    /\ At(h, "clear") => Live = {}
    /\ handler[h].pc \in {"snapshot", "install"} => Live = {} /\ stop = 0
    /\ At(h, "install") => handler[h].seen = cfg

Sequential ==
    overlaps = 0 =>
        /\ \A h, k \in Restarting : h = k
        /\ \A h \in Handlers : RestartKnows(h)
        /\ Restarting = {} =>
              Live \subseteq {stop} /\ (stop # 0 => Running(stop) = Loops(cfg))
        /\ Restarting = {} => stop \notin cancelled

SaleKept ==
    faults = 0 => \A h \in Handlers :
        /\ handler[h].pc \in {"setSale", "setSaleAgain"} => handler[h].id # ""
        /\ handler[h].pc \in RestartPCs \cup {"update"} => saleID # ""

\* No restart in progress has read e.stop: the first to do so will cancel what
\* it finds there.
NoneHasRead == \A h \in Restarting : At(h, "readStop")

\* The generations that nobody is bound to cancel.
Loose ==
    {g \in Live : /\ \A h \in Handlers : At(h, "cancel") => handler[h].mine # g
                  /\ g = stop => ~NoneHasRead}

Account ==
    Cardinality(Loose) + Cardinality(Restarting)
        <= overlaps + (IF Restarting = {} THEN 0 ELSE 1)

StopKept == faults = 0 /\ Restarting = {} /\ cfg # {} => stop # 0

\* A restart installs some loops, and e.stop cancels a generation that runs,
\* unless somebody has called it and is about to clear it.
Installed ==
    /\ \A h \in Handlers : At(h, "install") => handler[h].seen # {}
    /\ stop # 0 =>
          stop \in Live \/ \E h \in Handlers : At(h, "clear") /\ handler[h].mine = stop

IInv == TypeOK /\ Fresh /\ Sequential /\ SaleKept /\ StopKept /\ Installed /\ Account

----------------------------------------------------------------------------
(* Initial states, and types.                                              *)

LEMMA LoopsType == ASSUME NEW on \in SUBSET Scenarios
                   PROVE  Loops(on) \in SUBSET LoopNames
  BY DEF Loops, LoopNames

LEMMA InitIInv == Init => IInv
<1> SUFFICES ASSUME Init PROVE IInv
  OBVIOUS
<1>0. MaxUpdates \in Nat
  BY ConstantsAssumption
<1>1. stop = 0 /\ updates = 0 /\ overlaps = 0 /\ faults = 0
  BY DEF Init
<1>11. cfg = {} /\ saleID = "" /\ cancelled = {}
  BY DEF Init
<1>2. \A h \in Handlers : /\ handler[h].pc = "idle" /\ handler[h].number = 0
                          /\ handler[h].mine = 0
  BY DEF Init, Idle
<1>3. handler \in [Handlers -> HandlerState]
  <2>1. Idle \in HandlerState
    BY <1>0 DEF Idle, HandlerState, RestartPCs, SaleIDs
  <2>2. QED  BY <2>1 DEF Init
<1>4. loops \in [Generations -> LoopStates] /\ \A g \in Generations : loops[g] = NoLoops
  BY DEF Init, NoLoops, LoopStates
<1>5. TypeOK
  <2>1. \A h \in Handlers :
          ~At(h, "cancel") /\ handler[h].pc \notin RestartPCs \cup {"update"}
    BY <1>2 DEF At, RestartPCs
  <2>2. stop \in 0..MaxUpdates /\ updates \in 0..MaxUpdates
    BY <1>0, <1>1
  <2>3. QED  BY <1>1, <1>11, <1>3, <1>4, <2>1, <2>2 DEF TypeOK, SaleIDs
<1>6. Fresh
  <2>1. \A g \in Generations : g > 0
    BY <1>0 DEF Generations
  <2>2. \A g \in Generations : g \notin cancelled
    BY <1>11
  <2>3. QED  BY <1>1, <1>2, <1>4, <2>1, <2>2 DEF Fresh
<1>7. Live = {}
  BY <1>4 DEF Live, Running, NoLoops
<1>8. Restarting = {}
  BY <1>2 DEF Restarting, RestartPCs
<1>9. Sequential /\ SaleKept /\ StopKept /\ Installed
  BY <1>1, <1>11, <1>2, <1>7, <1>8 DEF At, RestartPCs, Sequential, RestartKnows, SaleKept,
     StopKept, Installed
<1>10. Account
  <2>1. Loose = {}
    BY <1>7 DEF Loose
  <2>2. Cardinality({}) = 0
    BY FS_EmptySet
  <2>3. QED  BY <1>1, <1>8, <2>1, <2>2 DEF Account
<1>12. QED  BY <1>5, <1>6, <1>9, <1>10 DEF IInv

LEMMA IdleType == Idle \in HandlerState /\ Idle.pc = "idle" /\ Idle.number = 0
                  /\ Idle.mine = 0 /\ Idle.toggles = {}
<1>1. MaxUpdates \in Nat
  BY ConstantsAssumption
<1>2. QED  BY <1>1 DEF Idle, HandlerState, RestartPCs, SaleIDs

\* Only the state of h changes, and only in the fields listed.
Keeps(h, number, mine) ==
    /\ handler' \in [Handlers -> HandlerState]
    /\ \A k \in Handlers \ {h} : handler'[k] = handler[k]
    /\ handler'[h].number = number
    /\ handler'[h].mine = mine

LEMMA HandlerEXCEPT ==
    ASSUME NEW r \in HandlerState, NEW h \in Handlers,
           handler \in [Handlers -> HandlerState],
           handler' = [handler EXCEPT ![h] = r]
    PROVE  Keeps(h, r.number, r.mine) /\ handler'[h] = r
  BY DEF Keeps

LEMMA GotoEffect ==
    ASSUME handler \in [Handlers -> HandlerState],
           NEW h \in Handlers, NEW pc \in {"setup", "setSaleAgain", "cancel", "clear"},
           Goto(h, pc)
    PROVE  Keeps(h, handler[h].number, handler[h].mine) /\ handler'[h].pc = pc
           /\ handler'[h].id = handler[h].id
<1> DEFINE r == [handler[h] EXCEPT !.pc = pc]
<1>1. r \in HandlerState
  BY DEF HandlerState, RestartPCs
<1>2. handler' = [handler EXCEPT ![h] = r]
  BY DEF Goto
<1>3. r.number = handler[h].number /\ r.mine = handler[h].mine /\ r.pc = pc /\ r.id = handler[h].id
  BY DEF HandlerState
<1> HIDE DEF r
<1>4. QED  BY <1>1, <1>2, <1>3, HandlerEXCEPT

LEMMA FinishEffect ==
    ASSUME handler \in [Handlers -> HandlerState], NEW h \in Handlers, Finish(h)
    PROVE  Keeps(h, 0, 0) /\ handler'[h].pc = "idle"
  BY IdleType, HandlerEXCEPT DEF Finish

LEMMA StartSimulationEffect ==
    ASSUME TypeOK, NEW h \in Handlers, StartSimulation(h)
    PROVE  /\ Keeps(h, updates + 1, 0)
           /\ handler'[h].pc \in {"setup", "update"}
           /\ handler'[h].pc = "update" => saleID # ""
<1>1. PICK on \in Configs : handler' = [handler EXCEPT ![h] =
              [Idle EXCEPT !.pc = IF saleID = "" THEN "setup" ELSE "update",
                           !.number = updates + 1,
                           !.toggles = on]]
  BY DEF StartSimulation
<1> DEFINE pc == IF saleID = "" THEN "setup" ELSE "update"
           r == [Idle EXCEPT !.pc = pc, !.number = updates + 1, !.toggles = on]
<1>2. on \in SUBSET Scenarios
  BY ConstantsAssumption
<1>3. 0 \in 0..MaxUpdates /\ updates + 1 \in 0..MaxUpdates
  <2>1. MaxUpdates \in Nat
    BY ConstantsAssumption
  <2>2. updates < MaxUpdates /\ updates \in 0..MaxUpdates
    BY DEF StartSimulation, TypeOK
  <2>3. QED  BY <2>1, <2>2
<1>4. handler' = [handler EXCEPT ![h] = r]
  BY <1>1
<1>5. pc \in {"setup", "update"} /\ (pc = "update" => saleID # "")
  OBVIOUS
<1> HIDE DEF pc
<1>6. r \in HandlerState
  BY <1>2, <1>3, <1>5, IdleType DEF HandlerState
<1>7. r.number = updates + 1 /\ r.mine = 0 /\ r.pc = pc
  BY IdleType DEF HandlerState
<1>8. handler \in [Handlers -> HandlerState]
  BY DEF TypeOK
<1> HIDE DEF r
<1>9. Keeps(h, r.number, r.mine) /\ handler'[h] = r
  BY <1>4, <1>6, <1>8, HandlerEXCEPT
<1>10. QED  BY <1>5, <1>7, <1>9

LEMMA SetupAnsweredEffect ==
    ASSUME TypeOK, NEW h \in Handlers, SetupAnswered(h)
    PROVE  /\ Keeps(h, handler[h].number, handler[h].mine)
           /\ handler'[h].pc = "setSale"
           /\ handler'[h].id = "" => faults' # 0
           /\ faults' \in Nat /\ (faults' = 0 => faults = 0)
<1>1. PICK id \in SaleIDs : /\ faults' = IF id = "" THEN faults + 1 ELSE faults
                            /\ handler' = [handler EXCEPT ![h].pc = "setSale", ![h].id = id]
  BY DEF SetupAnswered
<1> DEFINE r == [handler[h] EXCEPT !.pc = "setSale", !.id = id]
<1>2. handler[h] \in HandlerState /\ handler \in [Handlers -> HandlerState] /\ faults \in Nat
  BY DEF TypeOK
<1>3. r \in HandlerState
  BY <1>2 DEF HandlerState
<1>4. /\ r.number = handler[h].number /\ r.mine = handler[h].mine /\ r.pc = "setSale"
      /\ r.id = id
  BY <1>2 DEF HandlerState
<1>5. handler' = [handler EXCEPT ![h] = r]
  BY <1>1
<1> HIDE DEF r
<1>6. Keeps(h, r.number, r.mine) /\ handler'[h] = r
  BY <1>2, <1>3, <1>5, HandlerEXCEPT
<1>7. faults' \in Nat /\ (faults' = 0 => faults = 0) /\ (id = "" => faults' # 0)
  <2>1. CASE id = ""
    <3>1. faults' = faults + 1
      BY <1>1, <2>1
    <3>2. faults \in Nat
      BY <1>2
    <3>3. faults + 1 \in Nat /\ faults + 1 # 0
      BY <3>2
    <3>4. QED  BY <3>1, <3>3
  <2>2. CASE id # ""
    BY <1>1, <1>2, <2>2
  <2>3. QED  BY <2>1, <2>2
<1>8. QED  BY <1>4, <1>6, <1>7

\* What SetSale does of a setup that setSimulation made.
LEMMA SetSaleEffect ==
    ASSUME TypeOK, NEW h \in Handlers,
           handler' = [handler EXCEPT ![h].pc = "update", ![h].id = ""]
    PROVE  Keeps(h, handler[h].number, handler[h].mine) /\ handler'[h].pc = "update"
<1> DEFINE r == [handler[h] EXCEPT !.pc = "update", !.id = ""]
<1>1. handler[h] \in HandlerState /\ handler \in [Handlers -> HandlerState]
  BY DEF TypeOK
<1>2. r \in HandlerState
  BY <1>1 DEF HandlerState, SaleIDs
<1>3. r.number = handler[h].number /\ r.mine = handler[h].mine /\ r.pc = "update"
  BY <1>1 DEF HandlerState
<1>4. handler' = [handler EXCEPT ![h] = r]
  OBVIOUS
<1> HIDE DEF r
<1>5. QED  BY <1>1, <1>2, <1>3, <1>4, HandlerEXCEPT

LEMMA UpdateEffect ==
    ASSUME TypeOK, NEW h \in Handlers, Update(h)
    PROVE  /\ Keeps(h, handler[h].number, handler[h].mine)
           /\ handler'[h].pc = "readStop"
           /\ cfg' \in SUBSET Scenarios
<1> DEFINE r == [handler[h] EXCEPT !.pc = "readStop", !.toggles = {}]
<1>1. handler[h] \in HandlerState /\ handler \in [Handlers -> HandlerState]
  BY DEF TypeOK
<1>2. r \in HandlerState
  BY <1>1 DEF HandlerState, RestartPCs
<1>3. r.number = handler[h].number /\ r.mine = handler[h].mine /\ r.pc = "readStop"
  BY <1>1 DEF HandlerState
<1>4. cfg' = handler[h].toggles /\ handler' = [handler EXCEPT ![h] = r]
  BY DEF Update
<1>5. cfg' \in SUBSET Scenarios
  BY <1>1, <1>4 DEF HandlerState
<1> HIDE DEF r
<1>6. QED  BY <1>1, <1>2, <1>3, <1>4, <1>5, HandlerEXCEPT

LEMMA ReadStopEffect ==
    ASSUME TypeOK, NEW h \in Handlers, RestartReadStop(h)
    PROVE  /\ Keeps(h, handler[h].number, stop)
           /\ handler'[h].pc = IF stop = 0 THEN "snapshot" ELSE "cancel"
<1> DEFINE r == [handler[h] EXCEPT !.mine = stop,
                                   !.pc = IF stop = 0 THEN "snapshot" ELSE "cancel"]
<1>1. /\ handler[h] \in HandlerState /\ handler \in [Handlers -> HandlerState]
      /\ stop \in 0..MaxUpdates
  BY DEF TypeOK
<1>2. r \in HandlerState
  BY <1>1 DEF HandlerState, RestartPCs
<1>3. /\ r.number = handler[h].number /\ r.mine = stop
      /\ r.pc = IF stop = 0 THEN "snapshot" ELSE "cancel"
  BY <1>1 DEF HandlerState
<1>4. handler' = [handler EXCEPT ![h] = r]
  BY DEF RestartReadStop
<1> HIDE DEF r
<1>5. QED  BY <1>1, <1>2, <1>3, <1>4, HandlerEXCEPT

LEMMA ClearEffect ==
    ASSUME TypeOK, NEW h \in Handlers, RestartClear(h)
    PROVE  Keeps(h, handler[h].number, 0) /\ handler'[h].pc = "snapshot"
<1> DEFINE r == [handler[h] EXCEPT !.pc = "snapshot", !.mine = 0]
<1>1. handler[h] \in HandlerState /\ handler \in [Handlers -> HandlerState]
  BY DEF TypeOK
<1>2. 0 \in 0..MaxUpdates
  <2>1. MaxUpdates \in Nat
    BY ConstantsAssumption
  <2>2. QED  BY <2>1
<1>3. r \in HandlerState
  BY <1>1, <1>2 DEF HandlerState, RestartPCs
<1>4. r.number = handler[h].number /\ r.mine = 0 /\ r.pc = "snapshot"
  BY <1>1 DEF HandlerState
<1>5. handler' = [handler EXCEPT ![h] = r]
  BY DEF RestartClear
<1> HIDE DEF r
<1>6. QED  BY <1>1, <1>3, <1>4, <1>5, HandlerEXCEPT

\* What a restart that finds toggles and a sale sees.
LEMMA SnapshotEffect ==
    ASSUME TypeOK, NEW h \in Handlers,
           handler' = [handler EXCEPT ![h].pc = "install", ![h].seen = cfg]
    PROVE  /\ Keeps(h, handler[h].number, handler[h].mine)
           /\ handler'[h].pc = "install" /\ handler'[h].seen = cfg
<1> DEFINE r == [handler[h] EXCEPT !.pc = "install", !.seen = cfg]
<1>1. /\ handler[h] \in HandlerState /\ handler \in [Handlers -> HandlerState]
      /\ cfg \in SUBSET Scenarios
  BY DEF TypeOK
<1>2. r \in HandlerState
  BY <1>1 DEF HandlerState, RestartPCs
<1>3. /\ r.number = handler[h].number /\ r.mine = handler[h].mine /\ r.pc = "install"
      /\ r.seen = cfg
  BY <1>1 DEF HandlerState
<1>4. handler' = [handler EXCEPT ![h] = r]
  OBVIOUS
<1> HIDE DEF r
<1>5. QED  BY <1>1, <1>2, <1>3, <1>4, HandlerEXCEPT

LEMMA InstallEffect ==
    ASSUME TypeOK, NEW h \in Handlers, RestartInstall(h)
    PROVE  /\ handler[h].number \in Generations
           /\ Keeps(h, 0, 0) /\ handler'[h].pc = "idle"
           /\ stop' = handler[h].number
           /\ loops' \in [Generations -> LoopStates]
           /\ loops'[stop'].waiting = Loops(handler[h].seen)
           /\ loops'[stop'].busy = loops[stop'].busy
           /\ \A g \in Generations \ {stop'} : loops'[g] = loops[g]
<1> DEFINE n == handler[h].number
           on == Loops(handler[h].seen)
<1>1. handler[h] \in HandlerState /\ handler \in [Handlers -> HandlerState]
  BY DEF TypeOK
<1>2. n \in Generations
  <2>1. n \in 0..MaxUpdates
    BY <1>1 DEF HandlerState
  <2>2. n # 0
    BY DEF RestartInstall, TypeOK, At, RestartPCs
  <2>3. MaxUpdates \in Nat
    BY ConstantsAssumption
  <2> HIDE DEF n
  <2>4. QED  BY <2>1, <2>2, <2>3 DEF Generations
<1>3. on \in SUBSET LoopNames
  <2>1. handler[h].seen \in SUBSET Scenarios
    BY <1>1 DEF HandlerState
  <2>2. QED  BY <2>1, LoopsType
<1>4. stop' = n /\ loops' = [loops EXCEPT ![n].waiting = on] /\ Finish(h)
  BY DEF RestartInstall
<1>5. loops \in [Generations -> LoopStates]
  BY DEF TypeOK
<1> HIDE DEF n, on
<1>6. /\ loops' \in [Generations -> LoopStates]
      /\ loops'[n].waiting = on /\ loops'[n].busy = loops[n].busy
      /\ \A g \in Generations \ {n} : loops'[g] = loops[g]
  BY <1>2, <1>3, <1>4, <1>5 DEF LoopStates
<1>7. Keeps(h, 0, 0) /\ handler'[h].pc = "idle"
  BY <1>1, <1>4, FinishEffect
<1>8. QED  BY <1>2, <1>4, <1>6, <1>7 DEF n, on

LEMMA LoopEffect ==
    ASSUME TypeOK, NEW g \in Generations, NEW l \in LoopNames, Loop(g, l)
    PROVE  /\ loops' \in [Generations -> LoopStates]
           /\ \A k \in Generations : Running(k)' \subseteq Running(k)
           /\ \A k \in Generations : k \notin cancelled => Running(k)' = Running(k)
           /\ \A k \in Generations : loops[k] = NoLoops => loops'[k] = NoLoops
<1>1. loops \in [Generations -> LoopStates]
  BY DEF TypeOK
<1>2. CASE LoopTick(g, l)
  <2>1. /\ l \in loops[g].waiting
        /\ loops' = [loops EXCEPT ![g].waiting = @ \ {l}, ![g].busy = @ \cup {l}]
    BY <1>2 DEF LoopTick
  <2>2. loops' \in [Generations -> LoopStates]
    BY <1>1, <2>1 DEF LoopStates
  <2>3. /\ loops'[g].waiting = loops[g].waiting \ {l}
        /\ loops'[g].busy = loops[g].busy \cup {l}
        /\ \A k \in Generations \ {g} : loops'[k] = loops[k]
    BY <1>1, <2>1 DEF LoopStates
  <2>4. loops[g] # NoLoops
    BY <2>1 DEF NoLoops
  <2>5. QED  BY <2>1, <2>2, <2>3, <2>4 DEF Running
<1>3. CASE LoopIterated(g, l)
  <2>1. /\ l \in loops[g].busy
        /\ loops' = [loops EXCEPT ![g].busy = @ \ {l}, ![g].waiting = @ \cup {l}]
    BY <1>3 DEF LoopIterated
  <2>2. loops' \in [Generations -> LoopStates]
    BY <1>1, <2>1 DEF LoopStates
  <2>3. /\ loops'[g].waiting = loops[g].waiting \cup {l}
        /\ loops'[g].busy = loops[g].busy \ {l}
        /\ \A k \in Generations \ {g} : loops'[k] = loops[k]
    BY <1>1, <2>1 DEF LoopStates
  <2>4. loops[g] # NoLoops
    BY <2>1 DEF NoLoops
  <2>5. QED  BY <2>1, <2>2, <2>3, <2>4 DEF Running
<1>4. CASE LoopDone(g, l)
  <2>1. /\ l \in loops[g].waiting /\ g \in cancelled
        /\ loops' = [loops EXCEPT ![g].waiting = @ \ {l}]
    BY <1>4 DEF LoopDone
  <2>2. loops' \in [Generations -> LoopStates]
    BY <1>1, <2>1 DEF LoopStates
  <2>3. /\ loops'[g].waiting = loops[g].waiting \ {l}
        /\ loops'[g].busy = loops[g].busy
        /\ \A k \in Generations \ {g} : loops'[k] = loops[k]
    BY <1>1, <2>1 DEF LoopStates
  <2>4. loops[g] # NoLoops
    BY <2>1 DEF NoLoops
  <2>5. QED  BY <2>1, <2>2, <2>3, <2>4 DEF Running
<1>5. QED  BY <1>2, <1>3, <1>4 DEF Loop

LEMMA KeepsType ==
    ASSUME TypeOK, NEW h \in Handlers, NEW n, NEW m, Keeps(h, n, m),
           handler'[h].pc = "cancel" => m \in Generations,
           handler'[h].pc \in RestartPCs \cup {"update"} => n # 0
    PROVE  /\ handler' \in [Handlers -> HandlerState]
           /\ \A k \in Handlers :
                 /\ At(k, "cancel")' => handler'[k].mine \in Generations
                 /\ handler'[k].pc \in RestartPCs \cup {"update"} => handler'[k].number # 0
  BY DEF TypeOK, Keeps, At

\* The steps of a handler outside of Update and restartWorkers, as far as the
\* generations are concerned.
Quiet(h) ==
    /\ handler[h].pc \notin RestartPCs
    /\ handler'[h].pc \notin RestartPCs
    /\ \E n, m : Keeps(h, n, m)
    /\ handler'[h].mine \in {0, handler[h].mine}
    /\ handler'[h].pc = "update" => handler'[h].number # 0
    /\ handler'[h].pc = "idle" => handler'[h].number = 0
    /\ \/ updates' = updates /\ handler'[h].number \in {0, handler[h].number}
       \/ updates < MaxUpdates /\ updates' = updates + 1 /\ handler'[h].number = updates'
    /\ UNCHANGED <<cfg, workers, overlaps>>

SetupStep(h) == StartSimulation(h) \/ StartSetup(h) \/ Setup(h)

LEMMA SetupIsQuiet ==
    ASSUME TypeOK, Fresh, NEW h \in Handlers, SetupStep(h)
    PROVE  Quiet(h) /\ saleID' \in SaleIDs /\ faults' \in Nat
<1>0. handler \in [Handlers -> HandlerState] /\ faults \in Nat /\ saleID \in SaleIDs
  BY DEF TypeOK
<1>1. CASE StartSimulation(h)
  <2>1. /\ Keeps(h, updates + 1, 0)
        /\ handler'[h].pc \in {"setup", "update"}
    BY <1>1, StartSimulationEffect
  <2>2. updates + 1 # 0 /\ updates < MaxUpdates
    BY <1>1 DEF TypeOK, StartSimulation
  <2>3. /\ updates' = updates + 1 /\ handler[h].pc = "idle"
        /\ UNCHANGED <<cfg, workers, overlaps>> /\ saleID' = saleID /\ faults' = faults
    BY <1>1 DEF StartSimulation, At, settings
  <2>4. QED  BY <1>0, <2>1, <2>2, <2>3 DEF Quiet, Keeps, RestartPCs
<1>2. CASE StartSetup(h)
  <2>1. Keeps(h, handler[h].number, handler[h].mine) /\ handler'[h].pc = "setup"
    BY <1>0, <1>2, GotoEffect DEF StartSetup
  <2>2. /\ updates' = updates /\ handler[h].pc = "idle"
        /\ UNCHANGED <<cfg, workers, overlaps>> /\ saleID' = saleID /\ faults' = faults
    BY <1>2 DEF StartSetup, At, settings, history
  <2>3. QED  BY <1>0, <2>1, <2>2 DEF Quiet, Keeps, RestartPCs
<1>3. CASE SetupFails(h)
  <2>1. Keeps(h, 0, 0) /\ handler'[h].pc = "idle"
    BY <1>0, <1>3, FinishEffect DEF SetupFails
  <2>2. /\ updates' = updates /\ handler[h].pc = "setup"
        /\ UNCHANGED <<cfg, workers, overlaps>> /\ saleID' = saleID /\ faults' = faults
    BY <1>3 DEF SetupFails, At, settings, history
  <2>3. QED  BY <1>0, <2>1, <2>2 DEF Quiet, Keeps, RestartPCs
<1>4. CASE SetupAnswered(h)
  <2>1. /\ Keeps(h, handler[h].number, handler[h].mine) /\ handler'[h].pc = "setSale"
        /\ faults' \in Nat
    BY <1>4, SetupAnsweredEffect
  <2>2. /\ updates' = updates /\ handler[h].pc = "setup"
        /\ UNCHANGED <<cfg, workers, overlaps>> /\ saleID' = saleID
    BY <1>4 DEF SetupAnswered, At, settings
  <2>3. QED  BY <1>0, <2>1, <2>2 DEF Quiet, Keeps, RestartPCs
<1>5. CASE SetSale(h)
  <2>1. handler[h].id \in SaleIDs
    BY <1>0 DEF HandlerState
  <2>2. /\ updates' = updates /\ handler[h].pc = "setSale" /\ faults' = faults
        /\ UNCHANGED <<cfg, workers, overlaps>> /\ saleID' = handler[h].id
    BY <1>5 DEF SetSale, At, history
  <2>3. CASE handler[h].number = 0 /\ Goto(h, "setSaleAgain")
    <3>1. Keeps(h, handler[h].number, handler[h].mine) /\ handler'[h].pc = "setSaleAgain"
      BY <1>0, <2>3, GotoEffect
    <3>2. QED  BY <1>0, <2>1, <2>2, <3>1 DEF Quiet, Keeps, RestartPCs
  <2>4. CASE handler[h].number = 0 /\ Finish(h)
    <3>1. Keeps(h, 0, 0) /\ handler'[h].pc = "idle"
      BY <1>0, <2>4, FinishEffect
    <3>2. QED  BY <1>0, <2>1, <2>2, <3>1 DEF Quiet, Keeps, RestartPCs
  <2>5. CASE handler[h].number # 0 /\
             handler' = [handler EXCEPT ![h].pc = "update", ![h].id = ""]
    <3>1. Keeps(h, handler[h].number, handler[h].mine) /\ handler'[h].pc = "update"
      BY <2>5, SetSaleEffect
    <3>2. QED  BY <1>0, <2>1, <2>2, <2>5, <3>1 DEF Quiet, Keeps, RestartPCs
  <2>6. QED  BY <1>5, <2>3, <2>4, <2>5 DEF SetSale
<1>6. CASE SetSaleAgain(h)
  <2>1. Keeps(h, 0, 0) /\ handler'[h].pc = "idle"
    BY <1>0, <1>6, FinishEffect DEF SetSaleAgain
  <2>2. /\ updates' = updates /\ handler[h].pc = "setSaleAgain"
        /\ UNCHANGED <<cfg, workers, overlaps>>
        /\ saleID' = handler[h].id /\ faults' = faults
    BY <1>6 DEF SetSaleAgain, At, history
  <2>3. handler[h].id \in SaleIDs
    BY <1>0 DEF HandlerState
  <2>4. QED  BY <1>0, <2>1, <2>2, <2>3 DEF Quiet, Keeps, RestartPCs
<1>7. QED  BY <1>1, <1>2, <1>3, <1>4, <1>5, <1>6 DEF SetupStep, Setup

LEMMA TypeStep == IInv /\ [Next]_vars => TypeOK'
<1> SUFFICES ASSUME TypeOK, Fresh, [Next]_vars PROVE TypeOK'
  BY DEF IInv
<1>0. handler \in [Handlers -> HandlerState] /\ MaxUpdates \in Nat
  BY ConstantsAssumption DEF TypeOK
<1>1. ASSUME NEW h \in Handlers, SetupStep(h) PROVE TypeOK'
  <2>1. Quiet(h) /\ saleID' \in SaleIDs /\ faults' \in Nat
    BY <1>1, SetupIsQuiet
  <2>2. PICK n, m : Keeps(h, n, m)
    BY <2>1 DEF Quiet
  <2>3. handler'[h].pc # "cancel" /\ (handler'[h].pc \in RestartPCs \cup {"update"} => n # 0)
    BY <2>1, <2>2 DEF Quiet, Keeps, RestartPCs
  <2>4. updates' \in 0..MaxUpdates
    BY <1>0, <2>1 DEF Quiet, TypeOK
  <2>5. /\ handler' \in [Handlers -> HandlerState]
        /\ \A k \in Handlers :
              /\ At(k, "cancel")' => handler'[k].mine \in Generations
              /\ handler'[k].pc \in RestartPCs \cup {"update"} => handler'[k].number # 0
    BY <2>2, <2>3, KeepsType
  <2>6. UNCHANGED <<cfg, stop, loops, cancelled, overlaps>>
    BY <2>1 DEF Quiet, workers
  <2>7. QED  BY <2>1, <2>4, <2>5, <2>6 DEF TypeOK
<1>2. ASSUME NEW h \in Handlers, Update(h) PROVE TypeOK'
  <2>1. /\ Keeps(h, handler[h].number, handler[h].mine) /\ handler'[h].pc = "readStop"
        /\ cfg' \in SUBSET Scenarios
    BY <1>2, UpdateEffect
  <2>2. handler[h].number # 0
    BY <1>2 DEF Update, TypeOK, At
  <2>3. /\ handler' \in [Handlers -> HandlerState]
        /\ \A k \in Handlers :
              /\ At(k, "cancel")' => handler'[k].mine \in Generations
              /\ handler'[k].pc \in RestartPCs \cup {"update"} => handler'[k].number # 0
    BY <2>1, <2>2, KeepsType
  <2>4. overlaps' \in Nat /\ UNCHANGED <<saleID, stop, loops, cancelled, updates, faults>>
    BY <1>2 DEF Update, workers, TypeOK
  <2>5. QED  BY <2>1, <2>3, <2>4 DEF TypeOK
<1>3. ASSUME NEW h \in Handlers, Restart(h) PROVE TypeOK'
  <2>0. handler[h].number # 0 /\ UNCHANGED <<settings, history>>
    <3>1. handler[h].pc \in RestartPCs
      BY <1>3 DEF Restart, RestartReadStop, RestartCancel, RestartClear, RestartSnapshot,
         RestartInstall, At, RestartPCs
    <3>2. QED  BY <1>3, <3>1 DEF TypeOK, Restart, RestartReadStop, RestartCancel, RestartClear,
                  RestartSnapshot, RestartInstall
  <2> DEFINE HandlerOK ==
                /\ handler' \in [Handlers -> HandlerState]
                /\ \A k \in Handlers :
                      /\ At(k, "cancel")' => handler'[k].mine \in Generations
                      /\ handler'[k].pc \in RestartPCs \cup {"update"} => handler'[k].number # 0
  <2>1. CASE RestartReadStop(h)
    <3>1. /\ Keeps(h, handler[h].number, stop)
          /\ handler'[h].pc = IF stop = 0 THEN "snapshot" ELSE "cancel"
      BY <2>1, ReadStopEffect
    <3>2. stop # 0 => stop \in Generations
      BY <1>0 DEF TypeOK, Generations
    <3>3. handler'[h].pc = "cancel" => stop \in Generations
      BY <3>1, <3>2
    <3>4. HandlerOK
      BY <2>0, <3>1, <3>3, KeepsType
    <3>5. UNCHANGED workers
      BY <2>1 DEF RestartReadStop
    <3>6. QED  BY <2>0, <3>4, <3>5 DEF TypeOK, settings, workers, history
  <2>2. CASE RestartCancel(h)
    <3>1. Keeps(h, handler[h].number, handler[h].mine) /\ handler'[h].pc = "clear"
      BY <1>0, <2>2, GotoEffect DEF RestartCancel
    <3>2. HandlerOK
      BY <2>0, <3>1, KeepsType
    <3>3. /\ cancelled' = cancelled \cup {handler[h].mine} /\ handler[h].mine \in Generations
          /\ UNCHANGED <<stop, loops>>
      BY <2>2 DEF RestartCancel, TypeOK
    <3>4. QED  BY <2>0, <3>2, <3>3 DEF TypeOK, settings, history
  <2>3. CASE RestartClear(h)
    <3>1. Keeps(h, handler[h].number, 0) /\ handler'[h].pc = "snapshot"
      BY <2>3, ClearEffect
    <3>2. HandlerOK
      BY <2>0, <3>1, KeepsType
    <3>3. stop' = 0 /\ UNCHANGED <<cancelled, loops>>
      BY <2>3 DEF RestartClear
    <3>4. stop' \in 0..MaxUpdates
      BY <1>0, <3>3
    <3>5. QED  BY <2>0, <3>2, <3>3, <3>4 DEF TypeOK, settings, history
  <2>4. CASE RestartSnapshot(h)
    <3>1. UNCHANGED workers
      BY <2>4 DEF RestartSnapshot
    <3>2. HandlerOK
      <4>1. CASE handler' = [handler EXCEPT ![h].pc = "install", ![h].seen = cfg]
        <5>1. Keeps(h, handler[h].number, handler[h].mine) /\ handler'[h].pc = "install"
          BY <4>1, SnapshotEffect
        <5>2. QED  BY <2>0, <5>1, KeepsType
      <4>2. CASE Finish(h)
        <5>1. Keeps(h, 0, 0) /\ handler'[h].pc = "idle"
          BY <1>0, <4>2, FinishEffect
        <5>2. handler'[h].pc \notin RestartPCs \cup {"update"}
          BY <5>1 DEF RestartPCs
        <5>3. QED  BY <5>1, <5>2, KeepsType
      <4>3. QED  BY <2>4, <4>1, <4>2 DEF RestartSnapshot
    <3>3. QED  BY <2>0, <3>1, <3>2 DEF TypeOK, settings, workers, history
  <2>5. CASE RestartInstall(h)
    <3>1. /\ Keeps(h, 0, 0) /\ handler'[h].pc = "idle"
          /\ stop' = handler[h].number /\ handler[h].number \in Generations
          /\ loops' \in [Generations -> LoopStates]
      BY <2>5, InstallEffect
    <3>2. handler'[h].pc \notin RestartPCs \cup {"update"}
      BY <3>1 DEF RestartPCs
    <3>3. HandlerOK
      BY <3>1, <3>2, KeepsType
    <3>4. stop' \in 0..MaxUpdates
      BY <1>0, <3>1 DEF Generations
    <3>5. UNCHANGED cancelled
      BY <2>5 DEF RestartInstall
    <3>6. QED  BY <2>0, <3>1, <3>3, <3>4, <3>5 DEF TypeOK, settings, history
  <2>6. QED  BY <1>3, <2>1, <2>2, <2>3, <2>4, <2>5 DEF Restart
<1>4. ASSUME NEW g \in Generations, NEW l \in LoopNames, Loop(g, l) PROVE TypeOK'
  <2>1. loops' \in [Generations -> LoopStates]
    BY <1>4, LoopEffect
  <2>2. UNCHANGED <<settings, stop, cancelled, handler, history>>
    BY <1>4 DEF Loop, LoopTick, LoopIterated, LoopDone
  <2>3. QED  BY <2>1, <2>2 DEF TypeOK, settings, history, At
<1>5. CASE UNCHANGED vars
  BY <1>5 DEF vars, settings, workers, history, TypeOK, At
<1>6. QED  BY <1>1, <1>2, <1>3, <1>4, <1>5 DEF Next, HandlerStep, SetupStep

\* A restart that has not installed anything yet.
Before(h) == RestartReadStop(h) \/ RestartCancel(h) \/ RestartClear(h) \/ RestartSnapshot(h)

\* What these steps and Update have in common.
LEMMA RestartEffect ==
    ASSUME TypeOK, NEW h \in Handlers, Update(h) \/ Before(h)
    PROVE  /\ \E n \in {0, handler[h].number} : \E m \in {0, handler[h].mine, stop} :
                 /\ Keeps(h, n, m)
                 /\ handler'[h].pc = "idle" => n = 0
           /\ stop' \in {0, stop}
           /\ cancelled' \subseteq cancelled \cup {handler[h].mine}
           /\ UNCHANGED <<loops, updates>>
<1>0. handler \in [Handlers -> HandlerState]
  BY DEF TypeOK
<1>1. CASE Update(h)
  <2>1. Keeps(h, handler[h].number, handler[h].mine) /\ handler'[h].pc = "readStop"
    BY <1>1, UpdateEffect
  <2>2. QED  BY <1>1, <2>1 DEF Update, workers
<1>2. CASE RestartReadStop(h)
  <2>1. /\ Keeps(h, handler[h].number, stop)
        /\ handler'[h].pc = IF stop = 0 THEN "snapshot" ELSE "cancel"
    BY <1>2, ReadStopEffect
  <2>2. handler'[h].pc # "idle"
    BY <2>1
  <2>3. QED  BY <1>2, <2>1, <2>2 DEF RestartReadStop, workers, history
<1>3. CASE RestartCancel(h)
  <2>1. Keeps(h, handler[h].number, handler[h].mine) /\ handler'[h].pc = "clear"
    BY <1>0, <1>3, GotoEffect DEF RestartCancel
  <2>2. QED  BY <1>3, <2>1 DEF RestartCancel, history
<1>4. CASE RestartClear(h)
  <2>1. Keeps(h, handler[h].number, 0) /\ handler'[h].pc = "snapshot"
    BY <1>4, ClearEffect
  <2>2. QED  BY <1>4, <2>1 DEF RestartClear, history
<1>5. CASE RestartSnapshot(h)
  <2>1. UNCHANGED <<stop, loops, cancelled, updates>>
    BY <1>5 DEF RestartSnapshot, workers, history
  <2>2. CASE handler' = [handler EXCEPT ![h].pc = "install", ![h].seen = cfg]
    <3>1. Keeps(h, handler[h].number, handler[h].mine) /\ handler'[h].pc = "install"
      BY <2>2, SnapshotEffect
    <3>2. QED  BY <2>1, <3>1
  <2>3. CASE Finish(h)
    <3>1. Keeps(h, 0, 0) /\ handler'[h].pc = "idle"
      BY <1>0, <2>3, FinishEffect
    <3>2. QED  BY <2>1, <3>1
  <2>4. QED  BY <1>5, <2>2, <2>3 DEF RestartSnapshot
<1>6. QED  BY <1>1, <1>2, <1>3, <1>4, <1>5 DEF Before

\* A number that is not used stays so, unless a handler installs under it.
LEMMA FreshKept ==
    ASSUME TypeOK, TypeOK', Fresh, NEW h \in Handlers,
           NEW n, NEW m \in {0, handler[h].mine, stop}, Keeps(h, n, m),
           \/ n \in {0, handler[h].number} /\ updates' = updates
           \/ n = updates + 1 /\ updates' = updates + 1,
           handler'[h].pc = "idle" => n = 0,
           stop' \in {0, stop},
           cancelled' \subseteq cancelled \cup {handler[h].mine},
           UNCHANGED loops
    PROVE  Fresh'
<1>0. /\ \A k \in Handlers : handler[k].number \in Nat /\ handler[k].mine \in Nat
      /\ updates \in Nat /\ \A g \in Generations : g \in Nat /\ g # 0
  <2>1. MaxUpdates \in Nat
    BY ConstantsAssumption
  <2>2. QED  BY <2>1 DEF TypeOK, HandlerState, Generations
<1>1. /\ \A k \in Handlers \ {h} : handler'[k] = handler[k]
      /\ handler'[h].number = n /\ handler'[h].mine = m
  BY DEF Keeps
<1>2. \A k \in Handlers : handler[k].number <= updates
  BY DEF Fresh
<1>3. \A k \in Handlers : handler'[k].number <= updates'
  BY <1>0, <1>1, <1>2
<1>4. \A j, k \in Handlers :
         j # k /\ handler'[j].number # 0 => handler'[j].number # handler'[k].number
  <2>1. SUFFICES ASSUME NEW j \in Handlers, NEW k \in Handlers, j # k,
                        handler'[j].number # 0, handler'[j].number = handler'[k].number
                 PROVE  FALSE
    OBVIOUS
  <2>2. \A i \in Handlers \ {h} : handler'[i].number = handler[i].number
    BY <1>1
  <2>3. \A i \in Handlers \ {h} : n # 0 => n # handler[i].number
    BY <1>0, <1>2 DEF Fresh
  <2>4. QED  BY <1>1, <2>1, <2>2, <2>3 DEF Fresh
<1>5. \A k \in Handlers : handler'[k].pc = "idle" => handler'[k].number = 0
  BY <1>1 DEF Fresh, At
<1>6. ASSUME NEW g \in Generations, g > updates' \/ \E k \in Handlers : handler'[k].number = g
      PROVE  /\ loops'[g] = NoLoops /\ g \notin cancelled' /\ stop' # g
             /\ \A k \in Handlers : handler'[k].mine # g
  <2>1. g > updates \/ \E k \in Handlers : handler[k].number = g
    <3>1. CASE g > updates'
      BY <1>0, <3>1
    <3>2. CASE \E k \in Handlers \ {h} : handler'[k].number = g
      BY <1>1, <3>2
    <3>3. CASE n = g
      BY <1>0, <3>3
    <3>4. QED  BY <1>1, <1>6, <3>1, <3>2, <3>3
  <2>2. /\ loops[g] = NoLoops /\ g \notin cancelled /\ stop # g
        /\ \A k \in Handlers : handler[k].mine # g
    BY <2>1 DEF Fresh
  <2>3. g # 0
    BY <1>0
  <2>4. QED  BY <1>1, <2>2, <2>3
<1>7. QED  BY <1>3, <1>4, <1>5, <1>6 DEF Fresh, At

LEMMA FreshStep == IInv /\ TypeOK' /\ [Next]_vars => Fresh'
<1> SUFFICES ASSUME TypeOK, Fresh, TypeOK', [Next]_vars PROVE Fresh'
  BY DEF IInv
<1>1. ASSUME NEW h \in Handlers, SetupStep(h) PROVE Fresh'
  <2>1. Quiet(h)
    BY <1>1, SetupIsQuiet
  <2>2. PICK n, m : Keeps(h, n, m)
    BY <2>1 DEF Quiet
  <2>3. n = handler'[h].number /\ m = handler'[h].mine
    BY <2>2 DEF Keeps
  <2>4. QED  BY <2>1, <2>2, <2>3, FreshKept DEF Quiet, workers
<1>2. ASSUME NEW h \in Handlers, Update(h) \/ Before(h) PROVE Fresh'
  <2>1. PICK n \in {0, handler[h].number}, m \in {0, handler[h].mine, stop} :
           Keeps(h, n, m) /\ (handler'[h].pc = "idle" => n = 0)
    BY <1>2, RestartEffect
  <2>2. /\ stop' \in {0, stop} /\ cancelled' \subseteq cancelled \cup {handler[h].mine}
        /\ UNCHANGED <<loops, updates>>
    BY <1>2, RestartEffect
  <2>3. QED  BY <2>1, <2>2, FreshKept
<1>3. ASSUME NEW h \in Handlers, RestartInstall(h) PROVE Fresh'
  <2>1. /\ Keeps(h, 0, 0) /\ handler'[h].pc = "idle"
        /\ stop' = handler[h].number /\ stop' \in Generations
        /\ \A g \in Generations \ {stop'} : loops'[g] = loops[g]
    BY <1>3, InstallEffect
  <2>2. UNCHANGED <<cancelled, updates>>
    BY <1>3 DEF RestartInstall, history
  <2>3. /\ \A k \in Handlers : handler[k].number \in Nat
        /\ updates \in Nat /\ \A g \in Generations : g \in Nat /\ g # 0
    <3>1. MaxUpdates \in Nat
      BY ConstantsAssumption
    <3>2. QED  BY <3>1 DEF TypeOK, HandlerState, Generations
  <2>4. /\ \A k \in Handlers \ {h} : handler'[k] = handler[k]
        /\ handler'[h].number = 0 /\ handler'[h].mine = 0
    BY <2>1 DEF Keeps
  <2>5. \A k \in Handlers : handler'[k].number <= updates'
    BY <2>2, <2>3, <2>4 DEF Fresh
  <2>6. \A j, k \in Handlers :
           j # k /\ handler'[j].number # 0 => handler'[j].number # handler'[k].number
    BY <2>4 DEF Fresh
  <2>7. \A k \in Handlers : handler'[k].pc = "idle" => handler'[k].number = 0
    BY <2>4 DEF Fresh, At
  <2>8. ASSUME NEW g \in Generations, g > updates' \/ \E k \in Handlers : handler'[k].number = g
        PROVE  /\ loops'[g] = NoLoops /\ g \notin cancelled' /\ stop' # g
               /\ \A k \in Handlers : handler'[k].mine # g
    <3>1. g # stop'
      <4>1. CASE g > updates'
        BY <2>1, <2>2, <2>3, <4>1 DEF Fresh
      <4>2. CASE \E k \in Handlers : handler'[k].number = g
        BY <2>1, <2>3, <2>4, <4>2 DEF Fresh
      <4>3. QED  BY <2>8, <4>1, <4>2
    <3>2. g > updates \/ \E k \in Handlers : handler[k].number = g
      BY <2>2, <2>3, <2>4, <2>8
    <3>3. /\ loops[g] = NoLoops /\ g \notin cancelled
          /\ \A k \in Handlers : handler[k].mine # g
      BY <3>2 DEF Fresh
    <3>4. QED  BY <2>1, <2>2, <2>3, <2>4, <3>1, <3>3
  <2>9. QED  BY <2>5, <2>6, <2>7, <2>8 DEF Fresh, At
<1>4. ASSUME NEW g \in Generations, NEW l \in LoopNames, Loop(g, l) PROVE Fresh'
  <2>1. \A k \in Generations : loops[k] = NoLoops => loops'[k] = NoLoops
    BY <1>4, LoopEffect
  <2>2. UNCHANGED <<stop, cancelled, handler, updates>>
    BY <1>4 DEF Loop, LoopTick, LoopIterated, LoopDone, history
  <2>3. QED  BY <2>1, <2>2 DEF Fresh, At
<1>5. CASE UNCHANGED vars
  BY <1>5 DEF vars, workers, history, Fresh, At
<1>6. QED  BY <1>1, <1>2, <1>3, <1>4, <1>5 DEF Next, HandlerStep, SetupStep, Restart, Before

----------------------------------------------------------------------------
(* The sale, and the workers of toggles that are on.                       *)

\* A restart keeps the sale, and is past the setup of one.
LEMMA RestartPC ==
    ASSUME TypeOK, NEW h \in Handlers, Restart(h)
    PROVE  /\ handler[h].pc \in RestartPCs
           /\ handler'[h].pc \in RestartPCs \cup {"idle"}
           /\ \A k \in Handlers \ {h} : handler'[k] = handler[k]
<1>0. handler \in [Handlers -> HandlerState]
  BY DEF TypeOK
<1>1. CASE RestartReadStop(h)
  BY <1>1, ReadStopEffect DEF RestartReadStop, At, RestartPCs, Keeps
<1>2. CASE RestartCancel(h)
  BY <1>0, <1>2, GotoEffect DEF RestartCancel, At, RestartPCs, Keeps
<1>3. CASE RestartClear(h)
  BY <1>3, ClearEffect DEF RestartClear, At, RestartPCs, Keeps
<1>4. CASE RestartSnapshot(h)
  BY <1>0, <1>4, SnapshotEffect, FinishEffect DEF RestartSnapshot, At, RestartPCs, Keeps
<1>5. CASE RestartInstall(h)
  BY <1>5, InstallEffect DEF RestartInstall, At, RestartPCs, Keeps
<1>6. QED  BY <1>1, <1>2, <1>3, <1>4, <1>5 DEF Restart

LEMMA SaleKeptStep == IInv /\ [Next]_vars => SaleKept'
<1> SUFFICES ASSUME TypeOK, SaleKept, [Next]_vars, faults' = 0
             PROVE  \A k \in Handlers :
                       /\ handler'[k].pc \in {"setSale", "setSaleAgain"} => handler'[k].id # ""
                       /\ handler'[k].pc \in RestartPCs \cup {"update"} => saleID' # ""
  BY DEF IInv, SaleKept
<1> DEFINE Kept(k) ==
              /\ handler'[k].pc \in {"setSale", "setSaleAgain"} => handler'[k].id # ""
              /\ handler'[k].pc \in RestartPCs \cup {"update"} => saleID' # ""
<1>0. handler \in [Handlers -> HandlerState] /\ faults \in Nat
  BY DEF TypeOK
<1>1. ASSUME NEW h \in Handlers, StartSimulation(h) PROVE \A k \in Handlers : Kept(k)
  <2>1. /\ \A k \in Handlers \ {h} : handler'[k] = handler[k]
        /\ handler'[h].pc \in {"setup", "update"}
        /\ handler'[h].pc = "update" => saleID # ""
    BY <1>1, StartSimulationEffect DEF Keeps
  <2>2. saleID' = saleID /\ faults' = faults
    BY <1>1 DEF StartSimulation, settings
  <2>3. QED  BY <2>1, <2>2 DEF SaleKept, RestartPCs
<1>2. ASSUME NEW h \in Handlers, StartSetup(h) \/ SetupFails(h) PROVE \A k \in Handlers : Kept(k)
  <2>1. /\ \A k \in Handlers \ {h} : handler'[k] = handler[k]
        /\ handler'[h].pc \in {"setup", "idle"}
    BY <1>0, <1>2, GotoEffect, FinishEffect DEF StartSetup, SetupFails, Keeps
  <2>2. saleID' = saleID /\ faults' = faults
    BY <1>2 DEF StartSetup, SetupFails, settings, history
  <2>3. QED  BY <2>1, <2>2 DEF SaleKept, RestartPCs
<1>3. ASSUME NEW h \in Handlers, SetupAnswered(h) PROVE \A k \in Handlers : Kept(k)
  <2>1. /\ \A k \in Handlers \ {h} : handler'[k] = handler[k]
        /\ handler'[h].pc = "setSale" /\ handler'[h].id # "" /\ faults = 0
    BY <1>3, SetupAnsweredEffect DEF Keeps
  <2>2. saleID' = saleID
    BY <1>3 DEF SetupAnswered, settings
  <2>3. QED  BY <2>1, <2>2 DEF SaleKept, RestartPCs
<1>4. ASSUME NEW h \in Handlers, SetSale(h) PROVE \A k \in Handlers : Kept(k)
  <2>1. faults = 0 /\ saleID' = handler[h].id /\ handler[h].pc = "setSale"
    BY <1>4 DEF SetSale, At, history
  <2>2. saleID' # ""
    BY <2>1 DEF SaleKept
  <2>3. CASE Goto(h, "setSaleAgain")
    <3>1. /\ \A k \in Handlers \ {h} : handler'[k] = handler[k]
          /\ handler'[h].id = handler[h].id
      BY <1>0, <2>3, GotoEffect DEF Keeps
    <3>2. QED  BY <2>1, <2>2, <3>1 DEF SaleKept
  <2>4. CASE Finish(h)
    <3>1. \A k \in Handlers \ {h} : handler'[k] = handler[k]
      BY <1>0, <2>4, FinishEffect DEF Keeps
    <3>2. handler'[h].pc = "idle"
      BY <1>0, <2>4, FinishEffect
    <3>3. QED  BY <2>1, <2>2, <3>1, <3>2 DEF SaleKept
  <2>5. CASE handler' = [handler EXCEPT ![h].pc = "update", ![h].id = ""]
    <3>1. \A k \in Handlers \ {h} : handler'[k] = handler[k]
      BY <2>5, SetSaleEffect DEF Keeps
    <3>2. handler'[h].pc = "update"
      BY <2>5, SetSaleEffect
    <3>3. QED  BY <2>1, <2>2, <3>1, <3>2 DEF SaleKept
  <2>6. QED  BY <1>4, <2>3, <2>4, <2>5 DEF SetSale
<1>5. ASSUME NEW h \in Handlers, SetSaleAgain(h) PROVE \A k \in Handlers : Kept(k)
  <2>1. faults = 0 /\ saleID' = handler[h].id /\ handler[h].pc = "setSaleAgain"
    BY <1>5 DEF SetSaleAgain, At, history
  <2>2. saleID' # ""
    BY <2>1 DEF SaleKept
  <2>3. /\ \A k \in Handlers \ {h} : handler'[k] = handler[k]
        /\ handler'[h].pc = "idle"
    BY <1>0, <1>5, FinishEffect DEF SetSaleAgain, Keeps
  <2>4. QED  BY <2>1, <2>2, <2>3 DEF SaleKept
<1>6. ASSUME NEW h \in Handlers, Update(h) PROVE \A k \in Handlers : Kept(k)
  <2>1. /\ \A k \in Handlers \ {h} : handler'[k] = handler[k]
        /\ handler'[h].pc = "readStop"
    BY <1>6, UpdateEffect DEF Keeps
  <2>2. saleID' = saleID /\ faults' = faults /\ handler[h].pc = "update"
    BY <1>6 DEF Update, At
  <2>3. QED  BY <2>1, <2>2 DEF SaleKept, RestartPCs
<1>7. ASSUME NEW h \in Handlers, Restart(h) PROVE \A k \in Handlers : Kept(k)
  <2>1. saleID' = saleID /\ faults' = faults
    BY <1>7 DEF Restart, RestartReadStop, RestartCancel, RestartClear, RestartSnapshot,
       RestartInstall, settings, history
  <2>2. QED  BY <1>7, <2>1, RestartPC DEF SaleKept, RestartPCs
<1>8. ASSUME NEW g \in Generations, NEW l \in LoopNames, Loop(g, l)
      PROVE  \A k \in Handlers : Kept(k)
  BY <1>8 DEF Loop, LoopTick, LoopIterated, LoopDone, settings, history, SaleKept
<1>9. CASE UNCHANGED vars
  BY <1>9 DEF vars, settings, history, SaleKept
<1>10. QED
  BY <1>1, <1>2, <1>3, <1>4, <1>5, <1>6, <1>7, <1>8, <1>9
     DEF Next, HandlerStep, Setup

LEMMA StopKeptStep == IInv /\ [Next]_vars => StopKept'
<1> SUFFICES ASSUME TypeOK, Fresh, SaleKept, StopKept, [Next]_vars, faults' = 0,
                    Restarting' = {}, cfg' # {}
             PROVE  stop' # 0
  BY DEF IInv, StopKept
<1>0. \A k \in Handlers : handler'[k].pc \notin RestartPCs
  BY DEF Restarting
<1>1. ASSUME NEW h \in Handlers, SetupStep(h) PROVE stop' # 0
  <2>1. Quiet(h)
    BY <1>1, SetupIsQuiet
  <2>2. \A k \in Handlers \ {h} : handler'[k] = handler[k]
    BY <2>1 DEF Quiet, Keeps
  <2>3. Restarting = {}
    BY <1>0, <2>1, <2>2 DEF Quiet, Restarting
  <2>4. faults = 0
    BY <1>1, SetupAnsweredEffect DEF SetupStep, StartSimulation, StartSetup, Setup, SetupFails,
       SetSale, SetSaleAgain, history
  <2>5. QED  BY <2>1, <2>3, <2>4 DEF Quiet, workers, StopKept
<1>2. ASSUME NEW h \in Handlers, Update(h) PROVE stop' # 0
  BY <1>0, <1>2, UpdateEffect DEF RestartPCs
<1>3. ASSUME NEW h \in Handlers, Restart(h) PROVE stop' # 0
  <2>0. handler \in [Handlers -> HandlerState]
    BY DEF TypeOK
  <2>1. handler'[h].pc = "idle"
    BY <1>0, <1>3, RestartPC
  <2>2. CASE RestartInstall(h)
    <3>1. stop' \in Generations
      BY <2>2, InstallEffect
    <3>2. MaxUpdates \in Nat
      BY ConstantsAssumption
    <3>3. QED  BY <3>1, <3>2 DEF Generations
  <2>3. CASE RestartSnapshot(h)
    <3>1. faults = 0 /\ cfg # {} /\ handler[h].pc = "snapshot"
      BY <2>3 DEF RestartSnapshot, settings, history, At
    <3>2. saleID # ""
      BY <3>1 DEF SaleKept, RestartPCs
    <3>3. handler' = [handler EXCEPT ![h].pc = "install", ![h].seen = cfg]
      BY <2>3, <3>1, <3>2 DEF RestartSnapshot
    <3>4. QED  BY <2>1, <3>3, SnapshotEffect
  <2>4. CASE RestartReadStop(h)
    BY <2>1, <2>4, ReadStopEffect
  <2>5. CASE RestartCancel(h)
    BY <2>0, <2>1, <2>5, GotoEffect DEF RestartCancel
  <2>6. CASE RestartClear(h)
    BY <2>1, <2>6, ClearEffect
  <2>7. QED  BY <1>3, <2>2, <2>3, <2>4, <2>5, <2>6 DEF Restart
<1>4. ASSUME NEW g \in Generations, NEW l \in LoopNames, Loop(g, l) PROVE stop' # 0
  BY <1>4 DEF Loop, LoopTick, LoopIterated, LoopDone, settings, history, StopKept,
     Restarting
<1>5. CASE UNCHANGED vars
  BY <1>5 DEF vars, settings, workers, history, StopKept, Restarting
<1>6. QED  BY <1>1, <1>2, <1>3, <1>4, <1>5 DEF Next, HandlerStep, SetupStep

\* Toggles that are on have loops.
LEMMA LoopsNotEmpty ==
    ASSUME NEW on \in SUBSET Scenarios, on # {}
    PROVE  Loops(on) # {}
<1>1. LoopNames \ {"late_surge"} # {}
  BY ConstantsAssumption
<1>2. QED  BY <1>1 DEF Loops

LEMMA InstalledStep == IInv /\ TypeOK' /\ [Next]_vars => Installed'
<1> SUFFICES ASSUME TypeOK, Fresh, Installed, [Next]_vars PROVE Installed'
  BY DEF IInv
<1> DEFINE Sees(k) == handler[k].pc = "install" => handler[k].seen # {}
           Clears(k) == handler[k].pc = "clear" /\ handler[k].mine = stop
<1>0. /\ handler \in [Handlers -> HandlerState]
      /\ \A k \in Handlers : Sees(k)
      /\ stop # 0 => stop \in Live \/ \E k \in Handlers : Clears(k)
  BY DEF TypeOK, Installed, At
<1>1. ASSUME NEW h \in Handlers, \A k \in Handlers \ {h} : handler'[k] = handler[k],
             handler'[h].pc # "install", handler[h].pc # "clear",
             UNCHANGED <<stop, loops, cancelled>>
      PROVE  Installed'
  BY <1>0, <1>1 DEF Installed, At, Live, Running
<1>2. ASSUME NEW h \in Handlers, SetupStep(h) PROVE Installed'
  <2>1. Quiet(h)
    BY <1>2, SetupIsQuiet
  <2>2. QED  BY <1>1, <2>1 DEF Quiet, Keeps, workers, RestartPCs
<1>3. ASSUME NEW h \in Handlers, Update(h) PROVE Installed'
  BY <1>1, <1>3, UpdateEffect DEF Update, Keeps, workers, At
<1>4. CASE \E h \in Handlers : Restart(h)
  <2>1. PICK h \in Handlers : Restart(h)
    BY <1>4
  <2>2. \A k \in Handlers \ {h} : handler'[k] = handler[k]
    BY <2>1, RestartPC
  <2>3. CASE RestartReadStop(h)
    <3>1. handler'[h].pc # "install"
      BY <2>3, ReadStopEffect
    <3>2. handler[h].pc # "clear" /\ UNCHANGED <<stop, loops, cancelled>>
      BY <2>3 DEF RestartReadStop, workers, At
    <3>3. QED  BY <1>1, <2>2, <3>1, <3>2
  <2>4. CASE RestartCancel(h)
    <3>1. Keeps(h, handler[h].number, handler[h].mine) /\ handler'[h].pc = "clear"
      BY <1>0, <2>4, GotoEffect DEF RestartCancel
    <3>2. cancelled' = cancelled \cup {handler[h].mine} /\ UNCHANGED <<stop, loops>>
      BY <2>4 DEF RestartCancel
    <3>3. handler[h].pc = "cancel"
      BY <2>4 DEF RestartCancel, At
    <3>4. stop # 0 => stop \in Live' \/ \E k \in Handlers : Clears(k)'
      BY <1>0, <2>2, <3>1, <3>2, <3>3 DEF Keeps, Live, Running
    <3>5. \A k \in Handlers : Sees(k)'
      BY <1>0, <2>2, <3>1
    <3>6. QED  BY <3>2, <3>4, <3>5 DEF Installed, At
  <2>5. CASE RestartClear(h)
    <3>1. stop' = 0 /\ handler'[h].pc = "snapshot"
      BY <2>5, ClearEffect DEF RestartClear
    <3>2. QED  BY <1>0, <2>2, <3>1 DEF Installed, At
  <2>6. CASE RestartSnapshot(h)
    <3>1. UNCHANGED <<stop, loops, cancelled>> /\ handler[h].pc = "snapshot"
      BY <2>6 DEF RestartSnapshot, workers, At
    <3>2. CASE Finish(h)
      BY <1>0, <1>1, <2>2, <3>1, <3>2, FinishEffect
    <3>3. CASE ~Finish(h)
      <4>1. cfg # {} /\ handler' = [handler EXCEPT ![h].pc = "install", ![h].seen = cfg]
        BY <2>6, <3>3 DEF RestartSnapshot
      <4>2. handler'[h].pc = "install" /\ handler'[h].seen # {}
        BY <4>1, SnapshotEffect
      <4>3. QED  BY <1>0, <2>2, <3>1, <4>2 DEF Installed, At, Live, Running
    <3>4. QED  BY <3>2, <3>3
  <2>7. CASE RestartInstall(h)
    <3>1. /\ stop' \in Generations /\ stop' = handler[h].number
          /\ handler'[h].pc = "idle"
          /\ loops'[stop'].waiting = Loops(handler[h].seen)
      BY <2>7, InstallEffect
    <3>2. handler[h].seen # {} /\ handler[h].seen \in SUBSET Scenarios
      BY <1>0, <2>7 DEF RestartInstall, At, HandlerState
    <3>3. stop' \notin cancelled' /\ stop' \in Live'
      <4>1. stop' \notin cancelled
        BY <3>1 DEF Fresh
      <4>2. cancelled' = cancelled
        BY <2>7 DEF RestartInstall
      <4>3. QED  BY <3>1, <3>2, <4>1, <4>2, LoopsNotEmpty DEF Live, Running, Generations
    <3>4. QED  BY <1>0, <2>2, <3>1, <3>3 DEF Installed, At
  <2>8. QED  BY <2>1, <2>3, <2>4, <2>5, <2>6, <2>7 DEF Restart
<1>5. ASSUME NEW g \in Generations, NEW l \in LoopNames, Loop(g, l) PROVE Installed'
  <2>1. UNCHANGED <<stop, cancelled, handler>>
    BY <1>5 DEF Loop, LoopTick, LoopIterated, LoopDone
  <2>2. \A k \in Generations : k \notin cancelled => Running(k)' = Running(k)
    BY <1>5, LoopEffect
  <2>3. stop \in Live => stop \in Live'
    BY <2>1, <2>2 DEF Live, Generations
  <2>4. QED  BY <1>0, <2>1, <2>3 DEF Installed, At
<1>6. CASE UNCHANGED vars
  BY <1>0, <1>6 DEF vars, workers, Installed, At, Live, Running
<1>7. QED  BY <1>2, <1>3, <1>4, <1>5, <1>6 DEF Next, HandlerStep, SetupStep

----------------------------------------------------------------------------
(* Restarts one after the other.                                           *)

LEMMA NotZero == \A g \in Generations : g \in Nat /\ g # 0
<1>1. MaxUpdates \in Nat
  BY ConstantsAssumption
<1>2. QED  BY <1>1 DEF Generations

\* Only a restart that installs makes a generation live.
LEMMA LiveShrinks ==
    ASSUME cancelled \subseteq cancelled', \A g \in Generations : Running(g)' \subseteq Running(g)
    PROVE  Live' \subseteq Live /\ \A g \in cancelled' : g \notin Live'
  BY DEF Live

LEMMA RestartAlone ==
    ASSUME TypeOK, Fresh, Sequential, overlaps = 0, NEW h \in Handlers, Restart(h)
    PROVE  /\ Restarting = {h} /\ RestartKnows(h)
           /\ Restarting' = IF handler'[h].pc = "idle" THEN {} ELSE {h}
<1>1. handler[h].pc \in RestartPCs /\ handler'[h].pc \in RestartPCs \cup {"idle"}
  BY RestartPC
<1>2. \A k \in Handlers \ {h} : handler'[k] = handler[k]
  BY RestartPC
<1>3. Restarting = {h} /\ RestartKnows(h)
  BY <1>1 DEF Sequential, Restarting
<1>4. \A k \in Handlers \ {h} : handler'[k].pc \notin RestartPCs
  BY <1>2, <1>3 DEF Restarting
<1>5. QED  BY <1>1, <1>3, <1>4 DEF Restarting, RestartPCs

LEMMA SequentialKept ==
    ASSUME TypeOK, Fresh, Sequential, overlaps = 0, NEW h \in Handlers, Restart(h),
           handler'[h].pc # "idle", RestartKnows(h)'
    PROVE  Sequential'
<1>1. Restarting' = {h}
  BY RestartAlone
<1>2. \A k \in Handlers \ {h} : handler'[k].pc \notin RestartPCs
  BY <1>1 DEF Restarting
<1>3. \A k \in Handlers : RestartKnows(k)'
  BY <1>2 DEF RestartKnows, RestartPCs, At
<1>4. QED  BY <1>1, <1>3 DEF Sequential

LEMMA SequentialStep == IInv /\ TypeOK' /\ [Next]_vars => Sequential'
<1> SUFFICES ASSUME TypeOK, Fresh, Sequential, TypeOK', [Next]_vars, overlaps' = 0
             PROVE  Sequential'
  BY DEF IInv, Sequential
<1>0. handler \in [Handlers -> HandlerState] /\ overlaps \in Nat /\ 0 \notin cancelled
      /\ 0 \notin Live
  BY NotZero DEF TypeOK, Live
<1>1. ASSUME NEW h \in Handlers, SetupStep(h) PROVE Sequential'
  <2>1. Quiet(h)
    BY <1>1, SetupIsQuiet
  <2>2. \A k \in Handlers \ {h} : handler'[k] = handler[k]
    BY <2>1 DEF Quiet, Keeps
  <2>3. UNCHANGED <<cfg, stop, loops, cancelled, overlaps>>
    BY <2>1 DEF Quiet, workers
  <2>4. Restarting' = Restarting
    BY <2>1, <2>2 DEF Quiet, Restarting
  <2>5. Live' = Live /\ \A g \in Generations : Running(g)' = Running(g)
    BY <2>3 DEF Live, Running
  <2>6. \A k \in Handlers \ {h} : RestartKnows(k) => RestartKnows(k)'
    BY <2>2, <2>3, <2>5 DEF RestartKnows, At
  <2>7. RestartKnows(h)'
    BY <2>1 DEF Quiet, RestartKnows, RestartPCs, At
  <2>8. Running(stop)' = Running(stop) /\ Loops(cfg)' = Loops(cfg)
    BY <2>3 DEF Running, Loops
  <2>9. QED  BY <2>3, <2>4, <2>5, <2>6, <2>7, <2>8 DEF Sequential
<1>2. ASSUME NEW h \in Handlers, Update(h) PROVE Sequential'
  <2>1. /\ \A k \in Handlers \ {h} : handler'[k] = handler[k]
        /\ handler'[h].pc = "readStop"
    BY <1>2, UpdateEffect DEF Keeps
  <2>2. Restarting = {} /\ overlaps = 0 /\ UNCHANGED <<stop, loops, cancelled>>
    BY <1>0, <1>2 DEF Update, workers
  <2>3. Restarting' = {h}
    BY <2>1, <2>2 DEF Restarting, RestartPCs
  <2>4. Live' = Live /\ Live \subseteq {stop}
    BY <2>2 DEF Live, Running, Sequential
  <2>5. RestartKnows(h)'
    BY <2>1, <2>2, <2>4 DEF RestartKnows, At
  <2>6. \A k \in Handlers \ {h} : handler'[k].pc \notin RestartPCs
    BY <2>3 DEF Restarting
  <2>7. \A k \in Handlers : RestartKnows(k)'
    BY <2>5, <2>6 DEF RestartKnows, RestartPCs, At
  <2>8. QED  BY <2>3, <2>7 DEF Sequential
<1>3. ASSUME NEW h \in Handlers, Restart(h) PROVE Sequential'
  <2>0. overlaps = 0
    BY <1>3 DEF Restart, RestartReadStop, RestartCancel, RestartClear, RestartSnapshot,
       RestartInstall, history
  <2>1. Restarting = {h} /\ RestartKnows(h)
    BY <1>3, <2>0, RestartAlone
  <2>2. CASE RestartReadStop(h)
    <3>1. /\ Keeps(h, handler[h].number, stop)
          /\ handler'[h].pc = IF stop = 0 THEN "snapshot" ELSE "cancel"
      BY <2>2, ReadStopEffect
    <3>2. handler'[h].mine = stop
      BY <3>1 DEF Keeps
    <3>3. UNCHANGED <<stop, loops, cancelled>> /\ handler[h].pc = "readStop"
      BY <2>2 DEF RestartReadStop, workers, At
    <3>4. Live' = Live /\ Live \subseteq {stop}
      BY <2>1, <3>3 DEF Live, Running, RestartKnows, At
    <3>5. RestartKnows(h)' /\ handler'[h].pc # "idle"
      <4>1. CASE stop = 0
        BY <1>0, <3>1, <3>3, <3>4, <4>1 DEF RestartKnows, At
      <4>2. CASE stop # 0
        BY <3>1, <3>2, <3>4, <4>2 DEF RestartKnows, At
      <4>3. QED  BY <4>1, <4>2
    <3>6. QED  BY <1>3, <2>0, <3>5, SequentialKept
  <2>3. CASE RestartCancel(h)
    <3>1. handler'[h].pc = "clear"
      BY <1>0, <2>3, GotoEffect DEF RestartCancel
    <3>2. Live \subseteq {handler[h].mine} /\ cancelled' = cancelled \cup {handler[h].mine}
          /\ loops' = loops
      BY <2>1, <2>3 DEF RestartCancel, RestartKnows
    <3>3. Live' = {}
      BY <3>2, LiveShrinks DEF Running
    <3>4. RestartKnows(h)' /\ handler'[h].pc # "idle"
      BY <3>1, <3>3 DEF RestartKnows, At
    <3>5. QED  BY <1>3, <2>0, <3>4, SequentialKept
  <2>4. CASE RestartClear(h)
    <3>1. handler'[h].pc = "snapshot"
      BY <2>4, ClearEffect
    <3>2. Live = {} /\ stop' = 0 /\ UNCHANGED <<loops, cancelled>>
      BY <2>1, <2>4 DEF RestartClear, RestartKnows
    <3>3. Live' = {}
      BY <3>2 DEF Live, Running
    <3>4. RestartKnows(h)' /\ handler'[h].pc # "idle"
      BY <3>1, <3>2, <3>3 DEF RestartKnows, At
    <3>5. QED  BY <1>3, <2>0, <3>4, SequentialKept
  <2>5. CASE RestartSnapshot(h)
    <3>1. Live = {} /\ stop = 0 /\ UNCHANGED <<cfg, stop, loops, cancelled>>
      BY <2>1, <2>5 DEF RestartSnapshot, RestartKnows, At, workers, settings
    <3>2. Live' = {}
      BY <3>1 DEF Live, Running
    <3>3. CASE handler' = [handler EXCEPT ![h].pc = "install", ![h].seen = cfg]
      <4>1. handler'[h].pc = "install" /\ handler'[h].seen = cfg
        BY <3>3, SnapshotEffect
      <4>2. RestartKnows(h)' /\ handler'[h].pc # "idle"
        BY <3>1, <3>2, <4>1 DEF RestartKnows, At
      <4>3. QED  BY <1>3, <2>0, <4>2, SequentialKept
    <3>4. CASE Finish(h)
      <4>1. handler'[h].pc = "idle"
        BY <1>0, <3>4, FinishEffect
      <4>2. Restarting' = {}
        BY <1>3, <2>0, <4>1, RestartAlone
      <4>3. \A k \in Handlers : handler'[k].pc \notin RestartPCs
        BY <4>2 DEF Restarting
      <4>4. \A k \in Handlers : RestartKnows(k)'
        BY <4>3 DEF RestartKnows, RestartPCs, At
      <4>5. QED  BY <1>0, <3>1, <3>2, <4>2, <4>4 DEF Sequential
    <3>5. QED  BY <2>5, <3>3, <3>4 DEF RestartSnapshot
  <2>6. CASE RestartInstall(h)
    <3> DEFINE n == handler[h].number
    <3>1. /\ n \in Generations /\ stop' = n /\ handler'[h].pc = "idle"
          /\ loops'[n].waiting = Loops(handler[h].seen)
          /\ loops'[n].busy = loops[n].busy
          /\ \A g \in Generations \ {n} : loops'[g] = loops[g]
      BY <2>6, InstallEffect
    <3>2. handler[h].seen = cfg /\ Live = {} /\ UNCHANGED <<cfg, cancelled>>
      BY <2>1, <2>6 DEF RestartInstall, RestartKnows, At, settings
    <3>3. loops[n] = NoLoops /\ n \notin cancelled
      BY <3>1 DEF Fresh
    <3> HIDE DEF n
    <3>4. Restarting' = {}
      BY <1>3, <2>0, <3>1, RestartAlone
    <3>5. Live' \subseteq {n}
      BY <3>1, <3>2 DEF Live, Running
    <3>6. loops'[n].busy = {}
      BY <3>1, <3>3 DEF NoLoops
    <3>7. Running(stop)' = Loops(cfg)'
      BY <3>1, <3>2, <3>6 DEF Running
    <3>8. \A k \in Handlers : handler'[k].pc \notin RestartPCs
      BY <3>4 DEF Restarting
    <3>9. \A k \in Handlers : RestartKnows(k)'
      BY <3>8 DEF RestartKnows, RestartPCs, At
    <3>10. QED  BY <3>1, <3>2, <3>3, <3>4, <3>5, <3>7, <3>9 DEF Sequential
  <2>7. QED  BY <1>3, <2>2, <2>3, <2>4, <2>5, <2>6 DEF Restart
<1>4. ASSUME NEW g \in Generations, NEW l \in LoopNames, Loop(g, l) PROVE Sequential'
  <2>1. /\ \A k \in Generations : Running(k)' \subseteq Running(k)
        /\ \A k \in Generations : k \notin cancelled => Running(k)' = Running(k)
    BY <1>4, LoopEffect
  <2>2. UNCHANGED <<cfg, stop, cancelled, handler, overlaps>>
    BY <1>4 DEF Loop, LoopTick, LoopIterated, LoopDone, settings, history
  <2>3. Live' \subseteq Live
    BY <2>1, <2>2, LiveShrinks
  <2>4. Restarting' = Restarting /\ Loops(cfg)' = Loops(cfg)
    BY <2>2 DEF Restarting, Loops
  <2>5. \A k \in Handlers : RestartKnows(k)'
    <3>1. \A k \in Handlers : RestartKnows(k)
      BY <2>2 DEF Sequential
    <3>2. QED  BY <2>2, <2>3, <3>1 DEF RestartKnows, At
  <2>6. \A j, k \in Restarting' : j = k
    BY <2>2, <2>4 DEF Sequential
  <2>7. ASSUME Restarting' = {}
        PROVE  /\ Live' \subseteq {stop'} /\ stop' \notin cancelled'
               /\ stop' # 0 => Running(stop)' = Loops(cfg)'
    <3>1. Live \subseteq {stop} /\ stop \notin cancelled /\ (stop # 0 => Running(stop) = Loops(cfg))
      BY <2>2, <2>4, <2>7 DEF Sequential
    <3>2. stop # 0 => stop \in Generations
      <4>1. MaxUpdates \in Nat
        BY ConstantsAssumption
      <4>2. QED  BY <4>1 DEF TypeOK, Generations
    <3>3. stop # 0 => Running(stop)' = Running(stop)
      <4>1. \A k \in Generations : k \notin cancelled => Running(k)' = Running(k)
        BY <2>1
      <4>2. QED  BY <2>2, <3>1, <3>2, <4>1 DEF Running
    <3>4. QED  BY <2>2, <2>3, <2>4, <3>1, <3>3
  <2>8. QED  BY <2>5, <2>6, <2>7 DEF Sequential
<1>5. CASE UNCHANGED vars
  BY <1>5 DEF vars, settings, workers, history, Sequential, RestartKnows, Restarting, Live,
     Running, Loops, At
<1>6. QED  BY <1>1, <1>2, <1>3, <1>4, <1>5 DEF Next, HandlerStep, SetupStep

----------------------------------------------------------------------------
(* How many generations are lost.                                          *)

LEMMA Finite ==
    TypeOK => /\ IsFiniteSet(Loose) /\ Cardinality(Loose) \in Nat
              /\ IsFiniteSet(Restarting) /\ Cardinality(Restarting) \in Nat
<1>1. MaxUpdates \in Nat /\ IsFiniteSet(Handlers)
  BY ConstantsAssumption
<1>2. IsFiniteSet(Generations)
  BY <1>1, FS_Interval DEF Generations
<1>3. Loose \subseteq Generations /\ Restarting \subseteq Handlers
  BY DEF Loose, Live, Restarting
<1>4. QED  BY <1>1, <1>2, <1>3, FS_Subset, FS_CardinalityType

\* Neither a loose generation nor a restart is added.
LEMMA AccountKept ==
    ASSUME TypeOK, TypeOK', Account, Loose' \subseteq Loose, Restarting' = Restarting,
           overlaps' = overlaps
    PROVE  Account'
<1>1. Cardinality(Loose') <= Cardinality(Loose) /\ Cardinality(Loose') \in Nat
      /\ Cardinality(Loose) \in Nat /\ Cardinality(Restarting) \in Nat
  BY Finite, FS_Subset, FS_CardinalityType
<1>2. overlaps \in Nat
  BY DEF TypeOK
<1>3. (IF Restarting' = {} THEN 0 ELSE 1) = (IF Restarting = {} THEN 0 ELSE 1)
  OBVIOUS
<1> DEFINE d == IF Restarting = {} THEN 0 ELSE 1
<1>4. d \in Nat
  OBVIOUS
<1>5. Cardinality(Loose) + Cardinality(Restarting) <= overlaps + d
  BY DEF Account
<1> HIDE DEF d
<1>6. Cardinality(Loose') + Cardinality(Restarting) <= overlaps + d
  BY <1>1, <1>2, <1>4, <1>5
<1>7. QED  BY <1>3, <1>6 DEF Account, d

\* A restart ends, and at most one generation g becomes loose: none if it was the
\* last restart in progress.
LEMMA AccountEnded ==
    ASSUME TypeOK, TypeOK', Account, NEW h \in Restarting, NEW g,
           Loose' \subseteq Loose \cup {g}, Restarting' = Restarting \ {h},
           overlaps' = overlaps, Restarting' = {} => Loose' \subseteq Loose
    PROVE  Account'
<1>1. /\ IsFiniteSet(Loose) /\ Cardinality(Loose) \in Nat
      /\ IsFiniteSet(Restarting) /\ Cardinality(Restarting) \in Nat
  BY Finite
<1>2. overlaps \in Nat
  BY DEF TypeOK
<1>3. /\ Cardinality(Restarting') \in Nat
      /\ Cardinality(Restarting') = Cardinality(Restarting) - 1
  <2>1. Cardinality(Restarting \ {h}) = Cardinality(Restarting) - 1
    BY <1>1, FS_RemoveElement
  <2>2. IsFiniteSet(Restarting \ {h}) /\ Cardinality(Restarting \ {h}) \in Nat
    BY <1>1, FS_Subset, FS_CardinalityType
  <2>3. QED  BY <2>1, <2>2
<1>4. Cardinality(Loose) + Cardinality(Restarting) <= overlaps + 1
  BY DEF Account
<1>5. CASE Restarting' = {}
  <2>1. Cardinality(Loose') <= Cardinality(Loose) /\ Cardinality(Loose') \in Nat
    BY <1>1, <1>5, FS_Subset, FS_CardinalityType
  <2>2. Cardinality(Loose') + Cardinality(Restarting') <= overlaps
    BY <1>1, <1>2, <1>3, <1>4, <2>1
  <2>3. overlaps' + 0 = overlaps
    BY <1>2
  <2>4. QED  BY <1>5, <2>2, <2>3 DEF Account
<1>6. CASE Restarting' # {}
  <2>1. /\ IsFiniteSet(Loose \cup {g}) /\ Cardinality(Loose \cup {g}) \in Nat
        /\ Cardinality(Loose \cup {g}) <= Cardinality(Loose) + 1
    <3>1. /\ IsFiniteSet(Loose \cup {g})
          /\ Cardinality(Loose \cup {g}) =
                IF g \in Loose THEN Cardinality(Loose) ELSE Cardinality(Loose) + 1
      BY <1>1, FS_AddElement
    <3>2. QED  BY <1>1, <3>1
  <2>2. /\ Cardinality(Loose') <= Cardinality(Loose \cup {g}) /\ Cardinality(Loose') \in Nat
    BY <2>1, FS_Subset, FS_CardinalityType
  <2>3. Cardinality(Loose') + Cardinality(Restarting') <= overlaps + 1
    BY <1>1, <1>2, <1>3, <1>4, <2>1, <2>2
  <2>4. QED  BY <1>6, <2>3 DEF Account
<1>7. QED  BY <1>5, <1>6

\* A restart begins: it overlaps with those in progress, if there are any.
LEMMA AccountBegun ==
    ASSUME TypeOK, TypeOK', Account, NEW h, h \notin Restarting,
           Loose' \subseteq Loose, Restarting' = Restarting \cup {h},
           overlaps' = IF Restarting = {} THEN overlaps ELSE overlaps + 1
    PROVE  Account'
<1>1. /\ IsFiniteSet(Loose) /\ Cardinality(Loose) \in Nat
      /\ IsFiniteSet(Restarting) /\ Cardinality(Restarting) \in Nat
  BY Finite
<1>2. overlaps \in Nat
  BY DEF TypeOK
<1>3. Cardinality(Restarting') = Cardinality(Restarting) + 1
  BY <1>1, FS_AddElement
<1>4. Cardinality(Loose') <= Cardinality(Loose) /\ Cardinality(Loose') \in Nat
  BY <1>1, FS_Subset, FS_CardinalityType
<1>5. CASE Restarting = {}
  <2>1. Cardinality(Loose) + Cardinality(Restarting) <= overlaps /\ overlaps' = overlaps
    BY <1>2, <1>5 DEF Account
  <2>2. Cardinality(Loose') + Cardinality(Restarting') <= overlaps' + 1
    BY <1>1, <1>2, <1>3, <1>4, <2>1
  <2>3. QED  BY <2>2 DEF Account
<1>6. CASE Restarting # {}
  <2>1. Cardinality(Loose) + Cardinality(Restarting) <= overlaps + 1 /\ overlaps' = overlaps + 1
    BY <1>6 DEF Account
  <2>2. Cardinality(Loose') + Cardinality(Restarting') <= overlaps' + 1
    BY <1>1, <1>2, <1>3, <1>4, <2>1
  <2>3. QED  BY <2>2 DEF Account
<1>7. QED  BY <1>5, <1>6

LEMMA AccountStep ==
    IInv /\ TypeOK' /\ [Next]_vars => Account'
<1> SUFFICES ASSUME TypeOK, Fresh, Account, TypeOK', [Next]_vars PROVE Account'
  BY DEF IInv
<1>0. handler \in [Handlers -> HandlerState]
  BY DEF TypeOK
<1>1. ASSUME NEW h \in Handlers, SetupStep(h) PROVE Account'
  <2>1. Quiet(h)
    BY <1>1, SetupIsQuiet
  <2>2. \A k \in Handlers \ {h} : handler'[k] = handler[k]
    BY <2>1 DEF Quiet, Keeps
  <2>3. UNCHANGED <<stop, loops, cancelled, overlaps>>
    BY <2>1 DEF Quiet, workers
  <2>4. Restarting' = Restarting
    BY <2>1, <2>2 DEF Quiet, Restarting
  <2>5. \A k \in Handlers : \A pc \in RestartPCs :
           handler'[k].pc = pc <=> handler[k].pc = pc
    BY <2>1, <2>2 DEF Quiet
  <2>6. NoneHasRead' <=> NoneHasRead
    BY <2>4, <2>5 DEF NoneHasRead, At, Restarting, RestartPCs
  <2>7. Live' = Live
    BY <2>3 DEF Live, Running
  <2>8. \A k \in Handlers : At(k, "cancel") => At(k, "cancel")' /\ handler'[k] = handler[k]
    BY <2>1, <2>2 DEF Quiet, At, RestartPCs
  <2>9. Loose' \subseteq Loose
    BY <2>3, <2>6, <2>7, <2>8 DEF Loose
  <2>10. QED  BY <2>3, <2>4, <2>9, AccountKept
<1>2. ASSUME NEW h \in Handlers, Update(h) PROVE Account'
  <2>1. /\ \A k \in Handlers \ {h} : handler'[k] = handler[k]
        /\ handler'[h].pc = "readStop"
    BY <1>2, UpdateEffect DEF Keeps
  <2>2. handler[h].pc = "update" /\ UNCHANGED <<stop, loops, cancelled>>
    BY <1>2 DEF Update, At, workers
  <2>3. h \notin Restarting /\ Restarting' = Restarting \cup {h}
    BY <2>1, <2>2 DEF Restarting, RestartPCs
  <2>4. NoneHasRead => NoneHasRead'
    BY <2>1, <2>3 DEF NoneHasRead, At, Restarting
  <2>5. Live' = Live
    BY <2>2 DEF Live, Running
  <2>6. \A k \in Handlers : At(k, "cancel") => At(k, "cancel")' /\ handler'[k] = handler[k]
    BY <2>1, <2>2 DEF At
  <2>7. Loose' \subseteq Loose
    BY <2>2, <2>4, <2>5, <2>6 DEF Loose
  <2>8. overlaps' = IF Restarting = {} THEN overlaps ELSE overlaps + 1
    BY <1>2 DEF Update
  <2>9. QED  BY <2>3, <2>7, <2>8, AccountBegun
<1>3. ASSUME NEW h \in Handlers, Restart(h) PROVE Account'
  <2>1. /\ handler[h].pc \in RestartPCs /\ handler'[h].pc \in RestartPCs \cup {"idle"}
        /\ \A k \in Handlers \ {h} : handler'[k] = handler[k]
    BY <1>3, RestartPC
  <2>2. h \in Restarting
    BY <2>1 DEF Restarting
  <2>3. Restarting' = IF handler'[h].pc = "idle" THEN Restarting \ {h} ELSE Restarting
    BY <2>1 DEF Restarting, RestartPCs
  <2>4. overlaps' = overlaps
    BY <1>3 DEF Restart, RestartReadStop, RestartCancel, RestartClear, RestartSnapshot,
       RestartInstall, history
  <2>5. \A k \in Handlers \ {h} : At(k, "cancel") => At(k, "cancel")' /\ handler'[k] = handler[k]
    BY <2>1 DEF At
  <2>6. CASE RestartReadStop(h)
    <3>1. /\ Keeps(h, handler[h].number, stop)
          /\ handler'[h].pc = IF stop = 0 THEN "snapshot" ELSE "cancel"
      BY <2>6, ReadStopEffect
    <3>2. handler'[h].mine = stop
      BY <3>1 DEF Keeps
    <3>3. UNCHANGED <<stop, loops, cancelled>> /\ handler[h].pc = "readStop"
      BY <2>6 DEF RestartReadStop, workers, At
    <3>4. Live' = Live /\ \A g \in Live : g # 0
      BY <3>3, NotZero DEF Live, Running
    <3>5. \A g \in Loose' : g # stop
      <4>1. SUFFICES ASSUME stop \in Loose' PROVE FALSE
        OBVIOUS
      <4>2. stop # 0
        BY <3>4, <4>1 DEF Loose
      <4>3. At(h, "cancel")'
        BY <3>1, <4>2 DEF At
      <4>4. QED  BY <3>2, <4>1, <4>3 DEF Loose
    <3>6. Loose' \subseteq Loose
      <4>1. \A k \in Handlers : At(k, "cancel") => At(k, "cancel")' /\ handler'[k] = handler[k]
        BY <2>5, <3>3 DEF At
      <4>2. QED  BY <3>4, <3>5, <4>1 DEF Loose
    <3>7. handler'[h].pc # "idle"
      BY <3>1
    <3>8. QED  BY <2>3, <2>4, <3>6, <3>7, AccountKept
  <2>7. CASE RestartCancel(h)
    <3>1. handler'[h].pc = "clear"
      BY <1>0, <2>7, GotoEffect DEF RestartCancel
    <3>2. /\ handler[h].pc = "cancel" /\ cancelled' = cancelled \cup {handler[h].mine}
          /\ UNCHANGED <<stop, loops>>
      BY <2>7 DEF RestartCancel, At
    <3>3. ~NoneHasRead /\ ~NoneHasRead'
      <4>1. h \in Restarting'
        BY <2>2, <2>3, <3>1
      <4>2. QED  BY <2>2, <3>1, <3>2, <4>1 DEF NoneHasRead, At
    <3>4. Live' \subseteq Live /\ handler[h].mine \notin Live'
      BY <3>2 DEF Live, Running
    <3>5. Loose' \subseteq Loose
      BY <2>5, <3>3, <3>4 DEF Loose
    <3>6. QED  BY <2>3, <2>4, <3>1, <3>5, AccountKept
  <2>8. CASE RestartClear(h)
    <3>1. handler'[h].pc = "snapshot"
      BY <2>8, ClearEffect
    <3>2. handler[h].pc = "clear" /\ UNCHANGED <<cancelled, loops>>
      BY <2>8 DEF RestartClear, At
    <3>3. ~NoneHasRead
      BY <2>2, <3>2 DEF NoneHasRead, At
    <3>4. Live' = Live
      BY <3>2 DEF Live, Running
    <3>5. \A k \in Handlers : At(k, "cancel") => At(k, "cancel")' /\ handler'[k] = handler[k]
      BY <2>5, <3>2 DEF At
    <3>6. Loose' \subseteq Loose
      BY <3>3, <3>4, <3>5 DEF Loose
    <3>7. QED  BY <2>3, <2>4, <3>1, <3>6, AccountKept
  <2>9. CASE RestartSnapshot(h)
    <3>1. handler[h].pc = "snapshot" /\ UNCHANGED <<stop, cancelled, loops>>
      BY <2>9 DEF RestartSnapshot, At, workers
    <3>2. ~NoneHasRead
      BY <2>2, <3>1 DEF NoneHasRead, At
    <3>3. Live' = Live
      BY <3>1 DEF Live, Running
    <3>4. \A k \in Handlers : At(k, "cancel") => At(k, "cancel")' /\ handler'[k] = handler[k]
      BY <2>5, <3>1 DEF At
    <3>5. Loose' \subseteq Loose
      BY <3>2, <3>3, <3>4 DEF Loose
    <3>6. CASE handler'[h].pc = "idle"
      BY <2>2, <2>3, <2>4, <3>5, <3>6, AccountEnded
    <3>7. CASE handler'[h].pc # "idle"
      BY <2>3, <2>4, <3>5, <3>7, AccountKept
    <3>8. QED  BY <3>6, <3>7
  <2>10. CASE RestartInstall(h)
    <3> DEFINE n == handler[h].number
    <3>1. /\ stop' = n /\ handler'[h].pc = "idle"
          /\ \A g \in Generations \ {n} : loops'[g] = loops[g]
      BY <2>10, InstallEffect
    <3>2. handler[h].pc = "install" /\ UNCHANGED cancelled
      BY <2>10 DEF RestartInstall, At
    <3> HIDE DEF n
    <3>3. ~NoneHasRead
      BY <2>2, <3>2 DEF NoneHasRead, At
    <3>4. Live' \subseteq Live \cup {n}
      BY <3>1, <3>2 DEF Live, Running
    <3>5. \A k \in Handlers : At(k, "cancel") => At(k, "cancel")' /\ handler'[k] = handler[k]
      BY <2>5, <3>2 DEF At
    <3>6. Loose' \subseteq Loose \cup {n}
      BY <3>3, <3>4, <3>5 DEF Loose
    <3>7. Restarting' = Restarting \ {h}
      BY <2>3, <3>1
    <3>8. Restarting' = {} => Loose' \subseteq Loose
      <4>1. ASSUME Restarting' = {} PROVE n \notin Loose'
        BY <3>1, <4>1 DEF Loose, NoneHasRead
      <4>2. QED  BY <3>6, <4>1
    <3>9. QED  BY <2>2, <2>4, <3>6, <3>7, <3>8, AccountEnded
  <2>11. QED  BY <1>3, <2>6, <2>7, <2>8, <2>9, <2>10 DEF Restart
<1>4. ASSUME NEW g \in Generations, NEW l \in LoopNames, Loop(g, l) PROVE Account'
  <2>1. \A k \in Generations : Running(k)' \subseteq Running(k)
    BY <1>4, LoopEffect
  <2>2. UNCHANGED <<stop, cancelled, handler, overlaps>>
    BY <1>4 DEF Loop, LoopTick, LoopIterated, LoopDone, history
  <2>3. Live' \subseteq Live
    BY <2>1, <2>2, LiveShrinks
  <2>4. Restarting' = Restarting /\ (NoneHasRead' <=> NoneHasRead)
    BY <2>2 DEF Restarting, NoneHasRead, At
  <2>5. Loose' \subseteq Loose
    BY <2>2, <2>3, <2>4 DEF Loose, At
  <2>6. QED  BY <2>2, <2>4, <2>5, AccountKept
<1>5. CASE UNCHANGED vars
  <2>1. UNCHANGED <<stop, cancelled, loops, handler, overlaps>>
    BY <1>5 DEF vars, workers, history
  <2>2. Restarting' = Restarting /\ Loose' = Loose
    BY <2>1 DEF Restarting, Loose, Live, Running, NoneHasRead, At
  <2>3. QED  BY <2>1, <2>2, AccountKept
<1>6. QED  BY <1>1, <1>2, <1>3, <1>4, <1>5 DEF Next, HandlerStep, SetupStep

LEMMA AccountBoundsLost == TypeOK /\ Account => LostGenerationsBounded
<1> SUFFICES ASSUME TypeOK, Account PROVE Cardinality(Lost) <= overlaps
  BY DEF LostGenerationsBounded
<1>1. /\ IsFiniteSet(Loose) /\ Cardinality(Loose) \in Nat
      /\ IsFiniteSet(Restarting) /\ Cardinality(Restarting) \in Nat
  BY Finite
<1>2. Lost \subseteq Loose
  BY DEF Lost, Loose
<1>3. Cardinality(Lost) <= Cardinality(Loose) /\ Cardinality(Lost) \in Nat
  BY <1>1, <1>2, FS_Subset, FS_CardinalityType
<1>4. overlaps \in Nat
  BY DEF TypeOK
<1>5. CASE Restarting = {}
  <2>1. Cardinality(Loose) + Cardinality(Restarting) <= overlaps
    BY <1>4, <1>5 DEF Account
  <2>2. QED  BY <1>1, <1>3, <1>4, <2>1
<1>6. CASE Restarting # {}
  <2>1. Cardinality(Loose) + Cardinality(Restarting) <= overlaps + 1
    BY <1>6 DEF Account
  <2>2. Cardinality(Restarting) # 0
    BY <1>1, <1>6, FS_EmptySet
  <2>3. QED  BY <1>1, <1>3, <1>4, <2>1, <2>2
<1>7. QED  BY <1>5, <1>6

----------------------------------------------------------------------------
(* The theorems.                                                           *)

LEMMA Invariance == Spec => []IInv
<1>1. IInv /\ [Next]_vars => IInv'
  BY TypeStep, FreshStep, SequentialStep, SaleKeptStep, StopKeptStep,
     InstalledStep, AccountStep DEF IInv
<1>2. QED  BY InitIInv, <1>1, PTL DEF Spec

\* The type of every variable; in particular a restart that is to cancel a
\* generation has read one (Engine.restartWorkers).
THEOREM TypeCorrect == Spec => []TypeOK
<1>1. IInv => TypeOK
  BY DEF IInv
<1>2. QED  BY Invariance, <1>1, PTL

\* However many handlers call Engine.Update at the same time, there are at most
\* as many generations that nobody can stop as restarts began during another one.
THEOREM LostBounded == Spec => []LostGenerationsBounded
<1>1. IInv => LostGenerationsBounded
  BY AccountBoundsLost DEF IInv
<1>2. QED  BY Invariance, <1>1, PTL

\* After calls of Engine.Update that did not overlap, exactly the workers of the
\* last toggles run, and e.stop cancels them.
THEOREM LastUpdate == Spec => []LastUpdateRules
<1>1. IInv => LastUpdateRules
  BY DEF IInv, Sequential, LastUpdateRules
<1>2. QED  BY Invariance, <1>1, PTL

\* When all restarts are over, overlapping or not, toggles that are on have
\* workers that run and can be cancelled, provided that no setup was answered
\* with an error.
THEOREM TogglesServed == Spec => []TogglesHaveWorkers
<1>1. IInv => TogglesHaveWorkers
  BY DEF IInv, StopKept, Installed, TogglesHaveWorkers, Restarting, RestartPCs, At
<1>2. QED  BY Invariance, <1>1, PTL

============================================================================
