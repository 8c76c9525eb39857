----------------------------- MODULE Simulation -----------------------------
(***************************************************************************)
(* The traffic simulation: simulation.Engine (internal/simulation) and the *)
(* demo handlers that drive it (internal/httpapi).  A PUT of the toggles   *)
(* stops the generation of worker loops that runs and starts another one.  *)
(* e.mu guards the toggles and the sale, but not e.stop, the function that *)
(* cancels the current generation, and net/http runs handlers              *)
(* concurrently.  A word that is written while it is read is read old or   *)
(* new, and Go compiles the test and the call of e.stop to one read.       *)
(***************************************************************************)
EXTENDS Naturals, FiniteSets

CONSTANTS
    Handlers,   \* the requests that are served concurrently
    Scenarios,  \* names of toggles
    Configs,    \* the sets of toggles that are asked for
    MaxUpdates, \* bound: calls of setSimulation
    MaxFaults   \* bound: setups that are answered without a sale

SaleIDs == {"", "sale"}

LoopNames == Scenarios \ {"mixed_realistic"}

ASSUME ConstantsAssumption ==
    /\ IsFiniteSet(Handlers)
    /\ Configs \subseteq SUBSET Scenarios
    /\ LoopNames \ {"late_surge"} # {}
    /\ MaxUpdates \in Nat
    /\ MaxFaults \in Nat

VARIABLES
    cfg,      \* e.cfg: the toggles that are on
    saleID,   \* e.saleID: "" or a sale
    stop,     \* e.stop: the generation it cancels, 0 for nil
    loops,    \* the loops of each generation that wait for a tick, and are busy
    cancelled, \* the generations whose context is done
    handler,  \* the local state of each request
    updates,  \* how many calls of setSimulation have begun
    overlaps, \* how many restarts began while another one was in progress
    faults    \* how many setups were answered without a sale

settings == <<cfg, saleID>>
workers == <<stop, loops, cancelled>>
history == <<updates, overlaps, faults>>
vars == <<settings, workers, handler, history>>

\* A generation has the number of the call of setSimulation that starts it.
Generations == 1..MaxUpdates

NoLoops == [waiting |-> {}, busy |-> {}]

\* The number is 0 for a handler other than setSimulation.
Idle == [pc |-> "idle", number |-> 0, toggles |-> {}, id |-> "",
         mine |-> 0, seen |-> {}]

At(h, pc) == handler[h].pc = pc

RestartPCs == {"readStop", "cancel", "clear", "snapshot", "install"}

Restarting == {h \in Handlers : handler[h].pc \in RestartPCs}

\* restartWorkers: mixed_realistic stands for every loop but late_surge.
Loops(on) ==
    IF "mixed_realistic" \in on
    THEN (LoopNames \ {"late_surge"}) \cup (on \cap {"late_surge"})
    ELSE on

\* The handler is done.
Finish(h) == handler' = [handler EXCEPT ![h] = Idle]

Goto(h, pc) == handler' = [handler EXCEPT ![h].pc = pc]

----------------------------------------------------------------------------
(* The handlers: setSimulation, demoSetup, and demoReset or startLoadTest.  *)

\* setSimulation decodes the toggles and asks for the sale.
StartSimulation(h) ==
    /\ At(h, "idle")
    /\ updates < MaxUpdates
    /\ updates' = updates + 1
    /\ \E on \in Configs :
          handler' = [handler EXCEPT ![h] =
              [Idle EXCEPT !.pc = IF saleID = "" THEN "setup" ELSE "update",
                           !.number = updates + 1,
                           !.toggles = on]]
    /\ UNCHANGED <<settings, workers, overlaps, faults>>

\* demoSetup and demoReset set up a new sale; so does startLoadTest when there is
\* none, and main when the API starts.
StartSetup(h) ==
    /\ At(h, "idle")
    /\ Goto(h, "setup")
    /\ UNCHANGED <<settings, workers, history>>

\* A request to the admin API is not answered: the handler answers 500.
SetupFails(h) ==
    /\ At(h, "setup")
    /\ Finish(h)
    /\ UNCHANGED <<settings, workers, history>>

\* Both requests are answered.  Their status is not looked at, and an answer
\* that is an error has no sale_id.
SetupAnswered(h) ==
    /\ At(h, "setup")
    /\ \E id \in SaleIDs :
          /\ id = "" => faults < MaxFaults
          /\ faults' = IF id = "" THEN faults + 1 ELSE faults
          /\ handler' = [handler EXCEPT ![h].pc = "setSale", ![h].id = id]
    /\ UNCHANGED <<settings, workers, updates, overlaps>>

\* A slip: the new sale is returned, but not set.
SetSaleReturned(h) ==
    /\ At(h, "setSale")
    /\ IF handler[h].number = 0
       THEN Finish(h)
       ELSE handler' = [handler EXCEPT ![h].pc = "update", ![h].id = ""]
    /\ UNCHANGED <<settings, workers, history>>

\* SetSaleID at the end of SetupDemoWithParams, whatever the answer was.
\* setSimulation goes on, demoSetup sets the same sale once more, and the others
\* are done.
SetSale(h) ==
    /\ At(h, "setSale")
    /\ saleID' = handler[h].id
    /\ IF handler[h].number = 0
       THEN Goto(h, "setSaleAgain") \/ Finish(h)
       ELSE handler' = [handler EXCEPT ![h].pc = "update", ![h].id = ""]
    /\ UNCHANGED <<cfg, workers, history>>

SetSaleAgain(h) ==
    /\ At(h, "setSaleAgain")
    /\ saleID' = handler[h].id
    /\ Finish(h)
    /\ UNCHANGED <<cfg, workers, history>>

Setup(h) ==
    SetupFails(h) \/ SetupAnswered(h) \/ SetSale(h) \/ SetSaleAgain(h)

----------------------------------------------------------------------------
(* Update and restartWorkers.                                              *)

Update(h) ==
    /\ At(h, "update")
    /\ cfg' = handler[h].toggles
    /\ overlaps' = IF Restarting = {} THEN overlaps ELSE overlaps + 1
    /\ handler' = [handler EXCEPT ![h].pc = "readStop", ![h].toggles = {}]
    /\ UNCHANGED <<saleID, workers, updates, faults>>

\* A slip: e.stop is called without the test for nil.
RestartReadStopUnchecked(h) ==
    /\ At(h, "readStop")
    /\ handler' = [handler EXCEPT ![h].mine = stop, ![h].pc = "cancel"]
    /\ UNCHANGED <<settings, workers, history>>

\* A slip: with every toggle off the restart returns before it stops anything.
RestartReadStopIfOn(h) ==
    /\ At(h, "readStop")
    /\ handler' = [handler EXCEPT ![h].mine = stop,
                                  ![h].pc = IF stop = 0 \/ cfg = {}
                                            THEN "snapshot" ELSE "cancel"]
    /\ UNCHANGED <<settings, workers, history>>

RestartReadStop(h) ==
    /\ At(h, "readStop")
    /\ handler' = [handler EXCEPT ![h].mine = stop,
                                  ![h].pc = IF stop = 0 THEN "snapshot" ELSE "cancel"]
    /\ UNCHANGED <<settings, workers, history>>

\* A slip: the cancel function is dropped without being called.
RestartCancelSkipped(h) ==
    /\ At(h, "cancel")
    /\ Goto(h, "clear")
    /\ UNCHANGED <<settings, workers, history>>

RestartCancel(h) ==
    /\ At(h, "cancel")
    /\ cancelled' = cancelled \cup {handler[h].mine}
    /\ Goto(h, "clear")
    /\ UNCHANGED <<settings, stop, loops, history>>

RestartClear(h) ==
    /\ At(h, "clear")
    /\ stop' = 0
    /\ handler' = [handler EXCEPT ![h].pc = "snapshot", ![h].mine = 0]
    /\ UNCHANGED <<settings, loops, cancelled, history>>

\* The toggles and the sale are read under e.mu; without a sale, or with every
\* toggle off, nothing is started.
RestartSnapshot(h) ==
    /\ At(h, "snapshot")
    /\ IF saleID # "" /\ cfg # {}
       THEN handler' = [handler EXCEPT ![h].pc = "install", ![h].seen = cfg]
       ELSE Finish(h)
    /\ UNCHANGED <<settings, workers, history>>

\* A slip: the cancel function of the new context is not stored.
RestartInstallUnstored(h) ==
    /\ At(h, "install")
    /\ loops' = [loops EXCEPT ![handler[h].number].waiting = Loops(handler[h].seen)]
    /\ Finish(h)
    /\ UNCHANGED <<settings, stop, cancelled, history>>

\* The new context, its cancel function, and the loops.
RestartInstall(h) ==
    /\ At(h, "install")
    /\ stop' = handler[h].number
    /\ loops' = [loops EXCEPT ![handler[h].number].waiting = Loops(handler[h].seen)]
    /\ Finish(h)
    /\ UNCHANGED <<settings, cancelled, history>>

Restart(h) ==
    RestartReadStop(h) \/ RestartCancel(h) \/ RestartClear(h)
        \/ RestartSnapshot(h) \/ RestartInstall(h)

HandlerStep(h) == Setup(h) \/ Update(h) \/ Restart(h)

----------------------------------------------------------------------------
(* Engine.loop.                                                            *)

\* select takes any case that is ready: the tick although the context is done.
LoopTick(g, l) ==
    /\ l \in loops[g].waiting
    /\ loops' = [loops EXCEPT ![g].waiting = @ \ {l}, ![g].busy = @ \cup {l}]
    /\ UNCHANGED <<settings, stop, cancelled, handler, history>>

\* fn returns: it is a few requests, each with the client's timeout.
LoopIterated(g, l) ==
    /\ l \in loops[g].busy
    /\ loops' = [loops EXCEPT ![g].busy = @ \ {l}, ![g].waiting = @ \cup {l}]
    /\ UNCHANGED <<settings, stop, cancelled, handler, history>>

LoopDone(g, l) ==
    /\ l \in loops[g].waiting
    /\ g \in cancelled
    /\ loops' = [loops EXCEPT ![g].waiting = @ \ {l}]
    /\ UNCHANGED <<settings, stop, cancelled, handler, history>>

Loop(g, l) == LoopTick(g, l) \/ LoopIterated(g, l) \/ LoopDone(g, l)

----------------------------------------------------------------------------
Init ==
    /\ cfg = {}
    /\ saleID = ""
    /\ stop = 0
    /\ loops = [g \in Generations |-> NoLoops]
    /\ cancelled = {}
    /\ handler = [h \in Handlers |-> Idle]
    /\ updates = 0
    /\ overlaps = 0
    /\ faults = 0

Next ==
    \/ \E h \in Handlers : StartSimulation(h) \/ StartSetup(h) \/ HandlerStep(h)
    \/ \E g \in Generations, l \in LoopNames : Loop(g, l)

Spec == Init /\ [][Next]_vars

\* Handlers and loops run.  Strong fairness for the end of a loop: select picks
\* at random among the cases that are ready, so a tick that is ready as often as
\* the end of the context does not win for ever.
FairSpec ==
    /\ Spec
    /\ \A h \in Handlers : WF_vars(HandlerStep(h))
    /\ \A g \in Generations, l \in LoopNames :
          WF_vars(LoopIterated(g, l)) /\ SF_vars(LoopDone(g, l))

----------------------------------------------------------------------------
(* Properties.                                                             *)

HandlerState ==
    [pc : {"idle", "setup", "setSale", "setSaleAgain", "update"} \cup RestartPCs,
     number : 0..MaxUpdates, toggles : SUBSET Scenarios, id : SaleIDs,
     mine : 0..MaxUpdates, seen : SUBSET Scenarios]

LoopStates == [waiting : SUBSET LoopNames, busy : SUBSET LoopNames]

\* The type of every variable; a handler past its reading of e.stop that is to
\* cancel a generation has one, and one past StartSimulation has its number.
TypeOK ==
    /\ cfg \in SUBSET Scenarios
    /\ saleID \in SaleIDs
    /\ stop \in 0..MaxUpdates
    /\ loops \in [Generations -> LoopStates]
    /\ cancelled \subseteq Generations
    /\ handler \in [Handlers -> HandlerState]
    /\ updates \in 0..MaxUpdates
    /\ overlaps \in Nat
    /\ faults \in Nat
    /\ \A h \in Handlers :
          /\ At(h, "cancel") => handler[h].mine \in Generations
          /\ handler[h].pc \in RestartPCs \cup {"update"} => handler[h].number # 0

Running(g) == loops[g].waiting \cup loops[g].busy

\* The generations nobody has cancelled.
Live == {g \in Generations : Running(g) # {} /\ g \notin cancelled}

\* Those nobody can cancel any more: they send requests until the API stops.
Lost ==
    {g \in Live : g # stop /\ \A h \in Handlers : At(h, "cancel") => handler[h].mine # g}

\* Two concurrent updates may lose a generation; a restart that overlaps with
\* others loses at most one, and restarts one after the other lose none.
LostGenerationsBounded == Cardinality(Lost) <= overlaps

\* As long as restarts do not overlap, what runs after an update is the one
\* generation e.stop cancels, and it is what the toggles say, although setups
\* change the sale all the while.
LastUpdateRules ==
    overlaps = 0 /\ Restarting = {} =>
        /\ Live \subseteq {stop}
        /\ stop # 0 => Running(stop) = Loops(cfg)

\* If every setup that was answered made a sale, toggles that are on have
\* workers that run when the restarts are over, and that the next restart can
\* cancel, even if restarts overlap: a restart that cancels or clears another
\* one's generation starts one itself.
TogglesHaveWorkers ==
    faults = 0 /\ Restarting = {} /\ cfg # {} => stop \in Live

SwitchedOff == cfg = {} /\ Restarting = {} /\ overlaps = 0

\* With every toggle off the traffic ends, unless somebody switches it on again:
\* cancelled loops do not go on for ever, busy as they may be.
TrafficStops ==
    SwitchedOff ~> (~SwitchedOff \/ \A g \in Generations : Running(g) = {})

============================================================================
