----------------------------- MODULE RunLedger -----------------------------
(***************************************************************************)
(* What the load-test queue promises, without files and markers: a ledger  *)
(* of runs.  A run that was submitted is open until an outcome is entered, *)
(* which happens once and for ever; one run is executed at a time, and     *)
(* only a lapse of whoever executes it leaves it open, to be executed      *)
(* again.  There is room for a number of open runs, and for one more with  *)
(* each lapse.  LoadTest is shown to implement this specification.         *)
(***************************************************************************)
EXTENDS Naturals, FiniteSets

CONSTANTS
    Runs, NoRun,
    Outcomes,  \* what is reported of a run
    Room       \* how many runs may be open while there were no lapses

VARIABLES
    open,     \* the runs that were submitted and have no outcome
    outcome,  \* the outcome of each run, or "none"
    current,  \* the run that is executed, or NoRun
    lapses    \* how often whoever executes them has failed

vars == <<open, outcome, current, lapses>>

Submit(j) ==
    /\ j \notin open
    /\ outcome[j] = "none"
    /\ Cardinality(open) < Room + lapses
    /\ open' = open \cup {j}
    /\ UNCHANGED <<outcome, current, lapses>>

Begin(j) ==
    /\ current = NoRun
    /\ j \in open
    /\ current' = j
    /\ UNCHANGED <<open, outcome, lapses>>

Report(o) ==
    /\ current # NoRun
    /\ open' = open \ {current}
    /\ outcome' = [outcome EXCEPT ![current] = o]
    /\ current' = NoRun
    /\ UNCHANGED lapses

Lapse ==
    /\ lapses' = lapses + 1
    /\ current' = NoRun
    /\ UNCHANGED <<open, outcome>>

Init ==
    /\ open = {}
    /\ outcome = [j \in Runs |-> "none"]
    /\ current = NoRun
    /\ lapses = 0

Next ==
    \/ \E j \in Runs : Submit(j) \/ Begin(j)
    \/ \E o \in Outcomes : Report(o)
    \/ Lapse

Spec == Init /\ [][Next]_vars

============================================================================
