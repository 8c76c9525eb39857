-------------------------- MODULE LoadTestProofs --------------------------
(***************************************************************************)
(* Proofs about LoadTest, for any jobs, callers, limits and faults.  The   *)
(* inductive invariant IInv says what the runner knows of the job it has   *)
(* in hand (InHand), that only faults abandon markers (MarkersAbandoned),  *)
(* and that the jobs to be run and the calls that may add one stay within  *)
(* the limit that QueueOvershootBounded states (LoadBounded).              *)
(***************************************************************************)
EXTENDS LoadTest, Integers, TLAPS, FiniteSetTheorems, SequenceTheorems, WellFoundedInduction

Markers == {j \in Jobs : result[j] = "running"}

\* The jobs that are pending, or will be when a marker goes.
Load == Pending \cup Markers

RunnersJob ==
    /\ runner.pc \in {"listed", "start", "k6", "evaluate", "remove"} =>
          runner.job \in Jobs /\ runner.job \in jobFiles
    /\ runner.pc \in {"listed", "k6", "evaluate"} => result[runner.job] \notin Final
    /\ runner.pc = "listed" => result[runner.job] # "running"
    /\ runner.pc = "start" => result[runner.job] = "running"

CallersJobs ==
    \A c \in Callers : caller[c].pc = "write" =>
        caller[c].job \in Jobs /\ caller[c].job \in ToSet(created)

InHand == RunnersJob /\ CallersJobs

Abandoned ==
    {j \in Markers : ~(runner.pc \in {"start", "evaluate"} /\ runner.job = j)}

MarkersAbandoned == Cardinality(Abandoned) <= faults

\* The calls that may yet add a job.
Adding ==
    {c \in Callers : \/ caller[c].pc = "write"
                     \/ caller[c].pc = "countRunning" /\ caller[c].pending < MaxQueueDepth}

LoadBounded ==
    Cardinality(Load) + Cardinality(Adding)
        <= MaxQueueDepth + Cardinality(Callers) + faults

IInv == TypeOK /\ InHand /\ MarkersAbandoned /\ LoadBounded

\* The assumptions on the constants, one by one.
LEMMA Limits ==
    /\ MaxQueueDepth \in Nat /\ MaxQueueDepth > 0 /\ MaxFaults \in Nat
    /\ NoJob \notin Jobs /\ IsFiniteSet(Jobs) /\ IsFiniteSet(Callers)
<1>1. MaxQueueDepth \in Nat \ {0} /\ MaxFaults \in Nat
  BY ConstantsAssumption
<1>2. NoJob \notin Jobs /\ IsFiniteSet(Jobs) /\ IsFiniteSet(Callers)
  BY ConstantsAssumption
<1>3. QED  BY <1>1, <1>2

\* A set of numbers that is not empty has a least element.
LEMMA MinIsMember ==
    ASSUME NEW S, S \subseteq Nat, S # {}
    PROVE  Min(S) \in S
<1>1. PICK x \in S : \A y \in S : ~ (<<y, x>> \in OpToRel(<, Nat))
  BY NatLessThanWellFounded, WFMin, Zenon
<1>2. \A y \in S : ~ (y < x)
  BY <1>1 DEF OpToRel
<1>3. \A y \in S : x <= y
  BY <1>2
<1>4. QED  BY <1>3 DEF Min

LEMMA OldestIsMember ==
    ASSUME TypeOK, NEW jobs, jobs \subseteq ToSet(created), jobs # {}
    PROVE  Oldest(jobs) \in jobs
<1> DEFINE D == {i \in DOMAIN created : created[i] \in jobs}
<1>1. created \in Seq(Jobs)
  BY DEF TypeOK
<1>2. D \subseteq Nat
  BY <1>1
<1>3. D # {}
  BY DEF ToSet
<1>4. Min(D) \in D
  BY <1>2, <1>3, MinIsMember
<1>5. QED  BY <1>4 DEF Oldest

----------------------------------------------------------------------------
(* What the actions assign.                                                *)

CallerStates ==
    [pc : {"idle", "countRunning", "write"}, pending : Nat, job : Jobs \cup {NoJob}]

RunnerStates ==
    [pc : {"idle", "listed", "start", "k6", "evaluate", "remove", "down"},
     job : Jobs \cup {NoJob}, exitOk : BOOLEAN]

LEMMA TypeOfCaller == TypeOK => caller \in [Callers -> CallerStates]
  BY DEF TypeOK, CallerStates

LEMMA TypeOfRunner == TypeOK => runner \in RunnerStates
  BY DEF TypeOK, RunnerStates

LEMMA TypeOfResults == TypeOK => result \in [Jobs -> Contents] /\ age \in [Jobs -> 0..2]
  BY DEF TypeOK

LEMMA TypeOfFiles ==
    TypeOK => /\ jobFiles \subseteq ToSet(created) /\ ToSet(created) \subseteq Jobs
              /\ faults \in Nat
<1>1. created \in Seq(Jobs) => ToSet(created) \subseteq Jobs
  BY DEF ToSet
<1>2. QED  BY <1>1 DEF TypeOK

\* The same, for the next state.
LEMMA TypeOKParts ==
    ASSUME caller' \in [Callers -> CallerStates], runner' \in RunnerStates,
           result' \in [Jobs -> Contents], age' \in [Jobs -> 0..2],
           jobFiles' \subseteq ToSet(created'), faults' \in Nat,
           created' \in Seq(Jobs), IsInjective(created')
    PROVE  TypeOK'
  BY DEF TypeOK, CallerStates, RunnerStates

LEMMA SetResultEffect ==
    ASSUME TypeOK, NEW j \in Jobs, NEW content \in Contents, SetResult(j, content)
    PROVE  /\ result' \in [Jobs -> Contents] /\ age' \in [Jobs -> 0..2]
           /\ result'[j] = content
           /\ \A k \in Jobs \ {j} : result'[k] = result[k]
  BY TypeOfResults DEF SetResult

LEMMA NoRunType ==
    /\ NoRun \in RunnerStates /\ [NoRun EXCEPT !.pc = "down"] \in RunnerStates
    /\ NoRun.pc = "idle" /\ [NoRun EXCEPT !.pc = "down"].pc = "down"
  BY DEF NoRun, RunnerStates

\* The runner goes on with the job it has in hand.
LEMMA RunnerGoesOn ==
    ASSUME TypeOK, NEW pc \in {"start", "k6", "remove"},
           runner' = [runner EXCEPT !.pc = pc]
    PROVE  runner' \in RunnerStates /\ runner'.pc = pc /\ runner'.job = runner.job
  BY TypeOfRunner DEF RunnerStates

LEMMA AppendEffect ==
    ASSUME TypeOK, NEW j \in Jobs, j \notin ToSet(created), created' = Append(created, j)
    PROVE  /\ created' \in Seq(Jobs) /\ IsInjective(created')
           /\ ToSet(created') = ToSet(created) \cup {j}
<1> DEFINE n == Len(created)
<1>1. created \in Seq(Jobs) /\ IsInjective(created)
  BY DEF TypeOK
<1>2. n \in Nat /\ DOMAIN created = 1..n
  BY <1>1
<1>3. /\ created' \in Seq(Jobs) /\ DOMAIN created' = 1..(n + 1)
      /\ created'[n + 1] = j /\ \A i \in 1..n : created'[i] = created[i]
  BY <1>1
<1>4. \A i \in 1..n : created[i] # j
  BY <1>2 DEF ToSet
<1> HIDE DEF n
<1>5. ASSUME NEW a \in 1..(n + 1), NEW b \in 1..(n + 1), created'[a] = created'[b]
      PROVE  a = b
  <2>1. CASE a = n + 1 \/ b = n + 1
    BY <1>2, <1>3, <1>4, <1>5, <2>1
  <2>2. CASE a \in 1..n /\ b \in 1..n
    <3>1. created[a] = created[b]
      BY <1>3, <1>5, <2>2
    <3>2. QED  BY <1>1, <1>2, <2>2, <3>1 DEF IsInjective
  <2>3. QED  BY <1>2, <2>1, <2>2
<1>6. IsInjective(created')
  BY <1>3, <1>5 DEF IsInjective
<1>7. ToSet(created') = ToSet(created) \cup {j}
  <2>1. \A i \in 1..(n + 1) : i \in 1..n \/ i = n + 1
    BY <1>2
  <2>2. \A i \in 1..n : i \in 1..(n + 1)
    BY <1>2
  <2>3. n + 1 \in 1..(n + 1)
    BY <1>2
  <2>4. QED  BY <1>2, <1>3, <2>1, <2>2, <2>3 DEF ToSet
<1>8. QED  BY <1>3, <1>6, <1>7

\* What is counted is finite.
LEMMA Counted ==
    ASSUME TypeOK
    PROVE  /\ Pending \subseteq Jobs /\ IsFiniteSet(Pending)
           /\ Cardinality(Pending) \in Nat
<1>1. Pending \subseteq Jobs
  BY TypeOfFiles DEF Pending
<1>2. QED  BY <1>1, Limits, FS_Subset, FS_CardinalityType

LEMMA ListEffect ==
    ASSUME TypeOK, NEW c \in Callers, SubmitListPending(c)
    PROVE  /\ caller' \in [Callers -> CallerStates]
           /\ caller'[c].pc = "countRunning" /\ caller'[c].pending = Cardinality(Pending)
           /\ \A d \in Callers \ {c} : caller'[d] = caller[d]
           /\ UNCHANGED <<jobFiles, created, result, age, runner, faults>>
  BY TypeOfCaller, Counted DEF SubmitListPending, CallerStates

LEMMA IdleCaller ==
    ASSUME TypeOK, NEW c \in Callers, caller' = [caller EXCEPT ![c] = NoCall]
    PROVE  /\ caller' \in [Callers -> CallerStates] /\ caller'[c].pc = "idle"
           /\ \A d \in Callers \ {c} : caller'[d] = caller[d]
  BY TypeOfCaller DEF NoCall, CallerStates

LEMMA AcceptEffect ==
    ASSUME TypeOK, NEW c \in Callers, SubmitAccept(c)
    PROVE  /\ caller' \in [Callers -> CallerStates]
           /\ \A d \in Callers \ {c} : caller'[d] = caller[d]
           /\ caller[c].pc = "countRunning"
           /\ \/ /\ CanAccept(caller[c].pending, Cardinality(Running))
                 /\ \E j \in FreshIds : /\ created' = Append(created, j)
                                        /\ caller'[c].job = j
                 /\ caller'[c].pc = "write"
              \/ caller'[c].pc = "idle" /\ created' = created
           /\ UNCHANGED <<jobFiles, result, age, runner, faults>>
<1>1. /\ caller[c].pc = "countRunning"
      /\ UNCHANGED <<jobFiles, result, age, runner, faults>>
  BY DEF SubmitAccept
<1>2. CASE CanAccept(caller[c].pending, Cardinality(Running))
  <2>1. PICK j \in FreshIds :
           /\ created' = Append(created, j)
           /\ caller' = [caller EXCEPT ![c].pc = "write", ![c].job = j]
    BY <1>2 DEF SubmitAccept
  <2>2. j \in Jobs
    BY DEF FreshIds
  <2>3. /\ caller' \in [Callers -> CallerStates]
        /\ caller'[c].pc = "write" /\ caller'[c].job = j
        /\ \A d \in Callers \ {c} : caller'[d] = caller[d]
    BY <2>1, <2>2, TypeOfCaller DEF CallerStates
  <2>4. QED  BY <1>1, <1>2, <2>1, <2>3
<1>3. CASE ~CanAccept(caller[c].pending, Cardinality(Running))
  <2>1. caller' = [caller EXCEPT ![c] = NoCall] /\ created' = created
    BY <1>3 DEF SubmitAccept
  <2>2. QED  BY <1>1, <2>1, IdleCaller
<1>4. QED  BY <1>2, <1>3

LEMMA WriteEffect ==
    ASSUME TypeOK, InHand, NEW c \in Callers, SubmitWriteJob(c)
    PROVE  /\ caller' \in [Callers -> CallerStates] /\ caller'[c].pc = "idle"
           /\ \A d \in Callers \ {c} : caller'[d] = caller[d]
           /\ caller[c].pc = "write" /\ caller[c].job \in ToSet(created)
           /\ jobFiles' = jobFiles \cup {caller[c].job}
           /\ UNCHANGED <<created, result, age, runner, faults>>
<1>1. /\ caller[c].pc = "write" /\ caller' = [caller EXCEPT ![c] = NoCall]
      /\ jobFiles' = jobFiles \cup {caller[c].job}
      /\ UNCHANGED <<created, result, age, runner, faults>>
  BY DEF SubmitWriteJob
<1>2. caller[c].job \in ToSet(created)
  BY <1>1 DEF InHand, CallersJobs
<1>3. QED  BY <1>1, <1>2, IdleCaller

LEMMA DiesEffect ==
    ASSUME TypeOK, NEW c \in Callers, SubmitDies(c)
    PROVE  /\ caller' \in [Callers -> CallerStates] /\ caller'[c].pc = "idle"
           /\ \A d \in Callers \ {c} : caller'[d] = caller[d]
           /\ UNCHANGED <<jobFiles, created, result, age, runner, faults>>
  BY IdleCaller DEF SubmitDies

LEMMA RunnerListEffect ==
    ASSUME TypeOK, RunnerList
    PROVE  /\ runner.pc = "idle" /\ runner' \in RunnerStates
           /\ runner'.pc = "listed" /\ runner'.job \in Pending
           /\ UNCHANGED <<jobFiles, created, result, age, caller, faults>>
<1>1. Pending \subseteq ToSet(created) /\ Pending \subseteq Jobs
  BY TypeOfFiles DEF Pending
<1>2. Oldest(Pending) \in Pending
  BY <1>1, OldestIsMember DEF RunnerList
<1>3. runner' = [NoRun EXCEPT !.pc = "listed", !.job = Oldest(Pending)]
  BY DEF RunnerList
<1> DEFINE o == Oldest(Pending)
<1> HIDE DEF o
<1>4. o \in Jobs => LET r == [NoRun EXCEPT !.pc = "listed", !.job = o]
                    IN r \in RunnerStates /\ r.pc = "listed" /\ r.job = o
  BY DEF NoRun, RunnerStates
<1>5. o \in Jobs /\ o \in Pending
  BY <1>1, <1>2 DEF o
<1>6. runner' = [NoRun EXCEPT !.pc = "listed", !.job = o]
  BY <1>3 DEF o
<1>7. runner' \in RunnerStates /\ runner'.pc = "listed" /\ runner'.job \in Pending
  BY <1>4, <1>5, <1>6
<1>8. QED  BY <1>7 DEF RunnerList

LEMMA RunnerPickEffect ==
    ASSUME TypeOK, InHand, RunnerPick
    PROVE  /\ runner.pc = "listed" /\ runner' \in RunnerStates
           /\ \/ runner'.pc = "idle" /\ UNCHANGED <<result, age>>
              \/ /\ SetResult(runner.job, "running")
                 /\ runner'.pc = "start" /\ runner'.job = runner.job
           /\ UNCHANGED <<jobFiles, created, caller, faults>>
  BY NoRunType, RunnerGoesOn DEF RunnerPick

LEMMA RunnerNoScriptEffect ==
    ASSUME TypeOK, RunnerNoScript
    PROVE  /\ runner.pc = "start" /\ runner' \in RunnerStates
           /\ SetResult(runner.job, "error")
           /\ runner'.pc = "remove" /\ runner'.job = runner.job
           /\ UNCHANGED <<jobFiles, created, caller, faults>>
  BY RunnerGoesOn DEF RunnerNoScript

LEMMA RunnerK6WritesEffect ==
    ASSUME TypeOK, RunnerK6Writes
    PROVE  /\ runner.pc = "start" /\ runner' \in RunnerStates
           /\ \E content \in {"summary passed", "summary failed", "truncated"} :
                 SetResult(runner.job, content)
           /\ runner'.pc = "k6" /\ runner'.job = runner.job
           /\ UNCHANGED <<jobFiles, created, caller, faults>>
  BY RunnerGoesOn DEF RunnerK6Writes

LEMMA RunnerK6EndsEffect ==
    ASSUME TypeOK, RunnerK6Ends
    PROVE  /\ runner.pc \in {"start", "k6"} /\ runner' \in RunnerStates
           /\ runner'.pc = "evaluate" /\ runner'.job = runner.job
           /\ UNCHANGED <<jobFiles, created, result, age, caller, faults>>
<1>1. PICK ok \in BOOLEAN : runner' = [runner EXCEPT !.pc = "evaluate", !.exitOk = ok]
  BY DEF RunnerK6Ends
<1>2. /\ runner' \in RunnerStates /\ runner'.pc = "evaluate"
      /\ runner'.job = runner.job
  BY <1>1, TypeOfRunner DEF RunnerStates
<1>3. QED  BY <1>2 DEF RunnerK6Ends

LEMMA RunnerEvaluateEffect ==
    ASSUME TypeOK, RunnerEvaluate
    PROVE  /\ runner.pc = "evaluate" /\ runner' \in RunnerStates
           /\ \E content \in Final : SetResult(runner.job, content)
           /\ \/ runner'.pc = "idle"
              \/ runner'.pc = "remove" /\ runner'.job = runner.job
           /\ UNCHANGED <<jobFiles, created, caller, faults>>
<1>1. Evaluation(result[runner.job], runner.exitOk) \in Final
  BY DEF Evaluation, Final
<1>2. runner' = NoRun \/ runner' = [runner EXCEPT !.pc = "remove"]
  BY DEF RunnerEvaluate
<1>3. /\ runner' \in RunnerStates
      /\ \/ runner'.pc = "idle"
         \/ runner'.pc = "remove" /\ runner'.job = runner.job
  <2>1. CASE runner' = NoRun
    BY <2>1, NoRunType
  <2>2. CASE runner' = [runner EXCEPT !.pc = "remove"]
    BY <2>2, RunnerGoesOn
  <2>3. QED  BY <1>2, <2>1, <2>2
<1>4. /\ runner.pc = "evaluate" /\ UNCHANGED <<jobFiles, created, caller, faults>>
      /\ SetResult(runner.job, Evaluation(result[runner.job], runner.exitOk))
  BY DEF RunnerEvaluate
<1>5. \E content \in Final : SetResult(runner.job, content)
  BY <1>1, <1>4
<1>6. QED  BY <1>3, <1>4, <1>5

LEMMA RunnerRemoveJobEffect ==
    ASSUME TypeOK, RunnerRemoveJob
    PROVE  /\ runner.pc = "remove" /\ runner' \in RunnerStates /\ runner'.pc = "idle"
           /\ jobFiles' \subseteq jobFiles
           /\ UNCHANGED <<created, result, age, caller, faults>>
  BY NoRunType DEF RunnerRemoveJob

LEMMA RunnerFaultEffect ==
    ASSUME TypeOK, RunnerCrashes \/ RunnerFileFails
    PROVE  /\ runner' \in RunnerStates /\ runner'.pc \in {"idle", "down"}
           /\ faults' = faults + 1
           /\ UNCHANGED <<jobFiles, created, result, age, caller>>
  BY NoRunType DEF RunnerCrashes, RunnerFileFails

LEMMA RunnerStartsEffect ==
    ASSUME TypeOK, RunnerStarts
    PROVE  /\ runner.pc = "down" /\ runner' \in RunnerStates /\ runner'.pc = "idle"
           /\ result' \in [Jobs -> Contents] /\ age' \in [Jobs -> 0..2]
           /\ \A k \in Jobs : \/ result'[k] = result[k]
                              \/ result[k] = "running" /\ result'[k] = "none"
           /\ UNCHANGED <<jobFiles, created, caller, faults>>
<1>1. /\ result' \in [Jobs -> Contents]
      /\ \A k \in Jobs : \/ result'[k] = result[k]
                         \/ result[k] = "running" /\ result'[k] = "none"
  BY TypeOfResults DEF RunnerStarts, Contents
<1>2. age' \in [Jobs -> 0..2]
  BY TypeOfResults DEF RunnerStarts
<1>3. QED  BY <1>1, <1>2, NoRunType DEF RunnerStarts

LEMMA MarkerAgesEffect ==
    ASSUME TypeOK, NEW j \in Jobs, MarkerAges(j)
    PROVE  /\ age' \in [Jobs -> 0..2]
           /\ UNCHANGED <<jobFiles, created, result, caller, runner, faults>>
<1>1. age[j] + 1 \in 0..2
  BY TypeOfResults DEF MarkerAges
<1>2. QED  BY <1>1, TypeOfResults DEF MarkerAges

----------------------------------------------------------------------------
(* Types, and the job in hand.                                             *)

\* SetResult on the runner's job.
LEMMA SetEffect ==
    ASSUME TypeOK, InHand, runner.pc \in {"listed", "start", "evaluate"},
           NEW content \in Contents, SetResult(runner.job, content)
    PROVE  /\ result' \in [Jobs -> Contents] /\ age' \in [Jobs -> 0..2]
           /\ runner.job \in Jobs /\ runner.job \in jobFiles
           /\ result'[runner.job] = content
           /\ result[runner.job] \notin Final
           /\ \A k \in Jobs \ {runner.job} : result'[k] = result[k]
<1>1. runner.job \in Jobs /\ runner.job \in jobFiles
  BY DEF InHand, RunnersJob
<1>2. result[runner.job] \notin Final
  BY DEF InHand, RunnersJob, Final
<1>3. QED  BY <1>1, <1>2, SetResultEffect

\* The runner touches no call of Submit, and makes no job.
LEMMA RunnerKeeps ==
    ASSUME TypeOK, InHand, RunnerStep
    PROVE  UNCHANGED <<created, caller, faults>> /\ jobFiles' \subseteq jobFiles
<1>1. CASE RunnerList \/ RunnerK6Ends \/ RunnerRemoveJob
  BY <1>1, RunnerListEffect, RunnerK6EndsEffect, RunnerRemoveJobEffect
<1>2. CASE RunnerPick
  BY <1>2, RunnerPickEffect
<1>3. CASE RunnerNoScript \/ RunnerK6Writes
  BY <1>3, RunnerNoScriptEffect, RunnerK6WritesEffect
<1>4. CASE RunnerEvaluate \/ RunnerStarts
  BY <1>4, RunnerEvaluateEffect, RunnerStartsEffect
<1>5. QED  BY <1>1, <1>2, <1>3, <1>4 DEF RunnerStep

LEMMA TypeRunnerStep ==
    ASSUME TypeOK, InHand, RunnerStep
    PROVE  TypeOK'
<1>1. /\ caller \in [Callers -> CallerStates] /\ result \in [Jobs -> Contents]
      /\ age \in [Jobs -> 0..2] /\ jobFiles \subseteq ToSet(created) /\ faults \in Nat
  BY TypeOfCaller, TypeOfResults, TypeOfFiles
<1>2. created \in Seq(Jobs) /\ IsInjective(created)
  BY DEF TypeOK
<1>3. UNCHANGED <<created, caller, faults>> /\ jobFiles' \subseteq jobFiles
  BY RunnerKeeps
<1>4. runner' \in RunnerStates
  BY RunnerListEffect, RunnerPickEffect, RunnerNoScriptEffect, RunnerK6WritesEffect,
     RunnerK6EndsEffect, RunnerEvaluateEffect, RunnerRemoveJobEffect,
     RunnerStartsEffect DEF RunnerStep
<1>5. result' \in [Jobs -> Contents] /\ age' \in [Jobs -> 0..2]
  <2>1. CASE UNCHANGED <<result, age>>
    BY <1>1, <2>1
  <2>2. CASE /\ runner.pc \in {"listed", "start", "evaluate"}
             /\ \E content \in Contents : SetResult(runner.job, content)
    BY <2>2, SetEffect
  <2>3. CASE RunnerStarts
    BY <2>3, RunnerStartsEffect
  <2>4. CASE RunnerNoScript
    BY <2>2, <2>4, RunnerNoScriptEffect DEF Contents
  <2>5. CASE RunnerK6Writes
    BY <2>2, <2>5, RunnerK6WritesEffect DEF Contents
  <2>6. CASE RunnerEvaluate
    <3>1. PICK content \in Final : SetResult(runner.job, content)
      BY <2>6, RunnerEvaluateEffect
    <3>2. content \in Contents
      BY DEF Contents, Final
    <3>3. runner.pc = "evaluate"
      BY <2>6, RunnerEvaluateEffect
    <3>4. QED  BY <2>2, <3>1, <3>2, <3>3
  <2>7. CASE RunnerPick
    BY <2>1, <2>2, <2>7, RunnerPickEffect DEF Contents
  <2>8. CASE RunnerList \/ RunnerK6Ends \/ RunnerRemoveJob
    BY <2>1, <2>8, RunnerListEffect, RunnerK6EndsEffect, RunnerRemoveJobEffect
  <2>9. QED  BY <2>3, <2>4, <2>5, <2>6, <2>7, <2>8 DEF RunnerStep
<1>6. jobFiles' \subseteq ToSet(created') /\ faults' \in Nat
  BY <1>1, <1>3
<1>7. QED  BY <1>1, <1>2, <1>3, <1>4, <1>5, <1>6, TypeOKParts

LEMMA TypeSubmitStep ==
    ASSUME TypeOK, InHand, NEW c \in Callers, Submit(c)
    PROVE  TypeOK'
<1>1. /\ runner \in RunnerStates /\ result \in [Jobs -> Contents]
      /\ age \in [Jobs -> 0..2] /\ jobFiles \subseteq ToSet(created) /\ faults \in Nat
  BY TypeOfRunner, TypeOfResults, TypeOfFiles
<1>2. created \in Seq(Jobs) /\ IsInjective(created)
  BY DEF TypeOK
<1>3. UNCHANGED <<result, age, runner, faults>> /\ caller' \in [Callers -> CallerStates]
  BY ListEffect, AcceptEffect, WriteEffect, DiesEffect DEF Submit
<1>4. /\ created' \in Seq(Jobs) /\ IsInjective(created')
      /\ jobFiles' \subseteq ToSet(created')
  <2>1. CASE created' = created
    <3>1. jobFiles' = jobFiles \/ jobFiles' \subseteq ToSet(created)
      BY <1>1, ListEffect, AcceptEffect, WriteEffect, DiesEffect DEF Submit
    <3>2. QED  BY <1>1, <1>2, <2>1, <3>1
  <2>2. CASE created' # created
    <3>1. SubmitAccept(c)
      BY <2>2, ListEffect, WriteEffect, DiesEffect DEF Submit
    <3>2. PICK j \in FreshIds : created' = Append(created, j)
      BY <2>2, <3>1, AcceptEffect
    <3>3. j \in Jobs /\ j \notin ToSet(created)
      BY DEF FreshIds
    <3>4. jobFiles' = jobFiles
      BY <3>1, AcceptEffect
    <3>5. QED  BY <1>1, <3>2, <3>3, <3>4, AppendEffect
  <2>3. QED  BY <2>1, <2>2
<1>5. QED  BY <1>1, <1>3, <1>4, TypeOKParts

LEMMA TypeStep == TypeOK /\ InHand /\ [Next]_vars => TypeOK'
<1> SUFFICES ASSUME TypeOK, InHand, [Next]_vars PROVE TypeOK'
  OBVIOUS
<1>1. /\ caller \in [Callers -> CallerStates] /\ runner \in RunnerStates
      /\ result \in [Jobs -> Contents] /\ age \in [Jobs -> 0..2]
      /\ jobFiles \subseteq ToSet(created) /\ faults \in Nat
  BY TypeOfCaller, TypeOfRunner, TypeOfResults, TypeOfFiles
<1>2. created \in Seq(Jobs) /\ IsInjective(created)
  BY DEF TypeOK
<1>3. CASE RunnerCrashes \/ RunnerFileFails
  <2>1. runner' \in RunnerStates /\ UNCHANGED <<jobFiles, created, result, age, caller>>
    BY <1>3, RunnerFaultEffect
  <2>2. faults' \in Nat
    BY <1>1, <1>3, RunnerFaultEffect
  <2>3. QED  BY <1>1, <1>2, <2>1, <2>2, TypeOKParts
<1>4. CASE \E j \in Jobs : MarkerAges(j)
  <2>1. /\ age' \in [Jobs -> 0..2]
        /\ UNCHANGED <<jobFiles, created, result, caller, runner, faults>>
    BY <1>4, MarkerAgesEffect
  <2>2. QED  BY <1>1, <1>2, <2>1, TypeOKParts
<1>5. CASE UNCHANGED vars
  BY <1>1, <1>2, <1>5, TypeOKParts DEF vars
<1>6. QED  BY <1>3, <1>4, <1>5, TypeRunnerStep, TypeSubmitStep DEF Next

LEMMA CallersJobsStep == TypeOK /\ InHand /\ [Next]_vars => CallersJobs'
<1> SUFFICES ASSUME TypeOK, InHand, [Next]_vars PROVE CallersJobs'
  OBVIOUS
<1>0. \A d \in Callers : caller[d].pc = "write" =>
          caller[d].job \in Jobs /\ caller[d].job \in ToSet(created)
  BY DEF InHand, CallersJobs
<1>1. CASE UNCHANGED <<caller, created>>
  BY <1>0, <1>1 DEF CallersJobs
<1>2. ASSUME NEW c \in Callers, Submit(c) PROVE CallersJobs'
  <2>1. CASE created' = created /\ caller'[c].pc # "write"
    <3>1. \A d \in Callers \ {c} : caller'[d] = caller[d]
      BY <1>2, ListEffect, AcceptEffect, WriteEffect, DiesEffect DEF Submit
    <3>2. QED  BY <1>0, <2>1, <3>1 DEF CallersJobs
  <2>2. CASE SubmitAccept(c) /\ caller'[c].pc = "write"
    <3>1. PICK j \in FreshIds : created' = Append(created, j) /\ caller'[c].job = j
      BY <2>2, AcceptEffect
    <3>2. j \in Jobs /\ j \notin ToSet(created)
      BY DEF FreshIds
    <3>3. ToSet(created') = ToSet(created) \cup {j}
      BY <3>1, <3>2, AppendEffect
    <3>4. \A d \in Callers \ {c} : caller'[d] = caller[d]
      BY <2>2, AcceptEffect
    <3>5. QED  BY <1>0, <3>1, <3>2, <3>3, <3>4 DEF CallersJobs
  <2>3. CASE SubmitAccept(c) /\ caller'[c].pc # "write"
    BY <2>1, <2>3, AcceptEffect
  <2>4. CASE SubmitListPending(c) \/ SubmitWriteJob(c) \/ SubmitDies(c)
    BY <2>1, <2>4, ListEffect, WriteEffect, DiesEffect
  <2>5. QED  BY <1>2, <2>2, <2>3, <2>4 DEF Submit
<1>3. CASE RunnerStep
  BY <1>1, <1>3, RunnerKeeps
<1>4. CASE RunnerCrashes \/ RunnerFileFails
  BY <1>1, <1>4, RunnerFaultEffect
<1>5. CASE \E j \in Jobs : MarkerAges(j)
  BY <1>1, <1>5, MarkerAgesEffect
<1>6. CASE UNCHANGED vars
  BY <1>1, <1>6 DEF vars
<1>7. QED  BY <1>2, <1>3, <1>4, <1>5, <1>6 DEF Next

LEMMA RunnersJobStep == TypeOK /\ InHand /\ [Next]_vars => RunnersJob'
<1> SUFFICES ASSUME TypeOK, InHand, [Next]_vars PROVE RunnersJob'
  OBVIOUS
<1>0. RunnersJob
  BY DEF InHand
<1>1. CASE jobFiles \subseteq jobFiles' /\ UNCHANGED <<result, runner>>
  BY <1>0, <1>1 DEF RunnersJob
<1>2. CASE runner'.pc \in {"idle", "down"}
  BY <1>2 DEF RunnersJob
<1>3. CASE RunnerList
  <2>1. runner'.pc = "listed" /\ runner'.job \in Pending /\ UNCHANGED <<jobFiles, result>>
    BY <1>3, RunnerListEffect
  <2>2. /\ runner'.job \in jobFiles' /\ runner'.job \in Jobs
        /\ result'[runner'.job] \notin Final /\ result'[runner'.job] # "running"
    BY <2>1, Counted DEF Pending, Claimed
  <2>3. QED  BY <2>1, <2>2 DEF RunnersJob
<1>4. CASE RunnerPick /\ runner'.pc = "start"
  <2>1. /\ runner.pc = "listed" /\ SetResult(runner.job, "running")
        /\ runner'.job = runner.job /\ jobFiles' = jobFiles
    BY <1>4, RunnerPickEffect
  <2>2. "running" \in Contents
    BY DEF Contents
  <2>3. /\ runner.job \in Jobs /\ runner.job \in jobFiles
        /\ result'[runner.job] = "running"
    BY <2>1, <2>2, SetEffect
  <2>4. QED  BY <1>4, <2>1, <2>3 DEF RunnersJob
<1>5. CASE runner'.pc = "remove" /\ (RunnerNoScript \/ RunnerEvaluate)
  <2>1. /\ runner.pc \in {"start", "evaluate"} /\ runner'.job = runner.job
        /\ jobFiles' = jobFiles
    BY <1>5, RunnerNoScriptEffect, RunnerEvaluateEffect
  <2>2. runner.job \in Jobs /\ runner.job \in jobFiles
    BY <1>0, <2>1 DEF RunnersJob
  <2>3. QED  BY <1>5, <2>1, <2>2 DEF RunnersJob
<1>6. CASE RunnerK6Writes
  <2>1. /\ runner.pc = "start" /\ runner'.pc = "k6" /\ runner'.job = runner.job
        /\ jobFiles' = jobFiles
    BY <1>6, RunnerK6WritesEffect
  <2>2. PICK content \in {"summary passed", "summary failed", "truncated"} :
           SetResult(runner.job, content)
    BY <1>6, RunnerK6WritesEffect
  <2>3. content \in Contents /\ content \notin Final
    BY DEF Contents, Final
  <2>4. /\ runner.job \in Jobs /\ runner.job \in jobFiles
        /\ result'[runner.job] = content
    BY <2>1, <2>2, <2>3, SetEffect
  <2>5. QED  BY <2>1, <2>3, <2>4 DEF RunnersJob
<1>7. CASE RunnerK6Ends
  <2>1. /\ runner.pc \in {"start", "k6"} /\ runner'.pc = "evaluate"
        /\ runner'.job = runner.job /\ UNCHANGED <<jobFiles, result>>
    BY <1>7, RunnerK6EndsEffect
  <2>2. /\ runner.job \in Jobs /\ runner.job \in jobFiles
        /\ result[runner.job] \notin Final
    BY <1>0, <2>1 DEF RunnersJob, Final
  <2>3. QED  BY <2>1, <2>2 DEF RunnersJob
<1>8. CASE RunnerStep
  <2>1. CASE RunnerPick
    BY <1>2, <1>4, <2>1, RunnerPickEffect
  <2>2. CASE RunnerNoScript \/ RunnerEvaluate
    BY <1>2, <1>5, <2>2, RunnerNoScriptEffect, RunnerEvaluateEffect
  <2>3. CASE RunnerRemoveJob \/ RunnerStarts
    BY <1>2, <2>3, RunnerRemoveJobEffect, RunnerStartsEffect
  <2>4. QED  BY <1>3, <1>6, <1>7, <1>8, <2>1, <2>2, <2>3 DEF RunnerStep
<1>9. CASE RunnerCrashes \/ RunnerFileFails
  BY <1>2, <1>9, RunnerFaultEffect
<1>10. CASE \E c \in Callers : Submit(c)
  BY <1>1, <1>10, ListEffect, AcceptEffect, WriteEffect, DiesEffect DEF Submit
<1>11. CASE \E j \in Jobs : MarkerAges(j)
  BY <1>1, <1>11, MarkerAgesEffect
<1>12. CASE UNCHANGED vars
  BY <1>1, <1>12 DEF vars
<1>13. QED  BY <1>8, <1>9, <1>10, <1>11, <1>12 DEF Next

\* No step overwrites a result that was written.
LEMMA FinalStep ==
    ASSUME TypeOK, InHand, [Next]_vars, NEW k \in Jobs, result[k] \in Final
    PROVE  result'[k] = result[k]
<1>1. CASE /\ runner.pc \in {"listed", "start", "evaluate"}
           /\ \E content \in Contents : SetResult(runner.job, content)
  <2>1. PICK content \in Contents : SetResult(runner.job, content)
    BY <1>1
  <2>2. /\ result[runner.job] \notin Final
        /\ \A j \in Jobs \ {runner.job} : result'[j] = result[j]
    BY <1>1, <2>1, SetEffect
  <2>3. QED  BY <2>2
<1>2. CASE RunnerStep
  <2>1. CASE RunnerPick
    BY <1>1, <2>1, RunnerPickEffect DEF Contents
  <2>2. CASE RunnerNoScript
    BY <1>1, <2>2, RunnerNoScriptEffect DEF Contents
  <2>3. CASE RunnerK6Writes
    BY <1>1, <2>3, RunnerK6WritesEffect DEF Contents
  <2>4. CASE RunnerEvaluate
    BY <1>1, <2>4, RunnerEvaluateEffect DEF Contents, Final
  <2>5. CASE RunnerStarts
    BY <2>5, RunnerStartsEffect DEF Final
  <2>6. CASE RunnerList \/ RunnerK6Ends \/ RunnerRemoveJob
    BY <2>6, RunnerListEffect, RunnerK6EndsEffect, RunnerRemoveJobEffect
  <2>7. QED  BY <1>2, <2>1, <2>2, <2>3, <2>4, <2>5, <2>6 DEF RunnerStep
<1>3. CASE RunnerCrashes \/ RunnerFileFails
  BY <1>3, RunnerFaultEffect
<1>4. CASE \E c \in Callers : Submit(c)
  BY <1>4, ListEffect, AcceptEffect, WriteEffect, DiesEffect DEF Submit
<1>5. CASE \E j \in Jobs : MarkerAges(j)
  BY <1>5, MarkerAgesEffect
<1>6. CASE UNCHANGED vars
  BY <1>6 DEF vars
<1>7. QED  BY <1>2, <1>3, <1>4, <1>5, <1>6 DEF Next

----------------------------------------------------------------------------
(* The limit.                                                              *)

LEMMA Sizes ==
    ASSUME TypeOK
    PROVE  /\ Load \subseteq Jobs /\ IsFiniteSet(Load) /\ Cardinality(Load) \in Nat
           /\ IsFiniteSet(Abandoned) /\ Cardinality(Abandoned) \in Nat
           /\ IsFiniteSet(Adding) /\ Cardinality(Adding) \in Nat
           /\ Cardinality(Adding) <= Cardinality(Callers)
           /\ Cardinality(Callers) \in Nat /\ faults \in Nat
<1>1. Load \subseteq Jobs /\ Abandoned \subseteq Jobs /\ Adding \subseteq Callers
  BY Counted DEF Load, Markers, Abandoned, Adding
<1>2. faults \in Nat
  BY TypeOfFiles
<1>3. /\ IsFiniteSet(Load) /\ IsFiniteSet(Abandoned) /\ IsFiniteSet(Adding)
      /\ Cardinality(Adding) <= Cardinality(Callers)
  BY <1>1, Limits, FS_Subset
<1>4. QED  BY <1>1, <1>2, <1>3, Limits, FS_CardinalityType

LEMMA SizesNext ==
    ASSUME TypeOK'
    PROVE  /\ Load' \subseteq Jobs /\ IsFiniteSet(Load') /\ Cardinality(Load') \in Nat
           /\ IsFiniteSet(Abandoned') /\ Cardinality(Abandoned') \in Nat
           /\ IsFiniteSet(Adding') /\ Cardinality(Adding') \in Nat
           /\ Cardinality(Adding') <= Cardinality(Callers) /\ faults' \in Nat
<1>1. jobFiles' \subseteq Jobs /\ faults' \in Nat
  <2>1. jobFiles' \subseteq ToSet(created') /\ created' \in Seq(Jobs) /\ faults' \in Nat
    BY DEF TypeOK
  <2>2. ToSet(created') \subseteq Jobs
    BY <2>1 DEF ToSet
  <2>3. QED  BY <2>1, <2>2
<1>2. Load' \subseteq Jobs /\ Abandoned' \subseteq Jobs /\ Adding' \subseteq Callers
  BY <1>1 DEF Load, Pending, Markers, Abandoned, Adding
<1>3. /\ IsFiniteSet(Load') /\ IsFiniteSet(Abandoned') /\ IsFiniteSet(Adding')
      /\ Cardinality(Adding') <= Cardinality(Callers)
  BY <1>2, Limits, FS_Subset
<1>4. QED  BY <1>1, <1>2, <1>3, FS_CardinalityType

\* SetResult on the runner's job adds no load, and abandons no marker.
LEMMA SetShrinks ==
    ASSUME TypeOK, InHand, runner.pc \in {"listed", "start", "evaluate"},
           NEW content \in Contents, SetResult(runner.job, content),
           jobFiles' = jobFiles,
           content = "running" => runner'.pc = "start" /\ runner'.job = runner.job
    PROVE  Load' \subseteq Load /\ Abandoned' \subseteq Abandoned
<1>1. /\ runner.job \in Jobs /\ runner.job \in jobFiles
      /\ result'[runner.job] = content /\ result[runner.job] \notin Final
      /\ \A k \in Jobs \ {runner.job} : result'[k] = result[k]
  BY SetEffect
<1>2. runner.job \in Load
  <2>1. CASE result[runner.job] = "running"
    BY <1>1, <2>1 DEF Load, Markers
  <2>2. CASE result[runner.job] # "running"
    BY <1>1, <2>2 DEF Load, Pending, Claimed
  <2>3. QED  BY <2>1, <2>2
<1>3. Load' \subseteq Load
  <2>1. SUFFICES ASSUME NEW k \in Load', k # runner.job PROVE k \in Load
    BY <1>2
  <2>2. k \in Jobs
    BY <2>1, TypeOfFiles DEF Load, Pending, Markers
  <2>3. result'[k] = result[k]
    BY <1>1, <2>1, <2>2
  <2>4. QED  BY <2>1, <2>2, <2>3 DEF Load, Pending, Claimed, Markers
<1>4. Abandoned' \subseteq Abandoned
  <2>1. SUFFICES ASSUME NEW k \in Abandoned' PROVE k \in Abandoned
    OBVIOUS
  <2>2. /\ k \in Jobs /\ result'[k] = "running"
        /\ ~(runner'.pc \in {"start", "evaluate"} /\ runner'.job = k)
    BY <2>1 DEF Abandoned, Markers
  <2>3. k # runner.job
    BY <1>1, <2>2
  <2>4. result[k] = "running"
    BY <1>1, <2>2, <2>3
  <2>5. QED  BY <2>2, <2>3, <2>4 DEF Abandoned, Markers
<1>5. QED  BY <1>3, <1>4

\* A step of the runner that is not a fault adds no load and abandons no marker.
LEMMA RunnerShrinks ==
    ASSUME TypeOK, InHand, RunnerStep
    PROVE  Load' \subseteq Load /\ Abandoned' \subseteq Abandoned
<1>1. CASE RunnerPick
  <2>1. CASE UNCHANGED <<result, age>>
    <3>1. /\ runner.pc = "listed" /\ UNCHANGED <<jobFiles, result>>
      BY <1>1, <2>1, RunnerPickEffect
    <3>2. QED  BY <3>1 DEF Load, Pending, Claimed, Markers, Abandoned
  <2>2. CASE SetResult(runner.job, "running") /\ runner'.pc = "start"
             /\ runner'.job = runner.job
    <3>1. "running" \in Contents
      BY DEF Contents
    <3>2. runner.pc = "listed" /\ jobFiles' = jobFiles
      BY <1>1, RunnerPickEffect
    <3>3. QED  BY <2>2, <3>1, <3>2, SetShrinks
  <2>3. QED  BY <1>1, <2>1, <2>2, RunnerPickEffect
<1>2. CASE RunnerNoScript
  <2>1. /\ runner.pc = "start" /\ SetResult(runner.job, "error")
        /\ jobFiles' = jobFiles /\ "error" \in Contents
    BY <1>2, RunnerNoScriptEffect DEF Contents
  <2>2. QED  BY <2>1, SetShrinks
<1>3. CASE RunnerK6Writes
  <2>1. PICK content \in {"summary passed", "summary failed", "truncated"} :
           SetResult(runner.job, content)
    BY <1>3, RunnerK6WritesEffect
  <2>2. /\ runner.pc = "start" /\ jobFiles' = jobFiles
        /\ content \in Contents /\ content # "running"
    BY <1>3, RunnerK6WritesEffect DEF Contents
  <2>3. QED  BY <2>1, <2>2, SetShrinks
<1>4. CASE RunnerEvaluate
  <2>1. PICK content \in Final : SetResult(runner.job, content)
    BY <1>4, RunnerEvaluateEffect
  <2>2. runner.pc = "evaluate" /\ jobFiles' = jobFiles
    BY <1>4, RunnerEvaluateEffect
  <2>3. content \in Contents /\ content # "running"
    BY DEF Contents, Final
  <2>4. QED  BY <2>1, <2>2, <2>3, SetShrinks
<1>5. CASE RunnerList \/ RunnerRemoveJob
  <2>1. /\ jobFiles' \subseteq jobFiles /\ result' = result
        /\ runner.pc \notin {"start", "evaluate"}
    BY <1>5, RunnerListEffect, RunnerRemoveJobEffect
  <2>2. QED  BY <2>1 DEF Load, Pending, Claimed, Markers, Abandoned
<1>6. CASE RunnerK6Ends
  <2>1. /\ UNCHANGED <<jobFiles, result>> /\ runner'.pc = "evaluate"
        /\ runner'.job = runner.job
    BY <1>6, RunnerK6EndsEffect
  <2>2. QED  BY <2>1 DEF Load, Pending, Claimed, Markers, Abandoned
<1>7. CASE RunnerStarts
  <2>1. /\ jobFiles' = jobFiles /\ runner.pc = "down"
        /\ \A k \in Jobs : \/ result'[k] = result[k]
                           \/ result[k] = "running" /\ result'[k] = "none"
    BY <1>7, RunnerStartsEffect
  <2>2. \A k \in Jobs : k \in Markers' => k \in Markers
    BY <2>1 DEF Markers
  <2>3. \A k \in Jobs : k \in Pending' => k \in Pending \/ k \in Markers
    BY <2>1 DEF Pending, Claimed, Markers
  <2>4. Pending' \subseteq Jobs /\ Markers' \subseteq Jobs
    BY <2>1, Counted, TypeOfFiles DEF Pending, Markers
  <2>5. Load' \subseteq Load
    BY <2>2, <2>3, <2>4 DEF Load
  <2>6. Abandoned' \subseteq Abandoned
    BY <2>1, <2>2, <2>4 DEF Abandoned
  <2>7. QED  BY <2>5, <2>6
<1>8. QED  BY <1>1, <1>2, <1>3, <1>4, <1>5, <1>6, <1>7 DEF RunnerStep

LEMMA OneMore ==
    ASSUME NEW S, IsFiniteSet(S), NEW x
    PROVE  /\ IsFiniteSet(S \cup {x})
           /\ Cardinality(S \cup {x}) <= Cardinality(S) + 1
<1>1. Cardinality(S) \in Nat
  BY FS_CardinalityType
<1>2. CASE x \in S
  <2>1. S \cup {x} = S
    BY <1>2
  <2>2. Cardinality(S) <= Cardinality(S) + 1
    BY <1>1
  <2>3. QED  BY <2>1, <2>2
<1>3. CASE x \notin S
  <2>1. IsFiniteSet(S \cup {x}) /\ Cardinality(S \cup {x}) = Cardinality(S) + 1
    BY <1>3, FS_AddElement
  <2>2. QED  BY <1>1, <2>1
<1>4. QED  BY <1>2, <1>3

\* Steps that change neither a result nor the runner.
LEMMA ResultsKept ==
    ASSUME UNCHANGED <<jobFiles, result>>
    PROVE  Load' = Load /\ (runner' = runner => Abandoned' = Abandoned)
  BY DEF Load, Pending, Claimed, Markers, Abandoned

LEMMA AbandonedStep ==
    TypeOK /\ InHand /\ TypeOK' /\ MarkersAbandoned /\ [Next]_vars => MarkersAbandoned'
<1> SUFFICES ASSUME TypeOK, InHand, TypeOK', MarkersAbandoned, [Next]_vars
             PROVE  MarkersAbandoned'
  OBVIOUS
<1>0. Cardinality(Abandoned) <= faults
  BY DEF MarkersAbandoned
<1>1. CASE Abandoned' \subseteq Abandoned /\ faults' = faults
  <2>1. Cardinality(Abandoned') <= Cardinality(Abandoned)
    BY <1>1, Sizes, FS_Subset
  <2>2. Cardinality(Abandoned') \in Nat /\ Cardinality(Abandoned) \in Nat /\ faults \in Nat
    BY Sizes, SizesNext
  <2>3. QED  BY <1>0, <1>1, <2>1, <2>2 DEF MarkersAbandoned
<1>2. CASE RunnerCrashes \/ RunnerFileFails
  <2>1. UNCHANGED result /\ faults' = faults + 1
    BY <1>2, RunnerFaultEffect
  <2> DEFINE More == Abandoned \cup {runner.job}
  <2>2. Abandoned' \subseteq More
    BY <2>1 DEF Abandoned, Markers
  <2>3. IsFiniteSet(More) /\ Cardinality(More) <= Cardinality(Abandoned) + 1
    BY Sizes, OneMore
  <2>4. Cardinality(Abandoned') <= Cardinality(More) /\ Cardinality(More) \in Nat
    BY <2>2, <2>3, FS_Subset, FS_CardinalityType
  <2> HIDE DEF More
  <2>5. Cardinality(Abandoned') \in Nat /\ Cardinality(Abandoned) \in Nat /\ faults \in Nat
    BY Sizes, SizesNext
  <2>6. Cardinality(Abandoned') <= faults'
    BY <1>0, <2>1, <2>3, <2>4, <2>5
  <2>7. QED  BY <2>6 DEF MarkersAbandoned
<1>3. CASE \E c \in Callers : Submit(c)
  <2>1. UNCHANGED <<result, runner, faults>>
    BY <1>3, ListEffect, AcceptEffect, WriteEffect, DiesEffect DEF Submit
  <2>2. Abandoned' = Abandoned
    BY <2>1 DEF Abandoned, Markers
  <2>3. QED  BY <1>1, <2>1, <2>2
<1>4. CASE RunnerStep
  BY <1>1, <1>4, RunnerShrinks, RunnerKeeps
<1>5. CASE \E j \in Jobs : MarkerAges(j)
  BY <1>1, <1>5, MarkerAgesEffect, ResultsKept
<1>6. CASE UNCHANGED vars
  BY <1>1, <1>6, ResultsKept DEF vars
<1>7. QED  BY <1>2, <1>3, <1>4, <1>5, <1>6 DEF Next

\* What a call that has found room may be wrong about.
LEMMA LoadAtList ==
    ASSUME TypeOK, InHand, MarkersAbandoned
    PROVE  Cardinality(Load) <= Cardinality(Pending) + faults + 1
<1> DEFINE Mine == Abandoned \cup {runner.job}
           All == Pending \cup Mine
<1>1. IsFiniteSet(Mine) /\ Cardinality(Mine) <= Cardinality(Abandoned) + 1
  BY Sizes, OneMore
<1>2. Load \subseteq All
  BY DEF Load, Abandoned
<1> HIDE DEF Mine
<1>3. /\ IsFiniteSet(All)
      /\ Cardinality(All) = Cardinality(Pending) + Cardinality(Mine)
                            - Cardinality(Pending \cap Mine)
  BY <1>1, Counted, FS_Union
<1>4. Cardinality(Mine) \in Nat /\ Cardinality(Pending \cap Mine) \in Nat
  BY <1>1, Counted, FS_CardinalityType, FS_Intersection
<1>5. Cardinality(Load) <= Cardinality(All) /\ Cardinality(All) \in Nat
  BY <1>2, <1>3, FS_Subset, FS_CardinalityType
<1> HIDE DEF All
<1>6. Cardinality(Abandoned) <= faults
  BY DEF MarkersAbandoned
<1>7. /\ Cardinality(Pending) \in Nat /\ Cardinality(Abandoned) \in Nat
      /\ faults \in Nat /\ Cardinality(Load) \in Nat
  BY Counted, Sizes
<1>8. QED  BY <1>1, <1>3, <1>4, <1>5, <1>6, <1>7

LEMMA BoundShrinks ==
    ASSUME TypeOK, TypeOK', LoadBounded, Load' \subseteq Load, Adding' \subseteq Adding,
           faults <= faults'
    PROVE  LoadBounded'
<1>1. /\ Cardinality(Load') <= Cardinality(Load)
      /\ Cardinality(Adding') <= Cardinality(Adding)
  BY Sizes, FS_Subset
<1>2. /\ Cardinality(Load) \in Nat /\ Cardinality(Adding) \in Nat /\ faults \in Nat
      /\ Cardinality(Load') \in Nat /\ Cardinality(Adding') \in Nat /\ faults' \in Nat
      /\ Cardinality(Callers) \in Nat /\ MaxQueueDepth \in Nat
  BY Sizes, SizesNext, Limits
<1>3. Cardinality(Load) + Cardinality(Adding)
          <= MaxQueueDepth + Cardinality(Callers) + faults
  BY DEF LoadBounded
<1>4. Cardinality(Load') + Cardinality(Adding')
          <= MaxQueueDepth + Cardinality(Callers) + faults'
  BY <1>1, <1>2, <1>3
<1>5. QED  BY <1>4 DEF LoadBounded

LEMMA LoadSubmitStep ==
    ASSUME TypeOK, InHand, TypeOK', MarkersAbandoned, LoadBounded,
           NEW c \in Callers, Submit(c)
    PROVE  LoadBounded'
<1>0. faults' = faults /\ faults \in Nat
  BY Sizes, ListEffect, AcceptEffect, WriteEffect, DiesEffect DEF Submit
<1>1. \A d \in Callers \ {c} : caller'[d] = caller[d]
  BY ListEffect, AcceptEffect, WriteEffect, DiesEffect DEF Submit
<1>2. ASSUME c \in Adding' => c \in Adding PROVE Adding' \subseteq Adding
  BY <1>1, <1>2 DEF Adding
<1>3. CASE SubmitListPending(c)
  <2>1. /\ caller'[c].pc = "countRunning" /\ caller'[c].pending = Cardinality(Pending)
        /\ UNCHANGED <<jobFiles, result>>
    BY <1>3, ListEffect
  <2>2. Load' = Load
    BY <2>1, ResultsKept
  <2>3. CASE Cardinality(Pending) < MaxQueueDepth
    <3>1. Cardinality(Load) <= Cardinality(Pending) + faults + 1
      BY LoadAtList
    <3>2. Cardinality(Adding') <= Cardinality(Callers)
      BY SizesNext
    <3>3. /\ Cardinality(Load) \in Nat /\ Cardinality(Pending) \in Nat
          /\ Cardinality(Adding') \in Nat /\ Cardinality(Callers) \in Nat
          /\ MaxQueueDepth \in Nat
      BY Sizes, SizesNext, Counted, Limits
    <3>4. Cardinality(Load) + Cardinality(Adding')
              <= MaxQueueDepth + Cardinality(Callers) + faults
      BY <1>0, <2>3, <3>1, <3>2, <3>3
    <3>5. QED  BY <1>0, <2>2, <3>4 DEF LoadBounded
  <2>4. CASE ~(Cardinality(Pending) < MaxQueueDepth)
    <3>1. c \notin Adding'
      BY <2>1, <2>4 DEF Adding
    <3>2. QED  BY <1>0, <1>2, <2>2, <3>1, BoundShrinks
  <2>5. QED  BY <2>3, <2>4
<1>4. CASE SubmitAccept(c)
  <2>1. Load' = Load
    BY <1>4, AcceptEffect, ResultsKept
  <2>2. c \in Adding' => c \in Adding
    <3>1. SUFFICES ASSUME c \in Adding' PROVE c \in Adding
      OBVIOUS
    <3>2. caller'[c].pc # "idle"
      BY <3>1 DEF Adding
    <3>3. /\ caller[c].pc = "countRunning"
          /\ CanAccept(caller[c].pending, Cardinality(Running))
      BY <1>4, <3>2, AcceptEffect
    <3>4. caller[c].pending \in Nat /\ Cardinality(Running) \in Nat
      <4>1. Running \subseteq Jobs
        BY DEF Running
      <4>2. Cardinality(Running) \in Nat
        BY <4>1, Limits, FS_Subset, FS_CardinalityType
      <4>3. QED  BY <4>2, TypeOfCaller DEF CallerStates
    <3>5. caller[c].pending + Cardinality(Running) < MaxQueueDepth
      BY <3>3 DEF CanAccept
    <3>6. caller[c].pending < MaxQueueDepth
      BY <3>4, <3>5, Limits
    <3>7. QED  BY <3>3, <3>6 DEF Adding
  <2>3. QED  BY <1>0, <1>2, <2>1, <2>2, BoundShrinks
<1>5. CASE SubmitWriteJob(c)
  <2>1. /\ caller[c].pc = "write" /\ caller'[c].pc = "idle"
        /\ jobFiles' = jobFiles \cup {caller[c].job} /\ result' = result
    BY <1>5, WriteEffect
  <2>2. Load' \subseteq Load \cup {caller[c].job}
    BY <2>1 DEF Load, Pending, Claimed, Markers
  <2>3. Adding' \subseteq Adding \ {c} /\ c \in Adding
    BY <1>1, <2>1 DEF Adding
  <2>4. Cardinality(Load') <= Cardinality(Load) + 1
    <3> DEFINE More == Load \cup {caller[c].job}
    <3>1. IsFiniteSet(More) /\ Cardinality(More) <= Cardinality(Load) + 1
      BY Sizes, OneMore
    <3>2. Cardinality(Load') <= Cardinality(More) /\ Cardinality(More) \in Nat
      BY <2>2, <3>1, FS_Subset, FS_CardinalityType
    <3>3. Cardinality(Load) \in Nat /\ Cardinality(Load') \in Nat
      BY Sizes, SizesNext
    <3> HIDE DEF More
    <3>4. QED  BY <3>1, <3>2, <3>3
  <2>5. Cardinality(Adding') <= Cardinality(Adding) - 1
    <3>1. /\ IsFiniteSet(Adding \ {c})
          /\ Cardinality(Adding \ {c}) = Cardinality(Adding) - 1
      BY <2>3, Sizes, FS_RemoveElement
    <3>2. Cardinality(Adding') <= Cardinality(Adding \ {c})
      BY <2>3, <3>1, FS_Subset
    <3>3. QED  BY <3>1, <3>2
  <2>6. /\ Cardinality(Load) \in Nat /\ Cardinality(Adding) \in Nat
        /\ Cardinality(Load') \in Nat /\ Cardinality(Adding') \in Nat
        /\ Cardinality(Callers) \in Nat /\ MaxQueueDepth \in Nat
    BY Sizes, SizesNext, Limits
  <2>7. Cardinality(Load) + Cardinality(Adding)
            <= MaxQueueDepth + Cardinality(Callers) + faults
    BY DEF LoadBounded
  <2>8. Cardinality(Load') + Cardinality(Adding')
            <= MaxQueueDepth + Cardinality(Callers) + faults
    BY <1>0, <2>4, <2>5, <2>6, <2>7
  <2>9. QED  BY <1>0, <2>8 DEF LoadBounded
<1>6. CASE SubmitDies(c)
  <2>1. Load' = Load /\ caller'[c].pc = "idle"
    BY <1>6, DiesEffect, ResultsKept
  <2>2. c \notin Adding'
    BY <2>1 DEF Adding
  <2>3. QED  BY <1>0, <1>2, <2>1, <2>2, BoundShrinks
<1>7. QED  BY <1>3, <1>4, <1>5, <1>6 DEF Submit

LEMMA LoadStep ==
    IInv /\ TypeOK' /\ [Next]_vars => LoadBounded'
<1> SUFFICES ASSUME TypeOK, InHand, TypeOK', MarkersAbandoned, LoadBounded, [Next]_vars
             PROVE  LoadBounded'
  BY DEF IInv
<1>0. faults \in Nat
  BY Sizes
<1>1. CASE Load' \subseteq Load /\ caller' = caller /\ faults' \in {faults, faults + 1}
  <2>1. Adding' = Adding
    BY <1>1 DEF Adding
  <2>2. faults <= faults'
    BY <1>0, <1>1
  <2>3. QED  BY <1>1, <2>1, <2>2, BoundShrinks
<1>2. CASE RunnerStep
  BY <1>1, <1>2, RunnerShrinks, RunnerKeeps
<1>3. CASE RunnerCrashes \/ RunnerFileFails
  BY <1>1, <1>3, RunnerFaultEffect, ResultsKept
<1>4. CASE \E j \in Jobs : MarkerAges(j)
  BY <1>1, <1>4, MarkerAgesEffect, ResultsKept
<1>5. CASE UNCHANGED vars
  BY <1>1, <1>5, ResultsKept DEF vars
<1>6. QED  BY <1>2, <1>3, <1>4, <1>5, LoadSubmitStep DEF Next

----------------------------------------------------------------------------
(* The theorems.                                                           *)

LEMMA InitIInv == Init => IInv
<1> SUFFICES ASSUME Init PROVE IInv
  OBVIOUS
<1>1. TypeOK
  <2>1. created = <<>>
    BY DEF Init
  <2>2. created \in Seq(Jobs) /\ IsInjective(created) /\ ToSet(created) = {}
    BY <2>1 DEF IsInjective, ToSet
  <2>3. NoCall \in CallerStates /\ NoRun \in RunnerStates
    BY DEF NoCall, NoRun, CallerStates, RunnerStates
  <2>4. caller \in [Callers -> CallerStates] /\ runner \in RunnerStates
    BY <2>3 DEF Init
  <2>5. result \in [Jobs -> Contents] /\ age \in [Jobs -> 0..2] /\ faults \in Nat
    BY DEF Init, Contents
  <2>6. jobFiles \subseteq ToSet(created)
    BY DEF Init
  <2>7. QED  BY <2>2, <2>4, <2>5, <2>6 DEF TypeOK, CallerStates, RunnerStates
<1>2. InHand
  BY DEF Init, NoRun, NoCall, InHand, RunnersJob, CallersJobs
<1>3. Load = {} /\ Abandoned = {} /\ Adding = {}
  BY DEF Init, NoCall, Load, Pending, Markers, Abandoned, Adding
<1>4. faults = 0
  BY DEF Init
<1>5. MarkersAbandoned
  BY <1>3, <1>4, FS_EmptySet DEF MarkersAbandoned
<1>6. LoadBounded
  <2>1. Cardinality(Load) = 0 /\ Cardinality(Adding) = 0
    BY <1>3, FS_EmptySet
  <2>2. Cardinality(Callers) \in Nat /\ MaxQueueDepth \in Nat
    BY Limits, FS_CardinalityType
  <2>3. QED  BY <1>4, <2>1, <2>2 DEF LoadBounded
<1>7. QED  BY <1>1, <1>2, <1>5, <1>6 DEF IInv

LEMMA Invariance == Spec => []IInv
<1>1. IInv /\ [Next]_vars => IInv'
  <2>1. IInv /\ [Next]_vars => TypeOK' /\ RunnersJob' /\ CallersJobs'
    BY TypeStep, RunnersJobStep, CallersJobsStep DEF IInv
  <2>2. IInv /\ [Next]_vars /\ TypeOK' => MarkersAbandoned'
    BY AbandonedStep DEF IInv
  <2>3. QED  BY <2>1, <2>2, LoadStep DEF IInv, InHand
<1>2. QED  BY InitIInv, <1>1, PTL DEF Spec

\* The type of every variable; each job is made once (uuid.New), and a file of
\* jobs/ is a job's that Submit made.
THEOREM TypeCorrect == Spec => []TypeOK
<1>1. IInv => TypeOK
  BY DEF IInv
<1>2. QED  BY Invariance, <1>1, PTL

\* The runner never runs again, nor overwrites, a run whose result it wrote,
\* whatever crash comes between the result and the removal of the job's file.
THEOREM ResultsFinal == Spec => ResultsAreFinal
<1>1. IInv /\ [Next]_vars
        => [\A j \in Jobs : result[j] \in Final => result'[j] = result[j]]_vars
  BY FinalStep DEF IInv
<1>2. QED  BY Invariance, <1>1, PTL DEF Spec, ResultsAreFinal

\* Submit's count can be late only by the calls in flight and by the runs that
\* the faults of the runner gave back.
THEOREM OvershootBounded == Spec => []QueueOvershootBounded
<1>1. IInv => QueueOvershootBounded
  <2> SUFFICES ASSUME TypeOK, LoadBounded PROVE QueueOvershootBounded
    BY DEF IInv
  <2>1. Running \subseteq Jobs /\ Pending \cap Running = {} /\ Pending \cup Running \subseteq Load
    BY DEF Pending, Claimed, Running, Load, Markers
  <2>2. IsFiniteSet(Running) /\ Cardinality(Running) \in Nat
    BY <2>1, Limits, FS_Subset, FS_CardinalityType
  <2>3. Cardinality(Pending \cup Running) = Cardinality(Pending) + Cardinality(Running)
    <3>1. Cardinality(Pending \cup Running)
            = Cardinality(Pending) + Cardinality(Running) - Cardinality(Pending \cap Running)
      BY <2>2, Counted, FS_Union
    <3>2. Cardinality(Pending \cap Running) = 0
      BY <2>1, FS_EmptySet
    <3>3. QED  BY <2>2, <3>1, <3>2, Counted
  <2>4. Cardinality(Pending \cup Running) <= Cardinality(Load)
    BY <2>1, Sizes, FS_Subset
  <2>5. Cardinality(Load) + Cardinality(Adding)
            <= MaxQueueDepth + Cardinality(Callers) + faults
    BY DEF LoadBounded
  <2>6. /\ Cardinality(Load) \in Nat /\ Cardinality(Adding) \in Nat /\ faults \in Nat
        /\ Cardinality(Callers) \in Nat /\ MaxQueueDepth \in Nat
        /\ Cardinality(Pending) \in Nat /\ Cardinality(Running) \in Nat
    BY <2>2, Sizes, Counted, Limits
  <2>7. Cardinality(Pending) + Cardinality(Running)
            <= MaxQueueDepth + Cardinality(Callers) + faults
    BY <2>3, <2>4, <2>5, <2>6
  <2>8. QED  BY <2>7 DEF QueueOvershootBounded, Active
<1>2. QED  BY Invariance, <1>1, PTL

============================================================================
