------------------------ MODULE LoadTestRefinement ------------------------
(***************************************************************************)
(* LoadTest implements RunLedger.  The mapping is the instance Ledger of   *)
(* LoadTest: a run is open while it has a file in jobs/ and no result.     *)
(* Besides the invariant of LoadTestProofs the refinement needs to know    *)
(* that the job a call of Submit is about to write has never been heard of *)
(* (Untouched), and that the runner removes no job without a result        *)
(* (RemovesReported).                                                      *)
(***************************************************************************)
EXTENDS LoadTestProofs

Fresh(j) == j \notin jobFiles /\ result[j] \notin Final

Writes(c, j) == caller[c].pc = "write" /\ caller[c].job = j

Untouched ==
    /\ \A j \in Jobs \ ToSet(created) : Fresh(j)
    /\ \A c \in Callers, j \in Jobs : Writes(c, j) => Fresh(j)
    /\ \A c, d \in Callers, j \in Jobs : Writes(c, j) /\ Writes(d, j) => c = d

RemovesReported == runner.pc = "remove" => result[runner.job] \in Final

LedgerInv == Untouched /\ RemovesReported

\* What the ledger does not see of a step.
LedgerKept == UNCHANGED <<Unreported, Reported, InProgress, faults>>

----------------------------------------------------------------------------
(* The state functions of the mapping.                                     *)

LEMMA ViewKept ==
    ASSUME TypeOK, jobFiles' = jobFiles,
           \A j \in Jobs : \/ result'[j] = result[j]
                           \/ result'[j] \notin Final /\ result[j] \notin Final
    PROVE  Unreported' = Unreported /\ Reported' = Reported
<1>1. jobFiles \subseteq Jobs
  BY TypeOfFiles
<1>2. Unreported' = Unreported
  BY <1>1 DEF Unreported
<1>3. ASSUME NEW j \in Jobs
      PROVE  (IF result'[j] \in Final THEN result'[j] ELSE "none")
                = (IF result[j] \in Final THEN result[j] ELSE "none")
  OBVIOUS
<1>4. Reported' = Reported
  BY <1>3 DEF Reported
<1>5. QED  BY <1>2, <1>4

\* The runner writes something that is not a result over its job's file.
LEMMA ProvisionalKeepsView ==
    ASSUME TypeOK, InHand, runner.pc \in {"listed", "start", "evaluate"},
           NEW content \in Contents \ Final, SetResult(runner.job, content),
           jobFiles' = jobFiles
    PROVE  Unreported' = Unreported /\ Reported' = Reported
<1>1. /\ result'[runner.job] = content /\ result[runner.job] \notin Final
      /\ \A k \in Jobs \ {runner.job} : result'[k] = result[k]
  BY SetEffect
<1>2. QED  BY <1>1, ViewKept

\* The runner writes a result.
LEMMA ResultReports ==
    ASSUME TypeOK, InHand, runner.pc \in {"start", "evaluate"},
           NEW content \in Final, SetResult(runner.job, content),
           jobFiles' = jobFiles, runner'.pc \in {"idle", "remove"}, faults' = faults
    PROVE  Ledger!Report(content)
<1>1. /\ runner.job \in Jobs /\ runner.job \in jobFiles
      /\ result'[runner.job] = content
      /\ \A k \in Jobs \ {runner.job} : result'[k] = result[k]
  BY SetEffect DEF Contents, Final
<1>2. InProgress = runner.job /\ InProgress # NoJob /\ InProgress' = NoJob
  BY <1>1, Limits DEF InProgress
<1>3. Unreported' = Unreported \ {InProgress}
  <2>1. jobFiles \subseteq Jobs
    BY TypeOfFiles
  <2>2. QED  BY <1>1, <1>2, <2>1 DEF Unreported
<1>4. Reported' = [Reported EXCEPT ![InProgress] = content]
  BY <1>1, <1>2 DEF Reported
<1>5. QED  BY <1>2, <1>3, <1>4 DEF Ledger!Report

----------------------------------------------------------------------------
(* What is fresh, and what is removed.                                     *)

\* The runner and time leave a job alone that has no file.
LEMMA FreshKept ==
    ASSUME TypeOK, InHand, NEW j \in Jobs, Fresh(j),
           \/ RunnerStep \/ RunnerCrashes \/ RunnerFileFails
           \/ \E k \in Jobs : MarkerAges(k)
    PROVE  Fresh(j)'
<1>1. jobFiles' \subseteq jobFiles
  BY RunnerKeeps, RunnerFaultEffect, MarkerAgesEffect
<1>2. CASE result'[j] = result[j]
  BY <1>1, <1>2 DEF Fresh
<1>3. CASE /\ runner.pc \in {"listed", "start", "evaluate"}
           /\ \E content \in Contents : SetResult(runner.job, content)
  <2>1. runner.job \in jobFiles /\ \A k \in Jobs \ {runner.job} : result'[k] = result[k]
    BY <1>3, SetEffect
  <2>2. QED  BY <1>2, <2>1 DEF Fresh
<1>4. CASE RunnerStarts
  <2>1. result'[j] = result[j] \/ result'[j] = "none"
    BY <1>4, RunnerStartsEffect
  <2>2. QED  BY <1>1, <2>1 DEF Fresh, Final
<1>5. CASE RunnerPick
  BY <1>2, <1>3, <1>5, RunnerPickEffect DEF Contents
<1>6. CASE RunnerNoScript
  BY <1>3, <1>6, RunnerNoScriptEffect DEF Contents
<1>7. CASE RunnerK6Writes
  BY <1>3, <1>7, RunnerK6WritesEffect DEF Contents
<1>8. CASE RunnerEvaluate
  BY <1>3, <1>8, RunnerEvaluateEffect DEF Contents, Final
<1>9. CASE RunnerList \/ RunnerK6Ends \/ RunnerRemoveJob
  BY <1>2, <1>9, RunnerListEffect, RunnerK6EndsEffect, RunnerRemoveJobEffect
<1>10. CASE RunnerCrashes \/ RunnerFileFails \/ \E k \in Jobs : MarkerAges(k)
  BY <1>2, <1>10, RunnerFaultEffect, MarkerAgesEffect
<1>11. QED
  BY <1>4, <1>5, <1>6, <1>7, <1>8, <1>9, <1>10 DEF RunnerStep

\* The calls of Submit that write the same as before, or no more.
LEMMA FewerWrites ==
    ASSUME Untouched, ToSet(created) \subseteq ToSet(created'),
           \A j \in Jobs : Fresh(j) => Fresh(j)',
           \A c \in Callers, j \in Jobs : Writes(c, j)' => Writes(c, j)
    PROVE  Untouched'
<1>1. \A j \in Jobs \ ToSet(created') : Fresh(j)'
  BY DEF Untouched
<1>2. \A c \in Callers, j \in Jobs : Writes(c, j)' => Fresh(j)'
  BY DEF Untouched
<1>3. \A c, d \in Callers, j \in Jobs : Writes(c, j)' /\ Writes(d, j)' => c = d
  BY DEF Untouched
<1>4. QED  BY <1>1, <1>2, <1>3 DEF Untouched

\* A call that makes a job makes one nobody has made.
LEMMA AcceptUntouched ==
    ASSUME TypeOK, InHand, Untouched, NEW c \in Callers, SubmitAccept(c)
    PROVE  Untouched'
<1>1. /\ \A d \in Callers \ {c} : caller'[d] = caller[d]
      /\ UNCHANGED <<jobFiles, result>>
  BY AcceptEffect
<1>2. \A j \in Jobs : Fresh(j)' <=> Fresh(j)
  BY <1>1 DEF Fresh
<1>3. CASE caller'[c].pc = "idle" /\ created' = created
  <2>1. \A d \in Callers, j \in Jobs : Writes(d, j)' => Writes(d, j)
    BY <1>1, <1>3 DEF Writes
  <2>2. QED  BY <1>2, <1>3, <2>1, FewerWrites
<1>4. ASSUME NEW i \in FreshIds, created' = Append(created, i), caller'[c].job = i
      PROVE  Untouched'
  <2>1. i \in Jobs /\ i \notin ToSet(created)
    BY DEF FreshIds
  <2>2. ToSet(created') = ToSet(created) \cup {i}
    BY <1>4, <2>1, AppendEffect
  <2>3. Fresh(i)
    BY <2>1 DEF Untouched
  <2>4. \A j \in Jobs \ ToSet(created') : Fresh(j)'
    BY <1>2, <2>2 DEF Untouched
  <2>5. \A d \in Callers, j \in Jobs :
           Writes(d, j)' => (d # c /\ Writes(d, j)) \/ (d = c /\ j = i)
    BY <1>1, <1>4 DEF Writes
\* Nobody else is about to write it: what they write was made before.
  <2>6. \A d \in Callers : ~Writes(d, i)
    BY <2>1 DEF InHand, CallersJobs, Writes
  <2>7. \A d \in Callers, j \in Jobs : Writes(d, j)' => Fresh(j)'
    BY <1>2, <2>3, <2>5 DEF Untouched
  <2>8. \A d, e \in Callers, j \in Jobs : Writes(d, j)' /\ Writes(e, j)' => d = e
    BY <2>5, <2>6 DEF Untouched
  <2>9. QED  BY <2>4, <2>7, <2>8 DEF Untouched
<1>5. QED  BY <1>3, <1>4, AcceptEffect

\* The job that is written is no other call's.
LEMMA WriteUntouched ==
    ASSUME TypeOK, InHand, Untouched, NEW c \in Callers, SubmitWriteJob(c)
    PROVE  Untouched'
<1> DEFINE i == caller[c].job
<1>1. /\ caller[c].pc = "write" /\ i \in ToSet(created) /\ caller'[c].pc = "idle"
      /\ \A d \in Callers \ {c} : caller'[d] = caller[d]
      /\ jobFiles' = jobFiles \cup {i} /\ created' = created /\ result' = result
  BY WriteEffect
<1>2. i \in Jobs /\ Writes(c, i)
  BY <1>1, TypeOfFiles DEF Writes
<1> HIDE DEF i
<1>3. \A j \in Jobs : Fresh(j) /\ j # i => Fresh(j)'
  BY <1>1 DEF Fresh
<1>4. \A d \in Callers, j \in Jobs : Writes(d, j)' => Writes(d, j) /\ d # c
  BY <1>1 DEF Writes
<1>5. \A d \in Callers, j \in Jobs : Writes(d, j)' => Fresh(j)'
  BY <1>2, <1>3, <1>4 DEF Untouched
<1>6. \A j \in Jobs \ ToSet(created') : Fresh(j)'
  BY <1>1, <1>3 DEF Untouched
<1>7. \A d, e \in Callers, j \in Jobs : Writes(d, j)' /\ Writes(e, j)' => d = e
  BY <1>4 DEF Untouched
<1>8. QED  BY <1>5, <1>6, <1>7 DEF Untouched

LEMMA UntouchedStep ==
    ASSUME TypeOK, InHand, Untouched, [Next]_vars
    PROVE  Untouched'
<1>1. ASSUME NEW c \in Callers, SubmitListPending(c) \/ SubmitDies(c)
      PROVE  Untouched'
  <2>1. /\ caller'[c].pc # "write" /\ \A d \in Callers \ {c} : caller'[d] = caller[d]
        /\ UNCHANGED <<jobFiles, created, result>>
    BY <1>1, ListEffect, DiesEffect
  <2>2. \A j \in Jobs : Fresh(j) => Fresh(j)'
    BY <2>1 DEF Fresh
  <2>3. \A d \in Callers, j \in Jobs : Writes(d, j)' => Writes(d, j)
    BY <2>1 DEF Writes
  <2>4. QED  BY <2>1, <2>2, <2>3, FewerWrites
<1>2. CASE \/ RunnerStep \/ RunnerCrashes \/ RunnerFileFails
           \/ \E j \in Jobs : MarkerAges(j)
  <2>1. UNCHANGED <<created, caller>>
    BY <1>2, RunnerKeeps, RunnerFaultEffect, MarkerAgesEffect
  <2>2. \A j \in Jobs : Fresh(j) => Fresh(j)'
    BY <1>2, FreshKept
  <2>3. QED  BY <2>1, <2>2, FewerWrites DEF Writes
<1>3. CASE UNCHANGED vars
  BY <1>3 DEF vars, Untouched, Fresh, Writes
<1>4. QED  BY <1>1, <1>2, <1>3, AcceptUntouched, WriteUntouched DEF Next, Submit

LEMMA RemovesStep ==
    ASSUME TypeOK, InHand, RemovesReported, [Next]_vars
    PROVE  RemovesReported'
<1>1. CASE runner' = runner
  <2>1. CASE runner.pc = "remove"
    <3>1. runner.job \in Jobs /\ result[runner.job] \in Final
      BY <2>1 DEF RemovesReported, InHand, RunnersJob
    <3>2. result'[runner.job] = result[runner.job]
      BY <3>1, FinalStep
    <3>3. QED  BY <1>1, <3>1, <3>2 DEF RemovesReported
  <2>2. QED  BY <1>1, <2>1 DEF RemovesReported
<1>2. CASE runner'.pc # "remove"
  BY <1>2 DEF RemovesReported
<1>3. CASE RunnerNoScript
  <2>1. SetResult(runner.job, "error") /\ runner'.job = runner.job /\ runner.pc = "start"
    BY <1>3, RunnerNoScriptEffect
  <2>2. result'[runner.job] = "error"
    BY <2>1, SetEffect DEF Contents
  <2>3. QED  BY <2>1, <2>2 DEF RemovesReported, Final
<1>4. CASE RunnerEvaluate
  <2>1. PICK content \in Final : SetResult(runner.job, content)
    BY <1>4, RunnerEvaluateEffect
  <2>2. /\ runner.pc = "evaluate"
        /\ runner'.pc = "idle" \/ runner'.job = runner.job
    BY <1>4, RunnerEvaluateEffect
  <2>3. result'[runner.job] = content
    <3>1. content \in Contents
      BY DEF Contents, Final
    <3>2. QED  BY <2>1, <2>2, <3>1, SetEffect
  <2>4. QED  BY <2>1, <2>2, <2>3 DEF RemovesReported
<1>5. CASE \E c \in Callers : Submit(c)
  BY <1>1, <1>5, ListEffect, AcceptEffect, WriteEffect, DiesEffect DEF Submit
<1>6. CASE RunnerList \/ RunnerPick \/ RunnerK6Writes \/ RunnerK6Ends
  BY <1>2, <1>6, RunnerListEffect, RunnerPickEffect, RunnerK6WritesEffect, RunnerK6EndsEffect
<1>7. CASE RunnerRemoveJob \/ RunnerStarts \/ RunnerCrashes \/ RunnerFileFails
  BY <1>2, <1>7, RunnerRemoveJobEffect, RunnerStartsEffect, RunnerFaultEffect
<1>8. CASE (\E j \in Jobs : MarkerAges(j)) \/ UNCHANGED vars
  BY <1>1, <1>8, MarkerAgesEffect DEF vars
<1>9. QED
  BY <1>3, <1>4, <1>5, <1>6, <1>7, <1>8 DEF Next, RunnerStep

LEMMA InitLedgerInv == Init => LedgerInv
<1> SUFFICES ASSUME Init PROVE LedgerInv
  OBVIOUS
<1>1. /\ jobFiles = {} /\ \A j \in Jobs : result[j] = "none"
      /\ \A c \in Callers : caller[c].pc = "idle" /\ runner.pc = "idle"
  BY DEF Init, NoCall, NoRun
<1>2. \A j \in Jobs : Fresh(j)
  BY <1>1 DEF Fresh, Final
<1>3. \A c \in Callers, j \in Jobs : ~Writes(c, j)
  BY <1>1 DEF Writes
<1>4. runner.pc = "idle"
  BY DEF Init, NoRun
<1>5. QED  BY <1>2, <1>3, <1>4 DEF LedgerInv, Untouched, RemovesReported

LEMMA LedgerInvariance == Spec => []LedgerInv
<1>1. IInv /\ LedgerInv /\ [Next]_vars => LedgerInv'
  BY UntouchedStep, RemovesStep DEF IInv, LedgerInv
<1>2. QED  BY InitLedgerInv, <1>1, Invariance, PTL DEF Spec

----------------------------------------------------------------------------
(* The steps.                                                              *)

\* The ledger counts as FiniteSets does.
LEMMA SameCount == ASSUME NEW S PROVE Ledger!Cardinality(S) = Cardinality(S)
  BY DEF Cardinality, Ledger!Cardinality

\* There is room for the job that a call of Submit writes: the call itself was
\* counted.
LEMMA RoomForOneMore ==
    ASSUME IInv, NEW c \in Callers, caller[c].pc = "write"
    PROVE  Cardinality(Unreported) < MaxQueueDepth + Cardinality(Callers) + faults
<1>1. TypeOK /\ LoadBounded
  BY DEF IInv
<1>2. /\ IsFiniteSet(Load) /\ Cardinality(Load) \in Nat /\ IsFiniteSet(Adding)
      /\ Cardinality(Adding) \in Nat /\ Cardinality(Callers) \in Nat /\ faults \in Nat
  BY <1>1, Sizes
<1>3. Unreported \subseteq Load
  <2>1. jobFiles \subseteq Jobs
    BY <1>1, TypeOfFiles
  <2>2. QED  BY <2>1 DEF Unreported, Load, Pending, Claimed, Markers
<1>4. Cardinality(Unreported) <= Cardinality(Load) /\ Cardinality(Unreported) \in Nat
  BY <1>2, <1>3, FS_Subset, FS_CardinalityType
<1>5. Cardinality(Adding) > 0
  <2>1. c \in Adding
    BY DEF Adding
  <2>2. Cardinality(Adding) # 0
    BY <1>2, <2>1, FS_EmptySet
  <2>3. QED  BY <1>2, <2>2
<1>6. Cardinality(Load) + Cardinality(Adding)
          <= MaxQueueDepth + Cardinality(Callers) + faults
  BY <1>1 DEF LoadBounded
<1>7. QED  BY <1>2, <1>4, <1>5, <1>6, Limits

LEMMA WriteSubmits ==
    ASSUME IInv, LedgerInv, NEW c \in Callers, SubmitWriteJob(c)
    PROVE  Ledger!Submit(caller[c].job)
<1> DEFINE i == caller[c].job
<1>0. TypeOK /\ InHand /\ Untouched
  BY DEF IInv, LedgerInv
<1>1. /\ caller[c].pc = "write" /\ i \in ToSet(created)
      /\ jobFiles' = jobFiles \cup {i} /\ UNCHANGED <<result, runner, faults>>
  BY <1>0, WriteEffect
<1>2. i \in Jobs /\ Writes(c, i)
  BY <1>0, <1>1, TypeOfFiles DEF Writes
<1>3. i \notin jobFiles /\ result[i] \notin Final
  BY <1>0, <1>2 DEF Untouched, Fresh
<1>4. i \notin Unreported /\ Reported[i] = "none"
  BY <1>2, <1>3 DEF Unreported, Reported
<1>5. Unreported' = Unreported \cup {i}
  BY <1>1, <1>3 DEF Unreported
<1>6. UNCHANGED <<Reported, InProgress, faults>>
  BY <1>1 DEF Reported, InProgress
<1>7. Cardinality(Unreported) < MaxQueueDepth + Cardinality(Callers) + faults
  BY <1>1, RoomForOneMore
<1> HIDE DEF i
<1>8. Ledger!Submit(i)
  BY <1>4, <1>5, <1>6, <1>7, SameCount DEF Ledger!Submit
<1>9. QED  BY <1>8 DEF i

LEMMA SubmitMaps ==
    ASSUME IInv, LedgerInv, NEW c \in Callers, Submit(c)
    PROVE  LedgerKept \/ \E j \in Jobs : Ledger!Submit(j)
<1>0. TypeOK /\ InHand
  BY DEF IInv
<1>1. CASE SubmitWriteJob(c)
  <2>1. caller[c].job \in Jobs
    BY <1>0, <1>1, WriteEffect, TypeOfFiles
  <2>2. QED  BY <1>1, <2>1, WriteSubmits
<1>2. CASE SubmitListPending(c) \/ SubmitAccept(c) \/ SubmitDies(c)
  <2>1. UNCHANGED <<jobFiles, result, runner, faults>>
    BY <1>0, <1>2, ListEffect, AcceptEffect, DiesEffect
  <2>2. QED  BY <2>1 DEF LedgerKept, Unreported, Reported, InProgress
<1>3. QED  BY <1>1, <1>2 DEF Submit

LEMMA PickMaps ==
    ASSUME TypeOK, InHand, RunnerPick
    PROVE  LedgerKept \/ \E j \in Jobs : Ledger!Begin(j)
<1>1. runner.pc = "listed" /\ UNCHANGED <<jobFiles, faults>>
  BY RunnerPickEffect
<1>2. InProgress = NoJob
  BY <1>1 DEF InProgress
<1>3. CASE runner'.pc = "idle" /\ result' = result
  <2>1. InProgress' = NoJob
    BY <1>3 DEF InProgress
  <2>2. QED  BY <1>1, <1>2, <1>3, <2>1 DEF LedgerKept, Unreported, Reported
<1>4. CASE /\ SetResult(runner.job, "running")
           /\ runner'.pc = "start" /\ runner'.job = runner.job
  <2>1. Unreported' = Unreported /\ Reported' = Reported
    BY <1>1, <1>4, ProvisionalKeepsView DEF Contents, Final
  <2>2. InProgress' = runner.job
    BY <1>4 DEF InProgress
  <2>3. runner.job \in Jobs /\ runner.job \in Unreported
    BY <1>1 DEF InHand, RunnersJob, Unreported
  <2>4. Ledger!Begin(runner.job)
    BY <1>1, <1>2, <2>1, <2>2, <2>3 DEF Ledger!Begin
  <2>5. QED  BY <2>3, <2>4
<1>5. QED  BY <1>3, <1>4, RunnerPickEffect

LEMMA RunMaps ==
    ASSUME TypeOK, InHand, RunnerNoScript \/ RunnerK6Writes \/ RunnerK6Ends \/ RunnerEvaluate
    PROVE  LedgerKept \/ \E o \in Final : Ledger!Report(o)
<1>1. CASE RunnerNoScript
  <2>1. "error" \in Final
    BY DEF Final
  <2>2. Ledger!Report("error")
    BY <1>1, <2>1, RunnerNoScriptEffect, ResultReports
  <2>3. QED  BY <2>1, <2>2
<1>2. CASE RunnerK6Writes
  <2>1. PICK content \in {"summary passed", "summary failed", "truncated"} :
           SetResult(runner.job, content)
    BY <1>2, RunnerK6WritesEffect
  <2>2. content \in Contents \ Final
    BY DEF Contents, Final
  <2>3. /\ runner.pc = "start" /\ runner'.pc = "k6" /\ runner'.job = runner.job
        /\ UNCHANGED <<jobFiles, faults>>
    BY <1>2, RunnerK6WritesEffect
  <2>4. Unreported' = Unreported /\ Reported' = Reported
    BY <2>1, <2>2, <2>3, ProvisionalKeepsView
  <2>5. QED  BY <2>3, <2>4 DEF LedgerKept, InProgress
<1>3. CASE RunnerK6Ends
  <2>1. /\ runner.pc \in {"start", "k6"} /\ runner'.pc = "evaluate"
        /\ runner'.job = runner.job /\ UNCHANGED <<jobFiles, result, faults>>
    BY <1>3, RunnerK6EndsEffect
  <2>2. QED  BY <2>1 DEF LedgerKept, InProgress, Unreported, Reported
<1>4. CASE RunnerEvaluate
  <2>1. PICK content \in Final : SetResult(runner.job, content)
    BY <1>4, RunnerEvaluateEffect
  <2>2. /\ runner.pc = "evaluate" /\ runner'.pc \in {"idle", "remove"}
        /\ UNCHANGED <<jobFiles, faults>>
    BY <1>4, RunnerEvaluateEffect
  <2>3. Ledger!Report(content)
    BY <2>1, <2>2, ResultReports
  <2>4. QED  BY <2>3
<1>5. QED  BY <1>1, <1>2, <1>3, <1>4

\* The other steps of the runner, and time.
LEMMA QuietMaps ==
    ASSUME TypeOK, InHand, RemovesReported,
           \/ RunnerList \/ RunnerRemoveJob \/ RunnerStarts
           \/ \E j \in Jobs : MarkerAges(j)
    PROVE  LedgerKept
<1>1. CASE RunnerList
  <2>1. runner.pc = "idle" /\ runner'.pc = "listed" /\ UNCHANGED <<jobFiles, result, faults>>
    BY <1>1, RunnerListEffect
  <2>2. QED  BY <2>1 DEF LedgerKept, InProgress, Unreported, Reported
<1>2. CASE RunnerRemoveJob
  <2>1. /\ runner.pc = "remove" /\ runner'.pc = "idle" /\ UNCHANGED <<result, faults>>
        /\ jobFiles' = jobFiles \ {runner.job}
    BY <1>2, RunnerRemoveJobEffect DEF RunnerRemoveJob
  <2>2. result[runner.job] \in Final
    BY <2>1 DEF RemovesReported
  <2>3. Unreported' = Unreported
    BY <2>1, <2>2 DEF Unreported
  <2>4. QED  BY <2>1, <2>3 DEF LedgerKept, InProgress, Reported
<1>3. CASE RunnerStarts
  <2>1. /\ runner.pc = "down" /\ runner'.pc = "idle" /\ UNCHANGED <<jobFiles, faults>>
        /\ \A k \in Jobs : \/ result'[k] = result[k]
                           \/ result[k] = "running" /\ result'[k] = "none"
    BY <1>3, RunnerStartsEffect
  <2>2. Unreported' = Unreported /\ Reported' = Reported
    BY <2>1, ViewKept DEF Final
  <2>3. QED  BY <2>1, <2>2 DEF LedgerKept, InProgress
<1>4. CASE \E j \in Jobs : MarkerAges(j)
  BY <1>4, MarkerAgesEffect DEF LedgerKept, InProgress, Unreported, Reported
<1>5. QED  BY <1>1, <1>2, <1>3, <1>4

LEMMA FaultLapses ==
    ASSUME TypeOK, RunnerCrashes \/ RunnerFileFails
    PROVE  Ledger!Lapse
<1>1. /\ runner'.pc \in {"idle", "down"} /\ faults' = faults + 1
      /\ UNCHANGED <<jobFiles, result>>
  BY RunnerFaultEffect
<1>2. InProgress' = NoJob /\ UNCHANGED <<Unreported, Reported>>
  BY <1>1 DEF InProgress, Unreported, Reported
<1>3. QED  BY <1>1, <1>2 DEF Ledger!Lapse

LEMMA LedgerStep == IInv /\ LedgerInv /\ [Next]_vars => [Ledger!Next]_(Ledger!vars)
<1> SUFFICES ASSUME IInv, LedgerInv, [Next]_vars PROVE Ledger!Next \/ UNCHANGED Ledger!vars
  OBVIOUS
<1>0. TypeOK /\ InHand /\ RemovesReported
  BY DEF IInv, LedgerInv
<1>1. LedgerKept => UNCHANGED Ledger!vars
  BY DEF LedgerKept, Ledger!vars
<1>2. ASSUME NEW c \in Callers, Submit(c) PROVE Ledger!Next \/ LedgerKept
  BY <1>2, SubmitMaps DEF Ledger!Next
<1>3. CASE RunnerPick
  BY <1>0, <1>1, <1>3, PickMaps DEF Ledger!Next
<1>4. CASE RunnerNoScript \/ RunnerK6Writes \/ RunnerK6Ends \/ RunnerEvaluate
  BY <1>0, <1>1, <1>4, RunMaps DEF Ledger!Next
<1>5. CASE RunnerList \/ RunnerRemoveJob \/ RunnerStarts \/ \E j \in Jobs : MarkerAges(j)
  BY <1>0, <1>1, <1>5, QuietMaps
<1>6. CASE RunnerCrashes \/ RunnerFileFails
  BY <1>0, <1>6, FaultLapses DEF Ledger!Next
<1>7. CASE UNCHANGED vars
  BY <1>1, <1>7 DEF vars, LedgerKept, InProgress, Unreported, Reported
<1>8. QED  BY <1>1, <1>2, <1>3, <1>4, <1>5, <1>6, <1>7 DEF Next, RunnerStep

LEMMA LedgerInit == Init => Ledger!Init
<1> SUFFICES ASSUME Init PROVE Ledger!Init
  OBVIOUS
<1>1. jobFiles = {} /\ faults = 0 /\ \A j \in Jobs : result[j] = "none"
  BY DEF Init
<1>2. Unreported = {}
  BY <1>1 DEF Unreported
<1>3. Reported = [j \in Jobs |-> "none"]
  BY <1>1 DEF Reported
<1>4. InProgress = NoJob
  BY DEF Init, NoRun, InProgress
<1>5. QED  BY <1>1, <1>2, <1>3, <1>4 DEF Ledger!Init

\* The API and the loadtest-runner keep a ledger of runs, for any jobs, calls,
\* limits and faults: a run that was written is executed until it is reported,
\* one at a time and reported once, and a run is executed again, or finds room
\* beyond the limit, only at the price of a fault.
THEOREM LedgerImplemented == Spec => KeepsALedger
<1>1. Spec => [][Ledger!Next]_(Ledger!vars)
  BY LedgerStep, Invariance, LedgerInvariance, PTL DEF Spec
<1>2. QED  BY <1>1, LedgerInit, PTL DEF Spec, KeepsALedger, Ledger!Spec

============================================================================
