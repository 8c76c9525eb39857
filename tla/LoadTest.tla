------------------------------ MODULE LoadTest ------------------------------
(***************************************************************************)
(* The load-test queue: Service.Submit and the file store                  *)
(* (internal/loadtest) and the loadtest-runner (cmd/loadtest-runner).  The *)
(* API and the runner share two directories: a job is a file of jobs/ and  *)
(* a run's state a file of results/, which also is where k6 writes its own *)
(* summary.  Files are replaced by rename, so a reader sees a whole file;  *)
(* only k6 may leave a truncated one.                                      *)
(***************************************************************************)
EXTENDS Naturals, Sequences, FiniteSets, SequencesExt

CONSTANTS
    Jobs,           \* bound: the run ids of all jobs ever submitted
    NoJob,
    Callers,        \* concurrent calls of Submit
    MaxQueueDepth,  \* LOADTEST_MAX_QUEUE
    MaxConcurrent,  \* LOADTEST_MAX_CONCURRENT
    MaxFaults       \* bound: crashes and failed file operations of the runner

ASSUME ConstantsAssumption ==
    /\ NoJob \notin Jobs
    /\ IsFiniteSet(Jobs) /\ IsFiniteSet(Callers)
    /\ MaxQueueDepth \in Nat \ {0}
    /\ MaxConcurrent \in Nat \ {0}
    /\ MaxFaults \in Nat

VARIABLES
    jobFiles,  \* the jobs that have a file in jobs/
    created,   \* every job made by Submit, in the order of created_at
    result,    \* the content of each run's file in results/
    age,       \* of a "running" marker: 0 fresh, 1 over 45 minutes, 2 over 2 hours
    caller,    \* the local state of each Submit
    runner,    \* the local state of loadtest-runner
    faults     \* how often the runner crashed or a file operation failed

vars == <<jobFiles, created, result, age, caller, runner, faults>>

\* "summary ..." is k6's report, which has no status field; "truncated" is no
\* JSON; the others are the statuses of job.go.
Contents == {"none", "running", "summary passed", "summary failed", "truncated",
             "passed", "failed", "error"}

Final == {"passed", "failed", "error"}

NoCall == [pc |-> "idle", pending |-> 0, job |-> NoJob]
NoRun == [pc |-> "idle", job |-> NoJob, exitOk |-> TRUE]

----------------------------------------------------------------------------
(* The store.                                                              *)

\* A slip: a finished run no longer counts as claimed.
ClaimedWhileRunning(j) == result[j] = "running"

\* isJobClaimed: a summary without status, or a file that is no JSON, does not
\* claim the job.
Claimed(j) == result[j] \in {"running"} \cup Final

Pending == {j \in jobFiles : ~Claimed(j)}

\* A slip: a marker is believed however old it is.
RunningForever == {j \in Jobs : result[j] = "running"}

\* CountActive ignores markers older than 45 minutes.
Running == {j \in Jobs : result[j] = "running" /\ age[j] = 0}

\* GetStatus, what the API and the UI report of a run.
Status(j) ==
    CASE result[j] = "running" -> IF age[j] = 0 THEN "running" ELSE "error"
      [] result[j] \in Final -> result[j]
      [] result[j] \in {"summary passed", "summary failed"} -> ""
      [] OTHER -> IF j \in jobFiles THEN "queued" ELSE "not found"

\* ListPendingJobs sorts by created_at.
Oldest(jobs) == created[Min({i \in DOMAIN created : created[i] \in jobs})]

----------------------------------------------------------------------------
(* Submit.                                                                 *)

\* A slip: run ids that are not unique.
AnyId == Jobs

\* uuid.New.
FreshIds == Jobs \ ToSet(created)

\* A slip: <= for <.
CanAcceptOneMore(pending, running) ==
    /\ running < MaxConcurrent
    /\ pending + running <= MaxQueueDepth

\* Limits.CanAccept, the two limits being positive.
CanAccept(pending, running) ==
    /\ running < MaxConcurrent
    /\ pending + running < MaxQueueDepth

SubmitListPending(c) ==
    /\ caller[c].pc = "idle"
    /\ caller' = [caller EXCEPT ![c].pc = "countRunning",
                                ![c].pending = Cardinality(Pending)]
    /\ UNCHANGED <<jobFiles, created, result, age, runner, faults>>

\* The rest of CountActive, CanAccept, and the new job with its created_at.
SubmitAccept(c) ==
    /\ caller[c].pc = "countRunning"
    /\ IF CanAccept(caller[c].pending, Cardinality(Running))
       THEN \E j \in FreshIds :
               /\ created' = Append(created, j)
               /\ caller' = [caller EXCEPT ![c].pc = "write", ![c].job = j]
       ELSE caller' = [caller EXCEPT ![c] = NoCall] /\ UNCHANGED created
    /\ UNCHANGED <<jobFiles, result, age, runner, faults>>

SubmitWriteJob(c) ==
    /\ caller[c].pc = "write"
    /\ jobFiles' = jobFiles \cup {caller[c].job}
    /\ caller' = [caller EXCEPT ![c] = NoCall]
    /\ UNCHANGED <<created, result, age, runner, faults>>

\* The API stops, or a file operation fails.
SubmitDies(c) ==
    /\ caller[c].pc # "idle"
    /\ caller' = [caller EXCEPT ![c] = NoCall]
    /\ UNCHANGED <<jobFiles, created, result, age, runner, faults>>

Submit(c) ==
    SubmitListPending(c) \/ SubmitAccept(c) \/ SubmitWriteJob(c) \/ SubmitDies(c)

----------------------------------------------------------------------------
(* loadtest-runner.                                                        *)

SetResult(j, content) ==
    /\ result' = [result EXCEPT ![j] = content]
    /\ age' = [age EXCEPT ![j] = 0]

\* One round of the loop: the jobs are listed first.
RunnerList ==
    /\ runner.pc = "idle"
    /\ Pending # {}
    /\ runner' = [NoRun EXCEPT !.pc = "listed", !.job = Oldest(Pending)]
    /\ UNCHANGED <<jobFiles, created, result, age, caller, faults>>

\* HasRunning and WriteRunning; the runner being the only writer of results/ at
\* this point, the check and the marker are a step.
RunnerPick ==
    /\ runner.pc = "listed"
    /\ IF Running # {}
       THEN runner' = NoRun /\ UNCHANGED <<result, age>>
       ELSE /\ SetResult(runner.job, "running")
            /\ runner' = [runner EXCEPT !.pc = "start"]
    /\ UNCHANGED <<jobFiles, created, caller, faults>>

\* The scenario's script is not there: the run ends with an error.
RunnerNoScript ==
    /\ runner.pc = "start"
    /\ SetResult(runner.job, "error")
    /\ runner' = [runner EXCEPT !.pc = "remove"]
    /\ UNCHANGED <<jobFiles, created, caller, faults>>

\* k6 writes its summary over the marker, whole or truncated, or none at all,
\* and ends, by itself or killed after 30 minutes.
RunnerK6Writes ==
    /\ runner.pc = "start"
    /\ \E content \in {"summary passed", "summary failed", "truncated"} :
          SetResult(runner.job, content)
    /\ runner' = [runner EXCEPT !.pc = "k6"]
    /\ UNCHANGED <<jobFiles, created, caller, faults>>

\* A slip: the job's file is removed before the result is written.
RunnerK6EndsRemovingJob ==
    /\ runner.pc \in {"start", "k6"}
    /\ \E ok \in BOOLEAN :
          runner' = [runner EXCEPT !.pc = "evaluate", !.exitOk = ok]
    /\ jobFiles' = jobFiles \ {runner.job}
    /\ UNCHANGED <<created, result, age, caller, faults>>

RunnerK6Ends ==
    /\ runner.pc \in {"start", "k6"}
    /\ \E ok \in BOOLEAN :
          runner' = [runner EXCEPT !.pc = "evaluate", !.exitOk = ok]
    /\ UNCHANGED <<jobFiles, created, result, age, caller, faults>>

\* ParseK6Report and k6's exit status.  The file always can be read: where k6
\* wrote none it is still the "running" marker, a report without `passed`.
Evaluation(content, exitOk) ==
    CASE content = "truncated" -> "error"
      [] content = "summary passed" /\ exitOk -> "passed"
      [] OTHER -> "failed"

RunnerEvaluate ==
    /\ runner.pc = "evaluate"
    /\ SetResult(runner.job, Evaluation(result[runner.job], runner.exitOk))
    /\ runner' = IF result[runner.job] = "truncated"
                 THEN NoRun  \* the job's file stays
                 ELSE [runner EXCEPT !.pc = "remove"]
    /\ UNCHANGED <<jobFiles, created, caller, faults>>

RunnerRemoveJob ==
    /\ runner.pc = "remove"
    /\ jobFiles' = jobFiles \ {runner.job}
    /\ runner' = NoRun
    /\ UNCHANGED <<created, result, age, caller, faults>>

\* The container stops, and k6 with it.
RunnerCrashes ==
    /\ runner.pc # "down"
    /\ faults < MaxFaults
    /\ faults' = faults + 1
    /\ runner' = [NoRun EXCEPT !.pc = "down"]
    /\ UNCHANGED <<jobFiles, created, result, age, caller>>

\* A result cannot be written, or the job's file not removed: the run is left
\* as it is and the loop goes on.
RunnerFileFails ==
    /\ runner.pc \in {"listed", "start", "evaluate", "remove"}
    /\ faults < MaxFaults
    /\ faults' = faults + 1
    /\ runner' = NoRun
    /\ UNCHANGED <<jobFiles, created, result, age, caller>>

\* main: CleanStaleRunning(2 * time.Hour), only when the runner starts.
RunnerStarts ==
    /\ runner.pc = "down"
    /\ result' = [j \in Jobs |-> IF result[j] = "running" /\ age[j] = 2
                                 THEN "none" ELSE result[j]]
    /\ age' = [j \in Jobs |-> IF age[j] = 2 THEN 0 ELSE age[j]]
    /\ runner' = NoRun
    /\ UNCHANGED <<jobFiles, created, caller, faults>>

RunnerStep ==
    \/ RunnerList \/ RunnerPick \/ RunnerNoScript \/ RunnerK6Writes \/ RunnerK6Ends
    \/ RunnerEvaluate \/ RunnerRemoveJob \/ RunnerStarts

\* Time passes for a marker that a crash has left behind; a run in progress is
\* over before its marker is 45 minutes old.
MarkerAges(j) ==
    /\ result[j] = "running"
    /\ runner.job # j
    /\ age[j] < 2
    /\ age' = [age EXCEPT ![j] = @ + 1]
    /\ UNCHANGED <<jobFiles, created, result, caller, runner, faults>>

----------------------------------------------------------------------------
Init ==
    /\ jobFiles = {}
    /\ created = <<>>
    /\ result = [j \in Jobs |-> "none"]
    /\ age = [j \in Jobs |-> 0]
    /\ caller = [c \in Callers |-> NoCall]
    /\ runner = NoRun
    /\ faults = 0

Next ==
    \/ \E c \in Callers : Submit(c)
    \/ RunnerStep \/ RunnerCrashes \/ RunnerFileFails
    \/ \E j \in Jobs : MarkerAges(j)

Spec == Init /\ [][Next]_vars

\* The runner is restarted and its loop goes on; time passes.
FairSpec == Spec /\ WF_vars(RunnerStep) /\ \A j \in Jobs : WF_vars(MarkerAges(j))

----------------------------------------------------------------------------
(* Properties.                                                             *)

\* The type of every variable; the jobs ever made are distinct.
TypeOK ==
    /\ jobFiles \subseteq ToSet(created)
    /\ created \in Seq(Jobs) /\ IsInjective(created)
    /\ result \in [Jobs -> Contents]
    /\ age \in [Jobs -> 0..2]
    /\ caller \in [Callers -> [pc : {"idle", "countRunning", "write"},
                               pending : Nat, job : Jobs \cup {NoJob}]]
    /\ runner \in [pc : {"idle", "listed", "start", "k6", "evaluate", "remove", "down"},
                   job : Jobs \cup {NoJob}, exitOk : BOOLEAN]
    /\ faults \in Nat

\* A result that was written is the run's result for ever: no crash between
\* writing it and removing the job's file makes the runner run the job again.
ResultsAreFinal ==
    [][\A j \in Jobs : result[j] \in Final => result'[j] = result[j]]_vars

Active == Cardinality(Pending) + Cardinality(Running)

\* Submit counts before it writes, so the limit can be passed; but by no more
\* than the calls in flight, and one job more for each run that a fault of the
\* runner gave back after it had stopped counting.
QueueOvershootBounded ==
    Active <= MaxQueueDepth + Cardinality(Callers) + faults

\* What the ledger shows: the runs that wait or are executed, the results, and
\* the run that is executed.
Unreported == {j \in jobFiles : result[j] \notin Final}
Reported == [j \in Jobs |-> IF result[j] \in Final THEN result[j] ELSE "none"]
InProgress == IF runner.pc \in {"start", "k6", "evaluate"} THEN runner.job ELSE NoJob

Ledger == INSTANCE RunLedger WITH
    Runs <- Jobs,
    NoRun <- NoJob,
    Outcomes <- Final,
    Room <- MaxQueueDepth + Cardinality(Callers),
    open <- Unreported,
    outcome <- Reported,
    current <- InProgress,
    lapses <- faults

\* Although a run's state is spread over two directories and its file is now a
\* marker, now k6's report and now the result, the API and the runner together
\* keep a ledger: nobody's run is lost or reported twice, and only a fault of
\* the runner has a run executed again or lets more of them pile up.
KeepsALedger == Ledger!Spec

\* Every job that was written is reported as passed, failed or error in the
\* end, although the runner may crash with it at any point, and the jobs behind
\* a crashed run are not held up for ever by the marker it left.
EveryRunIsReported ==
    \A j \in Jobs : j \in jobFiles ~> Status(j) \in Final

============================================================================
