----------------------------- MODULE Executions -----------------------------
(***************************************************************************)
(* The runs of Runner inside the workers of executorWorker.ts, from        *)
(* POST /submit to the stored result, and the metrics the two keep.  The   *)
(* lists and records the jobs move through are those of JobLifecycle; here *)
(* a job is submitted, has one turn of a worker, and any Redis command of  *)
(* that turn may fail.                                                     *)
(***************************************************************************)
EXTENDS Runner, MetricsCollector

CONSTANT
    MaxFaults    \* bound: Redis commands that fail or are answered late

ASSUME FaultsAssumption == MaxFaults \in Nat

VARIABLES
    metrics,     \* the singleton
    recorded,    \* jobs whose submission it has recorded
    early,       \* history: jobs stored before that
    ended,       \* jobs whose worker has gone on to its next turn
    faults

workVars == <<language, results, status, client, box, exit, timer, killing, missed>>
vars == <<runVars, metrics, recorded, early, ended, faults>>

Over == {"rejected", "skipped", "stored", "failed", "lost"}

Init ==
    /\ RunnerInit
    /\ at = [j \in Jobs |-> "new"]
    /\ metrics = NoMetrics
    /\ recorded = {} /\ early = {} /\ ended = {}
    /\ faults = 0

GoTo(j, next) == at' = [at EXCEPT ![j] = next]

\* A Redis command fails: it has not been executed, or its reply is lost.
Fail == faults < MaxFaults /\ faults' = faults + 1

-----------------------------------------------------------------------------

\* POST /submit: the job is in the queue, and its submission recorded when
\* the LPUSH is answered: at once, or after replies to workers, or never.
\* Or one of the commands before took no effect, and the job never gets there.
Submit(j) ==
    /\ at[j] = "new" /\ Free
    /\ \/ /\ ~IsLanguageSupported(language[j])
          /\ GoTo(j, "rejected") /\ UNCHANGED <<metrics, recorded, faults>>
       \/ /\ IsLanguageSupported(language[j])
          /\ GoTo(j, "queued")
          /\ recorded' = recorded \cup {j}
          /\ metrics' = RecordSubmission(metrics, language[j])
          /\ UNCHANGED faults
       \/ /\ IsLanguageSupported(language[j]) /\ Fail
          /\ GoTo(j, "queued") \/ GoTo(j, "rejected")
          /\ UNCHANGED <<metrics, recorded>>
    /\ UNCHANGED <<workVars, early, ended>>

\* The late reply
Submitted(j) ==
    /\ at[j] \notin {"new", "rejected"} /\ j \notin recorded /\ Free
    /\ recorded' = recorded \cup {j}
    /\ metrics' = RecordSubmission(metrics, language[j])
    /\ UNCHANGED <<runVars, early, ended, faults>>

\* The catch of the turn (the LREM in it may fail too and counts nothing).
Catch == Fail /\ metrics' = RecordWorkerError(metrics)

\* dequeueJob fails, with or without a job in the queue, and leaves it there.
ClaimFails == Free /\ Catch /\ UNCHANGED <<runVars, recorded, early, ended>>

\* A worker has the job, finds its record, or finds none, marks it RUNNING,
\* and executionLimiter.run starts it, or throws "Queue full" because of
\* other jobs.
Admit(j) ==
    /\ at[j] = "queued" /\ Free
    /\ \/ Begin(j)
       \/ GoTo(j, "threw") /\ UNCHANGED workVars
       \/ GoTo(j, "skipped") /\ UNCHANGED workVars
    /\ UNCHANGED <<metrics, recorded, early, ended, faults>>

\* The job is claimed, but the reply is lost, or getJob or the updateJob to
\* RUNNING fails: the turn is over without a run.
TurnFails(j) ==
    /\ at[j] = "queued" /\ Free /\ Catch
    /\ GoTo(j, "lost") /\ ended' = ended \cup {j}
    /\ UNCHANGED <<workVars, recorded, early>>

\* Slip: recordCompletion before the result is stored.
Store_CountsFirst(j) ==
    /\ at[j] = "returned" /\ Free
    /\ metrics' = RecordCompletion(metrics, status[j], language[j], TRUE)
    /\ early' = IF j \in recorded THEN early ELSE early \cup {j}
    /\ \/ GoTo(j, "stored") /\ UNCHANGED faults
       \/ GoTo(j, "threw") /\ Fail
    /\ UNCHANGED <<workVars, recorded, ended>>

\* updateJob with the result, which is answered also if the record is gone,
\* then recordCompletion.  Without a container the execution may take no
\* measurable time.
Store(j) ==
    /\ at[j] = "returned" /\ Free
    /\ \/ /\ GoTo(j, "stored")
          /\ \E timed \in BOOLEAN :
                /\ results[j] # <<>> => timed
                /\ metrics' = RecordCompletion(metrics, status[j], language[j], timed)
          /\ early' = IF j \in recorded THEN early ELSE early \cup {j}
          /\ UNCHANGED faults
       \/ GoTo(j, "threw") /\ Fail /\ UNCHANGED <<metrics, early>>
    /\ UNCHANGED <<workVars, recorded, ended>>

\* The catch of the run: updateJob with SYSTEM_ERROR.  If that fails too,
\* the catch of the turn.
StoreFailure(j) ==
    /\ at[j] = "threw" /\ Free
    /\ \/ GoTo(j, "failed") /\ UNCHANGED <<metrics, ended, faults>>
       \/ GoTo(j, "lost") /\ ended' = ended \cup {j} /\ Catch
    /\ UNCHANGED <<workVars, recorded, early>>

\* completeJobProcessing and, for the webhooks, getJob: what they fail with
\* is an error too, of a job that has its result.
Complete(j) ==
    /\ at[j] \in {"skipped", "stored", "failed"} /\ j \notin ended /\ Free
    /\ ended' = ended \cup {j}
    /\ UNCHANGED <<metrics, faults>> \/ Catch
    /\ UNCHANGED <<runVars, recorded, early>>

Compile(j) == CompileEnds(j) /\ UNCHANGED <<metrics, recorded, early, ended, faults>>

Run(j) == RunnerStep(j) /\ UNCHANGED <<metrics, recorded, early, ended, faults>>

\* Bound: containers are followed until the job is over.
Outside(j) ==
    /\ at[j] \notin Over /\ Environment(j)
    /\ UNCHANGED <<metrics, recorded, early, ended, faults>>

Done == (\A j \in Jobs : at[j] \in Over) /\ UNCHANGED vars

Next ==
    \/ \E j \in Jobs :
          \/ Submit(j) \/ Submitted(j) \/ Admit(j) \/ TurnFails(j)
          \/ Compile(j) \/ Run(j) \/ Outside(j)
          \/ Store(j) \/ StoreFailure(j) \/ Complete(j)
    \/ ClaimFails
    \/ Done

Spec == Init /\ [][Next]_vars

\* Events are handled and time passes.  That gcc ends (compileC waits for it
\* without a limit), or a program, or its client, or that a container starts,
\* is not assumed.
Fairness ==
    \A j \in Jobs :
        /\ WF_vars(Run(j))
        /\ WF_vars(TimeIsUp(j) /\ UNCHANGED <<metrics, recorded, early, ended, faults>>)

LiveSpec == Spec /\ Fairness

-----------------------------------------------------------------------------
(* Properties *)

TypeOK ==
    /\ RunnerTypeOK
    /\ at \in [Jobs -> Busy \cup Over \cup {"new", "queued", "returned", "threw"}]
    /\ metrics.bucket \in [Buckets -> Nat]
    /\ metrics.known \subseteq Names
    /\ {recorded, early, ended} \subseteq SUBSET Jobs
    /\ faults \in 0..MaxFaults

\* A run that is past the compiler, which has no time limit, ends, whatever
\* its program, its client and other jobs do (executeContainer.ts:65).
RunsEnd == \A j \in Jobs : at[j] \in {"spawn", "run"} ~> at[j] \notin Busy

StoredIn(l) == { j \in Jobs : at[j] = "stored" /\ language[j] = l }

\* The counters agree with the jobs and with each other.  What they miss: a
\* SYSTEM_ERROR is completed but in no bucket, a run that threw is not
\* completed, and a completion that comes before its submission is recorded
\* may be counted for no language.  A job that a failing command makes a turn
\* give up is counted as an error, and a failing command after a result was
\* stored too; but none counts as two errors (executorWorker.ts:115-124).
CountsAgree ==
    /\ metrics.submitted = Cardinality(recorded)
    /\ metrics.completed = Cardinality({ j \in Jobs : at[j] = "stored" })
    /\ \A s \in Buckets :
          metrics.bucket[s] = Cardinality({ j \in Jobs : at[j] = "stored" /\ status[j] = s })
    /\ \A l \in Names :
          /\ metrics.completedIn[l] <= Cardinality(StoredIn(l))
          /\ metrics.completedIn[l] >= Cardinality(StoredIn(l) \ early)
          /\ metrics.executionsIn[l] <= Cardinality(StoredIn(l))
    /\ Cardinality({ j \in Jobs : at[j] = "lost" }) <= metrics.errors
    /\ metrics.errors <= faults
=============================================================================
