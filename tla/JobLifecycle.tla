---------------------------- MODULE JobLifecycle ----------------------------
(***************************************************************************)
(* The life of a job: POST /submit (job.routes.ts), the record and queue   *)
(* in Redis (jobStore.ts, jobQueue.ts), the workers (executorWorker.ts),   *)
(* recovery and the stale-job sweeper (jobRecovery.ts), and the process    *)
(* that hosts them (server.ts).  One action is one Redis command or one    *)
(* run of the sandbox, together with the code up to the next await: that   *)
(* is what can interleave on the single-threaded event loop.               *)
(*                                                                         *)
(* A job record is its status: the other fields follow it.  `old` holds    *)
(* the jobs whose started_at is before the sweeper's cutoff.               *)
(***************************************************************************)
EXTENDS JobQueue

CONSTANTS
    Workers,       \* the worker loops of one process (WORKERS)
    Verdicts,      \* statuses runCode may return
    Hangs,         \* jobs whose run never returns (compileC has no timeout)
    MaxRestarts,   \* bound: deaths of the process, by crash or shutdown
    MaxFaults,     \* bound: Redis commands that fail
    MaxExpiries,   \* bound: records that Redis expires
    NoJob          \* the null jobId

Final == { "ACCEPTED", "COMPILE_ERROR", "RUNTIME_ERROR", "TIME_LIMIT_EXCEEDED",
           "MEMORY_LIMIT_EXCEEDED", "SYSTEM_ERROR" }
Pending == { "QUEUED", "RUNNING" }
JobStatus == Pending \cup Final
Absent == "absent"          \* no key job:<id>
NoVerdict == "none"

ASSUME VerdictsAssumption == Verdicts \subseteq Final
ASSUME NoJobAssumption == NoJob \notin Jobs
ASSUME HangsAssumption == Hangs \subseteq Jobs
ASSUME BoundsAssumption ==
    MaxRestarts \in Nat /\ MaxFaults \in Nat /\ MaxExpiries \in Nat

VARIABLES
    store,      \* key job:<id>: a status, or Absent
    old,        \* jobs whose started_at is before the sweeper's cutoff
    index,      \* ids in the lists user:<id>:jobs
    submit,     \* how far the POST /submit of each job is
    phase,      \* of the process: down, recovering, up, stopping
    pc,         \* what each worker awaits
    job,        \* jobId of each worker
    verdict,    \* result.status of each worker
    notices,    \* the statuses onJobCompleted was called with, per job
    recPc,      \* recoverInFlightJobs: requeue, update, set, push
    requeued,   \* its requeuedIds
    recTodo,    \* RUNNING jobs of its scan it has yet to treat
    recJob,     \* the job it treats
    sweepTodo,  \* stale jobs of sweepStaleJobs's scan it has yet to treat
    sweepJob,   \* the job whose record it has read
    restarts, faults, expiries

storeVars == <<store, old>>
submitVars == <<index, submit>>
workerVars == <<pc, job, verdict, notices>>
recoveryVars == <<recPc, requeued, recTodo, recJob>>
sweepVars == <<sweepTodo, sweepJob>>
vars == <<queueVars, storeVars, submitVars, phase, workerVars, recoveryVars,
          sweepVars, restarts, faults, expiries>>

SubmitPc == {"new", "created", "indexed", "accepted", "failed"}
WorkerPc == {"stopped", "claim", "lookup", "drop", "markGet", "markSet", "run",
             "saveGet", "saveSet", "failGet", "failSet", "complete", "notify",
             "cleanup"}
RecoveryPc == {"requeue", "update", "set", "push"}

Init ==
    /\ QueueInit
    /\ store = [j \in Jobs |-> Absent] /\ old = {}
    /\ index = {} /\ submit = [j \in Jobs |-> "new"]
    /\ phase = "down"
    /\ pc = [w \in Workers |-> "stopped"]
    /\ job = [w \in Workers |-> NoJob]
    /\ verdict = [w \in Workers |-> NoVerdict]
    /\ notices = [j \in Jobs |-> <<>>]
    /\ recPc = "requeue" /\ requeued = {} /\ recTodo = {} /\ recJob = NoJob
    /\ sweepTodo = {} /\ sweepJob = NoJob
    /\ restarts = 0 /\ faults = 0 /\ expiries = 0

\* SET job:<id>: a new status; started_at counts from here for RUNNING.
SetStatus(j, s) ==
    /\ store' = [store EXCEPT ![j] = s]
    /\ old' = old \ {j}

Exists(j) == store[j] # Absent

\* One more Redis command fails.
Fault == faults < MaxFaults /\ faults' = faults + 1

-----------------------------------------------------------------------------
(* POST /submit, job.routes.ts *)

Listening == phase \in {"recovering", "up"}   \* stopping: server.close
Serving == phase # "down"

\* createJob with status QUEUED under a fresh id
CreateJob(j) ==
    /\ Listening /\ submit[j] = "new"
    /\ SetStatus(j, "QUEUED")
    /\ submit' = [submit EXCEPT ![j] = "created"]
    /\ UNCHANGED <<queueVars, index, phase, workerVars, recoveryVars, sweepVars,
                   restarts, faults, expiries>>

\* addJobToUserIndex, LPUSH and EXPIRE taken as one step
IndexJob(j) ==
    /\ Serving /\ submit[j] = "created"
    /\ index' = index \cup {j}
    /\ submit' = [submit EXCEPT ![j] = "indexed"]
    /\ UNCHANGED <<queueVars, storeVars, phase, workerVars, recoveryVars,
                   sweepVars, restarts, faults, expiries>>

\* enqueueJob and the 201 response; the reply of Redis may be lost, then
\* the client gets an error for a job that is queued
EnqueueJob(j) ==
    /\ Serving /\ submit[j] = "indexed"
    /\ Enqueue(j)
    /\ \/ submit' = [submit EXCEPT ![j] = "accepted"] /\ UNCHANGED faults
       \/ submit' = [submit EXCEPT ![j] = "failed"] /\ Fault
    /\ UNCHANGED <<storeVars, index, phase, workerVars, recoveryVars, sweepVars,
                   restarts, expiries>>

\* a command of the handler rejects: next(err), nothing is undone
SubmitFails(j) ==
    /\ Serving /\ submit[j] \in {"created", "indexed"}
    /\ submit' = [submit EXCEPT ![j] = "failed"]
    /\ Fault
    /\ UNCHANGED <<queueVars, storeVars, index, phase, workerVars, recoveryVars,
                   sweepVars, restarts, expiries>>

-----------------------------------------------------------------------------
(* startWorker, executorWorker.ts *)

\* while (!signal?.aborted): the next turn, or the end of the loop
LoopTop == IF phase = "stopping" THEN "stopped" ELSE "claim"

\* Where an exception thrown at `at` lands: inner catch, outer catch, or
\* (in the best-effort cleanup, and before there is a jobId) the next turn.
Handler(at) ==
    CASE at \in {"run", "saveGet", "saveSet"} -> "failGet"
      [] at \in {"claim", "cleanup"}          -> LoopTop
      [] OTHER                                -> "cleanup"

\* The worker goes on at `next` when the reply arrives, or takes its
\* exception path when the command was executed but its reply was lost.
GoTo(w, next) ==
    \/ pc' = [pc EXCEPT ![w] = next] /\ UNCHANGED faults
    \/ pc' = [pc EXCEPT ![w] = Handler(pc[w])] /\ Fault

\* jobId and result are locals of one turn.
EndTurn(w) ==
    IF pc'[w] \in {"claim", "stopped"}
    THEN /\ job' = [job EXCEPT ![w] = NoJob]
         /\ verdict' = [verdict EXCEPT ![w] = NoVerdict]
    ELSE UNCHANGED <<job, verdict>>

WorkerOnly == UNCHANGED <<index, submit, phase, recoveryVars, sweepVars, restarts,
                          expiries>>

\* BLMOVE returns an id.  It is lost to the worker when the reply is.
Claim(w, j) ==
    /\ pc[w] = "claim"
    /\ Dequeue(j)
    /\ GoTo(w, "lookup")
    /\ job' = [job EXCEPT ![w] = IF pc'[w] = "lookup" THEN j ELSE NoJob]
    /\ UNCHANGED <<storeVars, verdict, notices>> /\ WorkerOnly

\* BLMOVE times out: the loop tests the abort signal and polls again.
ClaimTimesOut(w) ==
    /\ pc[w] = "claim" /\ queue = <<>>
    /\ pc' = [pc EXCEPT ![w] = LoopTop]
    /\ UNCHANGED <<queueVars, storeVars, job, verdict, notices, faults>>
    /\ WorkerOnly

\* getJob: a job without a record is skipped
Lookup(w) ==
    /\ pc[w] = "lookup"
    /\ GoTo(w, IF Exists(job[w]) THEN "markGet" ELSE "drop")
    /\ UNCHANGED <<queueVars, storeVars, job, verdict, notices>> /\ WorkerOnly

\* the GET of updateJob: without a record it returns, silently
ReadForUpdate(w) ==
    LET set  == [markGet |-> "markSet", saveGet |-> "saveSet", failGet |-> "failSet"]
        skip == [markGet |-> "run", saveGet |-> "complete", failGet |-> "complete"]
    IN  /\ pc[w] \in {"markGet", "saveGet", "failGet"}
        /\ GoTo(w, IF Exists(job[w]) THEN set[pc[w]] ELSE skip[pc[w]])
        /\ UNCHANGED <<queueVars, storeVars, job, verdict, notices>> /\ WorkerOnly

\* the SET of updateJob({status: RUNNING, started_at})
MarkRunning(w) ==
    /\ pc[w] = "markSet"
    /\ SetStatus(job[w], "RUNNING")
    /\ GoTo(w, "run")
    /\ UNCHANGED <<queueVars, job, verdict, notices>> /\ WorkerOnly

\* executionLimiter.run(() => runCode(job)) returns a result or throws
\* ("Queue full", or runCode before its own try)
Run(w) ==
    /\ pc[w] = "run" /\ job[w] \notin Hangs
    /\ \/ \E v \in Verdicts :
             /\ verdict' = [verdict EXCEPT ![w] = v]
             /\ pc' = [pc EXCEPT ![w] = "saveGet"]
       \/ /\ UNCHANGED verdict
          /\ pc' = [pc EXCEPT ![w] = "failGet"]
    /\ UNCHANGED <<queueVars, storeVars, job, notices, faults>> /\ WorkerOnly

\* the SET of updateJob with the result, or with SYSTEM_ERROR in the catch
SaveResult(w) ==
    /\ pc[w] \in {"saveSet", "failSet"}
    /\ SetStatus(job[w], IF pc[w] = "saveSet" THEN verdict[w] ELSE "SYSTEM_ERROR")
    /\ GoTo(w, "complete")
    /\ verdict' = [verdict EXCEPT ![w] = NoVerdict]
    /\ UNCHANGED <<queueVars, job, notices>> /\ WorkerOnly

\* Slip: the webhook step is skipped.
Complete_Silent(w) ==
    /\ pc[w] \in {"complete", "drop", "cleanup"}
    /\ CompleteProcessing(job[w])
    /\ GoTo(w, LoopTop)
    /\ EndTurn(w)
    /\ UNCHANGED <<storeVars, notices>> /\ WorkerOnly

\* completeJobProcessing, of a job that is done, that has no record, or
\* whose worker caught a Redis error (outer catch, then the backoff)
Complete(w) ==
    /\ pc[w] \in {"complete", "drop", "cleanup"}
    /\ CompleteProcessing(job[w])
    /\ GoTo(w, IF pc[w] = "complete" THEN "notify" ELSE LoopTop)
    /\ EndTurn(w)
    /\ UNCHANGED <<storeVars, notices>> /\ WorkerOnly

\* getJob again; onJobCompleted with what it found.  It never throws.
Notify(w) ==
    /\ pc[w] = "notify"
    /\ GoTo(w, LoopTop)
    /\ EndTurn(w)
    /\ notices' = IF Exists(job[w]) /\ pc'[w] # "cleanup"
                  THEN [notices EXCEPT ![job[w]] = Append(@, store[job[w]])]
                  ELSE notices
    /\ UNCHANGED <<queueVars, storeVars>> /\ WorkerOnly

\* A Redis command of the worker rejects without having been executed.
CommandFails(w) ==
    /\ pc[w] \notin {"stopped", "run"}
    /\ pc' = [pc EXCEPT ![w] = Handler(pc[w])]
    /\ EndTurn(w)
    /\ Fault
    /\ UNCHANGED <<queueVars, storeVars, notices>> /\ WorkerOnly

Worker(w) ==
    \/ \E j \in Jobs : Claim(w, j)
    \/ ClaimTimesOut(w) \/ Lookup(w) \/ ReadForUpdate(w) \/ MarkRunning(w)
    \/ Run(w) \/ SaveResult(w) \/ Complete(w) \/ Notify(w)

-----------------------------------------------------------------------------
(* recoverInFlightJobs, jobRecovery.ts *)

RecoveryOnly == UNCHANGED <<submitVars, workerVars, sweepVars, restarts, expiries>>

\* requeueProcessingJobs moves one more id
Requeue(j) ==
    /\ phase = "recovering" /\ recPc = "requeue"
    /\ RequeueOne(j)
    /\ requeued' = requeued \cup {j}
    /\ UNCHANGED <<storeVars, phase, recPc, recTodo, recJob, faults>> /\ RecoveryOnly

\* Slip: every RUNNING job is re-enqueued, also the requeued ones.
ToRecover_All(js) == { j \in js : store[j] = "RUNNING" }

\* Slip: the status of the record is not looked at.
ToRecover_AnyStatus(js) == { j \in js \ requeued : Exists(j) }

\* Slip: `!requeuedIds.has` without the negation.
ToRecover_Requeued(js) == { j \in js \cap requeued : store[j] = "RUNNING" }

\* The jobs of a scan the recovery loop does not skip.
ToRecover(js) == { j \in js \ requeued : store[j] = "RUNNING" }

\* processing is empty: scanJobs, taken as one snapshot (until the workers
\* start only expiry touches the records it is looking for)
ScanRunning ==
    /\ phase = "recovering" /\ recPc = "requeue" /\ processing = <<>>
    /\ recTodo' = ToRecover(Jobs)
    /\ recPc' = "update"
    /\ UNCHANGED <<queueVars, storeVars, phase, requeued, recJob, faults>>
    /\ RecoveryOnly

\* the GET of updateJob(id, {status: QUEUED}); the id is enqueued either way
RecoverGet(j) ==
    /\ phase = "recovering" /\ recPc = "update" /\ j \in recTodo
    /\ recTodo' = recTodo \ {j}
    /\ recJob' = j
    /\ recPc' = IF Exists(j) THEN "set" ELSE "push"
    /\ UNCHANGED <<queueVars, storeVars, phase, requeued, faults>> /\ RecoveryOnly

RecoverSet ==
    /\ phase = "recovering" /\ recPc = "set"
    /\ SetStatus(recJob, "QUEUED")
    /\ recPc' = "push"
    /\ UNCHANGED <<queueVars, phase, requeued, recTodo, recJob, faults>> /\ RecoveryOnly

RecoverPush ==
    /\ phase = "recovering" /\ recPc = "push"
    /\ Enqueue(recJob)
    /\ recPc' = "update"
    /\ UNCHANGED <<storeVars, phase, requeued, recTodo, recJob, faults>> /\ RecoveryOnly

\* server.ts starts the sweeper and the workers, also when the recovery threw
StartWorkers ==
    /\ phase = "recovering"
    /\ \/ recPc = "update" /\ recTodo = {} /\ UNCHANGED faults
       \/ Fault
    /\ phase' = "up"
    /\ pc' = [w \in Workers |-> "claim"]
    /\ recPc' = "requeue" /\ requeued' = {} /\ recTodo' = {} /\ recJob' = NoJob
    /\ UNCHANGED <<queueVars, storeVars, submitVars, job, verdict, notices,
                   sweepVars, restarts, expiries>>

Recovery ==
    \/ \E j \in Jobs : Requeue(j) \/ RecoverGet(j)
    \/ ScanRunning \/ RecoverSet \/ RecoverPush \/ StartWorkers

-----------------------------------------------------------------------------
(* sweepStaleJobs, jobRecovery.ts, every SWEEP_INTERVAL_MS *)

SweepOnly == UNCHANGED <<queueVars, submitVars, phase, workerVars, recoveryVars,
                         restarts, expiries>>

Sweeping == phase \in {"up", "stopping"}

\* A RUNNING job has been so for longer than the threshold.
Age(j) ==
    /\ store[j] = "RUNNING" /\ j \notin old
    /\ old' = old \cup {j}
    /\ UNCHANGED <<store, sweepVars, faults>> /\ SweepOnly

\* Slip: the comparison with the cutoff is the wrong way round.
Stale_Reversed(js) == { j \in js \ old : store[j] = "RUNNING" }

\* The jobs of a scan the sweeper acts on.
Stale(js) == { j \in js \cap old : store[j] = "RUNNING" }

\* scanJobs, taken as one snapshot, when it finds something
SweepScan ==
    /\ Sweeping /\ sweepTodo = {} /\ sweepJob = NoJob
    /\ Stale(Jobs) # {}
    /\ sweepTodo' = Stale(Jobs)
    /\ UNCHANGED <<storeVars, sweepJob, faults>> /\ SweepOnly

\* the GET of updateJob: without a record it returns, silently
SweepGet(j) ==
    /\ Sweeping /\ j \in sweepTodo /\ sweepJob = NoJob
    /\ sweepTodo' = sweepTodo \ {j}
    /\ sweepJob' = IF Exists(j) THEN j ELSE NoJob
    /\ UNCHANGED <<storeVars, faults>> /\ SweepOnly

\* Slip: a status that JobStatus does not have.
SweepStatus_Unknown == "TIMED_OUT"

SweepStatus == "SYSTEM_ERROR"

\* the SET of updateJob, whatever the status has become since the scan
SweepSet ==
    /\ Sweeping /\ sweepJob # NoJob
    /\ SetStatus(sweepJob, SweepStatus)
    /\ sweepJob' = NoJob
    /\ UNCHANGED <<sweepTodo, faults>> /\ SweepOnly

\* A command of the sweep rejects: the catch of the interval drops the sweep.
SweepFails ==
    /\ Sweeping /\ (sweepTodo # {} \/ sweepJob # NoJob)
    /\ sweepTodo' = {} /\ sweepJob' = NoJob
    /\ Fault
    /\ UNCHANGED storeVars /\ SweepOnly

Sweep == SweepScan \/ (\E j \in Jobs : SweepGet(j)) \/ SweepSet

-----------------------------------------------------------------------------
(* the process, server.ts; and Redis expiring a record *)

\* pm2 starts the process; it listens while it recovers
Boot ==
    /\ phase = "down"
    /\ phase' = "recovering"
    /\ UNCHANGED <<queueVars, storeVars, submitVars, workerVars, recoveryVars,
                   sweepVars, restarts, faults, expiries>>

\* All that is in memory is gone; Redis is not.
Die ==
    /\ restarts < MaxRestarts
    /\ restarts' = restarts + 1
    /\ phase' = "down"
    /\ submit' = [j \in Jobs |->
                    IF submit[j] \in {"created", "indexed"} THEN "failed" ELSE submit[j]]
    /\ pc' = [w \in Workers |-> "stopped"]
    /\ job' = [w \in Workers |-> NoJob]
    /\ verdict' = [w \in Workers |-> NoVerdict]
    /\ recPc' = "requeue" /\ requeued' = {} /\ recTodo' = {} /\ recJob' = NoJob
    /\ sweepTodo' = {} /\ sweepJob' = NoJob
    /\ UNCHANGED <<queueVars, storeVars, index, notices, faults, expiries>>

\* a crash, an OOM kill, a SIGTERM during the recovery
Crash == phase \in {"recovering", "up"} /\ Die

\* gracefulShutdown: the workers' signals are aborted, the server closes
Stop ==
    /\ phase = "up" /\ restarts < MaxRestarts
    /\ phase' = "stopping"
    /\ UNCHANGED <<queueVars, storeVars, submitVars, workerVars, recoveryVars,
                   sweepVars, restarts, faults, expiries>>

\* server.close calls back: every open request is answered.  process.exit
\* follows; nobody waits for the workers.
Exit ==
    /\ phase = "stopping"
    /\ \A j \in Jobs : submit[j] \notin {"created", "indexed"}
    /\ Die

\* the 10 s timer of gracefulShutdown, or pm2's SIGKILL
ForcedExit == phase = "stopping" /\ Die

Expire(j) ==
    /\ Exists(j) /\ expiries < MaxExpiries
    /\ SetStatus(j, Absent)
    /\ expiries' = expiries + 1
    /\ UNCHANGED <<queueVars, submitVars, phase, workerVars, recoveryVars, sweepVars,
                   restarts, faults>>

Next ==
    \/ \E j \in Jobs :
          CreateJob(j) \/ IndexJob(j) \/ EnqueueJob(j) \/ SubmitFails(j)
          \/ Age(j) \/ Expire(j)
    \/ \E w \in Workers : Worker(w) \/ CommandFails(w)
    \/ Recovery
    \/ Sweep \/ SweepFails
    \/ Boot \/ Crash \/ Stop \/ Exit \/ ForcedExit

Spec == Init /\ [][Next]_vars

\* Worker loops, recovery and sweeper are loops of a live process, pm2
\* restarts a dead one, a stopping one exits, and time passes.  Nothing
\* forces a client, a crash, a fault or an expiry.
Fairness ==
    /\ \A w \in Workers : WF_vars(Worker(w))
    /\ WF_vars(Recovery) /\ WF_vars(Sweep)
    /\ WF_vars(Boot) /\ WF_vars(ForcedExit)
    /\ \A j \in Jobs : WF_vars(Age(j))

LiveSpec == Spec /\ Fairness

-----------------------------------------------------------------------------
(* Properties *)

TypeOK ==
    /\ QueueTypeOK
    /\ store \in [Jobs -> JobStatus \cup {Absent}] /\ old \subseteq Jobs
    /\ index \subseteq Jobs /\ submit \in [Jobs -> SubmitPc]
    /\ phase \in {"down", "recovering", "up", "stopping"}
    /\ pc \in [Workers -> WorkerPc]
    /\ job \in [Workers -> Jobs \cup {NoJob}]
    /\ verdict \in [Workers -> Verdicts \cup {NoVerdict}]
    /\ notices \in [Jobs -> Seq(JobStatus)]
    /\ recPc \in RecoveryPc /\ requeued \subseteq Jobs
    /\ recTodo \subseteq Jobs /\ recJob \in Jobs \cup {NoJob}
    /\ sweepTodo \subseteq Jobs /\ sweepJob \in Jobs \cup {NoJob}
    /\ restarts \in 0..MaxRestarts /\ faults \in 0..MaxFaults
    /\ expiries \in 0..MaxExpiries

Line == queue \o processing
Waits(j) == j \in Range(queue) \cup Range(processing)

\* A job the client was promised is never lost: while its record says
\* QUEUED or RUNNING, its id is in one of the two lists, where a worker or
\* the next startup finds it (jobQueue.ts:9-12).
NoJobLost ==
    \A j \in Jobs : submit[j] = "accepted" /\ store[j] \in Pending => Waits(j)

Holding == WorkerPc \ {"stopped", "claim", "notify", "cleanup"}
Holders == { w \in Workers : pc[w] \in Holding }

\* Each worker at work has an entry of its own in the processing list, so
\* a crash at any moment leaves one for every unfinished run, also when
\* two workers run the same job.
HoldersCovered ==
    \E entry \in Injection(Holders, DOMAIN processing) :
        \A w \in Holders : processing[entry[w]] = job[w]

NoDoubleEnqueue == IsInjective(Line)

\* As long as the process was restarted at most once, no job is queued
\* twice, run by two workers at a time, or announced to webhooks twice or
\* before it is finished (jobRecovery.ts:65-66).
OnceUntilSecondRestart ==
    restarts <= 1 =>
        /\ NoDoubleEnqueue
        /\ \A v, w \in Holders : job[v] = job[w] => v = w
        /\ \A j \in Jobs : Len(notices[j]) <= 1 /\ Range(notices[j]) \subseteq Final

Settled(j) == submit[j] = "accepted" /\ store[j] \notin Pending /\ ~Waits(j)

\* A job that is finished and off both lists stays so: no worker, restart,
\* recovery scan or sweep ever queues it or reopens its record.
SettledStaysSettled == [][\A j \in Jobs : Settled(j) => Settled(j)']_vars

\* The sweeper overrules only a record that still says RUNNING
\* (jobRecovery.ts:77).
SweepOnlyRunning ==
    [][\A j \in Jobs : store[j] \in Final \ {SweepStatus} => store'[j] # SweepStatus]_vars

\* A graceful shutdown lets the workers finish their jobs before the process
\* exits (docs/DEPLOYMENT.md:62).
ShutdownFinishesJobs == [][Exit => Holders = {}]_vars

\* A recovery that no Redis error cuts short leaves no RUNNING job without
\* an entry in the queue, whichever way the last process lost it: after the
\* claim, or through a worker's own error handling (jobRecovery.ts:51-54).
RecoveryFindsRunning ==
    [][phase = "recovering" /\ phase' = "up" /\ faults' = faults
         => \A j \in Jobs : store[j] = "RUNNING" => j \in Range(queue)]_vars

\* While Redis does not fail, a job the client was promised gets a final
\* status, or its record expires, despite restarts and hanging programs.
AcceptedFinishes ==
    \A j \in Jobs :
        submit[j] = "accepted" ~> store[j] \notin Pending \/ faults > 0

\* No client sees RUNNING forever, even when the program never returns or
\* the worker dropped the job on a Redis error: the sweeper ends it
\* (jobRecovery.ts:79-80).
RunningEnds == \A j \in Jobs : store[j] = "RUNNING" ~> store[j] # "RUNNING"

\* A finished job is announced to webhooks, unless a Redis command fails or
\* the process dies in between, or its worker is in a run that never returns.
FinishedIsAnnounced ==
    \A j \in Jobs \ Hangs :
        store[j] \in Final ~>
            notices[j] # <<>> \/ restarts > 0 \/ faults > 0 \/ ~Exists(j)
=============================================================================
