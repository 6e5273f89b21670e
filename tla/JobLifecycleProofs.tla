------------------------- MODULE JobLifecycleProofs -------------------------
(***************************************************************************)
(* Theorems about JobLifecycle, for any jobs, workers and bounds.          *)
(***************************************************************************)
EXTENDS JobLifecycle, JobQueueProofs

(***************************************************************************)
(* Types                                                                   *)
(***************************************************************************)

\* What the program counters say about the locals they guard.
LocalsOK ==
    /\ \A w \in Workers : pc[w] \notin {"stopped", "claim"} => job[w] \in Jobs
    /\ \A w \in Workers : pc[w] \in {"saveGet", "saveSet"} => verdict[w] \in Verdicts
    /\ recPc \in {"set", "push"} => recJob \in Jobs

TypeInv == TypeOK /\ LocalsOK

LEMMA InitType == Init => TypeInv
  BY BoundsAssumption, EmptySeq
  DEF Init, QueueInit, TypeInv, TypeOK, QueueTypeOK, LocalsOK, JobStatus, Pending, Final,
      SubmitPc, WorkerPc, RecoveryPc

LEMMA SetStatusType ==
    ASSUME TypeOK, NEW j, NEW s \in JobStatus \cup {Absent}, SetStatus(j, s)
    PROVE  store' \in [Jobs -> JobStatus \cup {Absent}] /\ old' \subseteq Jobs
  BY DEF TypeOK, SetStatus

LEMMA FaultType ==
    ASSUME TypeOK, Fault
    PROVE  faults' \in 0 .. MaxFaults
  BY BoundsAssumption DEF TypeOK, Fault

LEMMA SubmitType ==
    ASSUME TypeInv, NEW j \in Jobs,
           CreateJob(j) \/ IndexJob(j) \/ EnqueueJob(j) \/ SubmitFails(j)
    PROVE  TypeInv'
<1> USE DEF TypeInv
<1>1. CASE CreateJob(j)
  <2>1. store' \in [Jobs -> JobStatus \cup {Absent}] /\ old' \subseteq Jobs
    BY <1>1, SetStatusType DEF CreateJob, JobStatus, Pending
  <2> QED
    BY <1>1, <2>1 DEF CreateJob, TypeOK, QueueTypeOK, LocalsOK, SubmitPc, queueVars, workerVars,
       recoveryVars, sweepVars
<1>2. CASE IndexJob(j)
  BY <1>2 DEF IndexJob, TypeOK, QueueTypeOK, LocalsOK, SubmitPc, queueVars, storeVars,
     workerVars, recoveryVars, sweepVars
<1>3. CASE EnqueueJob(j)
  <2>1. QueueTypeOK'
    BY <1>3, EnqueueRefines DEF EnqueueJob, TypeOK
  <2>2. faults' \in 0 .. MaxFaults
    BY <1>3, FaultType DEF EnqueueJob, TypeOK
  <2> QED
    BY <1>3, <2>1, <2>2 DEF EnqueueJob, TypeOK, LocalsOK, SubmitPc, storeVars, workerVars,
       recoveryVars, sweepVars
<1>4. CASE SubmitFails(j)
  <2>1. faults' \in 0 .. MaxFaults
    BY <1>4, FaultType DEF SubmitFails, TypeOK
  <2> QED
    BY <1>4, <2>1 DEF SubmitFails, TypeOK, QueueTypeOK, LocalsOK, SubmitPc, queueVars, storeVars,
       workerVars, recoveryVars, sweepVars
<1> QED
  BY <1>1, <1>2, <1>3, <1>4

(***************************************************************************)
(* Where a worker may go: on, or to the handler of the exception.          *)
(***************************************************************************)
LEMMA GoToType ==
    ASSUME TypeOK, NEW w \in Workers, NEW next \in WorkerPc, GoTo(w, next)
    PROVE  /\ pc' \in [Workers -> WorkerPc]
           /\ pc'[w] \in {next, Handler(pc[w])}
           /\ \A u \in Workers \ {w} : pc'[u] = pc[u]
           /\ faults' \in 0 .. MaxFaults
<1>1. Handler(pc[w]) \in WorkerPc
  BY DEF Handler, LoopTop, WorkerPc
<1>2. faults' \in 0 .. MaxFaults
  BY FaultType DEF GoTo, TypeOK
<1> QED
  BY <1>1, <1>2 DEF GoTo, TypeOK

LEMMA EndTurnType ==
    ASSUME TypeInv, NEW w \in Workers, EndTurn(w)
    PROVE  /\ job' \in [Workers -> Jobs \cup {NoJob}]
           /\ verdict' \in [Workers -> Verdicts \cup {NoVerdict}]
           /\ \A u \in Workers \ {w} : job'[u] = job[u] /\ verdict'[u] = verdict[u]
           /\ pc'[w] \notin {"stopped", "claim"} => job'[w] = job[w] /\ verdict'[w] = verdict[w]
  BY DEF EndTurn, TypeInv, TypeOK

(***************************************************************************)
(* What has to be shown of a step of worker w for the types: the rest of   *)
(* the state is not its own.                                               *)
(***************************************************************************)
LEMMA WorkerFrame ==
    ASSUME TypeInv, NEW w \in Workers, WorkerOnly, QueueTypeOK',
           store' \in [Jobs -> JobStatus \cup {Absent}], old' \subseteq Jobs,
           pc' \in [Workers -> WorkerPc], faults' \in 0 .. MaxFaults,
           job' \in [Workers -> Jobs \cup {NoJob}],
           verdict' \in [Workers -> Verdicts \cup {NoVerdict}],
           notices' \in [Jobs -> Seq(JobStatus)],
           \A u \in Workers \ {w} :
              pc'[u] = pc[u] /\ job'[u] = job[u] /\ verdict'[u] = verdict[u],
           pc'[w] \notin {"stopped", "claim"} => job'[w] \in Jobs,
           pc'[w] \in {"saveGet", "saveSet"} => verdict'[w] \in Verdicts
    PROVE  TypeInv'
<1>1. TypeOK'
  BY DEF TypeInv, TypeOK, WorkerOnly, recoveryVars, sweepVars
<1>2. LocalsOK'
  BY DEF TypeInv, LocalsOK, WorkerOnly, recoveryVars, sweepVars
<1> QED
  BY <1>1, <1>2 DEF TypeInv

LEMMA ClaimType ==
    ASSUME TypeInv, NEW w \in Workers, NEW j \in Jobs, Claim(w, j)
    PROVE  TypeInv'
<1>1. /\ pc' \in [Workers -> WorkerPc]
      /\ pc'[w] \in {"lookup", LoopTop}
      /\ \A u \in Workers \ {w} : pc'[u] = pc[u]
      /\ faults' \in 0 .. MaxFaults
  <2>1. Handler(pc[w]) = LoopTop /\ "lookup" \in WorkerPc /\ GoTo(w, "lookup")
    BY DEF Claim, Handler, WorkerPc
  <2> QED
    BY <2>1, GoToType DEF TypeInv
<1>2. QueueTypeOK'
  BY DequeueRefines DEF Claim, TypeInv, TypeOK
<1>3. /\ job' \in [Workers -> Jobs \cup {NoJob}]
      /\ \A u \in Workers \ {w} : job'[u] = job[u]
      /\ pc'[w] \notin {"stopped", "claim"} => job'[w] = j
  BY <1>1 DEF Claim, TypeInv, TypeOK, LoopTop
<1>4. pc'[w] \notin {"saveGet", "saveSet"}
  BY <1>1 DEF LoopTop
<1>5. WorkerOnly /\ UNCHANGED <<store, old, verdict, notices>>
  BY DEF Claim, storeVars
<1>6. /\ \A u \in Workers \ {w} :
            pc'[u] = pc[u] /\ job'[u] = job[u] /\ verdict'[u] = verdict[u]
      /\ pc'[w] \notin {"stopped", "claim"} => job'[w] \in Jobs
  BY <1>1, <1>3, <1>5
<1> QED
  BY <1>1, <1>2, <1>3, <1>4, <1>5, <1>6, WorkerFrame DEF TypeInv, TypeOK

LEMMA ClaimTimesOutType ==
    ASSUME TypeInv, NEW w \in Workers, ClaimTimesOut(w)
    PROVE  TypeInv'
<1>1. LoopTop \in WorkerPc /\ LoopTop \in {"stopped", "claim"}
  BY DEF LoopTop, WorkerPc
<1>2. QueueTypeOK'
  BY DEF ClaimTimesOut, TypeInv, TypeOK, QueueTypeOK, queueVars
<1> QED
  BY <1>1, <1>2, WorkerFrame DEF ClaimTimesOut, TypeInv, TypeOK, storeVars

\* Steps that only read: the worker goes on, or to its handler.
LEMMA ReadType ==
    ASSUME TypeInv, NEW w \in Workers, Lookup(w) \/ ReadForUpdate(w)
    PROVE  TypeInv'
<1>1. PICK next \in WorkerPc :
         GoTo(w, next) /\ (next = "saveSet" => pc[w] = "saveGet") /\ next # "saveGet"
  <2>1. CASE Lookup(w)
    BY <2>1 DEF Lookup, WorkerPc
  <2>2. CASE ReadForUpdate(w)
    <3>1. CASE pc[w] = "markGet"
      BY <2>2, <3>1 DEF ReadForUpdate, WorkerPc
    <3>2. CASE pc[w] = "saveGet"
      BY <2>2, <3>2 DEF ReadForUpdate, WorkerPc
    <3>3. CASE pc[w] = "failGet"
      BY <2>2, <3>3 DEF ReadForUpdate, WorkerPc
    <3> QED
      BY <2>2, <3>1, <3>2, <3>3 DEF ReadForUpdate
  <2> QED
    BY <2>1, <2>2
<1>2. /\ pc' \in [Workers -> WorkerPc]
      /\ pc'[w] \in {next, Handler(pc[w])}
      /\ \A u \in Workers \ {w} : pc'[u] = pc[u]
      /\ faults' \in 0 .. MaxFaults
  BY <1>1, GoToType DEF TypeInv
<1>3. QueueTypeOK'
  BY DEF Lookup, ReadForUpdate, TypeInv, TypeOK, QueueTypeOK, queueVars
<1>4. pc[w] \in {"lookup", "markGet", "saveGet", "failGet"}
  BY DEF Lookup, ReadForUpdate
<1>5. pc'[w] \in {"saveGet", "saveSet"} => pc[w] = "saveGet"
  BY <1>1, <1>2, <1>4 DEF Handler
<1>6. job[w] \in Jobs /\ (pc[w] = "saveGet" => verdict[w] \in Verdicts)
  BY <1>4 DEF TypeInv, LocalsOK
<1>7. WorkerOnly /\ UNCHANGED <<storeVars, job, verdict, notices>>
  BY DEF Lookup, ReadForUpdate
<1> QED
  BY <1>2, <1>3, <1>5, <1>6, <1>7, WorkerFrame DEF TypeInv, TypeOK, storeVars

LEMMA MarkRunningType ==
    ASSUME TypeInv, NEW w \in Workers, MarkRunning(w)
    PROVE  TypeInv'
<1>1. /\ pc' \in [Workers -> WorkerPc]
      /\ pc'[w] \in {"run", "cleanup"}
      /\ \A u \in Workers \ {w} : pc'[u] = pc[u]
      /\ faults' \in 0 .. MaxFaults
  <2>1. Handler(pc[w]) = "cleanup" /\ "run" \in WorkerPc /\ GoTo(w, "run")
    BY DEF MarkRunning, Handler, WorkerPc
  <2> QED
    BY <2>1, GoToType DEF TypeInv
<1>2. store' \in [Jobs -> JobStatus \cup {Absent}] /\ old' \subseteq Jobs
  BY SetStatusType DEF MarkRunning, TypeInv, JobStatus, Pending
<1>3. QueueTypeOK' /\ job[w] \in Jobs
  BY DEF MarkRunning, TypeInv, TypeOK, LocalsOK, QueueTypeOK, queueVars
<1> QED
  BY <1>1, <1>2, <1>3, WorkerFrame DEF MarkRunning, TypeInv, TypeOK

LEMMA RunType ==
    ASSUME TypeInv, NEW w \in Workers, Run(w)
    PROVE  TypeInv'
<1>1. QueueTypeOK' /\ job[w] \in Jobs
  BY DEF Run, TypeInv, TypeOK, LocalsOK, QueueTypeOK, queueVars
<1>2. /\ pc' \in [Workers -> WorkerPc] /\ \A u \in Workers \ {w} : pc'[u] = pc[u]
      /\ verdict' \in [Workers -> Verdicts \cup {NoVerdict}]
      /\ \A u \in Workers \ {w} : verdict'[u] = verdict[u]
      /\ pc'[w] \in {"saveGet", "saveSet"} => verdict'[w] \in Verdicts
  BY DEF Run, TypeInv, TypeOK, WorkerPc
<1> QED
  BY <1>1, <1>2, WorkerFrame DEF Run, TypeInv, TypeOK, storeVars

LEMMA SaveResultType ==
    ASSUME TypeInv, NEW w \in Workers, SaveResult(w)
    PROVE  TypeInv'
<1>1. /\ pc' \in [Workers -> WorkerPc]
      /\ pc'[w] \in {"complete", "failGet", "cleanup"}
      /\ \A u \in Workers \ {w} : pc'[u] = pc[u]
      /\ faults' \in 0 .. MaxFaults
  <2>1. Handler(pc[w]) \in {"failGet", "cleanup"} /\ "complete" \in WorkerPc /\ GoTo(w, "complete")
    BY DEF SaveResult, Handler, WorkerPc
  <2> QED
    BY <2>1, GoToType DEF TypeInv
<1>2. store' \in [Jobs -> JobStatus \cup {Absent}] /\ old' \subseteq Jobs
  <2>1. (IF pc[w] = "saveSet" THEN verdict[w] ELSE "SYSTEM_ERROR") \in JobStatus
    BY VerdictsAssumption DEF SaveResult, TypeInv, LocalsOK, JobStatus, Final
  <2> QED
    BY <2>1, SetStatusType DEF SaveResult, TypeInv
<1>3. QueueTypeOK' /\ job[w] \in Jobs
  BY DEF SaveResult, TypeInv, TypeOK, LocalsOK, QueueTypeOK, queueVars
<1> QED
  BY <1>1, <1>2, <1>3, WorkerFrame DEF SaveResult, TypeInv, TypeOK

LEMMA CompleteType ==
    ASSUME TypeInv, NEW w \in Workers, Complete(w)
    PROVE  TypeInv'
<1>1. /\ pc' \in [Workers -> WorkerPc]
      /\ pc'[w] \in {"notify", "cleanup", "stopped", "claim"}
      /\ \A u \in Workers \ {w} : pc'[u] = pc[u]
      /\ faults' \in 0 .. MaxFaults
  <2>1. PICK next \in {"notify", "stopped", "claim"} : GoTo(w, next)
    BY DEF Complete, LoopTop
  <2>2. Handler(pc[w]) \in {"cleanup", "stopped", "claim"} /\ next \in WorkerPc
    BY DEF Complete, Handler, LoopTop, WorkerPc
  <2> QED
    BY <2>1, <2>2, GoToType DEF TypeInv
<1>2. QueueTypeOK' /\ job[w] \in Jobs
  BY CompleteRefines DEF Complete, TypeInv, TypeOK, LocalsOK
<1> QED
  BY <1>1, <1>2, EndTurnType, WorkerFrame DEF Complete, TypeInv, TypeOK, storeVars

LEMMA NotifyType ==
    ASSUME TypeInv, NEW w \in Workers, Notify(w)
    PROVE  TypeInv'
<1>1. /\ pc' \in [Workers -> WorkerPc]
      /\ pc'[w] \in {"cleanup", "stopped", "claim"}
      /\ \A u \in Workers \ {w} : pc'[u] = pc[u]
      /\ faults' \in 0 .. MaxFaults
  <2>1. Handler(pc[w]) = "cleanup" /\ LoopTop \in WorkerPc /\ GoTo(w, LoopTop)
        /\ LoopTop \in {"stopped", "claim"}
    BY DEF Notify, Handler, LoopTop, WorkerPc
  <2> QED
    BY <2>1, GoToType DEF TypeInv
<1>2. QueueTypeOK' /\ job[w] \in Jobs
  BY DEF Notify, TypeInv, TypeOK, LocalsOK, QueueTypeOK, queueVars
<1>3. notices' \in [Jobs -> Seq(JobStatus)]
  <2>1. Exists(job[w]) => store[job[w]] \in JobStatus
    BY <1>2 DEF Exists, TypeInv, TypeOK
  <2>2. Exists(job[w]) => Append(notices[job[w]], store[job[w]]) \in Seq(JobStatus)
    BY <1>2, <2>1, AppendProperties DEF TypeInv, TypeOK
  <2> QED
    BY <1>2, <2>2 DEF Notify, TypeInv, TypeOK
<1> QED
  BY <1>1, <1>2, <1>3, EndTurnType, WorkerFrame DEF Notify, TypeInv, TypeOK, storeVars

LEMMA CommandFailsType ==
    ASSUME TypeInv, NEW w \in Workers, CommandFails(w)
    PROVE  TypeInv'
<1>1. /\ Handler(pc[w]) \in WorkerPc /\ Handler(pc[w]) \notin {"saveGet", "saveSet"}
      /\ Handler(pc[w]) \notin {"stopped", "claim"} => pc[w] \notin {"stopped", "claim"}
  BY DEF CommandFails, Handler, LoopTop, WorkerPc, TypeInv, TypeOK
<1>2. QueueTypeOK' /\ faults' \in 0 .. MaxFaults
  BY FaultType DEF CommandFails, TypeInv, TypeOK, QueueTypeOK, queueVars
<1>3. pc[w] \notin {"stopped", "claim"} => job[w] \in Jobs
  BY DEF TypeInv, LocalsOK
<1>4. pc' \in [Workers -> WorkerPc] /\ pc'[w] = Handler(pc[w])
      /\ \A u \in Workers \ {w} : pc'[u] = pc[u]
  BY <1>1 DEF CommandFails, TypeInv, TypeOK
<1> QED
  BY <1>1, <1>2, <1>3, <1>4, EndTurnType, WorkerFrame
  DEF CommandFails, TypeInv, TypeOK, storeVars

LEMMA WorkerType ==
    ASSUME TypeInv, NEW w \in Workers, Worker(w)
    PROVE  TypeInv'
  BY ClaimType, ClaimTimesOutType, ReadType, MarkRunningType, RunType, SaveResultType,
     CompleteType, NotifyType DEF Worker

LEMMA RecoveryType ==
    ASSUME TypeInv, Recovery
    PROVE  TypeInv'
<1> USE DEF TypeInv, TypeOK, LocalsOK, RecoveryOnly, submitVars, workerVars, sweepVars
<1>1. ASSUME NEW j \in Jobs, Requeue(j)
      PROVE  TypeInv'
  <2>1. QueueTypeOK'
    BY <1>1, RequeueRefines DEF Requeue
  <2> QED
    BY <1>1, <2>1 DEF Requeue, storeVars
<1>2. ASSUME NEW j \in Jobs, RecoverGet(j)
      PROVE  TypeInv'
  BY <1>2 DEF RecoverGet, RecoveryPc, QueueTypeOK, queueVars, storeVars
<1>3. CASE ScanRunning
  BY <1>3 DEF ScanRunning, ToRecover, RecoveryPc, QueueTypeOK, queueVars, storeVars
<1>4. CASE RecoverSet
  <2>1. store' \in [Jobs -> JobStatus \cup {Absent}] /\ old' \subseteq Jobs
    BY <1>4, SetStatusType DEF RecoverSet, JobStatus, Pending
  <2> QED
    BY <1>4, <2>1 DEF RecoverSet, RecoveryPc, QueueTypeOK, queueVars
<1>5. CASE RecoverPush
  <2>1. QueueTypeOK'
    BY <1>5, EnqueueRefines DEF RecoverPush
  <2> QED
    BY <1>5, <2>1 DEF RecoverPush, RecoveryPc, storeVars
<1>6. CASE StartWorkers
  <2>1. faults' \in 0 .. MaxFaults
    BY <1>6, FaultType DEF StartWorkers
  <2> QED
    BY <1>6, <2>1 DEF StartWorkers, RecoveryPc, WorkerPc, QueueTypeOK, queueVars, storeVars
<1> QED
  BY <1>1, <1>2, <1>3, <1>4, <1>5, <1>6 DEF Recovery

LEMMA SweepType ==
    ASSUME TypeInv, Sweep \/ SweepFails \/ \E j \in Jobs : Age(j)
    PROVE  TypeInv'
<1> USE DEF TypeInv, TypeOK, LocalsOK, SweepOnly, QueueTypeOK, queueVars, submitVars,
            workerVars, recoveryVars
<1>1. ASSUME NEW j \in Jobs, Age(j)
      PROVE  TypeInv'
  BY <1>1 DEF Age, sweepVars
<1>2. CASE SweepScan
  BY <1>2 DEF SweepScan, Stale, storeVars
<1>3. ASSUME NEW j \in Jobs, SweepGet(j)
      PROVE  TypeInv'
  BY <1>3 DEF SweepGet, storeVars
<1>4. CASE SweepSet
  <2>1. store' \in [Jobs -> JobStatus \cup {Absent}] /\ old' \subseteq Jobs
    BY <1>4, SetStatusType DEF SweepSet, SweepStatus, JobStatus, Final
  <2> QED
    BY <1>4, <2>1 DEF SweepSet
<1>5. CASE SweepFails
  <2>1. faults' \in 0 .. MaxFaults
    BY <1>5, FaultType DEF SweepFails
  <2> QED
    BY <1>5, <2>1 DEF SweepFails, storeVars
<1> QED
  BY <1>1, <1>2, <1>3, <1>4, <1>5 DEF Sweep

LEMMA DieType ==
    ASSUME TypeInv, Die
    PROVE  TypeInv'
<1>1. restarts' \in 0 .. MaxRestarts
  BY BoundsAssumption DEF TypeInv, TypeOK, Die
<1>2. submit' \in [Jobs -> SubmitPc]
  BY DEF TypeInv, TypeOK, Die, SubmitPc
<1> QED
  BY <1>1, <1>2 DEF Die, TypeInv, TypeOK, LocalsOK, QueueTypeOK, queueVars, storeVars,
     WorkerPc, RecoveryPc

LEMMA ProcessType ==
    ASSUME TypeInv,
           Boot \/ Crash \/ Stop \/ Exit \/ ForcedExit \/ \E j \in Jobs : Expire(j)
    PROVE  TypeInv'
<1>1. CASE Boot \/ Stop
  BY <1>1 DEF Boot, Stop, TypeInv, TypeOK, LocalsOK, QueueTypeOK, queueVars, storeVars,
     submitVars, workerVars, recoveryVars, sweepVars
<1>2. CASE Crash \/ Exit \/ ForcedExit
  BY <1>2, DieType DEF Crash, Exit, ForcedExit
<1>3. ASSUME NEW j \in Jobs, Expire(j)
      PROVE  TypeInv'
  <2>1. store' \in [Jobs -> JobStatus \cup {Absent}] /\ old' \subseteq Jobs
    BY <1>3, SetStatusType DEF Expire, TypeInv
  <2>2. expiries' \in 0 .. MaxExpiries
    BY <1>3, BoundsAssumption DEF Expire, TypeInv, TypeOK
  <2> QED
    BY <1>3, <2>1, <2>2 DEF Expire, TypeInv, TypeOK, LocalsOK, QueueTypeOK, queueVars,
       submitVars, workerVars, recoveryVars, sweepVars
<1> QED
  BY <1>1, <1>2, <1>3

LEMMA NextType == TypeInv /\ [Next]_vars => TypeInv'
<1> SUFFICES ASSUME TypeInv, [Next]_vars PROVE TypeInv'
  OBVIOUS
<1>1. CASE UNCHANGED vars
  BY <1>1 DEF vars, TypeInv, TypeOK, LocalsOK, QueueTypeOK, queueVars, storeVars, submitVars,
     workerVars, recoveryVars, sweepVars
<1>2. CASE Next
  BY <1>2, SubmitType, WorkerType, CommandFailsType, RecoveryType, SweepType, ProcessType
  DEF Next
<1> QED
  BY <1>1, <1>2

(***************************************************************************)
(* Every reachable state is well typed: in particular no worker completes, *)
(* and no recovery enqueues, an id it does not have.                       *)
(***************************************************************************)
THEOREM TypeCorrect == Spec => []TypeOK
<1>1. TypeInv => TypeOK
  BY DEF TypeInv
<1> QED
  BY <1>1, InitType, NextType, PTL DEF Spec

THEOREM LocalsCorrect == Spec => []TypeInv
  BY InitType, NextType, PTL DEF Spec

(***************************************************************************)
(* The lists                                                               *)
(***************************************************************************)

\* Whatever submits, workers, recoveries, crashes and failing commands do
\* together, they touch the two lists by the four operations of jobQueue.ts.
LEMMA NextUsesQueue == TypeInv /\ [Next]_vars => [QueueNext]_queueVars
<1> SUFFICES ASSUME TypeInv, Next PROVE [QueueNext]_queueVars
  BY DEF vars, queueVars
<1>1. ASSUME NEW j \in Jobs,
             CreateJob(j) \/ IndexJob(j) \/ SubmitFails(j) \/ Age(j) \/ Expire(j)
      PROVE  UNCHANGED queueVars
  BY <1>1 DEF CreateJob, IndexJob, SubmitFails, Age, Expire, SweepOnly
<1>2. ASSUME NEW j \in Jobs, EnqueueJob(j)
      PROVE  QueueNext
  BY <1>2 DEF EnqueueJob, QueueNext
<1>3. ASSUME NEW w \in Workers, Worker(w)
      PROVE  [QueueNext]_queueVars
  <2>1. ASSUME NEW j \in Jobs, Claim(w, j)
        PROVE  QueueNext
    BY <2>1 DEF Claim, QueueNext
  <2>2. CASE Complete(w)
    <3>1. job[w] \in Jobs
      BY <2>2 DEF Complete, TypeInv, LocalsOK
    <3> QED
      BY <2>2, <3>1 DEF Complete, QueueNext
  <2>3. CASE ClaimTimesOut(w) \/ Lookup(w) \/ ReadForUpdate(w) \/ MarkRunning(w) \/ Run(w)
             \/ SaveResult(w) \/ Notify(w)
    BY <2>3 DEF ClaimTimesOut, Lookup, ReadForUpdate, MarkRunning, Run, SaveResult, Notify
  <2> QED
    BY <1>3, <2>1, <2>2, <2>3 DEF Worker
<1>4. ASSUME NEW w \in Workers, CommandFails(w)
      PROVE  UNCHANGED queueVars
  BY <1>4 DEF CommandFails
<1>5. CASE Recovery
  <2>1. ASSUME NEW j \in Jobs, Requeue(j)
        PROVE  QueueNext
    BY <2>1 DEF Requeue, QueueNext
  <2>2. CASE RecoverPush
    <3>1. recJob \in Jobs
      BY <2>2 DEF RecoverPush, TypeInv, LocalsOK
    <3> QED
      BY <2>2, <3>1 DEF RecoverPush, QueueNext
  <2>3. CASE ScanRunning \/ RecoverSet \/ StartWorkers \/ \E j \in Jobs : RecoverGet(j)
    BY <2>3 DEF ScanRunning, RecoverSet, StartWorkers, RecoverGet
  <2> QED
    BY <1>5, <2>1, <2>2, <2>3 DEF Recovery
<1>6. CASE Sweep \/ SweepFails
  BY <1>6 DEF Sweep, SweepScan, SweepGet, SweepSet, SweepFails, SweepOnly
<1>7. CASE Boot \/ Crash \/ Stop \/ Exit \/ ForcedExit
  BY <1>7 DEF Boot, Crash, Stop, Exit, ForcedExit, Die
<1> QED
  BY <1>1, <1>2, <1>3, <1>4, <1>5, <1>6, <1>7 DEF Next

(***************************************************************************)
(* jobQueue.ts:6-17 for the whole system, with any number of crashes and   *)
(* of failing commands: the lists stay one reliable waiting line.          *)
(***************************************************************************)
THEOREM LifecycleKeepsTheLine == Spec => KeepsTheLine
<1>1. Init => QueueInit
  BY DEF Init
<1>2. Spec => QueueSpec
  BY <1>1, InitType, NextType, NextUsesQueue, PTL DEF Spec, QueueSpec
<1> QED
  BY <1>2, QueueImplementsLine

(***************************************************************************)
(* Ids in the lists, before and after an operation.                        *)
(***************************************************************************)
LEMMA RangeOfConcat ==
    \A s1, s2 \in Seq(Jobs) : Range(s1 \o s2) = Range(s1) \cup Range(s2)
<1> SUFFICES ASSUME NEW s1 \in Seq(Jobs), NEW s2 \in Seq(Jobs)
             PROVE  Range(s1 \o s2) = Range(s1) \cup Range(s2)
  OBVIOUS
<1> QED
  BY RangeConcatenation, Zenon

LEMMA RangePrepend ==
    ASSUME NEW q \in Seq(Jobs), NEW j \in Jobs
    PROVE  Range(<<j>> \o q) = {j} \cup Range(q)
<1>1. <<j>> \in Seq(Jobs) /\ Range(<<j>>) = {j}
  BY DEF Range
<1> QED
  BY <1>1, RangeOfConcat, Zenon

LEMMA RangeFrontLast ==
    ASSUME NEW q \in Seq(Jobs), q # <<>>
    PROVE  Range(q) = Range(SubSeq(q, 1, Len(q) - 1)) \cup {q[Len(q)]}
<1> DEFINE f == SubSeq(q, 1, Len(q) - 1)
<1>1. q[Len(q)] \in Jobs /\ f \in Seq(Jobs) /\ Len(q) \in Nat \ {0}
  BY LastMovesOver, EmptySeq
<1>2. <<q[Len(q)]>> \in Seq(Jobs) /\ Range(<<q[Len(q)]>>) = {q[Len(q)]}
  BY <1>1 DEF Range
<1>3. f \o <<q[Len(q)]>> = q
  BY <1>1, SubSeqRecursiveSecond, SubSeqFull
<1> HIDE DEF f
<1>4. Range(f \o <<q[Len(q)]>>) = Range(f) \cup {q[Len(q)]}
  BY <1>1, <1>2, RangeOfConcat, Zenon
<1> QED
  BY <1>3, <1>4 DEF f

LEMMA RangeHeadTail ==
    ASSUME NEW q \in Seq(Jobs), NEW p \in Seq(Jobs), p # <<>>
    PROVE  /\ Range(p) = {Head(p)} \cup Range(Tail(p))
           /\ Range(Append(q, Head(p))) = Range(q) \cup {Head(p)}
<1>1. Head(p) \in Jobs /\ Tail(p) \in Seq(Jobs)
  BY HeadMovesBack
<1>2. <<Head(p)>> \in Seq(Jobs) /\ Range(<<Head(p)>>) = {Head(p)}
  BY <1>1 DEF Range
<1>3. <<Head(p)>> \o Tail(p) = p
  BY <1>1, <1>2, SeqEqual, ConcatProperties, HeadTailProperties, LenProperties
<1>4. Range(<<Head(p)>> \o Tail(p)) = {Head(p)} \cup Range(Tail(p))
  BY <1>1, <1>2, RangeOfConcat, Zenon
<1>5. Append(q, Head(p)) = q \o <<Head(p)>>
  BY <1>1, AppendIsConcat
<1>6. Range(q \o <<Head(p)>>) = Range(q) \cup {Head(p)}
  BY <1>2, RangeOfConcat, Zenon
<1> QED
  BY <1>3, <1>4, <1>5, <1>6


\* The ids in the two lists after each operation.
LEMMA IdsAfter ==
    ASSUME QueueTypeOK, NEW j \in Jobs
    PROVE  /\ Enqueue(j) => /\ Range(queue') = Range(queue) \cup {j}
                            /\ Range(processing') = Range(processing)
           /\ Dequeue(j) => /\ Range(queue) = Range(queue') \cup {j}
                            /\ Range(processing') = Range(processing) \cup {j}
           /\ RequeueOne(j) => /\ Range(queue') = Range(queue) \cup {j}
                               /\ Range(processing) = Range(processing') \cup {j}
<1>1. queue \in Seq(Jobs) /\ processing \in Seq(Jobs)
  BY DEF QueueTypeOK
<1>2. ASSUME Enqueue(j)
      PROVE  Range(queue') = Range(queue) \cup {j} /\ Range(processing') = Range(processing)
  BY <1>1, <1>2, RangePrepend DEF Enqueue
<1>3. ASSUME Dequeue(j)
      PROVE  Range(queue) = Range(queue') \cup {j} /\ Range(processing') = Range(processing) \cup {j}
  BY <1>1, <1>3, RangePrepend, RangeFrontLast DEF Dequeue
<1>4. ASSUME RequeueOne(j)
      PROVE  Range(queue') = Range(queue) \cup {j} /\ Range(processing) = Range(processing') \cup {j}
  BY <1>1, <1>4, RangeHeadTail DEF RequeueOne
<1> QED BY <1>2, <1>3, <1>4

LEMMA IdsOfCut ==
    ASSUME NEW list \in Seq(Jobs), NEW i \in 1 .. Len(list)
    PROVE  /\ Range(RemoveAt(list, i)) \subseteq Range(list)
           /\ IsInjective(list) => /\ IsInjective(RemoveAt(list, i))
                                   /\ Range(RemoveAt(list, i)) = Range(list) \ {list[i]}
<1> DEFINE cut == RemoveAt(list, i)
           n == Len(list)
<1>1. /\ n \in Nat /\ DOMAIN list = 1 .. n /\ cut \in Seq(Jobs) /\ Len(cut) = n - 1
      /\ \A k \in 1 .. n - 1 : cut[k] = IF k < i THEN list[k] ELSE list[k + 1]
  BY RemoveAtProperties, LenProperties
<1>2. DOMAIN cut = 1 .. n - 1
  BY <1>1, LenProperties
<1> HIDE DEF cut, n
<1>3. \A k \in 1 .. n - 1 : cut[k] \in Range(list)
  BY <1>1 DEF Range
<1>4. ASSUME NEW k \in 1 .. n, k # i PROVE list[k] \in Range(cut)
  <2>1. CASE k < i
    <3>1. k \in 1 .. n - 1 /\ cut[k] = list[k]
      BY <1>1, <2>1 DEF n
    <3> QED BY <1>2, <3>1 DEF Range
  <2>2. CASE k > i
    <3>1. k - 1 \in 1 .. n - 1 /\ cut[k - 1] = list[k]
      BY <1>1, <2>2 DEF n
    <3> QED BY <1>2, <3>1 DEF Range
  <2> QED BY <1>1, <1>4, <2>1, <2>2 DEF n
<1>5. ASSUME IsInjective(list)
      PROVE  IsInjective(cut) /\ list[i] \notin Range(cut)
  <2>1. \A a, b \in 1 .. n : list[a] = list[b] => a = b
    BY <1>1, <1>5 DEF IsInjective
  <2>2. i \in 1 .. n
    BY DEF n
  <2>3. IsInjective(cut)
    BY <1>1, <1>2, <2>1, <2>2 DEF IsInjective
  <2>4. \A k \in 1 .. n - 1 : cut[k] # list[i]
    BY <1>1, <2>1, <2>2
  <2> QED BY <1>2, <2>3, <2>4 DEF Range
<1>6. Range(cut) \subseteq Range(list)
  BY <1>2, <1>3 DEF Range
<1>7. Range(list) \subseteq Range(cut) \cup {list[i]}
  BY <1>1, <1>4 DEF Range
<1> QED BY <1>5, <1>6, <1>7 DEF cut

LEMMA IdsCompleted ==
    ASSUME QueueTypeOK, NEW j \in Jobs, CompleteProcessing(j)
    PROVE  queue' = queue /\ Range(processing') \subseteq Range(processing)
<1>1. processing \in Seq(Jobs) /\ queue' = queue /\ processing' = WithoutOne(processing, j)
  BY DEF QueueTypeOK, CompleteProcessing
<1>2. CASE j \in Range(processing)
  BY <1>1, <1>2, WithoutOneCuts, IdsOfCut
<1>3. CASE j \notin Range(processing)
  BY <1>1, <1>3, WithoutOneMisses
<1> QED BY <1>1, <1>2, <1>3

\* How an id comes on the lists, and how a job becomes QUEUED or RUNNING.
LEMMA WaitsSteps ==
    ASSUME TypeInv, [Next]_vars, NEW j \in Jobs, Waits(j)', ~Waits(j)
    PROVE  EnqueueJob(j) \/ (RecoverPush /\ recJob = j)
<1>1. QueueTypeOK /\ [QueueNext]_queueVars
  BY NextUsesQueue DEF TypeInv, TypeOK
<1>2. ~UNCHANGED queueVars
  BY DEF Waits, queueVars
<1>3. ASSUME NEW i \in Jobs, Enqueue(i) PROVE i = j
  BY <1>1, <1>3, IdsAfter DEF Waits
<1>4. ASSUME NEW i \in Jobs, Dequeue(i) \/ RequeueOne(i) \/ CompleteProcessing(i) PROVE FALSE
  BY <1>1, <1>4, IdsAfter, IdsCompleted DEF Waits
<1>5. ASSUME NEW i \in Jobs, EnqueueJob(i) PROVE i = j
  BY <1>3, <1>5 DEF EnqueueJob
<1>6. CASE RecoverPush
  BY <1>3, <1>6 DEF RecoverPush, TypeInv, LocalsOK
<1>7. ASSUME NEW i \in Jobs,
             CreateJob(i) \/ IndexJob(i) \/ SubmitFails(i) \/ Age(i) \/ Expire(i)
      PROVE  FALSE
  BY <1>2, <1>7 DEF CreateJob, IndexJob, SubmitFails, Age, Expire, SweepOnly
<1>8. ASSUME NEW w \in Workers, Worker(w) \/ CommandFails(w) PROVE FALSE
  <2>1. ~CommandFails(w)
    BY <1>2 DEF CommandFails
  <2>2. \A i \in Jobs : ~Claim(w, i)
    BY <1>4 DEF Claim
  <2>3. ~Complete(w)
    BY <1>4 DEF Complete, TypeInv, LocalsOK
  <2>4. ~(ClaimTimesOut(w) \/ Lookup(w) \/ ReadForUpdate(w) \/ MarkRunning(w) \/ Run(w)
          \/ SaveResult(w) \/ Notify(w))
    BY <1>2 DEF ClaimTimesOut, Lookup, ReadForUpdate, MarkRunning, Run, SaveResult, Notify
  <2> QED BY <1>8, <2>1, <2>2, <2>3, <2>4 DEF Worker
<1>9. ASSUME NEW i \in Jobs, Requeue(i) \/ RecoverGet(i) PROVE FALSE
  BY <1>2, <1>4, <1>9 DEF Requeue, RecoverGet
<1>10. ~(ScanRunning \/ RecoverSet \/ StartWorkers)
  BY <1>2 DEF ScanRunning, RecoverSet, StartWorkers
<1>11. ~(Sweep \/ SweepFails)
  BY <1>2 DEF Sweep, SweepScan, SweepGet, SweepSet, SweepFails, SweepOnly
<1>12. ~(Boot \/ Crash \/ Stop \/ Exit \/ ForcedExit \/ UNCHANGED vars)
  BY <1>2 DEF Boot, Crash, Stop, Exit, ForcedExit, Die, vars
<1>13. Next
  BY <1>12
<1> QED BY <1>5, <1>6, <1>7, <1>8, <1>9, <1>10, <1>11, <1>12, <1>13 DEF Next, Recovery

LEMMA StoreSteps ==
    ASSUME TypeInv, [Next]_vars, NEW j \in Jobs, store'[j] # store[j]
    PROVE  \/ CreateJob(j) /\ store'[j] = "QUEUED"
           \/ Expire(j) /\ store'[j] = Absent
           \/ \E w \in Workers : MarkRunning(w) /\ job[w] = j /\ store'[j] = "RUNNING"
           \/ \E w \in Workers : SaveResult(w) /\ job[w] = j /\ store'[j] \in Final
           \/ RecoverSet /\ recJob = j /\ store'[j] = "QUEUED"
           \/ SweepSet /\ sweepJob = j /\ store'[j] = SweepStatus
<1>1. store \in [Jobs -> JobStatus \cup {Absent}] /\ ~UNCHANGED storeVars
  BY DEF TypeInv, TypeOK, storeVars
<1>2. ASSUME NEW i, NEW s, SetStatus(i, s) PROVE i = j /\ store'[j] = s
  BY <1>1, <1>2 DEF SetStatus
<1>3. ASSUME NEW i \in Jobs, CreateJob(i) PROVE i = j /\ store'[j] = "QUEUED"
  BY <1>2, <1>3 DEF CreateJob
<1>4. ASSUME NEW i \in Jobs, Expire(i) PROVE Expire(j) /\ store'[j] = Absent
  BY <1>2, <1>4 DEF Expire
<1>5. ASSUME NEW w \in Workers, MarkRunning(w) PROVE job[w] = j /\ store'[j] = "RUNNING"
  BY <1>2, <1>5 DEF MarkRunning
<1>6. ASSUME NEW w \in Workers, SaveResult(w) PROVE job[w] = j /\ store'[j] \in Final
  <2>1. /\ pc[w] \in {"saveSet", "failSet"}
        /\ SetStatus(job[w], IF pc[w] = "saveSet" THEN verdict[w] ELSE "SYSTEM_ERROR")
        /\ pc[w] = "saveSet" => verdict[w] \in Final
    BY <1>6, VerdictsAssumption DEF SaveResult, TypeInv, LocalsOK
  <2> QED BY <1>2, <2>1 DEF Final
<1>7. CASE RecoverSet
  BY <1>2, <1>7 DEF RecoverSet
<1>8. CASE SweepSet
  BY <1>2, <1>8 DEF SweepSet
<1>9. ASSUME NEW i \in Jobs, IndexJob(i) \/ EnqueueJob(i) \/ SubmitFails(i) \/ Age(i) PROVE FALSE
  BY <1>1, <1>9 DEF IndexJob, EnqueueJob, SubmitFails, Age, storeVars
<1>10. ASSUME NEW w \in Workers, Worker(w) \/ CommandFails(w)
       PROVE  MarkRunning(w) \/ SaveResult(w)
  BY <1>1, <1>10 DEF Worker, CommandFails, Claim, ClaimTimesOut, Lookup, ReadForUpdate, Run,
     Complete, Notify
<1>11. ~(ScanRunning \/ RecoverPush \/ StartWorkers \/ \E i \in Jobs : Requeue(i) \/ RecoverGet(i))
  BY <1>1 DEF ScanRunning, RecoverPush, StartWorkers, Requeue, RecoverGet
<1>12. ~(SweepScan \/ SweepFails \/ \E i \in Jobs : SweepGet(i))
  BY <1>1 DEF SweepScan, SweepFails, SweepGet
<1>13. ~(Boot \/ Crash \/ Stop \/ Exit \/ ForcedExit \/ UNCHANGED vars)
  BY <1>1 DEF Boot, Crash, Stop, Exit, ForcedExit, Die, vars
<1>14. Next
  BY <1>13
<1> QED BY <1>3, <1>4, <1>5, <1>6, <1>7, <1>8, <1>9, <1>10, <1>11, <1>12, <1>13, <1>14
        DEF Next, Recovery, Sweep

(***************************************************************************)
(* Once                                                                    *)
(***************************************************************************)

Running == phase \in {"up", "stopping"}
Queued == Range(queue)
Claimed == Range(processing)

\* In a line without duplicates an id is in one of the lists only.
LEMMA ListsApart ==
    ASSUME NEW q \in Seq(Jobs), NEW p \in Seq(Jobs), IsInjective(q \o p)
    PROVE  Range(q) \cap Range(p) = {} /\ IsInjective(p)
<1>1. /\ Len(q) \in Nat /\ Len(p) \in Nat /\ Len(q \o p) = Len(q) + Len(p)
      /\ DOMAIN q = 1 .. Len(q) /\ DOMAIN p = 1 .. Len(p)
      /\ DOMAIN (q \o p) = 1 .. Len(q) + Len(p)
      /\ \A i \in 1 .. Len(q) : (q \o p)[i] = q[i]
      /\ \A i \in 1 .. Len(p) : (q \o p)[Len(q) + i] = p[i]
  BY ConcatProperties, LenProperties
<1> DEFINE s == q \o p
           m == Len(q)
           n == Len(p)
<1>2. \A a, b \in 1 .. m + n : s[a] = s[b] => a = b
  BY <1>1 DEF IsInjective
<1> HIDE DEF s, m, n
<1>3. \A i \in 1 .. m, k \in 1 .. n : q[i] # p[k]
  BY <1>1, <1>2 DEF s, m, n
<1>4. \A i, k \in 1 .. n : p[i] = p[k] => i = k
  <2> SUFFICES ASSUME NEW i \in 1 .. n, NEW k \in 1 .. n, p[i] = p[k] PROVE i = k
    OBVIOUS
  <2>1. m + i \in 1 .. m + n /\ m + k \in 1 .. m + n
    BY <1>1 DEF m, n
  <2>2. s[m + i] = p[i] /\ s[m + k] = p[k]
    BY <1>1 DEF s, m, n
  <2> QED BY <1>1, <1>2, <2>1, <2>2 DEF m, n
<1> QED BY <1>1, <1>3, <1>4 DEF Range, IsInjective, m, n

LEMMA InjectivePrepend ==
    ASSUME NEW s \in Seq(Jobs), NEW j \in Jobs, IsInjective(s), j \notin Range(s)
    PROVE  IsInjective(<<j>> \o s)
<1>1. <<j>> \in Seq(Jobs) /\ Len(<<j>>) = 1 /\ <<j>>[1] = j
  OBVIOUS
<1>2. /\ Len(s) \in Nat /\ DOMAIN s = 1 .. Len(s)
      /\ DOMAIN (<<j>> \o s) = 1 .. Len(s) + 1
      /\ (<<j>> \o s)[1] = j
      /\ \A i \in 1 .. Len(s) : (<<j>> \o s)[i + 1] = s[i]
  BY <1>1, ConcatProperties, LenProperties
<1> DEFINE t == <<j>> \o s
           n == Len(s)
<1>3. \A i \in 2 .. n + 1 : i - 1 \in 1 .. n /\ t[i] = s[i - 1]
  <2> SUFFICES ASSUME NEW i \in 2 .. n + 1 PROVE i - 1 \in 1 .. n /\ t[i] = s[i - 1]
    OBVIOUS
  <2>1. i - 1 \in 1 .. n /\ (i - 1) + 1 = i
    BY <1>2
  <2> QED BY <1>2, <2>1
<1>4. \A i \in 1 .. n : s[i] # j
  BY <1>2 DEF Range
<1>5. \A a, b \in 1 .. n : s[a] = s[b] => a = b
  BY <1>2 DEF IsInjective
<1>6. t[1] = j /\ n \in Nat /\ DOMAIN t = 1 .. n + 1
  BY <1>2
<1> HIDE DEF t, n
<1>7. ASSUME NEW a \in 1 .. n + 1, NEW b \in 1 .. n + 1, t[a] = t[b] PROVE a = b
  <2>1. CASE a = 1 /\ b = 1
    BY <2>1
  <2>2. CASE a = 1 /\ b # 1
    BY <1>3, <1>4, <1>6, <1>7, <2>2
  <2>3. CASE a # 1 /\ b = 1
    BY <1>3, <1>4, <1>6, <1>7, <2>3
  <2>4. CASE a # 1 /\ b # 1
    <3>1. a \in 2 .. n + 1 /\ b \in 2 .. n + 1
      BY <1>6, <2>4
    <3>2. s[a - 1] = s[b - 1] /\ a - 1 \in 1 .. n /\ b - 1 \in 1 .. n
      BY <1>3, <1>7, <3>1
    <3> QED BY <1>5, <3>1, <3>2
  <2> QED BY <2>1, <2>2, <2>3, <2>4
<1> QED BY <1>6, <1>7 DEF IsInjective, t

\* What the operations do to lists without duplicates.
LEMMA DistinctAfter ==
    ASSUME QueueTypeOK, NoDoubleEnqueue, NEW j \in Jobs
    PROVE  /\ Enqueue(j) /\ j \notin Queued \cup Claimed =>
                 NoDoubleEnqueue' /\ Queued' = Queued \cup {j} /\ Claimed' = Claimed
           /\ Dequeue(j) =>
                 /\ NoDoubleEnqueue' /\ j \in Queued /\ j \notin Claimed
                 /\ Queued' = Queued \ {j} /\ Claimed' = Claimed \cup {j}
           /\ RequeueOne(j) =>
                 /\ NoDoubleEnqueue' /\ j \in Claimed
                 /\ Queued' = Queued \cup {j} /\ Claimed' = Claimed \ {j}
           /\ CompleteProcessing(j) =>
                 NoDoubleEnqueue' /\ Queued' = Queued /\ Claimed' = Claimed \ {j}
<1>1. queue \in Seq(Jobs) /\ processing \in Seq(Jobs) /\ IsInjective(queue \o processing)
  BY DEF QueueTypeOK, NoDoubleEnqueue, Line
<1>2. Queued \cap Claimed = {} /\ IsInjective(processing)
  BY <1>1, ListsApart DEF Queued, Claimed
<1>3. queue \o processing \in Seq(Jobs) /\ Range(queue \o processing) = Queued \cup Claimed
  BY <1>1, ConcatProperties, RangeOfConcat DEF Queued, Claimed
<1>4. ASSUME Enqueue(j), j \notin Queued \cup Claimed
      PROVE  NoDoubleEnqueue' /\ Queued' = Queued \cup {j} /\ Claimed' = Claimed
  <2>1. queue' \o processing' = <<j>> \o (queue \o processing)
    <3>1. <<j>> \in Seq(Jobs)
      OBVIOUS
    <3> QED BY <1>1, <1>4, <3>1, ConcatAssociative DEF Enqueue
  <2>2. IsInjective(<<j>> \o (queue \o processing))
    BY <1>1, <1>3, <1>4, InjectivePrepend
  <2> QED BY <1>4, <2>1, <2>2, IdsAfter DEF NoDoubleEnqueue, Line, Queued, Claimed
<1>5. ASSUME Dequeue(j)
      PROVE  /\ NoDoubleEnqueue' /\ j \in Queued /\ j \notin Claimed
             /\ Queued' = Queued \ {j} /\ Claimed' = Claimed \cup {j}
  <2>1. /\ queue' \o processing' = queue \o processing
        /\ queue' \in Seq(Jobs) /\ processing' \in Seq(Jobs)
    <3>1. queue # <<>> /\ j = queue[Len(queue)] /\ queue' = SubSeq(queue, 1, Len(queue) - 1)
          /\ processing' = <<j>> \o processing
      BY <1>5 DEF Dequeue
    <3>2. QueueTypeOK'
      BY <1>5, DequeueRefines
    <3> QED BY <1>1, <3>1, <3>2, LastMovesOver DEF QueueTypeOK
  <2>2. Queued' \cap Claimed' = {}
    BY <1>1, <2>1, ListsApart DEF Queued, Claimed
  <2>3. Queued = Queued' \cup {j} /\ Claimed' = Claimed \cup {j}
    BY <1>5, IdsAfter DEF Queued, Claimed
  <2> QED BY <1>1, <1>2, <2>1, <2>2, <2>3 DEF NoDoubleEnqueue, Line
<1>6. ASSUME RequeueOne(j)
      PROVE  /\ NoDoubleEnqueue' /\ j \in Claimed
             /\ Queued' = Queued \cup {j} /\ Claimed' = Claimed \ {j}
  <2>1. /\ queue' \o processing' = queue \o processing
        /\ queue' \in Seq(Jobs) /\ processing' \in Seq(Jobs)
    <3>1. processing # <<>> /\ j = Head(processing) /\ queue' = Append(queue, j)
          /\ processing' = Tail(processing)
      BY <1>6 DEF RequeueOne
    <3> QED BY <1>1, <3>1, HeadMovesBack
  <2>2. Queued' \cap Claimed' = {}
    BY <1>1, <2>1, ListsApart DEF Queued, Claimed
  <2>3. Queued' = Queued \cup {j} /\ Claimed = Claimed' \cup {j}
    BY <1>6, IdsAfter DEF Queued, Claimed
  <2> QED BY <1>1, <1>2, <2>1, <2>2, <2>3 DEF NoDoubleEnqueue, Line
<1>7. ASSUME CompleteProcessing(j)
      PROVE  NoDoubleEnqueue' /\ Queued' = Queued /\ Claimed' = Claimed \ {j}
  <2>1. processing' = WithoutOne(processing, j) /\ queue' = queue
    BY <1>7 DEF CompleteProcessing
  <2>2. CASE j \notin Claimed
    BY <1>1, <2>1, <2>2, WithoutOneMisses DEF NoDoubleEnqueue, Line, Queued, Claimed
  <2>3. CASE j \in Claimed
    <3>1. PICK i \in 1 .. Len(processing) :
             processing[i] = j /\ processing' = RemoveAt(processing, i)
      BY <1>1, <2>1, <2>3, WithoutOneCuts DEF Claimed
    <3>2. /\ Len(queue) + i \in 1 .. Len(queue \o processing)
          /\ queue \o RemoveAt(processing, i) = RemoveAt(queue \o processing, Len(queue) + i)
      <4>1. Len(queue) \in Nat /\ Len(processing) \in Nat
            /\ Len(queue \o processing) = Len(queue) + Len(processing)
        BY <1>1, LenProperties, ConcatProperties
      <4> QED BY <1>1, <4>1, CutInSuffix
    <3>3. IsInjective(RemoveAt(queue \o processing, Len(queue) + i))
      BY <1>1, <1>3, <3>2, IdsOfCut
    <3>4. Range(processing') = Range(processing) \ {j}
      BY <1>1, <1>2, <3>1, IdsOfCut
    <3> QED BY <2>1, <3>1, <3>2, <3>3, <3>4 DEF NoDoubleEnqueue, Line, Queued, Claimed
  <2> QED BY <2>2, <2>3
<1> QED BY <1>4, <1>5, <1>6, <1>7

Has(w) == pc[w] \notin {"stopped", "claim"}
Fresh(j) == submit[j] \in {"new", "created", "indexed"}

\* Until its id is pushed a job is known to its request alone.
FreshAlone ==
    \A j \in Jobs : Fresh(j) =>
        /\ j \notin Queued \cup Claimed
        /\ store[j] \in {Absent, "QUEUED"} /\ notices[j] = <<>>
        /\ \A w \in Workers : Has(w) => job[w] # j
        /\ j \notin recTodo \cup sweepTodo /\ recJob # j /\ sweepJob # j

\* A worker that has a job has it alone, its id is not in the queue, and no
\* webhook has heard of it; it stays in the processing list until the
\* worker takes it off, with the verdict written.
OneHand ==
    \A w \in Workers : Has(w) =>
        /\ job[w] \notin Queued /\ notices[job[w]] = <<>>
        /\ pc[w] \in Holding => job[w] \in Claimed
        /\ pc[w] = "notify" => job[w] \notin Claimed
        /\ pc[w] \in {"complete", "notify"} => store[job[w]] \in Final \cup {Absent}
        /\ \A v \in Workers : Has(v) /\ job[v] = job[w] => v = w

\* An announced job is finished, and nothing will take it up again.
ToldOnce ==
    \A j \in Jobs : notices[j] # <<>> =>
        /\ Len(notices[j]) = 1 /\ Range(notices[j]) \subseteq Final
        /\ j \notin Queued \cup Claimed /\ store[j] \notin Pending
        /\ j \notin recTodo /\ (recPc \in {"set", "push"} => recJob # j)

\* Recovery enqueues jobs that are on no list: a queued job that is RUNNING
\* was requeued by this very recovery.  It was left behind by the process
\* before, so before the first restart there is none.
Reopens ==
    /\ \A j \in recTodo : j \notin Queued \cup Claimed
    /\ recPc \in {"set", "push"} => recJob \notin Queued \cup Claimed \cup recTodo
    /\ phase # "recovering" => recPc = "requeue" /\ recTodo = {}
    /\ ~Running => \A w \in Workers : pc[w] = "stopped"
    /\ restarts = 0 => \A j \in Queued : store[j] # "RUNNING"
    /\ restarts = 0 /\ ~Running =>
          /\ \A j \in Jobs : store[j] # "RUNNING"
          /\ recTodo = {} /\ recPc \in {"requeue", "update"}
    /\ ~Running /\ recPc = "requeue" =>
          \A j \in Queued : store[j] = "RUNNING" => j \in requeued

Once == NoDoubleEnqueue /\ FreshAlone /\ OneHand /\ ToldOnce /\ Reopens
OnceInv == restarts <= 1 => Once

LEMMA QueuesFrame ==
    ASSUME UNCHANGED queueVars
    PROVE  Queued' = Queued /\ Claimed' = Claimed /\ NoDoubleEnqueue' = NoDoubleEnqueue
  BY DEF queueVars, Queued, Claimed, NoDoubleEnqueue, Line

LEMMA QueueIds ==
    ASSUME TypeInv
    PROVE  Queued \subseteq Jobs /\ Claimed \subseteq Jobs
  BY LenProperties DEF TypeInv, TypeOK, QueueTypeOK, Queued, Claimed, Range

\* A step that leaves the lists, the workers, the recovery and the process
\* alone, and that makes only a fresh job QUEUED and no job RUNNING.
LEMMA OnceStore ==
    ASSUME TypeInv, Once,
           UNCHANGED <<queueVars, phase, workerVars, recoveryVars, restarts>>,
           \A j \in Jobs : \/ store'[j] = store[j] \/ store'[j] \in Final \cup {Absent}
                           \/ Fresh(j) /\ store'[j] = "QUEUED",
           \A j \in Jobs : Fresh(j)' =>
              /\ Fresh(j) /\ store'[j] \in {Absent, "QUEUED"}
              /\ j \notin sweepTodo' /\ sweepJob' # j
    PROVE  Once'
<1>1. /\ Queued' = Queued /\ Claimed' = Claimed /\ NoDoubleEnqueue'
      /\ UNCHANGED <<phase, pc, job, notices, recPc, requeued, recTodo, recJob, restarts>>
      /\ Queued \subseteq Jobs
  BY QueuesFrame, QueueIds DEF Once, workerVars, recoveryVars
<1>2. FreshAlone'
  BY <1>1 DEF Once, FreshAlone, Has
<1>3. OneHand'
  <2>1. \A w \in Workers : Has(w) => job[w] \in Jobs
    BY DEF TypeInv, LocalsOK, Has
  <2> QED BY <1>1, <2>1 DEF Once, OneHand, FreshAlone, Has
<1>4. ToldOnce'
  <2>1. \A j \in Jobs : store[j] \notin Pending /\ ~Fresh(j) => store'[j] \notin Pending
    BY DEF Pending, Final, Absent
  <2> QED BY <1>1, <2>1 DEF Once, ToldOnce, FreshAlone
<1>5. Reopens'
  <2>1. \A j \in Jobs : store'[j] = "RUNNING" => store[j] = "RUNNING"
    BY DEF Final, Absent
  <2> QED BY <1>1, <2>1 DEF Once, Reopens, Running
<1> QED BY <1>1, <1>2, <1>3, <1>4, <1>5 DEF Once

LEMMA OnceSubmit ==
    ASSUME TypeInv, Once, NEW i \in Jobs,
           CreateJob(i) \/ IndexJob(i) \/ SubmitFails(i) \/ Age(i) \/ Expire(i)
    PROVE  Once'
<1>1. store \in [Jobs -> JobStatus \cup {Absent}] /\ submit \in [Jobs -> SubmitPc]
  BY DEF TypeInv, TypeOK
<1>2. /\ UNCHANGED <<queueVars, phase, workerVars, recoveryVars, sweepVars, restarts>>
      /\ \/ UNCHANGED store
         \/ Fresh(i) /\ store' = [store EXCEPT ![i] = "QUEUED"]
         \/ store' = [store EXCEPT ![i] = Absent]
      /\ \/ UNCHANGED submit
         \/ Fresh(i) /\ submit' = [submit EXCEPT ![i] = "created"]
         \/ Fresh(i) /\ submit' = [submit EXCEPT ![i] = "indexed"]
         \/ Fresh(i) /\ submit' = [submit EXCEPT ![i] = "failed"]
  BY DEF CreateJob, IndexJob, SubmitFails, Age, Expire, SetStatus, SweepOnly, storeVars,
     submitVars, Fresh
<1>3. \A j \in Jobs : \/ store'[j] = store[j] \/ store'[j] \in Final \cup {Absent}
                      \/ Fresh(j) /\ store'[j] = "QUEUED"
  BY <1>1, <1>2
<1>4. \A j \in Jobs : Fresh(j)' => Fresh(j)
  BY <1>1, <1>2 DEF Fresh
<1>5. \A j \in Jobs : Fresh(j)' =>
         /\ store'[j] \in {Absent, "QUEUED"}
         /\ j \notin sweepTodo' /\ sweepJob' # j
  BY <1>1, <1>2, <1>4 DEF Once, FreshAlone, sweepVars
<1> QED BY <1>2, <1>3, <1>4, <1>5, OnceStore

LEMMA OnceSweep ==
    ASSUME TypeInv, Once, Sweep \/ SweepFails
    PROVE  Once'
<1>1. /\ store \in [Jobs -> JobStatus \cup {Absent}]
      /\ UNCHANGED <<queueVars, phase, workerVars, recoveryVars, restarts, submit>>
      /\ NoJob \notin Jobs
  BY NoJobAssumption DEF TypeInv, TypeOK, Sweep, SweepFails, SweepScan, SweepGet, SweepSet,
     SweepOnly, submitVars
<1>2. ASSUME NEW j \in Jobs
      PROVE  /\ store'[j] = store[j] \/ store'[j] \in Final \cup {Absent}
             /\ store'[j] # store[j] => sweepJob = j
  BY <1>1 DEF Sweep, SweepFails, SweepScan, SweepGet, SweepSet, SetStatus, SweepStatus, Final,
     storeVars
<1>3. ASSUME NEW j \in Jobs, store[j] # "RUNNING", j \notin sweepTodo, sweepJob # j
      PROVE  j \notin sweepTodo' /\ sweepJob' # j
  BY <1>1, <1>3 DEF Sweep, SweepFails, SweepScan, SweepGet, SweepSet, Stale
<1>4. \A j \in Jobs : Fresh(j)' =>
         /\ Fresh(j) /\ store'[j] \in {Absent, "QUEUED"}
         /\ j \notin sweepTodo' /\ sweepJob' # j
  BY <1>1, <1>2, <1>3 DEF Once, FreshAlone, Fresh, Absent
<1> QED BY <1>1, <1>2, <1>4, OnceStore

LEMMA OnceEnqueue ==
    ASSUME TypeInv, Once, NEW i \in Jobs, EnqueueJob(i)
    PROVE  Once'
<1>1. /\ UNCHANGED <<storeVars, phase, workerVars, recoveryVars, sweepVars, restarts>>
      /\ Enqueue(i) /\ Fresh(i)
      /\ \A j \in Jobs : Fresh(j)' => Fresh(j) /\ j # i
  BY DEF EnqueueJob, Fresh, TypeInv, TypeOK
<1>2. i \notin Queued \cup Claimed /\ store[i] # "RUNNING" /\ notices[i] = <<>>
      /\ i \notin recTodo /\ recJob # i /\ \A w \in Workers : Has(w) => job[w] # i
  BY <1>1 DEF Once, FreshAlone, Absent
<1>3. NoDoubleEnqueue' /\ Queued' = Queued \cup {i} /\ Claimed' = Claimed
  BY <1>1, <1>2, DistinctAfter DEF Once, TypeInv, TypeOK
<1>4. UNCHANGED <<store, phase, pc, job, notices, recPc, requeued, recTodo, recJob, sweepTodo,
                  sweepJob, restarts>>
  BY <1>1 DEF storeVars, workerVars, recoveryVars, sweepVars
<1>5. FreshAlone'
  BY <1>1, <1>3, <1>4 DEF Once, FreshAlone, Has
<1>6. OneHand'
  BY <1>2, <1>3, <1>4 DEF Once, OneHand, Has
<1>7. ToldOnce'
  BY <1>2, <1>3, <1>4 DEF Once, ToldOnce
<1>8. Reopens'
  BY <1>2, <1>3, <1>4 DEF Once, Reopens, Running
<1> QED BY <1>3, <1>5, <1>6, <1>7, <1>8 DEF Once

\* A step of a worker that has a job: what it has to keep.
LEMMA OnceTurn ==
    ASSUME TypeInv, Once, NEW w \in Workers, Has(w), WorkerOnly,
           NoDoubleEnqueue', Queued' = Queued,
           Claimed' \subseteq Claimed, Claimed \ {job[w]} \subseteq Claimed',
           \A u \in Workers \ {w} : pc'[u] = pc[u] /\ job'[u] = job[u],
           Has(w)' => job'[w] = job[w],
           pc'[w] \in Holding => job[w] \in Claimed',
           pc'[w] = "notify" => job[w] \notin Claimed',
           pc'[w] \in {"complete", "notify"} => store'[job[w]] \in Final \cup {Absent},
           \A j \in Jobs \ {job[w]} : store'[j] = store[j] /\ notices'[j] = notices[j],
           notices'[job[w]] # <<>> =>
              /\ Len(notices'[job[w]]) = 1 /\ Range(notices'[job[w]]) \subseteq Final
              /\ job[w] \notin Claimed' /\ store'[job[w]] \notin Pending /\ ~Has(w)',
           UNCHANGED phase
    PROVE  Once'
<1>1. /\ UNCHANGED <<submit, recPc, requeued, recTodo, recJob, sweepTodo, sweepJob, restarts>>
      /\ job[w] \in Jobs /\ Queued \subseteq Jobs /\ job[w] \notin Queued
      /\ Running /\ recPc = "requeue" /\ recTodo = {} /\ ~Fresh(job[w])
  BY QueueIds DEF Once, OneHand, Reopens, FreshAlone, WorkerOnly, recoveryVars, sweepVars,
     TypeInv, LocalsOK, Has, Running
<1>2. FreshAlone'
  BY <1>1 DEF Once, FreshAlone, Fresh, Has
<1>3. OneHand'
  <2> SUFFICES ASSUME NEW u \in Workers, Has(u)'
               PROVE  /\ job'[u] \notin Queued' /\ notices'[job'[u]] = <<>>
                      /\ pc'[u] \in Holding => job'[u] \in Claimed'
                      /\ pc'[u] = "notify" => job'[u] \notin Claimed'
                      /\ pc'[u] \in {"complete", "notify"} =>
                            store'[job'[u]] \in Final \cup {Absent}
                      /\ \A v \in Workers : Has(v)' /\ job'[v] = job'[u] => v = u
    BY DEF OneHand, Has
  <2>1. CASE u = w
    BY <1>1, <2>1 DEF Once, OneHand, Has
  <2>2. CASE u # w
    <3>1. Has(u) /\ job'[u] = job[u] /\ job[u] \in Jobs /\ job[u] # job[w]
      BY <2>2 DEF Once, OneHand, Has, TypeInv, LocalsOK
    <3> QED BY <1>1, <2>2, <3>1 DEF Once, OneHand, Has
  <2> QED BY <2>1, <2>2
<1>4. ToldOnce'
  BY <1>1 DEF Once, ToldOnce
<1>5. Reopens'
  BY <1>1 DEF Once, Reopens, Running
<1> QED BY <1>2, <1>3, <1>4, <1>5 DEF Once

LEMMA OnceClaim ==
    ASSUME TypeInv, Once, NEW w \in Workers, NEW j \in Jobs, Claim(w, j)
    PROVE  Once'
<1>1. /\ NoDoubleEnqueue' /\ j \in Queued /\ j \notin Claimed
      /\ Queued' = Queued \ {j} /\ Claimed' = Claimed \cup {j}
  BY DistinctAfter DEF Claim, Once, TypeInv, TypeOK
<1>2. /\ UNCHANGED <<store, notices, submit, phase, recPc, requeued, recTodo, recJob, sweepTodo,
                     sweepJob, restarts>>
      /\ pc[w] = "claim" /\ pc'[w] \in {"lookup", "claim", "stopped"}
      /\ pc'[w] = "lookup" => job'[w] = j
      /\ \A u \in Workers \ {w} : pc'[u] = pc[u] /\ job'[u] = job[u]
  BY DEF Claim, GoTo, Handler, LoopTop, TypeInv, TypeOK, WorkerOnly, storeVars, recoveryVars,
     sweepVars
<1>3. Running /\ recTodo = {} /\ recPc = "requeue"
  BY <1>2 DEF Once, Reopens, Running
<1>4. ~Fresh(j) /\ notices[j] = <<>> /\ \A v \in Workers : Has(v) => job[v] # j
  BY <1>1 DEF Once, FreshAlone, ToldOnce, OneHand
<1>5. FreshAlone'
  BY <1>1, <1>2, <1>4 DEF Once, FreshAlone, Fresh, Has
<1>6. OneHand'
  <2> SUFFICES ASSUME NEW u \in Workers, Has(u)'
               PROVE  /\ job'[u] \notin Queued' /\ notices'[job'[u]] = <<>>
                      /\ pc'[u] \in Holding => job'[u] \in Claimed'
                      /\ pc'[u] = "notify" => job'[u] \notin Claimed'
                      /\ pc'[u] \in {"complete", "notify"} =>
                            store'[job'[u]] \in Final \cup {Absent}
                      /\ \A v \in Workers : Has(v)' /\ job'[v] = job'[u] => v = u
    BY DEF OneHand, Has
  <2>1. CASE u = w
    BY <1>1, <1>2, <1>4, <2>1 DEF Has
  <2>2. CASE u # w
    <3>1. Has(u) /\ pc'[u] = pc[u] /\ job'[u] = job[u] /\ job[u] # j
      BY <1>2, <1>4, <2>2 DEF Has
    <3> QED BY <1>1, <1>2, <2>2, <3>1 DEF Once, OneHand, Has
  <2> QED BY <2>1, <2>2
<1>7. ToldOnce'
  BY <1>1, <1>2, <1>4 DEF Once, ToldOnce
<1>8. Reopens'
  BY <1>1, <1>2, <1>3 DEF Once, Reopens, Running
<1> QED BY <1>1, <1>5, <1>6, <1>7, <1>8 DEF Once

\* A worker without a job that goes to another turn or stops.
LEMMA OnceIdle ==
    ASSUME TypeInv, Once, NEW w \in Workers, pc[w] = "claim",
           ClaimTimesOut(w) \/ CommandFails(w)
    PROVE  Once'
<1>1. /\ UNCHANGED <<store, notices, submit, phase, recPc, requeued, recTodo, recJob, sweepTodo,
                     sweepJob, restarts>>
      /\ pc'[w] \in {"claim", "stopped"}
      /\ \A u \in Workers \ {w} : pc'[u] = pc[u] /\ job'[u] = job[u]
  BY DEF ClaimTimesOut, CommandFails, EndTurn, Handler, LoopTop, TypeInv, TypeOK, WorkerOnly,
     storeVars, recoveryVars, sweepVars
<1>2. Queued' = Queued /\ Claimed' = Claimed /\ NoDoubleEnqueue'
  BY QueuesFrame DEF ClaimTimesOut, CommandFails, Once
<1>3. Running
  BY DEF Once, Reopens
<1>4. \A u \in Workers : Has(u)' => Has(u) /\ pc'[u] = pc[u] /\ job'[u] = job[u]
  BY <1>1 DEF Has
<1>5. FreshAlone'
  BY <1>1, <1>2, <1>4 DEF Once, FreshAlone, Fresh
<1>6. OneHand'
  BY <1>1, <1>2, <1>4 DEF Once, OneHand
<1>7. ToldOnce'
  BY <1>1, <1>2 DEF Once, ToldOnce
<1>8. Reopens'
  BY <1>1, <1>2, <1>3 DEF Once, Reopens, Running
<1> QED BY <1>2, <1>5, <1>6, <1>7, <1>8 DEF Once

\* Steps that leave the lists and the notices as they are.
LEMMA OnceWork ==
    ASSUME TypeInv, Once, NEW w \in Workers,
           \/ Lookup(w) \/ ReadForUpdate(w) \/ MarkRunning(w) \/ Run(w) \/ SaveResult(w)
           \/ CommandFails(w) /\ pc[w] # "claim"
    PROVE  Once'
<1>1. /\ Has(w) /\ WorkerOnly /\ UNCHANGED <<queueVars, notices, phase>>
      /\ pc \in [Workers -> WorkerPc] /\ job \in [Workers -> Jobs \cup {NoJob}]
      /\ store \in [Jobs -> JobStatus \cup {Absent}] /\ job[w] \in Jobs
  BY DEF Lookup, ReadForUpdate, MarkRunning, Run, SaveResult, CommandFails, WorkerOnly, TypeInv,
     TypeOK, LocalsOK, Has
<1>2. Queued' = Queued /\ Claimed' = Claimed /\ NoDoubleEnqueue'
  BY <1>1, QueuesFrame DEF Once
<1>3. /\ notices'[job[w]] = <<>>
      /\ pc[w] \in Holding => job[w] \in Claimed
      /\ pc[w] = "notify" => job[w] \notin Claimed
  BY <1>1 DEF Once, OneHand
<1>4. /\ \A u \in Workers \ {w} : pc'[u] = pc[u] /\ job'[u] = job[u]
      /\ Has(w)' => job'[w] = job[w]
  BY <1>1 DEF Lookup, ReadForUpdate, MarkRunning, Run, SaveResult, CommandFails, GoTo, EndTurn, Has
<1>5. \A j \in Jobs \ {job[w]} : store'[j] = store[j] /\ notices'[j] = notices[j]
  BY <1>1 DEF Lookup, ReadForUpdate, MarkRunning, Run, SaveResult, CommandFails, SetStatus,
     storeVars
<1>6. pc'[w] # "notify" /\ (pc'[w] \in Holding => pc[w] \in Holding)
  BY <1>1 DEF Lookup, ReadForUpdate, MarkRunning, Run, SaveResult, CommandFails, GoTo, Handler,
     LoopTop, Holding, Has, WorkerPc
<1>7. pc'[w] = "complete" => store'[job[w]] \in Final \cup {Absent}
  <2>1. CASE Lookup(w) \/ MarkRunning(w) \/ Run(w) \/ CommandFails(w)
    BY <1>1, <2>1 DEF Lookup, MarkRunning, Run, CommandFails, GoTo, Handler, LoopTop
  <2>2. CASE ReadForUpdate(w)
    <3>1. \/ pc[w] = "markGet" /\ \E next \in {"markSet", "run"} : GoTo(w, next)
          \/ ~Exists(job[w])
          \/ \E next \in {"saveSet", "failSet"} : GoTo(w, next)
      BY <2>2 DEF ReadForUpdate
    <3>2. UNCHANGED store /\ pc[w] \in {"markGet", "saveGet", "failGet"}
      BY <2>2 DEF ReadForUpdate, storeVars
    <3> QED BY <1>1, <3>1, <3>2 DEF GoTo, Handler, LoopTop, Exists
  <2>3. CASE SaveResult(w)
    <3>1. (IF pc[w] = "saveSet" THEN verdict[w] ELSE "SYSTEM_ERROR") \in Final
      BY <2>3, VerdictsAssumption DEF SaveResult, TypeInv, LocalsOK, Final
    <3> QED BY <1>1, <2>3, <3>1 DEF SaveResult, SetStatus
  <2> QED BY <2>1, <2>2, <2>3
<1> QED BY <1>1, <1>2, <1>3, <1>4, <1>5, <1>6, <1>7, OnceTurn

LEMMA OnceComplete ==
    ASSUME TypeInv, Once, NEW w \in Workers, Complete(w)
    PROVE  Once'
<1>1. /\ Has(w) /\ WorkerOnly /\ UNCHANGED <<store, notices, phase>> /\ job[w] \in Jobs
      /\ pc \in [Workers -> WorkerPc] /\ job \in [Workers -> Jobs \cup {NoJob}]
      /\ CompleteProcessing(job[w])
  BY DEF Complete, WorkerOnly, TypeInv, TypeOK, LocalsOK, Has, storeVars
<1>2. NoDoubleEnqueue' /\ Queued' = Queued /\ Claimed' = Claimed \ {job[w]}
  BY <1>1, DistinctAfter DEF Once, TypeInv, TypeOK
<1>3. /\ notices'[job[w]] = <<>>
      /\ pc[w] = "complete" => store'[job[w]] \in Final \cup {Absent}
  BY <1>1 DEF Once, OneHand
<1>4. /\ \A u \in Workers \ {w} : pc'[u] = pc[u] /\ job'[u] = job[u]
      /\ Has(w)' => job'[w] = job[w]
  BY <1>1 DEF Complete, GoTo, EndTurn, Has
<1>5. /\ pc'[w] \in {"notify", "cleanup", "claim", "stopped"}
      /\ pc'[w] = "notify" => pc[w] = "complete"
  BY <1>1 DEF Complete, GoTo, Handler, LoopTop
<1> QED BY <1>1, <1>2, <1>3, <1>4, <1>5, OnceTurn DEF Holding

LEMMA OnceNotify ==
    ASSUME TypeInv, Once, NEW w \in Workers, Notify(w)
    PROVE  Once'
<1>1. /\ Has(w) /\ WorkerOnly /\ UNCHANGED <<queueVars, store, phase>> /\ job[w] \in Jobs
      /\ pc \in [Workers -> WorkerPc] /\ job \in [Workers -> Jobs \cup {NoJob}]
      /\ pc[w] = "notify" /\ notices \in [Jobs -> Seq(JobStatus)]
  BY DEF Notify, WorkerOnly, TypeInv, TypeOK, LocalsOK, Has, storeVars
<1>2. Queued' = Queued /\ Claimed' = Claimed /\ NoDoubleEnqueue'
  BY <1>1, QueuesFrame DEF Once
<1>3. /\ notices[job[w]] = <<>> /\ job[w] \notin Claimed
      /\ store[job[w]] \in Final \cup {Absent}
  BY <1>1 DEF Once, OneHand
<1>4. /\ \A u \in Workers \ {w} : pc'[u] = pc[u] /\ job'[u] = job[u]
      /\ Has(w)' => job'[w] = job[w]
  BY <1>1 DEF Notify, GoTo, EndTurn, Has
<1>5. /\ pc'[w] \in {"cleanup", "claim", "stopped"}
      /\ Has(w)' => pc'[w] = "cleanup"
  BY <1>1 DEF Notify, GoTo, Handler, LoopTop, Has
<1>6. \A j \in Jobs \ {job[w]} : store'[j] = store[j] /\ notices'[j] = notices[j]
  BY <1>1 DEF Notify
<1>7. ASSUME notices'[job[w]] # <<>>
      PROVE  /\ Len(notices'[job[w]]) = 1 /\ Range(notices'[job[w]]) \subseteq Final
             /\ store'[job[w]] \notin Pending /\ ~Has(w)'
  <2>1. /\ Exists(job[w]) /\ pc'[w] # "cleanup"
        /\ notices'[job[w]] = Append(notices[job[w]], store[job[w]])
    BY <1>1, <1>3, <1>7 DEF Notify
  <2>2. store[job[w]] \in Final /\ store[job[w]] \in JobStatus
    BY <1>3, <2>1 DEF Exists, JobStatus
  <2>3. notices'[job[w]] = <<store[job[w]]>>
    BY <1>3, <2>1, <2>2
  <2>4. Len(notices'[job[w]]) = 1 /\ Range(notices'[job[w]]) = {store[job[w]]}
    BY <2>3 DEF Range
  <2> QED BY <1>1, <1>5, <2>1, <2>2, <2>4 DEF Final, Pending
<1>8. pc'[w] \notin Holding /\ pc'[w] \notin {"complete", "notify"}
  BY <1>5 DEF Holding
<1> QED BY <1>1, <1>2, <1>3, <1>4, <1>6, <1>7, <1>8, OnceTurn

LEMMA OnceWorker ==
    ASSUME TypeInv, Once, NEW w \in Workers, Worker(w) \/ CommandFails(w)
    PROVE  Once'
<1>1. CASE CommandFails(w)
  BY <1>1, OnceIdle, OnceWork
<1>2. CASE ClaimTimesOut(w)
  BY <1>2, OnceIdle DEF ClaimTimesOut
<1> QED BY <1>1, <1>2, OnceClaim, OnceWork, OnceComplete, OnceNotify DEF Worker

LEMMA OnceRecovery ==
    ASSUME TypeInv, Once, Recovery
    PROVE  Once'
<1>1. /\ ~Running /\ phase = "recovering"
      /\ UNCHANGED <<index, submit, notices, sweepTodo, sweepJob, restarts>>
  BY DEF Recovery, Requeue, RecoverGet, ScanRunning, RecoverSet, RecoverPush, StartWorkers,
     RecoveryOnly, submitVars, workerVars, sweepVars, Running
<1>2. /\ \A w \in Workers : ~Has(w)
      /\ \A w \in Workers : ~Has(w)'
  BY <1>1 DEF Once, Reopens, Recovery, Requeue, RecoverGet, ScanRunning, RecoverSet, RecoverPush,
     StartWorkers, RecoveryOnly, workerVars, Has
<1>3. OneHand'
  BY <1>2 DEF OneHand, Has
<1>4. phase' = "recovering" \/ StartWorkers
  BY DEF Recovery, Requeue, RecoverGet, ScanRunning, RecoverSet, RecoverPush
<1>5. ~StartWorkers => \A w \in Workers : pc'[w] = "stopped"
  BY <1>1 DEF Once, Reopens, Recovery, Requeue, RecoverGet, ScanRunning, RecoverSet, RecoverPush,
     RecoveryOnly, workerVars
<1> USE DEF Once
<1>6. ASSUME NEW i \in Jobs, Requeue(i) PROVE Once'
  <2>1. /\ UNCHANGED <<store, phase, recPc, recTodo, recJob>>
        /\ recPc = "requeue" /\ RequeueOne(i) /\ requeued' = requeued \cup {i}
    BY <1>6 DEF Requeue, storeVars
  <2>2. /\ NoDoubleEnqueue' /\ i \in Claimed
        /\ Queued' = Queued \cup {i} /\ Claimed' = Claimed \ {i}
    BY <2>1, DistinctAfter DEF TypeInv, TypeOK
  <2>3. Queued' \cup Claimed' = Queued \cup Claimed
    BY <2>2
  <2>4. FreshAlone'
    BY <1>1, <1>2, <2>1, <2>3 DEF FreshAlone, Fresh, Has
  <2>5. ToldOnce'
    BY <1>1, <2>1, <2>3 DEF ToldOnce
  <2>6. Reopens'
    <3>1. phase' = "recovering" /\ \A w \in Workers : pc'[w] = "stopped"
      BY <1>1, <1>5, <2>1 DEF StartWorkers
    <3>2. restarts = 0 => \A j \in Jobs : store[j] # "RUNNING"
      BY <1>1 DEF Reopens
    <3> QED BY <1>1, <2>1, <2>2, <2>3, <3>1, <3>2 DEF Reopens
  <2> QED BY <1>3, <2>2, <2>4, <2>5, <2>6
<1>7. ASSUME NEW i \in Jobs, RecoverGet(i) PROVE Once'
  <2>1. /\ UNCHANGED <<store, phase, requeued>> /\ UNCHANGED queueVars
        /\ recTodo' = recTodo \ {i} /\ recJob' = i /\ i \in recTodo
        /\ recPc' \in {"set", "push"}
    BY <1>7 DEF RecoverGet, storeVars
  <2>2. Queued' = Queued /\ Claimed' = Claimed /\ NoDoubleEnqueue'
    BY <2>1, QueuesFrame
  <2>3. FreshAlone'
    BY <1>1, <1>2, <2>1, <2>2 DEF FreshAlone, Fresh, Has
  <2>4. ToldOnce'
    BY <1>1, <2>1, <2>2 DEF ToldOnce
  <2>5. Reopens'
    BY <1>1, <1>5, <2>1, <2>2, <1>7 DEF Reopens, Running, StartWorkers
  <2> QED BY <1>3, <2>2, <2>3, <2>4, <2>5
<1>8. CASE ScanRunning
  <2>1. /\ UNCHANGED <<store, phase, requeued, recJob>> /\ UNCHANGED queueVars
        /\ recPc = "requeue" /\ processing = <<>> /\ recPc' = "update"
        /\ recTodo' = { j \in Jobs \ requeued : store[j] = "RUNNING" }
    BY <1>8 DEF ScanRunning, ToRecover, storeVars
  <2>2. /\ Queued' = Queued /\ Claimed' = Claimed /\ NoDoubleEnqueue'
        /\ Claimed = {}
    BY <2>1, QueuesFrame DEF Claimed, Range
  <2>3. FreshAlone'
    BY <1>1, <1>2, <2>1, <2>2 DEF FreshAlone, Fresh, Has, Absent
  <2>4. ToldOnce'
    BY <1>1, <2>1, <2>2 DEF ToldOnce, Pending
  <2>5. Reopens'
    BY <1>1, <1>5, <2>1, <2>2, <1>8 DEF Reopens, Running, StartWorkers
  <2> QED BY <1>3, <2>2, <2>3, <2>4, <2>5
<1>9. CASE RecoverSet
  <2>1. /\ UNCHANGED <<phase, requeued, recTodo, recJob>> /\ UNCHANGED queueVars
        /\ recPc = "set" /\ recPc' = "push"
        /\ recJob \in Jobs /\ store' = [store EXCEPT ![recJob] = "QUEUED"]
    BY <1>9 DEF RecoverSet, SetStatus, TypeInv, LocalsOK
  <2>2. Queued' = Queued /\ Claimed' = Claimed /\ NoDoubleEnqueue'
    BY <2>1, QueuesFrame
  <2>3. restarts # 0
    BY <1>1, <2>1 DEF Reopens
  <2>4. \A j \in Jobs \ {recJob} : store'[j] = store[j]
    BY <2>1 DEF TypeInv, TypeOK
  <2>5. FreshAlone'
    BY <1>1, <1>2, <2>1, <2>2, <2>4 DEF FreshAlone, Fresh, Has
  <2>6. ToldOnce'
    BY <1>1, <2>1, <2>2, <2>4 DEF ToldOnce
  <2>7. Reopens'
    <3>1. /\ phase' = "recovering" /\ restarts' # 0
          /\ \A w \in Workers : pc'[w] = "stopped"
      BY <1>1, <1>5, <2>1, <2>3 DEF StartWorkers
    <3>2. /\ \A j \in recTodo : j \notin Queued \cup Claimed
          /\ recJob \notin Queued \cup Claimed \cup recTodo
      BY <2>1 DEF Reopens
    <3> QED BY <2>1, <2>2, <3>1, <3>2 DEF Reopens
  <2> QED BY <1>3, <2>2, <2>5, <2>6, <2>7
<1>10. CASE RecoverPush
  <2>1. /\ UNCHANGED <<store, phase, requeued, recTodo, recJob>>
        /\ recPc = "push" /\ recPc' = "update" /\ Enqueue(recJob) /\ recJob \in Jobs
    BY <1>10 DEF RecoverPush, storeVars, TypeInv, LocalsOK
  <2>2. recJob \notin Queued \cup Claimed \cup recTodo /\ restarts # 0
    BY <1>1, <2>1 DEF Reopens
  <2>3. NoDoubleEnqueue' /\ Queued' = Queued \cup {recJob} /\ Claimed' = Claimed
    BY <2>1, <2>2, DistinctAfter DEF TypeInv, TypeOK
  <2>4. FreshAlone'
    BY <1>1, <1>2, <2>1, <2>3 DEF FreshAlone, Fresh, Has
  <2>5. ToldOnce'
    BY <1>1, <2>1, <2>3 DEF ToldOnce
  <2>6. Reopens'
    BY <1>1, <1>5, <2>1, <2>2, <2>3, <1>10 DEF Reopens, Running, StartWorkers
  <2> QED BY <1>3, <2>3, <2>4, <2>5, <2>6
<1>11. CASE StartWorkers
  <2>1. /\ UNCHANGED store /\ UNCHANGED queueVars /\ phase' = "up"
        /\ recPc' = "requeue" /\ recTodo' = {} /\ recJob' = NoJob /\ NoJob \notin Jobs
    BY <1>11, NoJobAssumption DEF StartWorkers, storeVars
  <2>2. Queued' = Queued /\ Claimed' = Claimed /\ NoDoubleEnqueue'
    BY <2>1, QueuesFrame
  <2>3. FreshAlone'
    BY <1>1, <1>2, <2>1, <2>2 DEF FreshAlone, Fresh, Has
  <2>4. ToldOnce'
    BY <1>1, <2>1, <2>2 DEF ToldOnce
  <2>5. Reopens'
    BY <1>1, <2>1, <2>2 DEF Reopens, Running
  <2> QED BY <1>3, <2>2, <2>3, <2>4, <2>5
<1> QED BY <1>6, <1>7, <1>8, <1>9, <1>10, <1>11 DEF Recovery

LEMMA OnceProcess ==
    ASSUME TypeInv, Once, Boot \/ Stop
    PROVE  Once'
<1>1. /\ UNCHANGED <<store, submit, pc, job, notices, recPc, requeued, recTodo, recJob, sweepTodo,
                     sweepJob, restarts>>
      /\ UNCHANGED queueVars
      /\ \/ phase = "down" /\ phase' = "recovering"
         \/ phase = "up" /\ phase' = "stopping"
  BY DEF Boot, Stop, storeVars, submitVars, workerVars, recoveryVars, sweepVars
<1>2. Queued' = Queued /\ Claimed' = Claimed /\ NoDoubleEnqueue'
  BY <1>1, QueuesFrame DEF Once
<1>3. FreshAlone' /\ OneHand' /\ ToldOnce'
  BY <1>1, <1>2 DEF Once, FreshAlone, OneHand, ToldOnce, Fresh, Has
<1>4. Reopens'
  BY <1>1, <1>2 DEF Once, Reopens, Running
<1> QED BY <1>2, <1>3, <1>4 DEF Once

\* The first death leaves jobs RUNNING, none of them in the queue.
LEMMA OnceDie ==
    ASSUME TypeInv, Once, restarts = 0, Die
    PROVE  Once'
<1>1. /\ UNCHANGED <<store, notices>> /\ UNCHANGED queueVars
      /\ phase' = "down" /\ restarts' = 1
      /\ \A w \in Workers : pc'[w] = "stopped"
      /\ recPc' = "requeue" /\ recTodo' = {} /\ recJob' = NoJob
      /\ sweepTodo' = {} /\ sweepJob' = NoJob /\ NoJob \notin Jobs
      /\ \A j \in Jobs : Fresh(j)' => Fresh(j)
  BY NoJobAssumption DEF Die, storeVars, Fresh
<1>2. Queued' = Queued /\ Claimed' = Claimed /\ NoDoubleEnqueue'
  BY <1>1, QueuesFrame DEF Once
<1>3. FreshAlone' /\ OneHand' /\ ToldOnce'
  BY <1>1, <1>2 DEF Once, FreshAlone, OneHand, ToldOnce, Has
<1>4. Reopens'
  BY <1>1, <1>2 DEF Once, Reopens, Running
<1> QED BY <1>2, <1>3, <1>4 DEF Once

LEMMA OnceNext ==
    ASSUME TypeInv, OnceInv, [Next]_vars
    PROVE  OnceInv'
<1> SUFFICES ASSUME restarts' <= 1 PROVE Once'
  BY DEF OnceInv
<1>1. restarts \in Nat
  BY BoundsAssumption DEF TypeInv, TypeOK
<1>2. CASE Crash \/ Exit \/ ForcedExit
  <2>1. Die
    BY <1>2 DEF Crash, Exit, ForcedExit
  <2>2. restarts = 0
    BY <1>1, <2>1 DEF Die
  <2> QED BY <2>1, <2>2, OnceDie DEF OnceInv
<1>3. ASSUME NEW i \in Jobs,
             CreateJob(i) \/ IndexJob(i) \/ EnqueueJob(i) \/ SubmitFails(i) \/ Age(i) \/ Expire(i)
      PROVE  Once'
  <2>1. restarts' = restarts
    BY <1>3 DEF CreateJob, IndexJob, EnqueueJob, SubmitFails, Age, Expire, SweepOnly
  <2> QED BY <1>3, <2>1, OnceSubmit, OnceEnqueue DEF OnceInv
<1>4. ASSUME NEW w \in Workers, Worker(w) \/ CommandFails(w) PROVE Once'
  <2>1. restarts' = restarts
    BY <1>4 DEF Worker, CommandFails, Claim, ClaimTimesOut, Lookup, ReadForUpdate, MarkRunning,
       Run, SaveResult, Complete, Notify, WorkerOnly
  <2> QED BY <1>4, <2>1, OnceWorker DEF OnceInv
<1>5. CASE Recovery
  <2>1. restarts' = restarts
    BY <1>5 DEF Recovery, Requeue, RecoverGet, ScanRunning, RecoverSet, RecoverPush, StartWorkers,
       RecoveryOnly
  <2> QED BY <1>5, <2>1, OnceRecovery DEF OnceInv
<1>6. CASE Sweep \/ SweepFails
  <2>1. restarts' = restarts
    BY <1>6 DEF Sweep, SweepFails, SweepScan, SweepGet, SweepSet, SweepOnly
  <2> QED BY <1>6, <2>1, OnceSweep DEF OnceInv
<1>7. CASE Boot \/ Stop
  <2>1. restarts' = restarts
    BY <1>7 DEF Boot, Stop
  <2> QED BY <1>7, <2>1, OnceProcess DEF OnceInv
<1>8. CASE UNCHANGED vars
  BY <1>8, OnceStore DEF OnceInv, Once, FreshAlone, vars, storeVars, submitVars, sweepVars, Fresh
<1> QED BY <1>2, <1>3, <1>4, <1>5, <1>6, <1>7, <1>8 DEF Next

LEMMA OnceInit == Init => OnceInv
<1> SUFFICES ASSUME Init PROVE Once
  BY DEF OnceInv
<1>1. /\ queue = <<>> /\ processing = <<>> /\ recTodo = {} /\ sweepTodo = {} /\ recJob = NoJob
      /\ sweepJob = NoJob /\ recPc = "requeue" /\ phase = "down" /\ NoJob \notin Jobs
      /\ \A j \in Jobs : store[j] = Absent /\ notices[j] = <<>>
      /\ \A w \in Workers : pc[w] = "stopped"
  BY NoJobAssumption DEF Init, QueueInit
<1>2. Queued = {} /\ Claimed = {} /\ NoDoubleEnqueue
  <2>1. queue \o processing = <<>>
    BY <1>1
  <2> QED BY <1>1, <2>1 DEF Queued, Claimed, Range, NoDoubleEnqueue, Line, IsInjective
<1>3. FreshAlone /\ OneHand /\ ToldOnce /\ Reopens
  BY <1>1, <1>2 DEF FreshAlone, OneHand, ToldOnce, Reopens, Running, Has, Absent
<1> QED BY <1>2, <1>3 DEF Once

LEMMA OnceIsOnce ==
    ASSUME TypeInv, OnceInv
    PROVE  OnceUntilSecondRestart
<1> SUFFICES ASSUME restarts <= 1
             PROVE  /\ NoDoubleEnqueue
                    /\ \A v, w \in Holders : job[v] = job[w] => v = w
                    /\ \A j \in Jobs : Len(notices[j]) <= 1 /\ Range(notices[j]) \subseteq Final
  BY DEF OnceUntilSecondRestart
<1>1. \A w \in Holders : w \in Workers /\ Has(w)
  BY DEF Holders, Holding, Has
<1>2. \A v, w \in Holders : job[v] = job[w] => v = w
  BY <1>1 DEF OnceInv, Once, OneHand
<1>3. ASSUME NEW j \in Jobs
      PROVE  Len(notices[j]) <= 1 /\ Range(notices[j]) \subseteq Final
  <2>1. CASE notices[j] = <<>>
    BY <2>1 DEF Range
  <2>2. CASE notices[j] # <<>>
    <3>1. Len(notices[j]) = 1 /\ Range(notices[j]) \subseteq Final
      BY <2>2 DEF OnceInv, Once, ToldOnce
    <3> QED BY <3>1
  <2> QED BY <2>1, <2>2
<1> QED BY <1>2, <1>3 DEF OnceInv, Once

\* As long as the process was restarted at most once, no job is queued
\* twice, run by two workers at a time, or announced to webhooks twice or
\* before it is finished, however many Redis commands fail
\* (executorWorker.ts, jobRecovery.ts).
THEOREM OnceUntilTheSecondRestart == Spec => []OnceUntilSecondRestart
<1>1. Init => TypeInv /\ OnceInv
  BY InitType, OnceInit
<1>2. TypeInv /\ OnceInv /\ [Next]_vars => (TypeInv /\ OnceInv)'
  BY NextType, OnceNext
<1>3. TypeInv /\ OnceInv => OnceUntilSecondRestart
  BY OnceIsOnce
<1> QED BY <1>1, <1>2, <1>3, PTL DEF Spec

(***************************************************************************)
(* Recovery                                                                *)
(***************************************************************************)

\* The jobs the recovery still has to enqueue.
ToPush == recTodo \cup IF recPc \in {"set", "push"} THEN {recJob} ELSE {}

\* Until the workers start nothing leaves the queue and nothing becomes
\* RUNNING; what was requeued is in the queue, and after the scan every
\* RUNNING job is there or has its turn to come.
FoundInv ==
    /\ ~Running => \A w \in Workers : pc[w] = "stopped"
    /\ phase = "down" => recPc = "requeue" /\ requeued = {}
    /\ phase = "recovering" => requeued \subseteq Queued
    /\ phase = "recovering" /\ recPc # "requeue" =>
          \A j \in Jobs : store[j] = "RUNNING" => j \in Queued \cup ToPush

\* Steps of the requests, the sweeper and Redis.
LEMMA FoundOutside ==
    ASSUME TypeInv, FoundInv,
           UNCHANGED <<phase, pc, recPc, requeued, recTodo, recJob>>,
           Queued \subseteq Queued',
           \A j \in Jobs : store'[j] = "RUNNING" => store[j] = "RUNNING"
    PROVE  FoundInv'
  BY DEF FoundInv, ToPush, Running

LEMMA FoundSubmit ==
    ASSUME TypeInv, FoundInv, NEW j \in Jobs,
           CreateJob(j) \/ IndexJob(j) \/ EnqueueJob(j) \/ SubmitFails(j) \/ Age(j) \/ Expire(j)
    PROVE  FoundInv'
<1>1. UNCHANGED <<phase, pc, recPc, requeued, recTodo, recJob>>
  BY DEF CreateJob, IndexJob, EnqueueJob, SubmitFails, Age, Expire, SweepOnly, workerVars,
         recoveryVars
<1>2. Queued \subseteq Queued'
  <2>1. CASE EnqueueJob(j)
    BY <2>1, IdsAfter DEF EnqueueJob, TypeInv, TypeOK, Queued
  <2>2. CASE ~EnqueueJob(j)
    BY <2>2 DEF CreateJob, IndexJob, SubmitFails, Age, Expire, SweepOnly, queueVars, Queued
  <2> QED BY <2>1, <2>2
<1>3. \A i \in Jobs : store'[i] = store[i] \/ store'[i] \in {"QUEUED", Absent}
  BY DEF CreateJob, IndexJob, EnqueueJob, SubmitFails, Age, Expire, SetStatus, storeVars, TypeInv,
         TypeOK
<1> QED BY <1>1, <1>2, <1>3, FoundOutside DEF Absent

LEMMA FoundSweep ==
    ASSUME TypeInv, FoundInv, Sweep \/ SweepFails
    PROVE  FoundInv'
<1>1. /\ UNCHANGED <<phase, pc, recPc, requeued, recTodo, recJob>> /\ Queued' = Queued
      /\ \A i \in Jobs : store'[i] = store[i] \/ store'[i] = SweepStatus
  BY DEF Sweep, SweepFails, SweepScan, SweepGet, SweepSet, SweepOnly, SetStatus, storeVars,
         workerVars, recoveryVars, queueVars, Queued, TypeInv, TypeOK
<1> QED BY <1>1, FoundOutside DEF SweepStatus

\* Workers take steps only when they have been started.
LEMMA FoundWorker ==
    ASSUME TypeInv, FoundInv, NEW w \in Workers, Worker(w) \/ CommandFails(w)
    PROVE  FoundInv'
<1>1. pc[w] # "stopped" /\ UNCHANGED phase
  BY DEF Worker, CommandFails, Claim, ClaimTimesOut, Lookup, ReadForUpdate, MarkRunning, Run,
         SaveResult, Complete, Notify, WorkerOnly
<1>2. Running
  BY <1>1 DEF FoundInv
<1> QED BY <1>1, <1>2 DEF FoundInv, Running

LEMMA FoundRecovery ==
    ASSUME TypeInv, FoundInv, Recovery
    PROVE  FoundInv'
<1>1. phase = "recovering" /\ ~Running
  BY DEF Recovery, Requeue, RecoverGet, ScanRunning, RecoverSet, RecoverPush, StartWorkers, Running
<1>2. CASE StartWorkers
  BY <1>2 DEF StartWorkers, FoundInv, Running
<1>3. ~StartWorkers => phase' = "recovering" /\ \A w \in Workers : pc'[w] = "stopped"
  BY <1>1 DEF FoundInv, Recovery, Requeue, RecoverGet, ScanRunning, RecoverSet, RecoverPush,
     RecoveryOnly, workerVars
<1>4. CASE ~StartWorkers
  <2>1. requeued' \subseteq Queued' /\ Queued \subseteq Queued'
    <3>1. ASSUME NEW j \in Jobs, Requeue(j)
          PROVE  Queued' = Queued \cup {j} /\ requeued' = requeued \cup {j}
      BY <3>1, IdsAfter DEF Requeue, TypeInv, TypeOK, Queued
    <3>2. CASE RecoverPush
      <4>1. Queued' = Queued \cup {recJob} /\ requeued' = requeued
        BY <3>2, IdsAfter DEF RecoverPush, TypeInv, TypeOK, LocalsOK, Queued
      <4> QED BY <1>1, <4>1 DEF FoundInv
    <3>3. ASSUME NEW j \in Jobs, RecoverGet(j) PROVE Queued' = Queued /\ requeued' = requeued
      BY <3>3 DEF RecoverGet, queueVars, Queued
    <3>4. ScanRunning \/ RecoverSet => Queued' = Queued /\ requeued' = requeued
      BY DEF ScanRunning, RecoverSet, queueVars, Queued
    <3> QED BY <1>1, <1>4, <3>1, <3>2, <3>3, <3>4 DEF FoundInv, Recovery
  <2>2. ASSUME recPc' # "requeue", NEW j \in Jobs, store'[j] = "RUNNING"
        PROVE  j \in Queued' \cup ToPush'
    <3>1. ASSUME NEW i \in Jobs, Requeue(i) PROVE FALSE
      BY <2>2, <3>1 DEF Requeue
    <3>2. ASSUME NEW i \in Jobs, RecoverGet(i) PROVE j \in Queued' \cup ToPush'
      <4>1. /\ recPc # "requeue" /\ store' = store /\ recPc' \in {"set", "push"} /\ recPc = "update"
            /\ recTodo' = recTodo \ {i} /\ recJob' = i
        BY <3>2 DEF RecoverGet, storeVars
      <4> QED BY <1>1, <2>1, <2>2, <4>1 DEF FoundInv, ToPush
    <3>3. CASE ScanRunning
      <4>1. store' = store /\ recPc' = "update" /\ recTodo' = ToRecover(Jobs)
        BY <3>3 DEF ScanRunning, storeVars
      <4>2. j \in requeued \/ j \in recTodo'
        BY <2>2, <4>1 DEF ToRecover
      <4> QED BY <1>1, <2>1, <4>2 DEF FoundInv, ToPush
    <3>4. CASE RecoverSet
      <4>1. /\ recPc = "set" /\ recPc' = "push" /\ recJob' = recJob /\ recTodo' = recTodo
            /\ store' = [store EXCEPT ![recJob] = "QUEUED"]
        BY <3>4 DEF RecoverSet, SetStatus
      <4>2. store[j] = "RUNNING"
        BY <2>2, <4>1 DEF TypeInv, TypeOK
      <4> QED BY <1>1, <2>1, <4>1, <4>2 DEF FoundInv, ToPush
    <3>5. CASE RecoverPush
      <4>1. /\ recPc = "push" /\ recPc' = "update" /\ recTodo' = recTodo /\ store' = store
            /\ Queued' = Queued \cup {recJob}
        BY <3>5, IdsAfter DEF RecoverPush, storeVars, TypeInv, TypeOK, LocalsOK, Queued
      <4> QED BY <1>1, <2>2, <4>1 DEF FoundInv, ToPush
    <3> QED BY <1>4, <3>1, <3>2, <3>3, <3>4, <3>5 DEF Recovery
  <2> QED BY <1>3, <1>4, <2>1, <2>2 DEF FoundInv, Running
<1> QED BY <1>2, <1>4

LEMMA FoundNext ==
    ASSUME TypeInv, FoundInv, [Next]_vars
    PROVE  FoundInv'
<1>1. CASE Boot
  BY <1>1 DEF Boot, FoundInv, Running, workerVars, recoveryVars
<1>2. CASE Stop
  BY <1>2 DEF Stop, FoundInv, Running
<1>3. CASE Crash \/ Exit \/ ForcedExit
  BY <1>3 DEF Crash, Exit, ForcedExit, Die, FoundInv, Running
<1>4. CASE UNCHANGED vars
  <2>1. UNCHANGED <<store, phase, pc, recPc, requeued, recTodo, recJob>> /\ Queued' = Queued
    BY <1>4 DEF vars, storeVars, workerVars, recoveryVars, queueVars, Queued
  <2> QED BY <2>1, FoundOutside
<1> QED BY <1>1, <1>2, <1>3, <1>4, FoundSubmit, FoundSweep, FoundWorker, FoundRecovery DEF Next

\* A recovery that no Redis error cuts short leaves no RUNNING job without
\* an entry in the queue, however the processes before it ended and whatever
\* their workers gave up (jobRecovery.ts:51-54).
THEOREM RecoveryLeavesNoneBehind == Spec => RecoveryFindsRunning
<1>1. Init => TypeInv /\ FoundInv
  <2>1. Init => FoundInv
    BY DEF Init, FoundInv, Running
  <2> QED BY <2>1, InitType
<1>2. TypeInv /\ FoundInv /\ [Next]_vars => (TypeInv /\ FoundInv)'
  BY NextType, FoundNext
<1>3. TypeInv /\ FoundInv /\ [Next]_vars =>
        [phase = "recovering" /\ phase' = "up" /\ faults' = faults
           => \A j \in Jobs : store[j] = "RUNNING" => j \in Range(queue)]_vars
  <2> SUFFICES ASSUME TypeInv, FoundInv, Next, phase = "recovering", phase' = "up",
                      faults' = faults, NEW j \in Jobs, store[j] = "RUNNING"
               PROVE  j \in Range(queue)
    BY DEF vars
  <2>1. StartWorkers
    <3>1. ASSUME NEW i \in Jobs,
                 CreateJob(i) \/ IndexJob(i) \/ EnqueueJob(i) \/ SubmitFails(i) \/ Age(i) \/ Expire(i)
          PROVE  UNCHANGED phase
      BY <3>1 DEF CreateJob, IndexJob, EnqueueJob, SubmitFails, Age, Expire, SweepOnly
    <3>2. ASSUME NEW w \in Workers, Worker(w) \/ CommandFails(w) PROVE UNCHANGED phase
      BY <3>2 DEF Worker, CommandFails, Claim, ClaimTimesOut, Lookup, ReadForUpdate, MarkRunning,
         Run, SaveResult, Complete, Notify, WorkerOnly
    <3>3. Recovery => StartWorkers \/ UNCHANGED phase
      BY DEF Recovery, Requeue, RecoverGet, ScanRunning, RecoverSet, RecoverPush
    <3>4. Sweep \/ SweepFails => UNCHANGED phase
      BY DEF Sweep, SweepFails, SweepScan, SweepGet, SweepSet, SweepOnly
    <3>5. ~(Boot \/ Crash \/ Stop \/ Exit \/ ForcedExit)
      BY DEF Boot, Crash, Stop, Exit, ForcedExit, Die
    <3> QED BY <3>1, <3>2, <3>3, <3>4, <3>5 DEF Next
  <2>2. recPc = "update" /\ recTodo = {}
    <3>1. faults \in Nat /\ faults + 1 # faults
      BY BoundsAssumption DEF TypeInv, TypeOK
    <3> QED BY <2>1, <3>1 DEF StartWorkers, Fault
  <2> QED BY <2>2 DEF FoundInv, ToPush, Queued
<1> QED BY <1>1, <1>2, <1>3, PTL DEF Spec, RecoveryFindsRunning
=============================================================================
