------------------------------ MODULE JobQueue ------------------------------
(***************************************************************************)
(* src/src/core/jobs/jobQueue.ts: the two Redis lists and the commands the *)
(* code issues on them.  A list is a sequence whose first element is the   *)
(* LEFT end.  Each operation is one Redis command, hence one atomic step.  *)
(***************************************************************************)
EXTENDS SequencesExt

CONSTANT Jobs

VARIABLES queue,       \* list jobs:queue, newest id first
          processing   \* list jobs:processing, last claimed id first

queueVars == <<queue, processing>>

QueueTypeOK == queue \in Seq(Jobs) /\ processing \in Seq(Jobs)

QueueInit == queue = <<>> /\ processing = <<>>

\* enqueueJob: LPUSH jobs:queue
Enqueue(j) ==
    /\ queue' = <<j>> \o queue
    /\ UNCHANGED processing

\* Slip: RPOP in place of BLMOVE, the claimed id is in no list.
Dequeue_Pop(j) ==
    /\ queue # <<>>
    /\ j = queue[Len(queue)]
    /\ queue' = SubSeq(queue, 1, Len(queue) - 1)
    /\ UNCHANGED processing

\* dequeueJob, when BLMOVE queue RIGHT -> processing LEFT returns an id
Dequeue(j) ==
    /\ queue # <<>>
    /\ j = queue[Len(queue)]
    /\ queue' = SubSeq(queue, 1, Len(queue) - 1)
    /\ processing' = <<j>> \o processing

\* Slip: LREM with count 0, which removes every occurrence.
WithoutOne_All(list, j) == SelectSeq(list, LAMBDA id : id # j)

\* LREM list 1 j: the first occurrence from the LEFT goes, if there is one.
WithoutOne(list, j) == RemoveFirst(list, j)

\* completeJobProcessing: LREM jobs:processing 1 j
CompleteProcessing(j) ==
    /\ processing' = WithoutOne(processing, j)
    /\ UNCHANGED queue

\* Slip: the requeued id goes to the LEFT of the queue, behind the others.
RequeueOne_Left(j) ==
    /\ processing # <<>>
    /\ j = Head(processing)
    /\ queue' = <<j>> \o queue
    /\ processing' = Tail(processing)

\* One turn of the loop of requeueProcessingJobs:
\* LMOVE processing LEFT -> queue RIGHT
RequeueOne(j) ==
    /\ processing # <<>>
    /\ j = Head(processing)
    /\ queue' = Append(queue, j)
    /\ processing' = Tail(processing)

QueueNext ==
    \E j \in Jobs :
        Enqueue(j) \/ Dequeue(j) \/ CompleteProcessing(j) \/ RequeueOne(j)

QueueSpec == QueueInit /\ [][QueueNext]_queueVars

-----------------------------------------------------------------------------
\* The two lists side by side are the waiting line of ReliableQueue.
Abstract == INSTANCE ReliableQueue WITH
                Ids <- Jobs, line <- queue \o processing, taken <- Len(processing)

\* The lists behave as one waiting line: claiming an id and requeueing it
\* after a crash neither drop, duplicate nor reorder ids, and only
\* completeJobProcessing lets an id go (jobQueue.ts:9-16).
KeepsTheLine == Abstract!Spec
=============================================================================
