-------------------------- MODULE ExecutionLimiter --------------------------
(***************************************************************************)
(* src/src/core/limits/executionLimiter.ts under the workers of one        *)
(* process (executorWorker.ts).  `run` gives a freed slot to nobody: it    *)
(* wakes a waiter, which takes the slot when its continuation comes up.    *)
(* Whether another caller can slip in between depends on the order of the  *)
(* continuations, so the microtask queue of Node is modelled: an event     *)
(* happens when it is empty and is followed by all the microtasks it       *)
(* causes, first in first out, one await per turn.                         *)
(*                                                                         *)
(* A worker calls `run` two turns after the reply to the SET of updateJob, *)
(* but three turns after the reply to its GET when the record is gone      *)
(* (getJob and updateJob both return).  Redis replies that arrive together *)
(* are one event.  A run that starts no container (mock mode, a language   *)
(* runCode has no branch for, no temporary directory) settles at once.     *)
(***************************************************************************)
EXTENDS Naturals, FiniteSets, SequencesExt

CONSTANTS
    Workers,     \* the worker loops of the process (WORKERS)
    MaxConcurrent, \* max (MAX_CONCURRENT)
    MaxQueue,    \* maxQueue (MAX_QUEUE)
    MaxGone,     \* bound: records that are gone when updateJob reads them
    MaxHangs     \* bound: runs that never return

ASSUME WorkersAssumption == IsFiniteSet(Workers)
ASSUME LimitsAssumption ==
    MaxConcurrent \in Nat /\ MaxQueue \in Nat /\ MaxGone \in Nat /\ MaxHangs \in Nat

VARIABLES
    running,     \* this.running
    waiting,     \* this.queue: the workers whose resolve is in it
    pc,          \* what each worker awaits
    micro,       \* the microtask queue: workers whose await is over
    gone,        \* records found gone so far
    hangs        \* runs that hang so far

vars == <<running, waiting, pc, micro, gone, hangs>>

WorkerPc == {"idle",                          \* not in run
             "stored", "call",                \* updateJob wrote the record
             "missing", "skipped", "lateCall",  \* updateJob found none
             "waiting", "woken",              \* in the await of run
             "task", "hung", "settled"}       \* in task(); it is over

Init ==
    /\ running = 0 /\ waiting = <<>>
    /\ pc = [w \in Workers |-> "idle"]
    /\ micro = <<>>
    /\ gone = 0 /\ hangs = 0

-----------------------------------------------------------------------------
(* Events: the microtask queue is empty *)

\* A chunk from Redis with the replies updateJob awaits, in any order.
Replies ==
    /\ micro = <<>>
    /\ \E ws \in SUBSET { w \in Workers : pc[w] = "idle" } \ {{}} :
       \E lost \in SUBSET ws :
          /\ gone + Cardinality(lost) <= MaxGone
          /\ gone' = gone + Cardinality(lost)
          /\ pc' = [w \in Workers |-> IF w \in lost THEN "missing"
                                      ELSE IF w \in ws THEN "stored" ELSE pc[w]]
          /\ micro' \in SetToSeqs(ws)
    /\ UNCHANGED <<running, waiting, hangs>>

\* The sandbox of w is done: runCode returns or throws.
TaskEnds(w) ==
    /\ micro = <<>> /\ pc[w] = "task"
    /\ pc' = [pc EXCEPT ![w] = "settled"]
    /\ micro' = <<w>>
    /\ UNCHANGED <<running, waiting, gone, hangs>>

\* It will never be (compileC has no timeout).
TaskHangs(w) ==
    /\ pc[w] = "task" /\ hangs < MaxHangs
    /\ pc' = [pc EXCEPT ![w] = "hung"]
    /\ hangs' = hangs + 1
    /\ UNCHANGED <<running, waiting, micro, gone>>

-----------------------------------------------------------------------------
(* Microtasks: the continuation at the head of the queue runs *)

\* getJob returns to updateJob, updateJob to the worker.
Return(w) ==
    LET next == [stored |-> "call", missing |-> "skipped", skipped |-> "lateCall"]
    IN  /\ pc[w] \in {"stored", "missing", "skipped"}
        /\ pc' = [pc EXCEPT ![w] = next[pc[w]]]
        /\ micro' = Append(Tail(micro), w)
        /\ UNCHANGED <<running, waiting>>

\* running++ and task(): a container starts, or the task settles at once
Begin(w) ==
    /\ running' = running + 1
    /\ \/ /\ pc' = [pc EXCEPT ![w] = "task"]
          /\ micro' = Tail(micro)
       \/ /\ pc' = [pc EXCEPT ![w] = "settled"]
          /\ micro' = Append(Tail(micro), w)
    /\ UNCHANGED waiting

\* Slip: an await between the test of running and its increment.
Call_Awaits(w) ==
    /\ pc[w] \in {"call", "lateCall"}
    /\ \/ /\ running >= MaxConcurrent
          /\ Len(waiting) < MaxQueue
          /\ waiting' = Append(waiting, w)
          /\ pc' = [pc EXCEPT ![w] = "waiting"]
          /\ micro' = Tail(micro)
       \/ /\ running >= MaxConcurrent
          /\ Len(waiting) >= MaxQueue
          /\ pc' = [pc EXCEPT ![w] = "idle"]
          /\ micro' = Tail(micro)
          /\ UNCHANGED waiting
       \/ /\ running < MaxConcurrent
          /\ pc' = [pc EXCEPT ![w] = "woken"]
          /\ micro' = Append(Tail(micro), w)
          /\ UNCHANGED waiting
    /\ UNCHANGED running

\* Slip: "Queue full" is thrown inside the try, whose finally gives a slot back.
Call_RejectSettles(w) ==
    /\ pc[w] \in {"call", "lateCall"}
    /\ \/ /\ running >= MaxConcurrent
          /\ Len(waiting) < MaxQueue
          /\ waiting' = Append(waiting, w)
          /\ pc' = [pc EXCEPT ![w] = "waiting"]
          /\ micro' = Tail(micro)
          /\ UNCHANGED running
       \/ /\ running >= MaxConcurrent
          /\ Len(waiting) >= MaxQueue
          /\ pc' = [pc EXCEPT ![w] = "settled"]
          /\ micro' = Append(Tail(micro), w)
          /\ UNCHANGED <<running, waiting>>
       \/ running < MaxConcurrent /\ Begin(w)

\* run, up to its first await
Call(w) ==
    /\ pc[w] \in {"call", "lateCall"}
    /\ \/ /\ running >= MaxConcurrent
          /\ Len(waiting) < MaxQueue
          /\ waiting' = Append(waiting, w)
          /\ pc' = [pc EXCEPT ![w] = "waiting"]
          /\ micro' = Tail(micro)
          /\ UNCHANGED running
       \/ /\ running >= MaxConcurrent
          /\ Len(waiting) >= MaxQueue      \* throws "Queue full"
          /\ pc' = [pc EXCEPT ![w] = "idle"]
          /\ micro' = Tail(micro)
          /\ UNCHANGED <<running, waiting>>
       \/ running < MaxConcurrent /\ Begin(w)

\* run, after the wait: max is not tested again
Resume(w) == pc[w] = "woken" /\ Begin(w)

\* Slip: the task ends without waking anybody.
Settle_NoWake(w) ==
    /\ pc[w] = "settled"
    /\ running' = running - 1
    /\ pc' = [pc EXCEPT ![w] = "idle"]
    /\ micro' = Tail(micro)
    /\ UNCHANGED waiting

\* Slip: queue.pop() in place of queue.shift().
Settle_Newest(w) ==
    /\ pc[w] = "settled"
    /\ running' = running - 1
    /\ IF waiting = <<>>
       THEN /\ pc' = [pc EXCEPT ![w] = "idle"]
            /\ micro' = Tail(micro)
            /\ UNCHANGED waiting
       ELSE /\ pc' = [pc EXCEPT ![w] = "idle", ![Last(waiting)] = "woken"]
            /\ micro' = Append(Tail(micro), Last(waiting))
            /\ waiting' = Front(waiting)

\* The finally of run; then the worker has its result or exception.
Settle(w) ==
    /\ pc[w] = "settled"
    /\ running' = running - 1
    /\ IF waiting = <<>>
       THEN /\ pc' = [pc EXCEPT ![w] = "idle"]
            /\ micro' = Tail(micro)
            /\ UNCHANGED waiting
       ELSE /\ pc' = [pc EXCEPT ![w] = "idle", ![Head(waiting)] = "woken"]
            /\ micro' = Append(Tail(micro), Head(waiting))
            /\ waiting' = Tail(waiting)

Microtask ==
    /\ micro # <<>>
    /\ LET w == Head(micro) IN Return(w) \/ Call(w) \/ Resume(w) \/ Settle(w)
    /\ UNCHANGED <<gone, hangs>>

Next ==
    \/ Replies \/ Microtask
    \/ \E w \in Workers : TaskEnds(w) \/ TaskHangs(w)

Spec == Init /\ [][Next]_vars

\* Microtasks always run.  Each turn of the event loop looks at every child
\* process, so an exit is noticed however many other events there are.
Fairness == WF_vars(Microtask) /\ \A w \in Workers : SF_vars(TaskEnds(w))

LiveSpec == Spec /\ Fairness

-----------------------------------------------------------------------------
(* Properties *)

TypeOK ==
    /\ running \in 0..Cardinality(Workers)
    /\ waiting \in Seq(Workers) /\ Len(waiting) <= MaxQueue
    /\ pc \in [Workers -> WorkerPc]
    /\ micro \in Seq(Workers)
    /\ gone \in 0..MaxGone /\ hangs \in 0..MaxHangs

\* Runs that may have a container.
Executing == { w \in Workers : pc[w] \in {"task", "hung"} }

\* Every exit of run gives back exactly what it took, exceptions included:
\* the counter is the number of runs inside task().
CountsRuns == running = Cardinality({ w \in Workers : pc[w] \in {"task", "hung", "settled"} })

\* The limiter limits the number of simultaneous containers
\* (executionLimiter.ts:5).
AtMostMax == Cardinality(Executing) <= MaxConcurrent

\* What the limiter does guarantee, although a woken run does not test max
\* again: each job whose record was gone in updateJob adds one container at
\* most, and without such jobs max is kept.
OvershootBounded == Cardinality(Executing) <= MaxConcurrent + gone

\* Between events no run waits while there is a slot for it.
NoIdleSlot == micro = <<>> /\ waiting # <<>> => running >= MaxConcurrent

\* A run whose record was there does not overtake one that waits or was
\* woken (executionLimiter.test.ts, "should preserve FIFO ordering").
NoOvertaking ==
    [][\A w \in Workers :
          pc[w] = "call" /\ pc'[w] \in {"task", "settled"}
             => \A v \in Workers : pc[v] \notin {"waiting", "woken"}]_vars

\* While fewer runs hang than there are slots, every waiting run begins.
WaitingIsServed ==
    \A w \in Workers : pc[w] = "waiting" ~> pc[w] \notin {"waiting", "woken"} 
=============================================================================
