-------------------------- MODULE NoJobLostProofs --------------------------
(***************************************************************************)
(* While no Redis command fails, no accepted job is lost, for any number   *)
(* of jobs, workers, restarts and expiries.                                *)
(***************************************************************************)
EXTENDS JobLifecycleProofs

(***************************************************************************)
(* Every holder has an entry of its own.  Entries may be swapped between   *)
(* holders of the same id, so cutting out any one occurrence of the id of  *)
(* holder w leaves an entry for each of the others.                        *)
(***************************************************************************)
Covers(W, list, id) ==
    \E entry \in Injection(W, DOMAIN list) : \A w \in W : list[entry[w]] = id[w]

LEMMA CoversCut ==
    ASSUME NEW list \in Seq(Jobs), NEW W, NEW id, Covers(W, list, id),
           NEW w \in W, NEW k \in 1 .. Len(list), list[k] = id[w]
    PROVE  Covers(W \ {w}, RemoveAt(list, k), id)
<1> DEFINE rest == RemoveAt(list, k)
           V == W \ {w}
<1>1. Len(list) \in Nat /\ DOMAIN list = 1 .. Len(list)
  BY LenProperties
<1>2. PICK f \in [W -> 1 .. Len(list)] :
         /\ \A a, b \in W : f[a] = f[b] => a = b
         /\ \A u \in W : list[f[u]] = id[u]
  BY <1>1 DEF Covers, Injection, IsInjective
<1>3. /\ rest \in Seq(Jobs) /\ Len(rest) = Len(list) - 1
      /\ \A i \in 1 .. Len(list) - 1 : rest[i] = IF i < k THEN list[i] ELSE list[i + 1]
  BY RemoveAtProperties
<1>4. DOMAIN rest = 1 .. Len(list) - 1
  BY <1>3, LenProperties
<1> HIDE DEF rest
<1> DEFINE h == [u \in V |-> IF f[u] = k THEN f[w] ELSE f[u]]
           g == [u \in V |-> IF h[u] < k THEN h[u] ELSE h[u] - 1]
<1>5. \A u \in V : h[u] \in 1 .. Len(list) /\ h[u] # k /\ list[h[u]] = id[u]
  BY <1>2
<1>6. \A a, b \in V : h[a] = h[b] => a = b
  BY <1>2
<1> HIDE DEF h
<1>7. \A u \in V : g[u] \in 1 .. Len(list) - 1 /\ rest[g[u]] = id[u]
  <2> SUFFICES ASSUME NEW u \in V
               PROVE  g[u] \in 1 .. Len(list) - 1 /\ rest[g[u]] = id[u]
    OBVIOUS
  <2>1. h[u] \in 1 .. Len(list) /\ h[u] # k /\ list[h[u]] = id[u]
    BY <1>5
  <2>2. CASE h[u] < k
    <3>1. g[u] = h[u] /\ h[u] \in 1 .. Len(list) - 1
      BY <1>1, <2>1, <2>2
    <3> QED
      BY <1>3, <2>1, <2>2, <3>1
  <2>3. CASE ~ (h[u] < k)
    <3>1. g[u] = h[u] - 1 /\ g[u] \in 1 .. Len(list) - 1 /\ ~ (g[u] < k) /\ g[u] + 1 = h[u]
      BY <1>1, <2>1, <2>3
    <3> QED
      BY <1>3, <2>1, <3>1
  <2> QED
    BY <2>2, <2>3
<1>8. \A a, b \in V : g[a] = g[b] => a = b
  <2> SUFFICES ASSUME NEW a \in V, NEW b \in V, g[a] = g[b]
               PROVE  a = b
    OBVIOUS
  <2>1. h[a] \in 1 .. Len(list) /\ h[a] # k /\ h[b] \in 1 .. Len(list) /\ h[b] # k
    BY <1>5
  <2>2. h[a] = h[b]
    BY <1>1, <2>1
  <2> QED
    BY <1>6, <2>2
<1>9. g \in Injection(V, DOMAIN rest)
  BY <1>4, <1>7, <1>8 DEF Injection, IsInjective
<1> HIDE DEF g
<1> QED
  BY <1>7, <1>9 DEF Covers, rest

LEMMA CoversPrepend ==
    ASSUME NEW list \in Seq(Jobs), NEW W, NEW id, Covers(W, list, id),
           NEW j \in Jobs, NEW w, w \notin W, NEW id2,
           id2[w] = j, \A u \in W : id2[u] = id[u]
    PROVE  Covers(W \cup {w}, <<j>> \o list, id2)
<1> DEFINE more == <<j>> \o list
           g(f) == [u \in W \cup {w} |-> IF u = w THEN 1 ELSE f[u] + 1]
<1>1. Len(list) \in Nat /\ DOMAIN list = 1 .. Len(list)
  BY LenProperties
<1>2. PICK f \in [W -> 1 .. Len(list)] :
         /\ \A a, b \in W : f[a] = f[b] => a = b
         /\ \A u \in W : list[f[u]] = id[u]
  BY <1>1 DEF Covers, Injection, IsInjective
<1>3. /\ more \in Seq(Jobs) /\ Len(more) = Len(list) + 1
      /\ more[1] = j
      /\ \A i \in 1 .. Len(list) : more[i + 1] = list[i]
  <2>1. <<j>> \in Seq(Jobs) /\ Len(<<j>>) = 1 /\ <<j>>[1] = j
    OBVIOUS
  <2>2. /\ more \in Seq(Jobs) /\ Len(more) = Len(<<j>>) + Len(list)
        /\ \A i \in 1 .. Len(<<j>>) + Len(list) :
              more[i] = IF i <= Len(<<j>>) THEN <<j>>[i] ELSE list[i - Len(<<j>>)]
    BY <2>1, ConcatProperties
  <2> HIDE DEF more
  <2>3. more[1] = j
    BY <1>1, <2>1, <2>2
  <2>4. ASSUME NEW i \in 1 .. Len(list)
        PROVE  more[i + 1] = list[i]
    <3>1. i + 1 \in 1 .. 1 + Len(list) /\ ~ (i + 1 <= 1) /\ (i + 1) - 1 = i
      BY <1>1
    <3> QED
      BY <2>1, <2>2, <3>1
  <2> QED
    BY <1>1, <2>1, <2>2, <2>3, <2>4
<1>4. DOMAIN more = 1 .. Len(list) + 1
  BY <1>3, LenProperties
<1> HIDE DEF more
<1>5. \A u \in W \cup {w} : g(f)[u] \in 1 .. Len(list) + 1 /\ more[g(f)[u]] = id2[u]
  BY <1>1, <1>2, <1>3
<1>6. \A a, b \in W \cup {w} : g(f)[a] = g(f)[b] => a = b
  BY <1>1, <1>2
<1>7. g(f) \in Injection(W \cup {w}, DOMAIN more)
  BY <1>4, <1>5, <1>6 DEF Injection, IsInjective
<1> QED
  BY <1>5, <1>7 DEF Covers, more

LEMMA CoversFewer ==
    ASSUME NEW list, NEW W, NEW id, Covers(W, list, id), NEW V, V \subseteq W,
           NEW id2, \A u \in V : id2[u] = id[u]
    PROVE  Covers(V, list, id2)
<1>1. PICK f \in [W -> DOMAIN list] :
         /\ \A a, b \in W : f[a] = f[b] => a = b
         /\ \A u \in W : list[f[u]] = id[u]
  BY DEF Covers, Injection, IsInjective
<1> DEFINE g == [u \in V |-> f[u]]
<1>2. g \in Injection(V, DOMAIN list)
  BY <1>1 DEF Injection, IsInjective
<1>3. \A u \in V : list[g[u]] = id2[u]
  BY <1>1
<1> HIDE DEF g
<1> QED
  BY <1>2, <1>3 DEF Covers

(***************************************************************************)
(* The inductive invariant                                                 *)
(***************************************************************************)
\* Where a worker stands between the claim of its job and the final status.
Active == Holding \ {"complete", "drop"}

Promised(j) == submit[j] = "accepted" /\ store[j] \in Pending
HeldBy(j, w) == pc[w] \in Active /\ job[w] = j

\* While workers run, a promised job waits for one or is in the hands of one.
QueuedOrHeld ==
    Running => \A j \in Jobs : Promised(j) =>
        j \in Range(queue) \/ \E w \in Workers : HeldBy(j, w)

HoldersHaveEntries == Covers(Holders, processing, job)

\* Workers run in a running process only, and none is in an error path.
WorkersInPhase ==
    /\ ~ Running => \A w \in Workers : pc[w] = "stopped"
    /\ \A w \in Workers : pc[w] # "cleanup"

\* The recovery has emptied the processing list before it treats a record,
\* and what it reopens is still queued.
RecoveryQueued ==
    /\ phase # "recovering" => recPc = "requeue" /\ recTodo = {}
    /\ recPc # "requeue" => processing = <<>>
    /\ \A j \in recTodo : submit[j] = "accepted" => j \in Range(queue)
    /\ recPc = "set" /\ submit[recJob] = "accepted" => recJob \in Range(queue)

SafeInv ==
    /\ NoJobLost
    /\ QueuedOrHeld
    /\ HoldersHaveEntries
    /\ WorkersInPhase
    /\ RecoveryQueued

LEMMA HeldIsListed ==
    ASSUME NEW list, NEW W, NEW id, Covers(W, list, id), NEW w \in W
    PROVE  id[w] \in Range(list)
  BY DEF Covers, Injection, Range

\* In a running process the hands of the workers are covered by the
\* processing list, so the invariant of the workers implies the promise.
LEMMA RunningSafe ==
    ASSUME TypeInv', Running', QueuedOrHeld', HoldersHaveEntries', WorkersInPhase',
           RecoveryQueued, phase # "recovering", UNCHANGED recoveryVars
    PROVE  SafeInv'
<1>1. NoJobLost'
  <2> SUFFICES ASSUME NEW j \in Jobs, submit'[j] = "accepted", store'[j] \in Pending,
                      j \notin Range(queue')
               PROVE  j \in Range(processing')
    BY DEF NoJobLost, Waits
  <2>1. PICK w \in Workers : pc'[w] \in Active /\ job'[w] = j
    BY DEF QueuedOrHeld, Promised, HeldBy
  <2>2. w \in Holders'
    BY <2>1 DEF Holders, Active
  <2> QED
    BY <2>1, <2>2, HeldIsListed DEF HoldersHaveEntries
<1>2. RecoveryQueued'
  BY DEF RecoveryQueued, recoveryVars, Running
<1> QED
  BY <1>1, <1>2 DEF SafeInv

\* Only worker w moves: each promised job it does not hold afterwards is
\* one it did not hold before.
LEMMA OthersHold ==
    ASSUME QueuedOrHeld, Running, NEW w \in Workers,
           \A u \in Workers \ {w} : pc'[u] = pc[u] /\ job'[u] = job[u],
           \A j \in Jobs : Promised(j)' =>
              \/ HeldBy(j, w)'
              \/ /\ Promised(j) /\ ~ HeldBy(j, w)
                 /\ j \in Range(queue) => j \in Range(queue')
    PROVE  QueuedOrHeld'
<1> SUFFICES ASSUME NEW j \in Jobs, Promised(j)', j \notin Range(queue'), ~ HeldBy(j, w)'
             PROVE  \E u \in Workers : HeldBy(j, u)'
  BY DEF QueuedOrHeld
<1>1. Promised(j) /\ ~ HeldBy(j, w) /\ j \notin Range(queue)
  OBVIOUS
<1>2. PICK u \in Workers : HeldBy(j, u)
  BY <1>1 DEF QueuedOrHeld
<1> QED
  BY <1>1, <1>2 DEF HeldBy

LEMMA NoFault == ASSUME TypeInv, MaxFaults = 0 PROVE ~ Fault
  BY DEF TypeInv, TypeOK, Fault

LEMMA GoesOn ==
    ASSUME TypeInv, MaxFaults = 0, NEW w \in Workers, NEW next, GoTo(w, next)
    PROVE  pc'[w] = next /\ \A u \in Workers \ {w} : pc'[u] = pc[u]
  BY NoFault DEF GoTo, TypeInv, TypeOK

\* A worker that is not stopped belongs to a running process, which only a
\* step of the process itself ends.
LEMMA WorkerRuns ==
    ASSUME WorkersInPhase, NEW w \in Workers, pc[w] # "stopped", WorkerOnly
    PROVE  /\ Running /\ Running' /\ phase # "recovering"
           /\ UNCHANGED recoveryVars /\ submit' = submit
  BY DEF WorkersInPhase, Running, WorkerOnly, submitVars

LEMMA WorkersStay ==
    ASSUME WorkersInPhase, Running', NEW w \in Workers, pc'[w] # "cleanup",
           \A u \in Workers \ {w} : pc'[u] = pc[u]
    PROVE  WorkersInPhase'
  BY DEF WorkersInPhase

(***************************************************************************)
(* The steps of a worker                                                   *)
(***************************************************************************)
LEMMA ClaimSafe ==
    ASSUME TypeInv, TypeInv', SafeInv, MaxFaults = 0,
           NEW w \in Workers, NEW j \in Jobs, Claim(w, j)
    PROVE  SafeInv'
<1>1. /\ pc[w] = "claim" /\ pc'[w] = "lookup"
      /\ \A u \in Workers \ {w} : pc'[u] = pc[u]
  BY GoesOn DEF Claim
<1>2. job'[w] = j /\ \A u \in Workers \ {w} : job'[u] = job[u]
  BY <1>1 DEF Claim, TypeInv, TypeOK
<1>3. /\ queue \in Seq(Jobs) /\ processing \in Seq(Jobs) /\ queue # <<>>
      /\ j = queue[Len(queue)]
      /\ queue' = SubSeq(queue, 1, Len(queue) - 1)
      /\ processing' = <<j>> \o processing
  BY DEF Claim, Dequeue, TypeInv, TypeOK, QueueTypeOK
<1>4. Range(queue) = Range(queue') \cup {j}
  BY <1>3, RangeFrontLast
<1>5. /\ Running /\ Running' /\ phase # "recovering"
      /\ UNCHANGED recoveryVars /\ submit' = submit /\ store' = store
  BY <1>1, WorkerRuns DEF Claim, SafeInv, storeVars
<1>6. QueuedOrHeld'
  <2>1. HeldBy(j, w)' /\ \A i \in Jobs : ~ HeldBy(i, w)
    BY <1>1, <1>2 DEF HeldBy, Active, Holding, WorkerPc
  <2>2. \A i \in Jobs : Promised(i)' => Promised(i)
    BY <1>5 DEF Promised
  <2> QED
    BY <1>1, <1>2, <1>4, <1>5, <2>1, <2>2, OthersHold DEF SafeInv
<1>7. HoldersHaveEntries'
  <2>1. w \notin Holders /\ Holders' = Holders \cup {w}
    BY <1>1 DEF Holders, Holding, WorkerPc
  <2>2. Holders \subseteq Workers
    BY DEF Holders
  <2>3. Covers(Holders, processing, job)
    BY DEF SafeInv, HoldersHaveEntries
  <2>4. Covers(Holders \cup {w}, <<j>> \o processing, job')
    BY <1>2, <1>3, <2>1, <2>2, <2>3, CoversPrepend
  <2> QED
    BY <1>3, <2>1, <2>4 DEF HoldersHaveEntries
<1>8. WorkersInPhase'
  BY <1>1, <1>5, WorkersStay DEF SafeInv
<1> QED
  BY <1>5, <1>6, <1>7, <1>8, RunningSafe DEF SafeInv

\* Steps that leave the lists alone: the worker keeps the job it holds, or
\* stops holding it because its record is final or gone.
LEMMA KeepsItsEntry ==
    ASSUME TypeInv, TypeInv', SafeInv, NEW w \in Workers, pc[w] # "stopped", WorkerOnly,
           UNCHANGED queueVars, pc'[w] # "cleanup",
           \A u \in Workers \ {w} : pc'[u] = pc[u] /\ job'[u] = job[u],
           pc'[w] \in Holding => pc[w] \in Holding /\ job'[w] = job[w],
           \A i \in Jobs \ {job[w]} : store'[i] \in Pending => store[i] \in Pending,
           pc[w] \in Active =>
              pc'[w] \in Active \/ store'[job[w]] \notin Pending,
           pc'[w] \in Active \/ store'[job[w]] \notin Pending \/ store' = store
    PROVE  SafeInv'
<1>1. /\ Running /\ Running' /\ phase # "recovering"
      /\ UNCHANGED recoveryVars /\ submit' = submit
      /\ queue' = queue /\ processing' = processing
  BY WorkerRuns DEF SafeInv, queueVars
<1>2. \A i \in Jobs : Promised(i)' =>
         HeldBy(i, w)' \/ (Promised(i) /\ ~ HeldBy(i, w))
  <2> SUFFICES ASSUME NEW i \in Jobs, submit'[i] = "accepted", store'[i] \in Pending,
                      ~ HeldBy(i, w)'
               PROVE  Promised(i) /\ ~ HeldBy(i, w)
    BY DEF Promised
  <2>1. CASE i # job[w]
    BY <1>1, <2>1 DEF Promised, HeldBy
  <2>2. CASE i = job[w]
    <3>1. Active \subseteq Holding
      BY DEF Active
    <3>2. pc'[w] \notin Active
      BY <2>2, <3>1 DEF HeldBy
    <3> QED
      BY <1>1, <2>2, <3>2 DEF Promised, HeldBy
  <2> QED
    BY <2>1, <2>2
<1>3. QueuedOrHeld'
  BY <1>1, <1>2, OthersHold DEF SafeInv
<1>4. HoldersHaveEntries'
  <2>1. Holders' \subseteq Holders /\ \A u \in Holders' : job'[u] = job[u]
    BY DEF Holders
  <2> QED
    BY <1>1, <2>1, CoversFewer DEF SafeInv, HoldersHaveEntries
<1>5. WorkersInPhase'
  BY <1>1, WorkersStay DEF SafeInv
<1> QED
  BY <1>1, <1>3, <1>4, <1>5, RunningSafe DEF SafeInv

LEMMA ReadSafe ==
    ASSUME TypeInv, TypeInv', SafeInv, MaxFaults = 0,
           NEW w \in Workers, ClaimTimesOut(w) \/ Lookup(w) \/ ReadForUpdate(w) \/ Notify(w)
    PROVE  SafeInv'
<1>1. CASE ClaimTimesOut(w) \/ Notify(w)
  <2>1. /\ pc'[w] \in {"claim", "stopped"} /\ pc[w] \in {"claim", "notify"}
        /\ \A u \in Workers \ {w} : pc'[u] = pc[u]
    BY <1>1, GoesOn DEF ClaimTimesOut, Notify, LoopTop, TypeInv, TypeOK
  <2>2. /\ \A u \in Workers \ {w} : job'[u] = job[u]
        /\ WorkerOnly /\ UNCHANGED queueVars /\ store' = store
    BY <1>1 DEF ClaimTimesOut, Notify, EndTurn, TypeInv, TypeOK, storeVars
  <2>3. pc'[w] \notin Holding /\ pc[w] \notin Active
    BY <2>1 DEF Active, Holding
  <2> QED
    BY <2>1, <2>2, <2>3, KeepsItsEntry
<1>2. CASE Lookup(w) \/ ReadForUpdate(w)
  <2>1. PICK next \in {"markGet", "drop", "markSet", "saveSet", "failSet", "run", "complete"} :
           /\ GoTo(w, next)
           /\ next \in {"drop", "complete"} => ~ Exists(job[w])
    BY <1>2 DEF Lookup, ReadForUpdate
  <2>2. pc'[w] = next /\ \A u \in Workers \ {w} : pc'[u] = pc[u]
    BY <2>1, GoesOn
  <2>3. /\ pc[w] \in {"lookup", "markGet", "saveGet", "failGet"}
        /\ WorkerOnly /\ UNCHANGED queueVars /\ store' = store /\ job' = job
    BY <1>2 DEF Lookup, ReadForUpdate, storeVars
  <2>4. pc[w] \in Holding /\ (next \in Active \/ store'[job[w]] \notin Pending)
    BY <2>1, <2>3 DEF Holding, WorkerPc, Active, Exists, Absent, Pending
  <2> QED
    BY <2>2, <2>3, <2>4, KeepsItsEntry
<1> QED
  BY <1>1, <1>2

LEMMA WriteSafe ==
    ASSUME TypeInv, TypeInv', SafeInv, MaxFaults = 0,
           NEW w \in Workers, MarkRunning(w) \/ Run(w) \/ SaveResult(w)
    PROVE  SafeInv'
<1>1. /\ WorkerOnly /\ UNCHANGED queueVars /\ job' = job
      /\ pc[w] \in {"markSet", "run", "saveSet", "failSet"}
  BY DEF MarkRunning, Run, SaveResult
<1>2. pc[w] \in Holding /\ pc[w] \in Active
  BY <1>1 DEF Holding, WorkerPc, Active
<1>3. /\ pc'[w] \in {"run", "saveGet", "failGet", "complete"}
      /\ \A u \in Workers \ {w} : pc'[u] = pc[u]
      /\ pc'[w] = "complete" => SaveResult(w)
  <2>1. CASE MarkRunning(w)
    BY <2>1, GoesOn DEF MarkRunning
  <2>2. CASE Run(w)
    BY <2>2 DEF Run, TypeInv, TypeOK
  <2>3. CASE SaveResult(w)
    BY <2>3, GoesOn DEF SaveResult
  <2> QED
    BY <2>1, <2>2, <2>3
<1>4. \A i \in Jobs \ {job[w]} : store'[i] = store[i]
  BY DEF MarkRunning, Run, SaveResult, SetStatus, storeVars, TypeInv, TypeOK
<1>5. job[w] \in Jobs
  BY <1>1 DEF TypeInv, LocalsOK
<1>6. SaveResult(w) => store'[job[w]] \notin Pending
  <2>1. SaveResult(w) =>
          (IF pc[w] = "saveSet" THEN verdict[w] ELSE "SYSTEM_ERROR") \in Final
    BY VerdictsAssumption DEF SaveResult, TypeInv, LocalsOK, Final
  <2> QED
    BY <1>5, <2>1 DEF SaveResult, SetStatus, TypeInv, TypeOK, Final, Pending
<1>7. pc'[w] \in Active \/ store'[job[w]] \notin Pending
  BY <1>3, <1>6 DEF Active, Holding, WorkerPc
<1> QED
  BY <1>1, <1>2, <1>3, <1>4, <1>7, KeepsItsEntry

LEMMA CompleteSafe ==
    ASSUME TypeInv, TypeInv', SafeInv, MaxFaults = 0, NEW w \in Workers, Complete(w)
    PROVE  SafeInv'
<1>1. /\ pc[w] \in {"complete", "drop"}
      /\ pc'[w] \in {"notify", "claim", "stopped"}
      /\ \A u \in Workers \ {w} : pc'[u] = pc[u]
  <2>1. PICK next \in {"notify", "claim", "stopped"} : GoTo(w, next)
    BY DEF Complete, LoopTop
  <2>2. pc'[w] = next /\ \A u \in Workers \ {w} : pc'[u] = pc[u]
    BY <2>1, GoesOn
  <2> QED
    BY <2>2 DEF Complete, SafeInv, WorkersInPhase
<1>2. /\ Running /\ Running' /\ phase # "recovering"
      /\ UNCHANGED recoveryVars /\ submit' = submit
      /\ store' = store /\ queue' = queue
  <2>1. WorkerOnly /\ UNCHANGED storeVars /\ pc[w] # "stopped"
    BY <1>1 DEF Complete
  <2>2. queue' = queue
    BY DEF Complete, CompleteProcessing
  <2> QED
    BY <2>1, <2>2, WorkerRuns DEF SafeInv, storeVars
<1>3. \A u \in Workers \ {w} : job'[u] = job[u]
  BY DEF Complete, EndTurn, TypeInv, TypeOK
<1>4. QueuedOrHeld'
  <2>1. \A i \in Jobs : Promised(i)' => Promised(i) /\ ~ HeldBy(i, w)
    BY <1>1, <1>2 DEF Promised, HeldBy, Active
  <2> QED
    BY <1>1, <1>2, <1>3, <2>1, OthersHold DEF SafeInv
<1>5. HoldersHaveEntries'
  <2>1. w \in Holders /\ Holders' = Holders \ {w}
    BY <1>1 DEF Holders, Holding, WorkerPc
  <2>2. Covers(Holders, processing, job) /\ processing \in Seq(Jobs)
    BY DEF SafeInv, HoldersHaveEntries, TypeInv, TypeOK, QueueTypeOK
  <2>3. job[w] \in Range(processing) /\ job[w] \in Jobs
    BY <1>1, <2>1, <2>2, HeldIsListed DEF TypeInv, LocalsOK
  <2>4. PICK k \in 1 .. Len(processing) :
           processing[k] = job[w] /\ processing' = RemoveAt(processing, k)
    BY <2>2, <2>3, WithoutOneCuts DEF Complete, CompleteProcessing
  <2>5. Covers(Holders \ {w}, RemoveAt(processing, k), job)
    BY <2>1, <2>2, <2>4, CoversCut
  <2>6. Covers(Holders \ {w}, processing', job')
    <3>1. \A u \in Holders \ {w} : job'[u] = job[u]
      BY <1>3 DEF Holders
    <3> QED
      BY <2>4, <2>5, <3>1, CoversFewer
  <2> QED
    BY <2>1, <2>6 DEF HoldersHaveEntries
<1>6. WorkersInPhase'
  BY <1>1, <1>2, WorkersStay DEF SafeInv
<1> QED
  BY <1>2, <1>4, <1>5, <1>6, RunningSafe DEF SafeInv

LEMMA WorkerSafe ==
    ASSUME TypeInv, TypeInv', SafeInv, MaxFaults = 0, NEW w \in Workers, Worker(w)
    PROVE  SafeInv'
  BY ClaimSafe, ReadSafe, WriteSafe, CompleteSafe DEF Worker

(***************************************************************************)
(* The steps of the others                                                 *)
(***************************************************************************)

\* Steps outside workers, recovery and process: what becomes promised is
\* in the queue, which loses nothing.
LEMMA OutsideSafe ==
    ASSUME SafeInv, TypeInv, UNCHANGED <<phase, processing, pc, job, recoveryVars>>,
           Range(queue) \subseteq Range(queue'),
           \A j \in Jobs : Promised(j)' => Promised(j) \/ j \in Range(queue'),
           \A j \in Jobs : submit'[j] = "accepted" =>
              submit[j] = "accepted" \/ j \in Range(queue')
    PROVE  SafeInv'
<1>1. NoJobLost'
  BY DEF SafeInv, NoJobLost, Waits, Promised
<1>2. QueuedOrHeld'
  BY DEF SafeInv, QueuedOrHeld, Running, HeldBy
<1>3. HoldersHaveEntries'
  <2>1. Holders' = Holders /\ processing' = processing /\ job' = job
    BY DEF Holders
  <2> QED
    BY <2>1 DEF SafeInv, HoldersHaveEntries
<1>4. WorkersInPhase'
  BY DEF SafeInv, WorkersInPhase, Running
<1>5. RecoveryQueued'
  <2>1. recTodo \subseteq Jobs /\ (recPc = "set" => recJob \in Jobs)
    BY DEF TypeInv, TypeOK, LocalsOK
  <2> QED
    BY <2>1 DEF SafeInv, RecoveryQueued, recoveryVars
<1> QED
  BY <1>1, <1>2, <1>3, <1>4, <1>5 DEF SafeInv

LEMMA SubmitSafe ==
    ASSUME TypeInv, SafeInv, MaxFaults = 0, NEW j \in Jobs,
           CreateJob(j) \/ IndexJob(j) \/ EnqueueJob(j) \/ SubmitFails(j)
    PROVE  SafeInv'
<1>1. CASE CreateJob(j) \/ IndexJob(j)
  <2>1. /\ UNCHANGED <<phase, processing, pc, job, recoveryVars>> /\ queue' = queue
        /\ \A i \in Jobs \ {j} : store'[i] = store[i] /\ submit'[i] = submit[i]
        /\ submit'[j] # "accepted"
    BY <1>1 DEF CreateJob, IndexJob, SetStatus, TypeInv, TypeOK, queueVars, storeVars, workerVars
  <2> QED
    BY <2>1, OutsideSafe DEF Promised
<1>2. CASE EnqueueJob(j)
  <2>1. /\ UNCHANGED <<phase, processing, pc, job, recoveryVars>>
        /\ queue' = <<j>> \o queue /\ store' = store
        /\ \A i \in Jobs \ {j} : submit'[i] = submit[i]
    BY <1>2 DEF EnqueueJob, Enqueue, TypeInv, TypeOK, storeVars, workerVars
  <2>2. Range(queue') = {j} \cup Range(queue)
    BY <2>1, RangePrepend DEF TypeInv, TypeOK, QueueTypeOK
  <2> QED
    BY <2>1, <2>2, OutsideSafe DEF Promised
<1>3. ~ SubmitFails(j)
  BY NoFault DEF SubmitFails
<1> QED
  BY <1>1, <1>2, <1>3

LEMMA SweepSafe ==
    ASSUME TypeInv, SafeInv, MaxFaults = 0,
           Sweep \/ SweepFails \/ (\E j \in Jobs : Age(j) \/ Expire(j))
    PROVE  SafeInv'
<1>1. /\ UNCHANGED <<phase, processing, pc, job, recoveryVars>>
      /\ queue' = queue /\ submit' = submit
  BY DEF Sweep, SweepScan, SweepGet, SweepSet, SweepFails, Age, Expire, SweepOnly,
     queueVars, workerVars, submitVars
<1>2. \A j \in Jobs : store'[j] \in Pending => store[j] \in Pending
  <2>1. CASE SweepSet
    BY <2>1 DEF SweepSet, SetStatus, SweepStatus, Pending, TypeInv, TypeOK
  <2>2. ASSUME NEW j \in Jobs, Expire(j)
        PROVE  \A i \in Jobs : store'[i] \in Pending => store[i] \in Pending
    BY <2>2 DEF Expire, SetStatus, Absent, Pending, TypeInv, TypeOK
  <2>3. CASE SweepScan \/ SweepFails \/ \E j \in Jobs : SweepGet(j) \/ Age(j)
    BY <2>3 DEF SweepScan, SweepFails, SweepGet, Age, storeVars
  <2> QED
    BY <2>1, <2>2, <2>3 DEF Sweep
<1> QED
  BY <1>1, <1>2, OutsideSafe DEF Promised

\* In the absence of workers only the lists and the recovery matter.
LEMMA NoHolders ==
    ASSUME TypeInv', \A w \in Workers : pc'[w] \in {"stopped", "claim"}
    PROVE  HoldersHaveEntries'
<1>1. Holders' = {}
  BY DEF Holders, Holding
<1>2. Injection({}, DOMAIN processing') # {}
  <2>1. [u \in {} |-> u] \in Injection({}, DOMAIN processing')
    BY DEF Injection, IsInjective
  <2> QED
    BY <2>1
<1> QED
  BY <1>1, <1>2 DEF HoldersHaveEntries, Covers

LEMMA RecoverySafe ==
    ASSUME TypeInv, TypeInv', SafeInv, MaxFaults = 0, Recovery
    PROVE  SafeInv'
<1>1. phase = "recovering" /\ ~ Running
  BY DEF Recovery, Requeue, ScanRunning, RecoverGet, RecoverSet, RecoverPush, StartWorkers,
     Running
<1>2. \A w \in Workers : pc[w] = "stopped"
  BY <1>1 DEF SafeInv, WorkersInPhase
<1>3. CASE StartWorkers
  <2>1. /\ recPc = "update" /\ phase' = "up"
        /\ pc' = [w \in Workers |-> "claim"] /\ recPc' = "requeue" /\ recTodo' = {}
        /\ queue' = queue /\ processing' = processing /\ store' = store /\ submit' = submit
    BY <1>3, NoFault DEF StartWorkers, queueVars, storeVars, submitVars
  <2>2. processing = <<>>
    BY <2>1 DEF SafeInv, RecoveryQueued
  <2>3. Range(processing) = {}
    BY <2>2 DEF Range
  <2>4. NoJobLost'
    BY <2>1 DEF SafeInv, NoJobLost, Waits
  <2>5. QueuedOrHeld'
    BY <2>1, <2>3 DEF SafeInv, NoJobLost, Waits, QueuedOrHeld, Promised
  <2>6. HoldersHaveEntries'
    BY <2>1, NoHolders
  <2>7. WorkersInPhase' /\ RecoveryQueued'
    BY <2>1 DEF WorkersInPhase, RecoveryQueued, Running
  <2> QED
    BY <2>4, <2>5, <2>6, <2>7 DEF SafeInv
<1>4. CASE ~ StartWorkers
  <2>1. RecoveryOnly /\ phase' = phase
    BY <1>4 DEF Recovery, Requeue, ScanRunning, RecoverGet, RecoverSet, RecoverPush
  <2>2. QueuedOrHeld' /\ WorkersInPhase' /\ HoldersHaveEntries'
    BY <1>1, <1>2, <2>1, NoHolders
    DEF QueuedOrHeld, WorkersInPhase, Running, RecoveryOnly, workerVars
  <2>3. submit' = submit
    BY <2>1 DEF RecoveryOnly, submitVars
  <2>4. SUFFICES NoJobLost' /\ RecoveryQueued'
    BY <2>2 DEF SafeInv
  <2>5. ASSUME NEW j \in Jobs, Requeue(j)
        PROVE  NoJobLost' /\ RecoveryQueued'
    <3>1. /\ queue \in Seq(Jobs) /\ processing \in Seq(Jobs) /\ processing # <<>>
          /\ queue' = Append(queue, Head(processing)) /\ processing' = Tail(processing)
          /\ store' = store /\ recPc = "requeue" /\ UNCHANGED <<recPc, recTodo, recJob>>
      BY <2>5 DEF Requeue, RequeueOne, TypeInv, TypeOK, QueueTypeOK, storeVars
    <3>2. /\ Range(processing) = {Head(processing)} \cup Range(processing')
          /\ Range(queue') = Range(queue) \cup {Head(processing)}
      BY <3>1, RangeHeadTail
    <3>3. NoJobLost'
      BY <2>3, <3>1, <3>2 DEF SafeInv, NoJobLost, Waits
    <3>4. RecoveryQueued'
      BY <1>1, <2>1, <2>3, <3>1, <3>2 DEF SafeInv, RecoveryQueued
    <3> QED
      BY <3>3, <3>4
  <2>6. CASE ScanRunning
    <3>1. /\ UNCHANGED <<queue, processing, store>> /\ processing = <<>>
          /\ recTodo' = ToRecover(Jobs) /\ recPc' = "update"
      BY <2>6 DEF ScanRunning, queueVars, storeVars
    <3>2. Range(processing) = {}
      BY <3>1 DEF Range
    <3>3. \A j \in recTodo' : submit[j] = "accepted" => j \in Range(queue)
      BY <3>1, <3>2 DEF ToRecover, SafeInv, NoJobLost, Waits, Pending
    <3> QED
      BY <1>1, <2>1, <2>3, <3>1, <3>3 DEF SafeInv, NoJobLost, Waits, RecoveryQueued
  <2>7. ASSUME NEW j \in Jobs, RecoverGet(j)
        PROVE  NoJobLost' /\ RecoveryQueued'
    <3>1. /\ UNCHANGED <<queue, processing, store>> /\ recPc # "requeue"
          /\ j \in recTodo /\ recTodo' \subseteq recTodo /\ recJob' = j
      BY <2>7 DEF RecoverGet, queueVars, storeVars
    <3> QED
      BY <1>1, <2>1, <2>3, <3>1 DEF SafeInv, NoJobLost, Waits, RecoveryQueued
  <2>8. CASE RecoverSet
    <3>1. /\ UNCHANGED <<queue, processing, recTodo, recJob>>
          /\ recPc = "set" /\ recPc' = "push"
          /\ \A i \in Jobs \ {recJob} : store'[i] = store[i]
      BY <2>8 DEF RecoverSet, SetStatus, queueVars, TypeInv, TypeOK
    <3> QED
      BY <1>1, <2>1, <2>3, <3>1 DEF SafeInv, NoJobLost, Waits, RecoveryQueued
  <2>9. CASE RecoverPush
    <3>1. /\ UNCHANGED <<processing, store, recTodo, recJob>>
          /\ recPc = "push" /\ recPc' = "update" /\ recJob \in Jobs
          /\ queue \in Seq(Jobs) /\ queue' = <<recJob>> \o queue
      BY <2>9 DEF RecoverPush, Enqueue, storeVars, TypeInv, TypeOK, QueueTypeOK, LocalsOK
    <3>2. Range(queue') = {recJob} \cup Range(queue)
      BY <3>1, RangePrepend
    <3> QED
      BY <1>1, <2>1, <2>3, <3>1, <3>2 DEF SafeInv, NoJobLost, Waits, RecoveryQueued
  <2> QED
    BY <1>4, <2>5, <2>6, <2>7, <2>8, <2>9 DEF Recovery
<1> QED
  BY <1>3, <1>4

LEMMA ProcessSafe ==
    ASSUME TypeInv, TypeInv', SafeInv, Boot \/ Stop \/ Crash \/ Exit \/ ForcedExit
    PROVE  SafeInv'
<1>1. CASE Stop
  <2>1. /\ Running /\ Running' /\ phase # "recovering"
        /\ UNCHANGED <<queue, processing, store, submit, pc, job, recoveryVars>>
    BY <1>1 DEF Stop, Running, queueVars, storeVars, submitVars, workerVars
  <2>2. Holders' = Holders
    BY <2>1 DEF Holders
  <2> QED
    BY <2>1, <2>2, RunningSafe DEF SafeInv, QueuedOrHeld, Promised, HeldBy,
       HoldersHaveEntries, WorkersInPhase
<1>2. CASE Boot
  <2>1. /\ ~ Running /\ ~ Running' /\ phase = "down"
        /\ UNCHANGED <<queue, processing, store, submit, pc, job, recPc, recTodo>>
    BY <1>2 DEF Boot, Running, queueVars, storeVars, submitVars, workerVars, recoveryVars
  <2>2. WorkersInPhase' /\ HoldersHaveEntries'
    BY <2>1, NoHolders DEF SafeInv, WorkersInPhase
  <2>3. NoJobLost' /\ QueuedOrHeld' /\ RecoveryQueued'
    BY <2>1 DEF SafeInv, NoJobLost, Waits, QueuedOrHeld, RecoveryQueued
  <2> QED
    BY <2>2, <2>3 DEF SafeInv
<1>3. CASE Crash \/ Exit \/ ForcedExit
  <2>1. /\ phase' = "down" /\ ~ Running'
        /\ pc' = [w \in Workers |-> "stopped"]
        /\ recPc' = "requeue" /\ recTodo' = {}
        /\ UNCHANGED <<queue, processing, store>>
        /\ \A j \in Jobs : submit'[j] = "accepted" => submit[j] = "accepted"
    BY <1>3 DEF Crash, Exit, ForcedExit, Die, Running, queueVars, storeVars, TypeInv, TypeOK
  <2>2. NoJobLost'
    BY <2>1 DEF SafeInv, NoJobLost, Waits
  <2>3. QueuedOrHeld' /\ WorkersInPhase' /\ RecoveryQueued'
    BY <2>1 DEF QueuedOrHeld, WorkersInPhase, RecoveryQueued
  <2>4. HoldersHaveEntries'
    BY <2>1, NoHolders
  <2> QED
    BY <2>2, <2>3, <2>4 DEF SafeInv
<1> QED
  BY <1>1, <1>2, <1>3

(***************************************************************************)
(* The invariant                                                           *)
(***************************************************************************)
LEMMA InitSafe ==
    ASSUME Init
    PROVE  SafeInv
<1>1. NoJobLost /\ QueuedOrHeld /\ WorkersInPhase /\ RecoveryQueued
  BY DEF Init, NoJobLost, QueuedOrHeld, WorkersInPhase, RecoveryQueued, Running
<1>2. Holders = {} /\ processing = <<>>
  BY DEF Init, QueueInit, Holders, Holding
<1>3. [u \in {} |-> u] \in Injection({}, DOMAIN processing)
  BY DEF Injection, IsInjective
<1>4. HoldersHaveEntries
  BY <1>2, <1>3 DEF HoldersHaveEntries, Covers
<1> QED
  BY <1>1, <1>4 DEF SafeInv

LEMMA NextSafe ==
    ASSUME MaxFaults = 0, TypeInv, SafeInv, [Next]_vars
    PROVE  SafeInv'
<1>1. TypeInv'
  BY NextType
<1>2. CASE UNCHANGED vars
  <2>1. /\ UNCHANGED <<phase, processing, pc, job, recoveryVars>>
        /\ queue' = queue /\ submit' = submit /\ store' = store
    BY <1>2 DEF vars, queueVars, storeVars, submitVars, workerVars
  <2> QED
    BY <2>1, OutsideSafe DEF Promised
<1>3. CASE Next
  <2>1. \A w \in Workers : ~ CommandFails(w)
    BY NoFault DEF CommandFails
  <2> QED
    BY <1>1, <1>3, <2>1, SubmitSafe, WorkerSafe, RecoverySafe, SweepSafe, ProcessSafe DEF Next
<1> QED
  BY <1>2, <1>3

(***************************************************************************)
(* jobQueue.ts:9-12: as long as no Redis command fails, crashes, restarts, *)
(* recoveries, sweeps and expiring records in any number and order lose    *)
(* no job the client was promised.                                         *)
(***************************************************************************)
THEOREM PromisedJobsAreKept ==
    ASSUME MaxFaults = 0
    PROVE  Spec => []NoJobLost
<1>1. SafeInv => NoJobLost
  BY DEF SafeInv
<1>2. TypeInv /\ SafeInv /\ [Next]_vars => SafeInv'
  BY NextSafe
<1>3. Init => SafeInv
  BY InitSafe
<1> QED
  BY <1>1, <1>2, <1>3, LocalsCorrect, PTL DEF Spec

(***************************************************************************)
(* jobQueue.ts:6-12: as long as no Redis command fails, each worker at     *)
(* work has an entry of its own in jobs:processing, also when a job was    *)
(* queued twice and two workers run it: what a crash interrupts, the next  *)
(* startup finds.                                                          *)
(***************************************************************************)
THEOREM WorkersAreCovered ==
    ASSUME MaxFaults = 0
    PROVE  Spec => []HoldersCovered
<1>1. SafeInv => HoldersCovered
  BY DEF SafeInv, HoldersHaveEntries, Covers, HoldersCovered
<1>2. TypeInv /\ SafeInv /\ [Next]_vars => SafeInv'
  BY NextSafe
<1>3. Init => SafeInv
  BY InitSafe
<1> QED
  BY <1>1, <1>2, <1>3, LocalsCorrect, PTL DEF Spec

(***************************************************************************)
(* Settled jobs                                                            *)
(***************************************************************************)

\* What the recovery is about to push is in the queue already, if it was
\* promised.
PushInv == recPc \in {"set", "push"} /\ submit[recJob] = "accepted" => recJob \in Range(queue)

\* Before the workers run no id leaves the lists.
LEMMA PushStep ==
    ASSUME MaxFaults = 0, TypeInv, SafeInv, PushInv, [Next]_vars
    PROVE  PushInv'
<1> SUFFICES ASSUME recPc' \in {"set", "push"}, submit'[recJob'] = "accepted"
             PROVE  recJob' \in Range(queue')
  BY DEF PushInv
<1>1. /\ \A w \in Workers : phase = "recovering" => pc[w] = "stopped"
      /\ phase # "recovering" => recPc = "requeue"
      /\ \A j \in recTodo : submit[j] = "accepted" => j \in Range(queue)
  BY DEF SafeInv, WorkersInPhase, RecoveryQueued, Running
<1>2. CASE UNCHANGED <<recPc, recJob>>
  <2>1. phase = "recovering" /\ recJob \in Jobs
    BY <1>1, <1>2 DEF TypeInv, LocalsOK
  <2>2. ASSUME NEW j \in Jobs, CreateJob(j) \/ IndexJob(j) \/ SubmitFails(j) \/ Age(j) \/ Expire(j)
        PROVE  queue' = queue /\ submit[recJob] = "accepted"
    BY <1>2, <2>1, <2>2 DEF CreateJob, IndexJob, SubmitFails, Age, Expire, SweepOnly, submitVars,
       queueVars, TypeInv, TypeOK
  <2>3. ASSUME NEW j \in Jobs, EnqueueJob(j) PROVE recJob' \in Range(queue')
    <3>1. Range(queue') = Range(queue) \cup {j}
      BY <2>3, IdsAfter DEF EnqueueJob, TypeInv, TypeOK
    <3>2. recJob = j \/ submit'[recJob] = submit[recJob]
      BY <2>1, <2>3 DEF EnqueueJob, TypeInv, TypeOK
    <3> QED BY <1>2, <3>1, <3>2 DEF PushInv
  <2>4. \A w \in Workers : ~Worker(w) /\ ~CommandFails(w)
    BY <1>1, <2>1 DEF Worker, CommandFails, Claim, ClaimTimesOut, Lookup, ReadForUpdate,
       MarkRunning, Run, SaveResult, Complete, Notify
  <2>5. ~(ScanRunning \/ RecoverSet \/ RecoverPush \/ StartWorkers)
        /\ \A j \in Jobs : ~Requeue(j)
    BY <1>2 DEF ScanRunning, RecoverSet, RecoverPush, StartWorkers, Requeue
  <2>6. ASSUME NEW j \in Jobs, RecoverGet(j) PROVE FALSE
    BY <1>2, <2>6 DEF RecoverGet
  <2>7. CASE Sweep \/ SweepFails
    <3>1. UNCHANGED <<submit, queue>>
      BY <2>7 DEF Sweep, SweepScan, SweepGet, SweepSet, SweepFails, SweepOnly, submitVars, queueVars
    <3> QED BY <1>2, <3>1 DEF PushInv
  <2>8. CASE Boot \/ Stop \/ UNCHANGED vars
    BY <1>2, <2>8 DEF Boot, Stop, vars, submitVars, queueVars, PushInv
  <2>9. ~(Crash \/ Exit \/ ForcedExit)
    BY DEF Crash, Exit, ForcedExit, Die
  <2> QED BY <1>2, <2>2, <2>3, <2>4, <2>5, <2>6, <2>7, <2>8, <2>9 DEF Next, Recovery, PushInv
<1>3. ASSUME NEW j \in Jobs, RecoverGet(j) PROVE recJob' \in Range(queue')
  BY <1>1, <1>3 DEF RecoverGet, RecoveryOnly, submitVars, queueVars
<1>4. CASE RecoverSet
  BY <1>4 DEF RecoverSet, RecoveryOnly, submitVars, queueVars, PushInv
<1>5. ~(ScanRunning \/ RecoverPush \/ StartWorkers) /\ \A j \in Jobs : ~Requeue(j)
  BY DEF ScanRunning, RecoverPush, StartWorkers, Requeue
<1>6. CASE ~UNCHANGED <<recPc, recJob>> /\ ~Recovery
  <2>1. Next
    BY <1>6 DEF vars, recoveryVars
  <2>2. \A j \in Jobs : ~(CreateJob(j) \/ IndexJob(j) \/ EnqueueJob(j) \/ SubmitFails(j)
                          \/ Age(j) \/ Expire(j))
    BY <1>6 DEF CreateJob, IndexJob, EnqueueJob, SubmitFails, Age, Expire, SweepOnly, recoveryVars
  <2>3. \A w \in Workers : ~Worker(w) /\ ~CommandFails(w)
    BY <1>6 DEF Worker, CommandFails, Claim, ClaimTimesOut, Lookup, ReadForUpdate,
       MarkRunning, Run, SaveResult, Complete, Notify, WorkerOnly, recoveryVars
  <2>4. ~(Sweep \/ SweepFails \/ Boot \/ Stop)
    BY <1>6 DEF Sweep, SweepScan, SweepGet, SweepSet, SweepFails, SweepOnly, Boot, Stop,
       recoveryVars
  <2>5. ~(Crash \/ Exit \/ ForcedExit)
    BY DEF Crash, Exit, ForcedExit, Die
  <2> QED BY <1>6, <2>1, <2>2, <2>3, <2>4, <2>5 DEF Next
<1> QED BY <1>2, <1>3, <1>4, <1>5, <1>6 DEF Recovery

LEMMA SettledStays ==
    ASSUME MaxFaults = 0, TypeInv, SafeInv, PushInv, [Next]_vars,
           NEW j \in Jobs, Settled(j)
    PROVE  Settled(j)'
<1>1. submit[j] = "accepted" /\ store[j] \notin Pending /\ ~Waits(j)
  BY DEF Settled
<1>2. submit'[j] = "accepted"
  <2>1. CASE UNCHANGED submit
    BY <1>1, <2>1
  <2>2. ASSUME NEW i \in Jobs,
               CreateJob(i) \/ IndexJob(i) \/ EnqueueJob(i) \/ SubmitFails(i)
        PROVE  submit'[j] = "accepted"
    <3>1. i # j
      BY <1>1, <2>2 DEF CreateJob, IndexJob, EnqueueJob, SubmitFails
    <3> QED BY <1>1, <2>2, <3>1 DEF CreateJob, IndexJob, EnqueueJob, SubmitFails, TypeInv, TypeOK
  <2>3. CASE Crash \/ Exit \/ ForcedExit
    BY <1>1, <2>3 DEF Crash, Exit, ForcedExit, Die
  <2>4. ASSUME NEW i \in Jobs, Age(i) \/ Expire(i) PROVE UNCHANGED submit
    BY <2>4 DEF Age, Expire, SweepOnly, submitVars
  <2>5. ASSUME NEW w \in Workers, Worker(w) \/ CommandFails(w) PROVE UNCHANGED submit
    BY <2>5 DEF Worker, CommandFails, Claim, ClaimTimesOut, Lookup, ReadForUpdate,
       MarkRunning, Run, SaveResult, Complete, Notify, WorkerOnly
  <2>6. ASSUME Recovery PROVE UNCHANGED submit
    BY <2>6 DEF Recovery, Requeue, ScanRunning, RecoverGet, RecoverSet, RecoverPush, StartWorkers,
       RecoveryOnly, submitVars
  <2>7. ASSUME Sweep \/ SweepFails \/ Boot \/ Stop \/ UNCHANGED vars PROVE UNCHANGED submit
    BY <2>7 DEF Sweep, SweepScan, SweepGet, SweepSet, SweepFails, SweepOnly, Boot, Stop, vars,
       submitVars
  <2> QED BY <2>1, <2>2, <2>3, <2>4, <2>5, <2>6, <2>7 DEF Next
<1>3. ~Waits(j)'
  <2>1. ~EnqueueJob(j)
    BY <1>1 DEF EnqueueJob
  <2>2. ~(RecoverPush /\ recJob = j)
    BY <1>1 DEF RecoverPush, PushInv, Waits
  <2> QED BY <1>1, <2>1, <2>2, WaitsSteps
<1>4. store'[j] \notin Pending
  <2>1. ~CreateJob(j)
    BY <1>1 DEF CreateJob
  <2>2. ~(RecoverSet /\ recJob = j)
    BY <1>1 DEF RecoverSet, PushInv, Waits
  <2>3. ASSUME NEW w \in Workers, MarkRunning(w), job[w] = j PROVE FALSE
    <3>1. w \in Holders
      BY <2>3 DEF MarkRunning, Holders, Holding, WorkerPc
    <3> QED BY <1>1, <2>3, <3>1, HeldIsListed DEF SafeInv, HoldersHaveEntries, Waits
  <2>4. Absent \notin Pending /\ SweepStatus \notin Pending /\ Final \cap Pending = {}
    BY DEF Absent, SweepStatus, Pending, Final
  <2> QED BY <1>1, <2>1, <2>2, <2>3, <2>4, StoreSteps
<1> QED BY <1>2, <1>3, <1>4 DEF Settled

(***************************************************************************)
(* As long as no Redis command fails, a job that is finished and off both  *)
(* lists stays so: no worker, restart, recovery or sweep queues it again   *)
(* or reopens its record (jobRecovery.ts:65-70).                           *)
(***************************************************************************)
THEOREM SettledJobsStaySettled ==
    ASSUME MaxFaults = 0
    PROVE  Spec => SettledStaysSettled
<1>1. TypeInv /\ SafeInv /\ PushInv /\ [Next]_vars =>
         [\A j \in Jobs : Settled(j) => Settled(j)']_vars
  BY SettledStays
<1>2. TypeInv /\ SafeInv /\ [Next]_vars => SafeInv'
  BY NextSafe
<1>3. TypeInv /\ SafeInv /\ PushInv /\ [Next]_vars => PushInv'
  BY PushStep
<1>4. Init => SafeInv /\ PushInv
  BY InitSafe DEF Init, PushInv
<1> QED
  BY <1>1, <1>2, <1>3, <1>4, LocalsCorrect, PTL DEF Spec, SettledStaysSettled
=============================================================================
