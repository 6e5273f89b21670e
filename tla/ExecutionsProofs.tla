-------------------------- MODULE ExecutionsProofs --------------------------
(***************************************************************************)
(* What runs guarantee for any number of jobs and inputs, however the      *)
(* events of their clients, containers and timers interleave, while the    *)
(* event loop is held up by one docker kill or another.                    *)
(***************************************************************************)
EXTENDS Executions, SequenceTheorems, FiniteSetTheorems, NaturalsInduction,
        WellFoundedInduction, TLAPS

Places == Busy \cup Over \cup {"new", "queued", "returned", "threw"}

\* Input n of j has not been started.
Fresh(j, n) == client[j][n] = "none" /\ box[j][n] = "none" /\ exit[j][n] = "none"

\* Inputs are run in their order, one at a time, and the timer is that of
\* the one that runs.
Progress(j) ==
    /\ Len(results[j]) <= InputCount[j]
    /\ at[j] \in {"new", "queued", "compile"} => results[j] = <<>>
    /\ at[j] \in {"spawn", "run"} => Len(results[j]) < InputCount[j]
    /\ at[j] \in {"new", "queued", "compile", "spawn"} =>
          \A n \in Inputs : n >= Now(j) => Fresh(j, n)
    /\ at[j] = "run" => \A n \in Inputs : n > Now(j) => Fresh(j, n)
    /\ timer[j] = "off" <=> at[j] # "run"
    /\ at[j] \in Busy \cup {"new", "queued"} => status[j] = "none"

\* The input that runs has been started, nobody has killed its program, and
\* its client outlives its container.
Running(j) ==
    at[j] = "run" =>
        /\ client[j][Now(j)] \in {"up", "exited"} /\ box[j][Now(j)] # "none"
        /\ exit[j][Now(j)] # "killed"
        /\ client[j][Now(j)] = "exited" => box[j][Now(j)] = "gone"

\* A container is gone when its program has ended.
Boxes(j) == \A n \in Inputs : exit[j][n] = "none" <=> box[j][n] # "gone"

\* Verdicts of one job.
Earned(j) ==
    /\ status[j] = "ACCEPTED" => \A n \in 1..InputCount[j] : exit[j][n] = "zero"
    /\ \A n \in 1..Len(results[j]) :
          /\ results[j][n] = "ACCEPTED" => exit[j][n] = "zero"
          /\ results[j][n] \in {"RUNTIME_ERROR", "COMPILE_ERROR"} =>
                exit[j][n] = "nonzero" \/ (language[j] = "java" /\ box[j][n] = "none")

\* The containers of a job are that of the running input and missed ones.
Alone(j) ==
    \A n \in Inputs : box[j][n] \in {"asked", "up"} =>
        (at[j] = "run" /\ n = Now(j)) \/ <<j, n>> \in missed

JobInv(j) == Progress(j) /\ Running(j) /\ Boxes(j) /\ Earned(j) /\ Alone(j)

\* A job is killed by its timer.
KillInv == killing # NoJob => timer[killing] = "due"

RunTypes == RunnerTypeOK /\ at \in [Jobs -> Places]

\* The inductive invariant of runs.
RunsInv == RunTypes /\ KillInv /\ \A j \in Jobs : JobInv(j)

-----------------------------------------------------------------------------
(* Inputs, sequences of results *)

LEMMA InputsTyped ==
    /\ Inputs \subseteq Nat
    /\ \A j \in Jobs : InputCount[j] \in Nat /\ InputCount[j] > 0
                       /\ 1..InputCount[j] \subseteq Inputs
<1>1. \A j \in Jobs : InputCount[j] \in 1..50
  BY InputsAssumption
<1> QED BY <1>1 DEF Inputs

\* A set of numbers that is not empty has a least one.
LEMMA LeastExists ==
    ASSUME NEW I \in SUBSET Nat, I # {}
    PROVE  \E x \in I : \A y \in I : x <= y
<1>1. PICK x \in I : \A y \in I : ~ (<<y, x>> \in OpToRel(<, Nat))
  BY WFMin, NatLessThanWellFounded, Zenon
<1>2. ASSUME NEW y \in I PROVE x <= y
  <2>1. x \in Nat /\ y \in Nat
    OBVIOUS
  <2>2. y < x => <<y, x>> \in { ss \in Nat \X Nat : ss[1] < ss[2] }
    BY <2>1
  <2>3. ~ (y < x)
    BY <2>2, <1>1, Zenon DEF OpToRel
  <2> QED BY <2>1, <2>3
<1> QED BY <1>2

\* getOverallStatus is that of some result, and ACCEPTED only if all are.
LEMMA OverallIsTrue ==
    ASSUME NEW rs \in Seq(Statuses)
    PROVE  /\ OverallStatus(rs) \in Statuses
           /\ OverallStatus(rs) = "ACCEPTED" => \A i \in 1..Len(rs) : rs[i] = "ACCEPTED"
<1> DEFINE bad == { i \in DOMAIN rs : rs[i] # "ACCEPTED" }
           first == CHOOSE i \in bad : \A k \in bad : i <= k
<1>1. CASE bad = {}
  BY <1>1 DEF OverallStatus, Statuses
<1>2. CASE bad # {}
  <2>1. bad \in SUBSET Nat /\ bad # {}
    BY <1>2
  <2>2. \E i \in bad : \A k \in bad : i <= k
    BY <2>1, LeastExists
  <2>3. first \in bad
    BY <2>2
  <2>4. first \in 1..Len(rs) /\ rs[first] # "ACCEPTED" /\ rs[first] \in Statuses
    BY <2>3
  <2>5. OverallStatus(rs) = rs[first]
    BY <1>2 DEF OverallStatus
  <2> QED BY <2>4, <2>5
<1> QED BY <1>1, <1>2

\* What the arrival of a result does to its job.
LEMMA TakeFacts ==
    ASSUME RunTypes, NEW j \in Jobs, NEW s \in Statuses, Take(j, s),
           Len(results[j]) < InputCount[j]
    PROVE  /\ results' \in [Jobs -> Seq(Statuses)]
           /\ timer' \in [Jobs -> {"off", "set", "due"}]
           /\ status' \in [Jobs -> Statuses \cup {"none"}]
           /\ at' \in [Jobs -> Places]
           /\ Len(results[j]) \in Nat /\ Len(results'[j]) = Len(results[j]) + 1
           /\ \A n \in 1..Len(results[j]) : results'[j][n] = results[j][n]
           /\ results'[j][Now(j)] = s
           /\ timer'[j] = "off"
           /\ \/ at'[j] = "spawn" /\ Now(j) < InputCount[j] /\ status'[j] = status[j]
              \/ /\ at'[j] = "returned" /\ Now(j) = InputCount[j]
                 /\ status'[j] = "ACCEPTED" =>
                       \A n \in 1..InputCount[j] : results'[j][n] = "ACCEPTED"
           /\ \A k \in Jobs \ {j} : /\ at'[k] = at[k] /\ results'[k] = results[k]
                                     /\ status'[k] = status[k] /\ timer'[k] = timer[k]
<1> DEFINE rs == Append(results[j], s)
<1>1. results[j] \in Seq(Statuses) /\ InputCount[j] \in Nat
  BY InputsTyped DEF RunTypes, RunnerTypeOK
<1>2. /\ rs \in Seq(Statuses) /\ Len(results[j]) \in Nat /\ Len(rs) = Len(results[j]) + 1
      /\ rs[Len(results[j]) + 1] = s
      /\ \A n \in 1..Len(results[j]) : rs[n] = results[j][n]
  BY <1>1, AppendProperties, LenProperties
<1>3. /\ OverallStatus(rs) \in Statuses
      /\ OverallStatus(rs) = "ACCEPTED" => \A i \in 1..Len(rs) : rs[i] = "ACCEPTED"
  BY <1>2, OverallIsTrue
<1>4. /\ results' = [results EXCEPT ![j] = rs]
      /\ timer' = [timer EXCEPT ![j] = "off"]
      /\ \/ Len(rs) < InputCount[j] /\ at' = [at EXCEPT ![j] = "spawn"] /\ status' = status
         \/ /\ ~(Len(rs) < InputCount[j]) /\ at' = [at EXCEPT ![j] = "returned"]
            /\ status' = [status EXCEPT ![j] = OverallStatus(rs)]
  BY DEF Take, Return
<1> HIDE DEF rs
<1>5. results'[j] = rs /\ results' \in [Jobs -> Seq(Statuses)]
      /\ timer'[j] = "off" /\ timer' \in [Jobs -> {"off", "set", "due"}]
      /\ \A k \in Jobs \ {j} : results'[k] = results[k] /\ timer'[k] = timer[k]
  BY <1>2, <1>4 DEF RunTypes, RunnerTypeOK
<1>6. CASE Len(rs) < InputCount[j] /\ at' = [at EXCEPT ![j] = "spawn"] /\ status' = status
  BY <1>2, <1>5, <1>6 DEF RunTypes, RunnerTypeOK, Now, Places, Busy
<1>7. CASE /\ ~(Len(rs) < InputCount[j]) /\ at' = [at EXCEPT ![j] = "returned"]
           /\ status' = [status EXCEPT ![j] = OverallStatus(rs)]
  <2>1. /\ at'[j] = "returned" /\ at' \in [Jobs -> Places]
        /\ status'[j] = OverallStatus(rs) /\ status' \in [Jobs -> Statuses \cup {"none"}]
        /\ \A k \in Jobs \ {j} : at'[k] = at[k] /\ status'[k] = status[k]
    BY <1>3, <1>7 DEF RunTypes, RunnerTypeOK, Places
  <2>2. Now(j) = InputCount[j] /\ Len(rs) = InputCount[j]
    BY <1>1, <1>2, <1>7 DEF Now
  <2> QED BY <1>2, <1>3, <1>5, <2>1, <2>2 DEF Now
<1> QED BY <1>4, <1>6, <1>7

-----------------------------------------------------------------------------
(* One job at a time *)

\* The invariant of a job only depends on its own state.
LEMMA OthersRest ==
    ASSUME NEW k \in Jobs, JobInv(k), language' = language,
           \A n \in Inputs : <<k, n>> \in missed => <<k, n>> \in missed',
           at'[k] = at[k], results'[k] = results[k], status'[k] = status[k],
           client'[k] = client[k], box'[k] = box[k], exit'[k] = exit[k],
           timer'[k] = timer[k]
    PROVE  JobInv(k)'
<1>1. Now(k)' = Now(k)
  BY DEF Now
<1>2. Progress(k)'
  BY <1>1 DEF JobInv, Progress, Fresh
<1>3. Running(k)' /\ Boxes(k)'
  BY <1>1 DEF JobInv, Running, Boxes
<1>4. Earned(k)'
  BY DEF JobInv, Earned
<1>5. Alone(k)'
  BY <1>1 DEF JobInv, Alone
<1> QED BY <1>2, <1>3, <1>4, <1>5 DEF JobInv

\* A job that is not at work on an input moves on, and nothing else.
LEMMA MoveKeeps ==
    ASSUME RunsInv, NEW j \in Jobs, RunTypes',
           UNCHANGED <<language, results, client, box, exit, timer, killing, missed>>,
           at[j] # "run", at'[j] # "run",
           at'[j] \in {"new", "queued", "compile", "spawn"} =>
              at[j] \in {"new", "queued", "compile"} /\ status'[j] = status[j],
           status'[j] = status[j] \/ status'[j] # "ACCEPTED",
           \A k \in Jobs \ {j} : at'[k] = at[k] /\ status'[k] = status[k]
    PROVE  RunsInv'
<1>1. JobInv(j) /\ RunTypes /\ KillInv
  BY DEF RunsInv
<1>2. Now(j)' = Now(j)
  BY DEF Now
<1>3. Progress(j)'
  <2>1. InputCount[j] > 0 /\ InputCount[j] \in Nat
    BY InputsTyped
  <2>2. at[j] \in {"new", "queued", "compile"} => Len(results[j]) = 0
    BY <1>1 DEF JobInv, Progress
  <2> QED BY <1>1, <1>2, <2>1, <2>2 DEF JobInv, Progress, Fresh, Busy
<1>4. Running(j)' /\ Boxes(j)'
  BY <1>1 DEF JobInv, Running, Boxes
<1>5. Earned(j)'
  BY <1>1 DEF JobInv, Earned
<1>6. Alone(j)'
  BY <1>1, <1>2 DEF JobInv, Alone
<1>7. ASSUME NEW k \in Jobs \ {j} PROVE JobInv(k)'
  BY <1>7, OthersRest DEF RunsInv
<1>8. KillInv'
  BY <1>1 DEF KillInv
<1> QED BY <1>3, <1>4, <1>5, <1>6, <1>7, <1>8 DEF RunsInv, JobInv

\* Input n of a job gets its result s.
LEMMA ResultKeeps ==
    ASSUME RunsInv, NEW j \in Jobs, NEW s \in Statuses, at[j] \in {"spawn", "run"},
           Take(j, s), Boxes(j)',
           language' = language, missed \subseteq missed',
           \A n \in Inputs \ {Now(j)} :
              client'[j][n] = client[j][n] /\ box'[j][n] = box[j][n] /\ exit'[j][n] = exit[j][n],
           s = "ACCEPTED" => exit'[j][Now(j)] = "zero",
           s \in {"RUNTIME_ERROR", "COMPILE_ERROR"} =>
              exit'[j][Now(j)] = "nonzero" \/ (language[j] = "java" /\ box'[j][Now(j)] = "none"),
           box'[j][Now(j)] \in {"none", "gone"} \/ <<j, Now(j)>> \in missed'
    PROVE  JobInv(j)'
<1>1. JobInv(j) /\ RunTypes /\ Len(results[j]) < InputCount[j]
  BY DEF RunsInv, JobInv, Progress
<1> DEFINE n == Now(j)
<1>2. /\ Len(results[j]) \in Nat /\ Len(results'[j]) = Len(results[j]) + 1
      /\ \A i \in 1..Len(results[j]) : results'[j][i] = results[j][i]
      /\ results'[j][n] = s
      /\ timer'[j] = "off"
      /\ \/ at'[j] = "spawn" /\ n < InputCount[j] /\ status'[j] = status[j]
         \/ /\ at'[j] = "returned" /\ n = InputCount[j]
            /\ status'[j] = "ACCEPTED" =>
                  \A i \in 1..InputCount[j] : results'[j][i] = "ACCEPTED"
  BY <1>1, TakeFacts
<1>3. /\ n = Len(results[j]) + 1 /\ n \in Nat /\ Now(j)' = n + 1 /\ n \in 1..InputCount[j]
      /\ Inputs \subseteq Nat /\ InputCount[j] \in Nat /\ 1..InputCount[j] \subseteq Inputs
  BY <1>1, <1>2, InputsTyped DEF Now
<1>4. \A i \in 1..Len(results[j]) : i \in Inputs /\ i # n
  BY <1>2, <1>3
<1>5. \A i \in 1..Len(results'[j]) : i \in 1..Len(results[j]) \/ i = n
  BY <1>2, <1>3
<1> HIDE DEF n
<1>6. Progress(j)'
  <2>1. ASSUME NEW i \in Inputs, i >= n + 1 PROVE Fresh(j, i)'
    <3>1. i \in Nat /\ i > Now(j) /\ i >= Now(j) /\ i \in Inputs \ {Now(j)}
      BY <1>3, <2>1 DEF n
    <3>2. Fresh(j, i)
      BY <1>1, <3>1 DEF JobInv, Progress
    <3> QED BY <3>1, <3>2 DEF Fresh
  <2>2. at'[j] = "spawn" => status'[j] = "none"
    BY <1>1, <1>2 DEF JobInv, Progress, Busy
  <2> QED BY <1>2, <1>3, <2>1, <2>2 DEF Progress, Busy
<1>7. Running(j)'
  BY <1>2 DEF Running
<1>8. ASSUME NEW i \in 1..Len(results'[j])
      PROVE  /\ results'[j][i] = "ACCEPTED" => exit'[j][i] = "zero"
             /\ results'[j][i] \in {"RUNTIME_ERROR", "COMPILE_ERROR"} =>
                   exit'[j][i] = "nonzero" \/ (language'[j] = "java" /\ box'[j][i] = "none")
  <2>1. CASE i = n
    BY <1>2, <2>1 DEF n
  <2>2. CASE i \in 1..Len(results[j])
    BY <1>1, <1>2, <1>4, <2>2 DEF JobInv, Earned, n
  <2> QED BY <1>5, <2>1, <2>2
<1>9. status'[j] = "ACCEPTED" => \A i \in 1..InputCount[j] : exit'[j][i] = "zero"
  <2>1. CASE status'[j] = status[j] /\ n < InputCount[j]
    BY <1>1, <2>1 DEF JobInv, Progress, Busy
  <2>2. CASE n = InputCount[j] /\ (status'[j] = "ACCEPTED" =>
                  \A i \in 1..InputCount[j] : results'[j][i] = "ACCEPTED")
    BY <1>2, <1>3, <1>8, <2>2
  <2> QED BY <1>2, <2>1, <2>2
<1>10. Alone(j)'
  <2>1. ASSUME NEW i \in Inputs, box'[j][i] \in {"asked", "up"} PROVE <<j, i>> \in missed'
    <3>1. CASE i = n
      BY <2>1, <3>1 DEF n
    <3>2. CASE i # n
      BY <1>1, <2>1, <3>2 DEF JobInv, Alone, n
    <3> QED BY <3>1, <3>2
  <2> QED BY <2>1 DEF Alone
<1> QED BY <1>6, <1>7, <1>8, <1>9, <1>10 DEF JobInv, Earned

-----------------------------------------------------------------------------
(* The steps of runCode *)

LEMMA CompileKeeps ==
    ASSUME RunsInv, NEW j \in Jobs, CompileEnds(j)
    PROVE  RunsInv'
<1>1. RunTypes'
  BY DEF RunsInv, RunTypes, RunnerTypeOK, CompileEnds, Return, Places, Busy, Statuses
<1>2. /\ at[j] = "compile" /\ at'[j] \in {"spawn", "returned"}
      /\ at'[j] = "spawn" => status'[j] = status[j]
      /\ status'[j] = status[j] \/ status'[j] = "COMPILE_ERROR"
      /\ \A k \in Jobs \ {j} : at'[k] = at[k] /\ status'[k] = status[k]
  BY DEF RunsInv, RunTypes, RunnerTypeOK, CompileEnds, Return
<1>3. UNCHANGED <<language, results, client, box, exit, timer, killing, missed>>
  BY DEF CompileEnds
<1> QED BY <1>1, <1>2, <1>3, MoveKeeps

LEMMA BeginKeeps ==
    ASSUME RunsInv, NEW j \in Jobs, at[j] = "queued", Begin(j)
    PROVE  RunsInv'
<1>1. RunTypes'
  BY DEF RunsInv, RunTypes, RunnerTypeOK, Begin, Return, Places, Busy, Statuses
<1>2. /\ at'[j] \in {"compile", "spawn", "returned", "threw"}
      /\ at'[j] \in {"compile", "spawn"} => status'[j] = status[j]
      /\ status'[j] = status[j] \/ status'[j] = "SYSTEM_ERROR"
      /\ \A k \in Jobs \ {j} : at'[k] = at[k] /\ status'[k] = status[k]
  BY DEF RunsInv, RunTypes, RunnerTypeOK, Begin, Return
<1>3. UNCHANGED <<language, results, client, box, exit, timer, killing, missed>>
  BY DEF Begin
<1> QED BY <1>1, <1>2, <1>3, MoveKeeps

\* Where nothing is killed and nothing will be, KillInv says nothing.
LEMMA FreeKeeps == Free /\ killing' = killing => KillInv'
  BY DEF Free, KillInv

LEMMA SpawnKeeps ==
    ASSUME RunsInv, NEW j \in Jobs, Spawn(j)
    PROVE  RunsInv'
<1> DEFINE n == Now(j)
<1>1. JobInv(j) /\ RunTypes /\ Len(results[j]) < InputCount[j]
  BY DEF RunsInv, JobInv, Progress, Spawn
<1>2. n \in Inputs /\ n \in Nat /\ n = Len(results[j]) + 1 /\ Len(results[j]) \in Nat
      /\ Inputs \subseteq Nat
  <2>1. Len(results[j]) \in Nat
    BY <1>1, LenProperties DEF RunTypes, RunnerTypeOK
  <2> QED BY <1>1, <2>1, InputsTyped DEF Now
<1>3. /\ at[j] = "spawn" /\ at' = [at EXCEPT ![j] = "run"]
      /\ client' = [client EXCEPT ![j][n] = "up"]
      /\ box' = [box EXCEPT ![j][n] = "asked"]
      /\ timer' = [timer EXCEPT ![j] = "set"]
      /\ UNCHANGED <<language, results, status, exit, killing, missed>>
  BY DEF Spawn
<1>4. Now(j)' = n
  BY <1>3 DEF Now
<1> HIDE DEF n
<1>5. RunTypes'
  BY <1>1, <1>2, <1>3 DEF RunTypes, RunnerTypeOK, Places, Busy
<1>6. /\ at'[j] = "run" /\ timer'[j] = "set"
      /\ \A i \in Inputs : client'[j][i] = IF i = n THEN "up" ELSE client[j][i]
      /\ \A i \in Inputs : box'[j][i] = IF i = n THEN "asked" ELSE box[j][i]
  BY <1>1, <1>2, <1>3 DEF RunTypes, RunnerTypeOK
<1>7. exit[j][n] = "none"
  BY <1>1, <1>2, <1>3 DEF JobInv, Progress, Fresh, n
<1>8. Progress(j)'
  <2>1. \A i \in Inputs : i > n => Fresh(j, i)'
    BY <1>1, <1>2, <1>3, <1>6 DEF JobInv, Progress, Fresh, n
  <2>2. at'[j] = "run" => status'[j] = "none"
    BY <1>1, <1>3 DEF JobInv, Progress, Busy
  <2>3. results' = results /\ Len(results[j]) <= InputCount[j]
    BY <1>1, <1>3 DEF JobInv, Progress
  <2> QED BY <1>1, <1>4, <1>6, <2>1, <2>2, <2>3 DEF Progress
<1>9. Running(j)' /\ Boxes(j)'
  BY <1>1, <1>2, <1>3, <1>4, <1>6, <1>7 DEF JobInv, Running, Boxes
<1>10. Earned(j)'
  <2>1. \A i \in 1..Len(results[j]) : i \in Inputs /\ i # n
    BY <1>1, <1>2, InputsTyped
  <2> QED BY <1>1, <1>3, <1>6, <2>1 DEF JobInv, Earned
<1>11. Alone(j)'
  BY <1>1, <1>3, <1>4, <1>6 DEF JobInv, Alone
<1>12. ASSUME NEW k \in Jobs \ {j} PROVE JobInv(k)'
  BY <1>1, <1>3, OthersRest DEF RunsInv, RunTypes, RunnerTypeOK
<1>13. KillInv'
  BY <1>3, FreeKeeps DEF Spawn
<1> QED BY <1>5, <1>8, <1>9, <1>10, <1>11, <1>12, <1>13 DEF RunsInv, JobInv

\* A step that gives input Now(j) its result, and does what it does to the
\* client and the container of one input.
LEMMA TakeKeeps ==
    ASSUME RunsInv, NEW j \in Jobs, NEW s \in Statuses, Take(j, s), at[j] \in {"spawn", "run"},
           JobInv(j)', KillInv',
           client' \in [Jobs -> [Inputs -> {"none", "up", "exited", "closed"}]],
           box' \in [Jobs -> [Inputs -> {"none", "asked", "up", "gone"}]],
           exit' \in [Jobs -> [Inputs -> {"none", "zero", "nonzero", "killed"}]],
           killing' \in Jobs \cup {NoJob},
           language' = language, missed \subseteq missed', missed' \subseteq Jobs \X Inputs,
           \A k \in Jobs \ {j} :
              client'[k] = client[k] /\ box'[k] = box[k] /\ exit'[k] = exit[k]
    PROVE  RunsInv'
<1>1. RunTypes /\ Len(results[j]) < InputCount[j]
  BY DEF RunsInv, JobInv, Progress
<1>2. /\ RunTypes'
      /\ \A k \in Jobs \ {j} : /\ at'[k] = at[k] /\ results'[k] = results[k]
                                /\ status'[k] = status[k] /\ timer'[k] = timer[k]
  BY <1>1, TakeFacts DEF RunTypes, RunnerTypeOK
<1>3. ASSUME NEW k \in Jobs \ {j} PROVE JobInv(k)'
  BY <1>2, OthersRest DEF RunsInv
<1> QED BY <1>2, <1>3 DEF RunsInv

LEMMA SpawnFailsKeeps ==
    ASSUME RunsInv, NEW j \in Jobs, SpawnFails(j)
    PROVE  RunsInv'
<1> DEFINE n == Now(j)
<1>1. JobInv(j) /\ RunTypes /\ Len(results[j]) < InputCount[j]
  BY DEF RunsInv, JobInv, Progress, SpawnFails
<1>2. n \in Inputs /\ n \in Nat /\ n = Len(results[j]) + 1 /\ Len(results[j]) \in Nat
      /\ Inputs \subseteq Nat
  <2>1. Len(results[j]) \in Nat
    BY <1>1, LenProperties DEF RunTypes, RunnerTypeOK
  <2> QED BY <1>1, <2>1, InputsTyped DEF Now
<1>3. /\ at[j] = "spawn" /\ client' = [client EXCEPT ![j][n] = "exited"]
      /\ UNCHANGED <<language, box, exit, killing, missed>>
  BY DEF SpawnFails
<1> HIDE DEF n
<1>4. /\ client' \in [Jobs -> [Inputs -> {"none", "up", "exited", "closed"}]]
      /\ \A k \in Jobs \ {j} : client'[k] = client[k]
      /\ \A i \in Inputs \ {n} : client'[j][i] = client[j][i]
  BY <1>1, <1>2, <1>3 DEF RunTypes, RunnerTypeOK
<1>5. box[j][n] = "none" /\ exit[j][n] = "none"
  BY <1>1, <1>2, <1>3 DEF JobInv, Progress, Fresh, n
<1>6. Boxes(j)' /\ KillInv'
  BY <1>1, <1>3, FreeKeeps DEF JobInv, Boxes, SpawnFails
<1>7. CASE language[j] = "java" /\ Take(j, "RUNTIME_ERROR")
  <2>1. JobInv(j)'
    BY <1>3, <1>4, <1>5, <1>6, <1>7, ResultKeeps DEF Statuses, n
  <2> QED BY <1>1, <1>3, <1>4, <1>6, <1>7, <2>1, TakeKeeps
          DEF Statuses, RunTypes, RunnerTypeOK
<1>8. CASE Return(j, "SYSTEM_ERROR") /\ UNCHANGED <<results, timer>>
  <2>1. RunTypes'
    BY <1>1, <1>3, <1>4, <1>8 DEF RunTypes, RunnerTypeOK, Return, Places, Statuses
  <2>2. /\ at'[j] = "returned" /\ status'[j] = "SYSTEM_ERROR"
        /\ \A k \in Jobs \ {j} : at'[k] = at[k] /\ status'[k] = status[k]
    BY <1>1, <1>8 DEF RunTypes, RunnerTypeOK, Return
  <2>3. Progress(j)' /\ Running(j)'
    BY <1>1, <1>3, <1>8, <2>2 DEF JobInv, Progress, Running, Busy
  <2>4. Earned(j)' /\ Alone(j)'
    BY <1>1, <1>3, <1>8, <2>2 DEF JobInv, Earned, Alone, Now
  <2>5. ASSUME NEW k \in Jobs \ {j} PROVE JobInv(k)'
    BY <1>3, <1>4, <1>8, <2>2, OthersRest DEF RunsInv
  <2> QED BY <1>6, <2>1, <2>3, <2>4, <2>5 DEF RunsInv, JobInv
<1> QED BY <1>7, <1>8 DEF SpawnFails

LEMMA CloseKeeps ==
    ASSUME RunsInv, NEW j \in Jobs, NEW i \in Inputs, Close(j, i)
    PROVE  RunsInv'
<1> DEFINE n == Now(j)
<1>1. JobInv(j) /\ RunTypes
  BY DEF RunsInv
<1>2. Len(results[j]) \in Nat /\ n = Len(results[j]) + 1 /\ Inputs \subseteq Nat
  BY <1>1, LenProperties, InputsTyped DEF RunTypes, RunnerTypeOK, Now
<1>3. /\ client[j][i] = "exited" /\ client' = [client EXCEPT ![j][i] = "closed"]
      /\ UNCHANGED <<language, box, exit, killing, missed>>
  BY DEF Close
<1>4. /\ client' \in [Jobs -> [Inputs -> {"none", "up", "exited", "closed"}]]
      /\ \A k \in Jobs \ {j} : client'[k] = client[k]
      /\ \A m \in Inputs \ {i} : client'[j][m] = client[j][m]
  BY <1>1, <1>3 DEF RunTypes, RunnerTypeOK
<1>5. Boxes(j)' /\ KillInv'
  BY <1>1, <1>3, FreeKeeps DEF JobInv, Boxes, Close
<1>6. CASE at[j] = "run" /\ i = n
  <2>1. box[j][i] = "gone" /\ exit[j][i] \in {"zero", "nonzero"}
    BY <1>1, <1>3, <1>6 DEF JobInv, Running, Boxes, RunTypes, RunnerTypeOK
  <2>2. \E s \in {"ACCEPTED", "RUNTIME_ERROR", "COMPILE_ERROR"} :
           Take(j, s) /\ (s = "ACCEPTED" <=> exit[j][i] = "zero")
    BY <1>6 DEF Close
  <2>3. PICK s \in {"ACCEPTED", "RUNTIME_ERROR", "COMPILE_ERROR"} :
           Take(j, s) /\ (s = "ACCEPTED" <=> exit[j][i] = "zero")
    BY <2>2
  <2>4. s \in Statuses
    BY DEF Statuses
  <2>5. JobInv(j)'
    BY <1>3, <1>4, <1>5, <1>6, <2>1, <2>3, <2>4, ResultKeeps
  <2> QED BY <1>1, <1>3, <1>4, <1>5, <1>6, <2>3, <2>4, <2>5, TakeKeeps
          DEF RunTypes, RunnerTypeOK
<1>7. CASE ~(at[j] = "run" /\ i = n)
  <2>1. UNCHANGED <<at, results, status, timer>>
    BY <1>7 DEF Close
  <2>2. RunTypes'
    BY <1>1, <1>3, <1>4, <2>1 DEF RunTypes, RunnerTypeOK
  <2>3. Now(j)' = Now(j)
    BY <2>1 DEF Now
  <2>4. ~Fresh(j, i) /\ (at[j] = "run" => i # n)
    BY <1>3, <1>7 DEF Fresh
  <2>5. Progress(j)'
    BY <1>1, <1>3, <1>4, <2>1, <2>3, <2>4 DEF JobInv, Progress, Fresh
  <2>6. Running(j)'
    <3>1. at[j] = "run" => n \in Inputs
      BY <1>1, <1>2, InputsTyped DEF JobInv, Progress
    <3> QED BY <1>1, <1>3, <1>4, <2>1, <2>3, <2>4, <3>1 DEF JobInv, Running
  <2>7. Earned(j)' /\ Alone(j)'
    BY <1>1, <1>3, <2>1, <2>3 DEF JobInv, Earned, Alone
  <2>8. ASSUME NEW k \in Jobs \ {j} PROVE JobInv(k)'
    BY <1>3, <1>4, <2>1, OthersRest DEF RunsInv
  <2> QED BY <1>5, <2>2, <2>5, <2>6, <2>7, <2>8 DEF RunsInv, JobInv
<1> QED BY <1>6, <1>7

LEMMA ExpireKeeps ==
    ASSUME RunsInv, NEW j \in Jobs, Expire(j)
    PROVE  RunsInv'
<1>1. /\ timer[j] = "due" /\ killing' = j
      /\ UNCHANGED <<at, language, results, status, client, box, exit, timer, missed>>
  BY DEF Expire
<1>2. RunTypes'
  BY <1>1 DEF RunsInv, RunTypes, RunnerTypeOK
<1>3. ASSUME NEW k \in Jobs PROVE JobInv(k)'
  BY <1>1, OthersRest DEF RunsInv
<1>4. KillInv'
  BY <1>1 DEF KillInv
<1> QED BY <1>2, <1>3, <1>4 DEF RunsInv

LEMMA KillReturnsKeeps ==
    ASSUME RunsInv, NEW j \in Jobs, KillReturns(j)
    PROVE  RunsInv'
<1> DEFINE n == Now(j)
<1>1. JobInv(j) /\ RunTypes /\ at[j] = "run" /\ timer[j] = "due"
  BY JobAssumption DEF RunsInv, KillInv, KillReturns, JobInv, Progress
<1>2. n \in Inputs
  <2>1. Len(results[j]) \in Nat /\ Len(results[j]) < InputCount[j]
    BY <1>1, LenProperties DEF RunTypes, RunnerTypeOK, JobInv, Progress
  <2> QED BY <2>1, InputsTyped DEF Now
<1>3. /\ killing' = NoJob /\ Take(j, "TIME_LIMIT_EXCEEDED")
      /\ client' = [client EXCEPT ![j][n] = IF @ = "up" THEN "exited" ELSE @]
      /\ language' = language
      /\ \/ /\ box[j][n] = "up" /\ box' = [box EXCEPT ![j][n] = "gone"]
            /\ exit' = [exit EXCEPT ![j][n] = "killed"] /\ missed' = missed
         \/ /\ UNCHANGED <<box, exit>>
            /\ missed' = IF box[j][n] = "gone" THEN missed ELSE missed \cup {<<j, n>>}
  BY DEF KillReturns
<1> HIDE DEF n
<1>4. /\ client' \in [Jobs -> [Inputs -> {"none", "up", "exited", "closed"}]]
      /\ \A k \in Jobs \ {j} : client'[k] = client[k]
      /\ \A m \in Inputs \ {n} : client'[j][m] = client[j][m]
  <2>1. (IF client[j][n] = "up" THEN "exited" ELSE client[j][n])
           \in {"none", "up", "exited", "closed"}
    BY <1>1, <1>2 DEF RunTypes, RunnerTypeOK
  <2> QED BY <1>1, <1>2, <1>3, <2>1 DEF RunTypes, RunnerTypeOK
<1>5. /\ box' \in [Jobs -> [Inputs -> {"none", "asked", "up", "gone"}]]
      /\ exit' \in [Jobs -> [Inputs -> {"none", "zero", "nonzero", "killed"}]]
      /\ \A k \in Jobs \ {j} : box'[k] = box[k] /\ exit'[k] = exit[k]
      /\ \A m \in Inputs \ {n} : box'[j][m] = box[j][m] /\ exit'[j][m] = exit[j][m]
      /\ \/ box'[j][n] = "gone" /\ exit'[j][n] = "killed"
         \/ /\ box'[j][n] = box[j][n] /\ exit'[j][n] = exit[j][n]
            /\ box'[j][n] = "gone" \/ <<j, n>> \in missed'
      /\ missed \subseteq missed' /\ missed' \subseteq Jobs \X Inputs
  <2>1. CASE UNCHANGED <<box, exit>>
    BY <1>1, <1>2, <1>3, <2>1 DEF RunTypes, RunnerTypeOK
  <2>2. CASE /\ box' = [box EXCEPT ![j][n] = "gone"] /\ exit' = [exit EXCEPT ![j][n] = "killed"]
             /\ missed' = missed
    <3>1. /\ box' \in [Jobs -> [Inputs -> {"none", "asked", "up", "gone"}]]
          /\ \A k \in Jobs \ {j} : box'[k] = box[k]
          /\ \A m \in Inputs \ {n} : box'[j][m] = box[j][m]
          /\ box'[j][n] = "gone"
      BY <1>1, <1>2, <2>2 DEF RunTypes, RunnerTypeOK
    <3>2. /\ exit' \in [Jobs -> [Inputs -> {"none", "zero", "nonzero", "killed"}]]
          /\ \A k \in Jobs \ {j} : exit'[k] = exit[k]
          /\ \A m \in Inputs \ {n} : exit'[j][m] = exit[j][m]
          /\ exit'[j][n] = "killed"
      BY <1>1, <1>2, <2>2 DEF RunTypes, RunnerTypeOK
    <3> QED BY <1>1, <2>2, <3>1, <3>2 DEF RunTypes, RunnerTypeOK
  <2> QED BY <1>3, <2>1, <2>2
<1>6. Boxes(j)'
  BY <1>1, <1>2, <1>5 DEF JobInv, Boxes
<1>7. JobInv(j)'
  <2>1. box'[j][n] = "gone" \/ <<j, n>> \in missed'
    BY <1>5
  <2> QED BY <1>1, <1>3, <1>4, <1>5, <1>6, <2>1, ResultKeeps DEF Statuses, n
<1>8. KillInv'
  BY <1>3 DEF KillInv
<1> QED BY <1>1, <1>3, <1>4, <1>5, <1>7, <1>8, TakeKeeps DEF Statuses

-----------------------------------------------------------------------------
(* The steps of the environment *)

\* The daemon and programs touch the container of one job.
LEMMA ContainerKeeps ==
    ASSUME RunsInv, NEW j \in Jobs, NEW i \in Inputs, NEW b, NEW e,
           box' = [box EXCEPT ![j][i] = b], b \in {"up", "gone"},
           exit' = [exit EXCEPT ![j][i] = e], e \in {"none", "zero", "nonzero"},
           box[j][i] \in {"asked", "up"}, e = "none" <=> b = "up",
           \/ missed' = missed
           \/ b = "gone" /\ missed' = missed \ {<<j, i>>},
           UNCHANGED <<at, language, results, status, client, timer, killing>>
    PROVE  RunsInv'
<1>1. JobInv(j) /\ RunTypes
  BY DEF RunsInv
<1>2. /\ \A m \in Inputs : box'[j][m] = IF m = i THEN b ELSE box[j][m]
      /\ \A m \in Inputs : exit'[j][m] = IF m = i THEN e ELSE exit[j][m]
      /\ \A k \in Jobs \ {j} : box'[k] = box[k] /\ exit'[k] = exit[k]
  BY <1>1 DEF RunTypes, RunnerTypeOK
<1>3. \A k \in Jobs : Now(k)' = Now(k)
  BY DEF Now
<1>4. RunTypes'
  <2>1. box' \in [Jobs -> [Inputs -> {"none", "asked", "up", "gone"}]]
    BY <1>1 DEF RunTypes, RunnerTypeOK
  <2>2. exit' \in [Jobs -> [Inputs -> {"none", "zero", "nonzero", "killed"}]]
    BY <1>1 DEF RunTypes, RunnerTypeOK
  <2> QED BY <1>1, <2>1, <2>2 DEF RunTypes, RunnerTypeOK
<1>5. ~Fresh(j, i) /\ exit[j][i] = "none"
  BY <1>1 DEF Fresh, JobInv, Boxes
<1>6. Progress(j)'
  BY <1>1, <1>2, <1>3, <1>5 DEF JobInv, Progress, Fresh
<1>7. at[j] = "run" => Now(j) \in Inputs
  <2>1. at[j] = "run" => Len(results[j]) \in Nat /\ Len(results[j]) < InputCount[j]
    BY <1>1, LenProperties DEF RunTypes, RunnerTypeOK, JobInv, Progress
  <2> QED BY <2>1, InputsTyped DEF Now
<1>8. Running(j)'
  BY <1>1, <1>2, <1>3, <1>7 DEF JobInv, Running
<1>9. Boxes(j)'
  BY <1>1, <1>2 DEF JobInv, Boxes
<1>10. Earned(j)'
  <2>1. \A m \in 1..Len(results[j]) : m \in Inputs
    <3>1. Len(results[j]) \in Nat /\ Len(results[j]) <= InputCount[j]
      BY <1>1, LenProperties DEF JobInv, Progress, RunTypes, RunnerTypeOK
    <3>2. InputCount[j] \in Nat /\ 1..InputCount[j] \subseteq Inputs
      BY InputsTyped
    <3> QED BY <3>1, <3>2
  <2>2. \A m \in 1..InputCount[j] : m \in Inputs
    BY InputsTyped
  <2> QED BY <1>1, <1>2, <1>5, <2>1, <2>2 DEF JobInv, Earned
<1>11. Alone(j)'
  <2>1. ASSUME NEW m \in Inputs, box'[j][m] \in {"asked", "up"}
        PROVE  (at[j] = "run" /\ m = Now(j)) \/ <<j, m>> \in missed'
    <3>1. (at[j] = "run" /\ m = Now(j)) \/ <<j, m>> \in missed
      BY <1>1, <1>2, <2>1 DEF JobInv, Alone
    <3>2. <<j, m>> \in missed => <<j, m>> \in missed'
      BY <1>2, <2>1
    <3> QED BY <3>1, <3>2
  <2> QED BY <1>3, <2>1 DEF Alone
<1>12. ASSUME NEW k \in Jobs \ {j} PROVE JobInv(k)'
  BY <1>2, OthersRest DEF RunsInv
<1>13. KillInv'
  BY DEF RunsInv, KillInv
<1> QED BY <1>4, <1>6, <1>8, <1>9, <1>10, <1>11, <1>12, <1>13 DEF RunsInv, JobInv

\* A client whose container has ended exits.
LEMMA ClientKeeps ==
    ASSUME RunsInv, NEW j \in Jobs, NEW i \in Inputs, ClientExits(j, i)
    PROVE  RunsInv'
<1>1. JobInv(j) /\ RunTypes
  BY DEF RunsInv
<1>2. /\ client[j][i] = "up" /\ box[j][i] = "gone"
      /\ client' = [client EXCEPT ![j][i] = "exited"]
      /\ UNCHANGED <<at, language, results, status, box, exit, timer, killing, missed>>
  BY DEF ClientExits
<1>3. /\ \A m \in Inputs : client'[j][m] = IF m = i THEN "exited" ELSE client[j][m]
      /\ \A k \in Jobs \ {j} : client'[k] = client[k]
      /\ \A k \in Jobs : Now(k)' = Now(k)
  BY <1>1, <1>2 DEF RunTypes, RunnerTypeOK, Now
<1>4. RunTypes' /\ KillInv'
  BY <1>1, <1>2 DEF RunsInv, RunTypes, RunnerTypeOK, KillInv
<1>5. Progress(j)'
  BY <1>1, <1>2, <1>3 DEF JobInv, Progress, Fresh
<1>6. Running(j)'
  <2>1. at[j] = "run" => Now(j) \in Inputs
    <3>1. at[j] = "run" => Len(results[j]) \in Nat /\ Len(results[j]) < InputCount[j]
      BY <1>1, LenProperties DEF RunTypes, RunnerTypeOK, JobInv, Progress
    <3> QED BY <3>1, InputsTyped DEF Now
  <2> QED BY <1>1, <1>2, <1>3, <2>1 DEF JobInv, Running
<1>7. Boxes(j)' /\ Earned(j)' /\ Alone(j)'
  BY <1>1, <1>2, <1>3 DEF JobInv, Boxes, Earned, Alone
<1>8. ASSUME NEW k \in Jobs \ {j} PROVE JobInv(k)'
  BY <1>2, <1>3, OthersRest DEF RunsInv
<1> QED BY <1>4, <1>5, <1>6, <1>7, <1>8 DEF RunsInv, JobInv

LEMMA DaemonKeeps ==
    ASSUME RunsInv, NEW j \in Jobs, NEW i \in Inputs,
           DaemonStarts(j, i) \/ ProgramEnds(j, i)
    PROVE  RunsInv'
<1>1. exit = [exit EXCEPT ![j][i] = exit[j][i]]
  BY DEF RunsInv, RunTypes, RunnerTypeOK
<1>2. box[j][i] \in {"asked", "up"} => exit[j][i] = "none"
  BY DEF RunsInv, JobInv, Boxes
<1>3. CASE DaemonStarts(j, i)
  BY <1>1, <1>2, <1>3, ContainerKeeps DEF DaemonStarts
<1>4. CASE ProgramEnds(j, i)
  <2>1. PICK e \in {"zero", "nonzero"} : exit' = [exit EXCEPT ![j][i] = e]
    BY <1>4 DEF ProgramEnds
  <2>2. /\ box[j][i] \in {"asked", "up"} /\ box' = [box EXCEPT ![j][i] = "gone"]
        /\ missed' = missed \ {<<j, i>>}
        /\ UNCHANGED <<at, language, results, status, client, timer, killing>>
    BY <1>4 DEF ProgramEnds
  <2> QED BY <2>1, <2>2, ContainerKeeps
<1> QED BY <1>3, <1>4

LEMMA TimeKeeps ==
    ASSUME RunsInv, NEW j \in Jobs, TimeIsUp(j)
    PROVE  RunsInv'
<1>1. JobInv(j) /\ RunTypes /\ KillInv
  BY DEF RunsInv
<1>2. /\ timer[j] = "set" /\ timer' = [timer EXCEPT ![j] = "due"]
      /\ UNCHANGED <<at, language, results, status, client, box, exit, killing, missed>>
  BY DEF TimeIsUp
<1>3. timer'[j] = "due" /\ \A k \in Jobs \ {j} : timer'[k] = timer[k]
  BY <1>1, <1>2 DEF RunTypes, RunnerTypeOK
<1>4. \A k \in Jobs : Now(k)' = Now(k)
  BY <1>2 DEF Now
<1>5. RunTypes'
  BY <1>1, <1>2 DEF RunTypes, RunnerTypeOK
<1>6. Progress(j)'
  BY <1>1, <1>2, <1>3, <1>4 DEF JobInv, Progress, Fresh
<1>7. Running(j)' /\ Boxes(j)' /\ Earned(j)' /\ Alone(j)'
  BY <1>1, <1>2, <1>4 DEF JobInv, Running, Boxes, Earned, Alone
<1>8. ASSUME NEW k \in Jobs \ {j} PROVE JobInv(k)'
  BY <1>2, <1>3, OthersRest DEF RunsInv
<1>9. KillInv'
  BY <1>1, <1>2, <1>3 DEF KillInv, RunTypes, RunnerTypeOK
<1> QED BY <1>5, <1>6, <1>7, <1>8, <1>9 DEF RunsInv, JobInv

-----------------------------------------------------------------------------
(* The steps of the workers *)

LEMMA WorkerKeeps ==
    ASSUME RunsInv, NEW j \in Jobs,
           Submit(j) \/ Submitted(j) \/ TurnFails(j) \/ Store(j) \/ StoreFailure(j)
              \/ Complete(j) \/ ClaimFails
    PROVE  RunsInv'
<1>1. UNCHANGED <<language, results, status, client, box, exit, timer, killing, missed>>
  BY DEF Submit, Submitted, TurnFails, Store, StoreFailure, Complete, ClaimFails, workVars,
         runVars
<1> DEFINE Moves(next) == /\ GoTo(j, next) /\ (next = "queued" => at[j] = "new")
                          /\ at[j] \in {"new", "queued", "returned", "threw"}
           Ends == {"rejected", "queued", "stored", "threw", "failed", "lost"}
<1>2. CASE at' = at
  <2>1. RunTypes' /\ KillInv'
    BY <1>1, <1>2 DEF RunsInv, RunTypes, RunnerTypeOK, KillInv
  <2>2. ASSUME NEW k \in Jobs PROVE JobInv(k)'
    BY <1>1, <1>2, OthersRest DEF RunsInv
  <2> QED BY <2>1, <2>2 DEF RunsInv
<1>3. CASE \E next \in Ends : Moves(next)
  <2>1. PICK next \in Ends :
           /\ at' = [at EXCEPT ![j] = next] /\ (next = "queued" => at[j] = "new")
           /\ at[j] \in {"new", "queued", "returned", "threw"}
    BY <1>3 DEF GoTo
  <2>2. RunTypes'
    BY <1>1, <2>1 DEF RunsInv, RunTypes, RunnerTypeOK, Places, Over
  <2>3. at'[j] = next /\ \A k \in Jobs \ {j} : at'[k] = at[k]
    BY <2>1 DEF RunsInv, RunTypes
  <2> QED BY <1>1, <2>1, <2>2, <2>3, MoveKeeps
<1>4. at' = at \/ \E next \in Ends : Moves(next)
  BY DEF Submit, Submitted, TurnFails, Store, StoreFailure, Complete, ClaimFails, runVars
<1> QED BY <1>2, <1>3, <1>4

LEMMA AdmitKeeps ==
    ASSUME RunsInv, NEW j \in Jobs, Admit(j)
    PROVE  RunsInv'
<1>1. at[j] = "queued"
  BY DEF Admit
<1>2. CASE Begin(j)
  BY <1>1, <1>2, BeginKeeps
<1>3. CASE (GoTo(j, "threw") \/ GoTo(j, "skipped")) /\ UNCHANGED workVars
  <2>1. RunTypes'
    BY <1>3 DEF RunsInv, RunTypes, RunnerTypeOK, Places, Over, GoTo, workVars
  <2>2. at'[j] \in {"threw", "skipped"} /\ \A k \in Jobs \ {j} : at'[k] = at[k]
    BY <1>3 DEF RunsInv, RunTypes, GoTo
  <2> QED BY <1>1, <1>3, <2>1, <2>2, MoveKeeps DEF workVars
<1> QED BY <1>2, <1>3 DEF Admit

LEMMA RunsStep ==
    ASSUME RunsInv, [Next]_vars
    PROVE  RunsInv'
<1>1. CASE UNCHANGED vars
  <2>1. UNCHANGED runVars
    BY <1>1 DEF vars
  <2>2. ASSUME NEW k \in Jobs PROVE JobInv(k)'
    BY <2>1, OthersRest DEF RunsInv, runVars
  <2>3. RunTypes' /\ KillInv'
    BY <2>1 DEF RunsInv, RunTypes, RunnerTypeOK, KillInv, Now, runVars
  <2> QED BY <2>2, <2>3 DEF RunsInv
<1>2. ASSUME NEW j \in Jobs, Run(j) PROVE RunsInv'
  BY <1>2, SpawnKeeps, SpawnFailsKeeps, ExpireKeeps, KillReturnsKeeps, CloseKeeps
     DEF Run, RunnerStep
<1>3. ASSUME NEW j \in Jobs, Outside(j) PROVE RunsInv'
  BY <1>3, DaemonKeeps, ClientKeeps, TimeKeeps DEF Outside, Environment
<1>4. ASSUME NEW j \in Jobs, Compile(j) PROVE RunsInv'
  BY <1>4, CompileKeeps DEF Compile
<1>5. ASSUME ClaimFails PROVE RunsInv'
  <2>1. CASE Jobs = {}
    <3>1. UNCHANGED runVars
      BY <1>5 DEF ClaimFails
    <3> QED BY <2>1, <3>1 DEF RunsInv, RunTypes, RunnerTypeOK, KillInv, runVars
  <2> QED BY <1>5, <2>1, WorkerKeeps
<1> QED BY <1>1, <1>2, <1>3, <1>4, <1>5, WorkerKeeps, AdmitKeeps DEF Next, Done

LEMMA RunsBegin == Init => RunsInv
<1> SUFFICES ASSUME Init PROVE RunsInv
  OBVIOUS
<1>1. /\ language \in Submissions
      /\ \A j \in Jobs : /\ at[j] = "new" /\ results[j] = <<>> /\ status[j] = "none"
                         /\ timer[j] = "off"
                         /\ \A n \in Inputs : Fresh(j, n)
      /\ killing = NoJob /\ missed = {}
  BY DEF Init, RunnerInit, Fresh
<1>2. RunTypes
  BY DEF Init, RunnerInit, RunTypes, RunnerTypeOK, Places
<1>3. ASSUME NEW j \in Jobs PROVE JobInv(j)
  <2>1. Len(results[j]) = 0 /\ InputCount[j] \in Nat /\ InputCount[j] > 0
    BY <1>1, InputsTyped
  <2> QED BY <1>1, <2>1
          DEF JobInv, Progress, Running, Boxes, Earned, Alone, Fresh
<1>4. KillInv
  BY <1>1 DEF KillInv
<1> QED BY <1>2, <1>3, <1>4 DEF RunsInv

-----------------------------------------------------------------------------

(***************************************************************************)
(* executeContainer.ts, runCode.ts: what a verdict says a program did, it   *)
(* did, for any number of jobs and inputs that share one event loop.       *)
(***************************************************************************)
THEOREM VerdictsFollow == Spec => []VerdictsAreTrue
<1>1. RunsInv => VerdictsAreTrue
  <2> SUFFICES ASSUME RunsInv PROVE VerdictsAreTrue
    OBVIOUS
  <2>1. ASSUME NEW j \in Jobs PROVE DOMAIN results[j] = 1..Len(results[j])
    BY LenProperties DEF RunsInv, RunTypes, RunnerTypeOK
  <2> QED BY <2>1 DEF RunsInv, JobInv, Earned, VerdictsAreTrue
<1>2. RunsInv /\ [Next]_vars => RunsInv'
  BY RunsStep
<1> QED BY <1>1, <1>2, RunsBegin, PTL DEF Spec

(***************************************************************************)
(* executeContainer.ts:62-90, runCode.ts: a container that is not that of  *)
(* the running input has ended, unless docker kill was sent to it in vain. *)
(***************************************************************************)
THEOREM ContainersHaveEnded == Spec => []ContainersEnd
<1>1. RunsInv => ContainersEnd
  BY DEF RunsInv, JobInv, Alone, ContainersEnd
<1>2. RunsInv /\ [Next]_vars => RunsInv'
  BY RunsStep
<1> QED BY <1>1, <1>2, RunsBegin, PTL DEF Spec

-----------------------------------------------------------------------------
(* The counters *)

Metrics(m) ==
    /\ DOMAIN m = {"submitted", "completed", "bucket", "known", "submittedIn",
                   "completedIn", "executions", "executionsIn", "errors"}
    /\ m.submitted \in Nat /\ m.completed \in Nat /\ m.executions \in Nat
    /\ m.errors \in Nat /\ m.known \subseteq Names /\ m.bucket \in [Buckets -> Nat]
    /\ m.submittedIn \in [Names -> Nat] /\ m.completedIn \in [Names -> Nat]
    /\ m.executionsIn \in [Names -> Nat]

LEMMA SubmissionRecorded ==
    ASSUME NEW m, Metrics(m), NEW l \in Names
    PROVE  LET r == RecordSubmission(m, l)
           IN  /\ Metrics(r)
               /\ r.submitted = m.submitted + 1 /\ r.known = m.known \cup {l}
               /\ r.completed = m.completed /\ r.bucket = m.bucket
               /\ r.completedIn = m.completedIn /\ r.executionsIn = m.executionsIn
               /\ r.errors = m.errors
  BY DEF Metrics, RecordSubmission

LEMMA CompletionRecorded ==
    ASSUME NEW m, Metrics(m), NEW l \in Names, NEW s, NEW timed \in BOOLEAN
    PROVE  LET r == RecordCompletion(m, s, l, timed)
           IN  /\ Metrics(r)
               /\ r.submitted = m.submitted /\ r.known = m.known /\ r.errors = m.errors
               /\ r.completed = m.completed + 1
               /\ \A b \in Buckets :
                     r.bucket[b] = IF b = s THEN m.bucket[b] + 1 ELSE m.bucket[b]
               /\ \A k \in Names :
                     /\ r.completedIn[k] = IF k = l /\ l \in m.known
                                           THEN m.completedIn[k] + 1 ELSE m.completedIn[k]
                     /\ r.executionsIn[k] = IF k = l /\ timed
                                            THEN m.executionsIn[k] + 1 ELSE m.executionsIn[k]
  BY DEF Metrics, RecordCompletion

LEMMA ErrorRecorded ==
    ASSUME NEW m, Metrics(m)
    PROVE  LET r == RecordWorkerError(m)
           IN  /\ Metrics(r) /\ r.errors = m.errors + 1
               /\ r.submitted = m.submitted /\ r.known = m.known
               /\ r.completed = m.completed /\ r.bucket = m.bucket
               /\ r.completedIn = m.completedIn /\ r.executionsIn = m.executionsIn
  BY DEF Metrics, RecordWorkerError

\* The counters, and what makes a completion count for its language.
CountsInv ==
    /\ Metrics(metrics)
    /\ recorded \subseteq Jobs
    /\ \A j \in recorded : at[j] # "new" /\ language[j] \in metrics.known
    /\ faults \in Nat
    /\ CountsAgree

LEMMA JobsAreFew == \A S \in SUBSET Jobs : IsFiniteSet(S) /\ Cardinality(S) \in Nat
  BY FS_Subset, FS_CardinalityType, JobAssumption

LEMMA OneMore ==
    ASSUME NEW S \in SUBSET Jobs, NEW j \in Jobs, j \notin S
    PROVE  Cardinality(S \cup {j}) = Cardinality(S) + 1
  BY JobsAreFew, FS_AddElement

LEMMA LanguagesAreNames == RunTypes => \A j \in Jobs : language[j] \in Names
  BY SubmissionsAssumption DEF RunTypes, RunnerTypeOK

\* Steps that neither settle a job nor count one.
LEMMA CountsRest ==
    ASSUME CountsInv, UNCHANGED <<metrics, recorded, early, language>>,
           faults' \in Nat, faults <= faults',
           \A k \in Jobs : \/ at'[k] = at[k] /\ status'[k] = status[k]
                          \/ /\ at[k] \notin {"stored", "lost"}
                             /\ at'[k] \notin {"new", "stored", "lost"}
    PROVE  CountsInv'
<1>1. \A l \in Names : StoredIn(l)' = StoredIn(l)
  BY DEF StoredIn
<1>2. /\ { j \in Jobs : at'[j] = "stored" } = { j \in Jobs : at[j] = "stored" }
      /\ { j \in Jobs : at'[j] = "lost" } = { j \in Jobs : at[j] = "lost" }
  OBVIOUS
<1>3. \A s \in Buckets : { j \in Jobs : at'[j] = "stored" /\ status'[j] = s }
                          = { j \in Jobs : at[j] = "stored" /\ status[j] = s }
  OBVIOUS
<1>4. metrics.errors <= faults'
  BY DEF CountsInv, CountsAgree, Metrics
<1>5. CountsAgree'
  BY <1>1, <1>2, <1>3, <1>4, Zenon DEF CountsInv, CountsAgree
<1> QED BY <1>5 DEF CountsInv

\* The steps of a run, of its environment and its start
LEMMA RunsCountNothing ==
    ASSUME RunsInv, CountsInv, NEW j \in Jobs,
           Run(j) \/ Compile(j) \/ Outside(j) \/ Admit(j)
    PROVE  CountsInv'
<1>1. /\ UNCHANGED <<metrics, recorded, early, language, faults>>
      /\ faults' \in Nat /\ faults <= faults'
  BY DEF CountsInv, Run, Compile, Outside, Admit, RunnerStep, CompileEnds, Spawn, SpawnFails,
         Expire, KillReturns, Close, Environment, TimeIsUp, DaemonStarts, ProgramEnds,
         ClientExits, Begin, workVars
<1>2. CASE UNCHANGED <<at, status>>
  BY <1>1, <1>2, CountsRest
<1>3. CASE \E s \in Statuses : Take(j, s) /\ at[j] \in {"spawn", "run"}
  <2>1. PICK s \in Statuses : Take(j, s) /\ at[j] \in {"spawn", "run"}
    BY <1>3
  <2>2. Len(results[j]) < InputCount[j] /\ RunTypes
    BY <2>1 DEF RunsInv, JobInv, Progress
  <2>3. /\ at'[j] \in {"spawn", "returned"}
        /\ \A k \in Jobs \ {j} : at'[k] = at[k] /\ status'[k] = status[k]
    BY <2>1, <2>2, TakeFacts
  <2> QED BY <1>1, <2>1, <2>3, CountsRest
<1>4. CASE /\ at[j] \in {"queued", "compile", "spawn"}
           /\ \E next \in {"compile", "spawn", "run", "threw", "skipped", "returned"} :
                 at' = [at EXCEPT ![j] = next]
           /\ \E s \in Statuses : status' = status \/ status' = [status EXCEPT ![j] = s]
  <2>1. /\ at'[j] \in {"compile", "spawn", "run", "threw", "skipped", "returned"}
        /\ \A k \in Jobs \ {j} : at'[k] = at[k] /\ status'[k] = status[k]
    BY <1>4 DEF RunsInv, RunTypes, RunnerTypeOK
  <2> QED BY <1>1, <1>4, <2>1, CountsRest
<1>5. CASE Run(j)
  <2>1. killing = j => at[j] = "run"
    BY JobAssumption DEF RunsInv, KillInv, JobInv, Progress
  <2>2. CASE Spawn(j)
    <3>1. at' = [at EXCEPT ![j] = "run"] /\ at[j] = "spawn" /\ status' = status
      BY <2>2 DEF Spawn
    <3>2. "SYSTEM_ERROR" \in Statuses
      BY DEF Statuses
    <3> QED BY <1>4, <3>1, <3>2
  <2>3. CASE SpawnFails(j)
    BY <1>3, <1>4, <2>3 DEF SpawnFails, Return, Statuses
  <2>4. CASE Expire(j)
    BY <1>2, <2>4 DEF Expire
  <2>5. CASE KillReturns(j)
    BY <1>3, <2>1, <2>5 DEF KillReturns, Statuses
  <2>6. CASE \E n \in Inputs : Close(j, n)
    BY <1>2, <1>3, <2>6 DEF Close, Statuses
  <2> QED BY <1>5, <2>2, <2>3, <2>4, <2>5, <2>6 DEF Run, RunnerStep
<1>6. CASE Outside(j)
  BY <1>2, <1>6 DEF Outside, Environment, TimeIsUp, DaemonStarts, ProgramEnds, ClientExits
<1>7. CASE Admit(j)
  BY <1>4, <1>7 DEF Admit, Begin, Return, GoTo, workVars, Statuses
<1>8. CASE Compile(j)
  BY <1>4, <1>8 DEF Compile, CompileEnds, Return, Statuses
<1> QED BY <1>5, <1>6, <1>7, <1>8

\* A submission is counted, for a job that was not.
LEMMA SubmissionsAgree ==
    ASSUME RunTypes, CountsInv, NEW j \in Jobs, j \notin recorded,
           recorded' = recorded \cup {j}, metrics' = RecordSubmission(metrics, language[j]),
           UNCHANGED <<language, status, early, faults>>, at'[j] # "new",
           \A k \in Jobs : \/ at'[k] = at[k]
                           \/ at[k] \notin {"stored", "lost"} /\ at'[k] = "queued"
    PROVE  CountsInv'
<1>1. /\ Metrics(metrics)' /\ metrics'.submitted = metrics.submitted + 1
      /\ metrics'.known = metrics.known \cup {language[j]}
      /\ metrics'.completed = metrics.completed /\ metrics'.bucket = metrics.bucket
      /\ metrics'.completedIn = metrics.completedIn
      /\ metrics'.executionsIn = metrics.executionsIn /\ metrics'.errors = metrics.errors
  BY SubmissionRecorded, LanguagesAreNames DEF CountsInv, Metrics
<1>2. Cardinality(recorded \cup {j}) = Cardinality(recorded) + 1
  BY OneMore DEF CountsInv
<1>3. \A l \in Names : StoredIn(l)' = StoredIn(l)
  BY DEF StoredIn
<1>4. /\ { k \in Jobs : at'[k] = "stored" } = { k \in Jobs : at[k] = "stored" }
      /\ { k \in Jobs : at'[k] = "lost" } = { k \in Jobs : at[k] = "lost" }
      /\ \A s \in Buckets : { k \in Jobs : at'[k] = "stored" /\ status'[k] = s }
                             = { k \in Jobs : at[k] = "stored" /\ status[k] = s }
  OBVIOUS
<1>5. CountsAgree'
  BY <1>1, <1>2, <1>3, <1>4 DEF CountsInv, CountsAgree
<1>6. \A k \in recorded' : at'[k] # "new" /\ language'[k] \in metrics'.known
  BY <1>1 DEF CountsInv
<1> QED BY <1>1, <1>5, <1>6 DEF CountsInv

LEMMA SubmitCounts ==
    ASSUME RunsInv, CountsInv, NEW j \in Jobs, Submit(j) \/ Submitted(j)
    PROVE  CountsInv'
<1>1. /\ UNCHANGED <<language, status, early>> /\ RunTypes
      /\ faults \in Nat /\ faults' \in {faults, faults + 1}
  BY DEF Submit, Submitted, Fail, workVars, runVars, RunsInv, CountsInv
<1>2. CASE Submitted(j)
  <2>1. /\ j \notin recorded /\ recorded' = recorded \cup {j} /\ at' = at
        /\ metrics' = RecordSubmission(metrics, language[j]) /\ at'[j] # "new"
        /\ faults' = faults
    BY <1>2 DEF Submitted, runVars
  <2>2. \A k \in Jobs : \/ at'[k] = at[k]
                        \/ at[k] \notin {"stored", "lost"} /\ at'[k] = "queued"
    BY <2>1
  <2> QED BY <1>1, <2>1, <2>2, SubmissionsAgree
<1>3. CASE Submit(j)
  <2>1. PICK next \in {"rejected", "queued"} :
           /\ at' = [at EXCEPT ![j] = next]
           /\ \/ UNCHANGED <<metrics, recorded>>
              \/ /\ next = "queued" /\ recorded' = recorded \cup {j}
                 /\ metrics' = RecordSubmission(metrics, language[j]) /\ faults' = faults
    BY <1>3 DEF Submit, GoTo
  <2>2. at[j] = "new" /\ j \notin recorded
    BY <1>3 DEF Submit, CountsInv
  <2>3. at'[j] = next /\ \A k \in Jobs \ {j} : at'[k] = at[k]
    BY <1>1, <2>1 DEF RunTypes
  <2>4. CASE UNCHANGED <<metrics, recorded>>
    BY <1>1, <2>2, <2>3, <2>4, CountsRest
  <2>5. CASE /\ next = "queued" /\ recorded' = recorded \cup {j}
             /\ metrics' = RecordSubmission(metrics, language[j]) /\ faults' = faults
    <3>1. /\ at'[j] # "new"
          /\ \A k \in Jobs : \/ at'[k] = at[k]
                             \/ at[k] \notin {"stored", "lost"} /\ at'[k] = "queued"
      BY <2>2, <2>3, <2>5
    <3> QED BY <1>1, <2>2, <2>5, <3>1, SubmissionsAgree
  <2> QED BY <2>1, <2>4, <2>5
<1> QED BY <1>2, <1>3

LEMMA StoreCounts ==
    ASSUME RunsInv, CountsInv, NEW j \in Jobs, Store(j)
    PROVE  CountsInv'
<1>1. /\ RunTypes /\ at[j] = "returned" /\ UNCHANGED <<language, status, recorded>>
      /\ faults \in Nat /\ faults' \in {faults, faults + 1}
  BY DEF Store, Fail, workVars, RunsInv, CountsInv
<1>2. CASE GoTo(j, "threw") /\ UNCHANGED <<metrics, early>>
  <2>1. at'[j] = "threw" /\ \A k \in Jobs \ {j} : at'[k] = at[k]
    BY <1>1, <1>2 DEF RunTypes, GoTo
  <2> QED BY <1>1, <1>2, <2>1, CountsRest
<1>3. ASSUME NEW timed \in BOOLEAN, GoTo(j, "stored"),
             metrics' = RecordCompletion(metrics, status[j], language[j], timed),
             early' = IF j \in recorded THEN early ELSE early \cup {j},
             faults' = faults
      PROVE  CountsInv'
  <2> DEFINE l == language[j]
             S == { k \in Jobs : at[k] = "stored" }
             B(s) == { k \in Jobs : at[k] = "stored" /\ status[k] = s }
  <2>1. /\ at'[j] = "stored" /\ \A k \in Jobs \ {j} : at'[k] = at[k]
        /\ l \in Names /\ j \notin S
    BY <1>1, <1>3, LanguagesAreNames DEF RunTypes, GoTo
  <2>2. /\ Metrics(metrics)' /\ metrics'.submitted = metrics.submitted
        /\ metrics'.known = metrics.known /\ metrics'.errors = metrics.errors
        /\ metrics'.completed = metrics.completed + 1
        /\ \A b \in Buckets : metrics'.bucket[b] =
              IF b = status[j] THEN metrics.bucket[b] + 1 ELSE metrics.bucket[b]
        /\ \A k \in Names :
              /\ metrics'.completedIn[k] = IF k = l /\ l \in metrics.known
                                  THEN metrics.completedIn[k] + 1 ELSE metrics.completedIn[k]
              /\ metrics'.executionsIn[k] = IF k = l /\ timed
                                  THEN metrics.executionsIn[k] + 1 ELSE metrics.executionsIn[k]
    BY <1>3, <2>1, CompletionRecorded DEF CountsInv, Metrics
  <2>3. { k \in Jobs : at'[k] = "stored" } = S \cup {j} /\ Cardinality(S \cup {j}) = Cardinality(S) + 1
    BY <2>1, OneMore
  <2>4. \A s \in Buckets :
           Cardinality({ k \in Jobs : at'[k] = "stored" /\ status'[k] = s }) =
              IF s = status[j] THEN Cardinality(B(s)) + 1 ELSE Cardinality(B(s))
    <3> SUFFICES ASSUME NEW s \in Buckets
                 PROVE  Cardinality({ k \in Jobs : at'[k] = "stored" /\ status'[k] = s }) =
                           IF s = status[j] THEN Cardinality(B(s)) + 1 ELSE Cardinality(B(s))
      OBVIOUS
    <3>1. { k \in Jobs : at'[k] = "stored" /\ status'[k] = s } =
             IF s = status[j] THEN B(s) \cup {j} ELSE B(s)
      BY <1>1, <2>1
    <3>2. B(s) \in SUBSET Jobs /\ j \notin B(s)
      BY <2>1
    <3>3. Cardinality(B(s) \cup {j}) = Cardinality(B(s)) + 1
      BY <3>2, OneMore
    <3> QED BY <3>1, <3>3
  <2>5. { k \in Jobs : at'[k] = "lost" } = { k \in Jobs : at[k] = "lost" }
    BY <1>1, <2>1
  <2>6. ASSUME NEW k \in Names
        PROVE  /\ metrics'.completedIn[k] <= Cardinality(StoredIn(k)')
               /\ metrics'.completedIn[k] >= Cardinality(StoredIn(k)' \ early')
               /\ metrics'.executionsIn[k] <= Cardinality(StoredIn(k)')
    <3>1. /\ StoredIn(k) \in SUBSET Jobs /\ j \notin StoredIn(k)
          /\ StoredIn(k)' = IF k = l THEN StoredIn(k) \cup {j} ELSE StoredIn(k)
      BY <1>1, <2>1 DEF StoredIn
    <3>2. Cardinality(StoredIn(k) \cup {j}) = Cardinality(StoredIn(k)) + 1
      BY <3>1, OneMore
    <3>3. /\ Cardinality(StoredIn(k)) \in Nat /\ Cardinality(StoredIn(k) \ early) \in Nat
          /\ IsFiniteSet(StoredIn(k) \ early)
      BY <3>1, JobsAreFew
    <3>4. /\ metrics.completedIn[k] \in Nat /\ metrics.executionsIn[k] \in Nat
          /\ metrics.completedIn[k] <= Cardinality(StoredIn(k))
          /\ metrics.completedIn[k] >= Cardinality(StoredIn(k) \ early)
          /\ metrics.executionsIn[k] <= Cardinality(StoredIn(k))
      BY DEF CountsInv, CountsAgree, Metrics
    <3>5. Cardinality(StoredIn(k)') \in {Cardinality(StoredIn(k)), Cardinality(StoredIn(k)) + 1}
          /\ (k = l => Cardinality(StoredIn(k)') = Cardinality(StoredIn(k)) + 1)
      BY <3>1, <3>2
    <3>6. CASE k = l /\ j \in recorded
      <4>1. l \in metrics.known /\ early' = early
        BY <1>1, <1>3, <3>6 DEF CountsInv
      <4>2. Cardinality((StoredIn(k) \ early) \cup {j}) <= Cardinality(StoredIn(k) \ early) + 1
            /\ IsFiniteSet((StoredIn(k) \ early) \cup {j})
            /\ Cardinality((StoredIn(k) \ early) \cup {j}) \in Nat
        <5> DEFINE E == StoredIn(k) \ early
        <5> HIDE DEF E
        <5>1. IsFiniteSet(E) /\ Cardinality(E) \in Nat
          BY <3>3 DEF E
        <5>2. /\ IsFiniteSet(E \cup {j})
              /\ \/ Cardinality(E \cup {j}) = Cardinality(E)
                 \/ Cardinality(E \cup {j}) = Cardinality(E) + 1
          BY <5>1, FS_AddElement
        <5> QED BY <5>1, <5>2 DEF E
      <4>3. StoredIn(k)' \ early' \subseteq (StoredIn(k) \ early) \cup {j}
        BY <3>1, <4>1
      <4>4. Cardinality(StoredIn(k)' \ early') <= Cardinality(StoredIn(k) \ early) + 1
            /\ Cardinality(StoredIn(k)' \ early') \in Nat
        BY <4>2, <4>3, FS_Subset, FS_CardinalityType
      <4> QED BY <2>2, <3>3, <3>4, <3>5, <3>6, <4>1, <4>4
    <3>7. CASE ~(k = l /\ j \in recorded)
      <4>1. StoredIn(k)' \ early' \subseteq StoredIn(k) \ early
        BY <1>3, <3>1, <3>7
      <4>2. Cardinality(StoredIn(k)' \ early') <= Cardinality(StoredIn(k) \ early)
            /\ Cardinality(StoredIn(k)' \ early') \in Nat
        BY <3>3, <4>1, FS_Subset, FS_CardinalityType
      <4> QED BY <2>2, <3>3, <3>4, <3>5, <4>2
    <3> QED BY <3>6, <3>7
  <2>7. CountsAgree'
    <3>1. /\ metrics'.submitted = Cardinality(recorded')
          /\ Cardinality({ k \in Jobs : at'[k] = "lost" }) <= metrics'.errors
          /\ metrics'.errors <= faults'
          /\ metrics'.completed = Cardinality({ k \in Jobs : at'[k] = "stored" })
      BY <1>1, <1>3, <2>2, <2>3, <2>5 DEF CountsInv, CountsAgree
    <3>2. \A s \in Buckets : metrics.bucket[s] = Cardinality(B(s))
      BY DEF CountsInv, CountsAgree
    <3>3. \A s \in Buckets : metrics'.bucket[s] =
             Cardinality({ k \in Jobs : at'[k] = "stored" /\ status'[k] = s })
      <4> SUFFICES ASSUME NEW s \in Buckets
                   PROVE  metrics'.bucket[s] =
                           Cardinality({ k \in Jobs : at'[k] = "stored" /\ status'[k] = s })
        OBVIOUS
      <4> HIDE DEF B
      <4> QED BY <2>2, <2>4, <3>2
    <3> QED BY <2>6, <3>1, <3>3 DEF CountsAgree
  <2>8. \A k \in recorded' : at'[k] # "new" /\ language'[k] \in metrics'.known
    BY <1>1, <2>1, <2>2 DEF CountsInv
  <2> QED BY <1>1, <2>2, <2>7, <2>8 DEF CountsInv
<1> QED BY <1>2, <1>3 DEF Store

\* The catch of a turn counts an error, for a job that is given up or for
\* none.
LEMMA CatchCounts ==
    ASSUME RunsInv, CountsInv, Catch, UNCHANGED <<language, status, recorded, early>>,
           \/ at' = at
           \/ \E j \in Jobs : at[j] \in {"queued", "threw"} /\ GoTo(j, "lost")
    PROVE  CountsInv'
<1>1. /\ RunTypes /\ faults \in Nat /\ faults' = faults + 1
      /\ metrics' = RecordWorkerError(metrics)
  BY DEF RunsInv, CountsInv, Catch, Fail
<1> DEFINE L == { k \in Jobs : at[k] = "lost" }
<1>2. /\ Metrics(metrics)' /\ metrics'.errors = metrics.errors + 1
      /\ metrics'.submitted = metrics.submitted /\ metrics'.known = metrics.known
      /\ metrics'.completed = metrics.completed /\ metrics'.bucket = metrics.bucket
      /\ metrics'.completedIn = metrics.completedIn
      /\ metrics'.executionsIn = metrics.executionsIn
  BY <1>1, ErrorRecorded DEF CountsInv, Metrics
<1>3. \A k \in Jobs : at'[k] = at[k] \/ (at[k] \in {"queued", "threw"} /\ at'[k] = "lost")
  BY <1>1 DEF RunTypes, GoTo
<1>4. Cardinality({ k \in Jobs : at'[k] = "lost" }) <= Cardinality(L) + 1
      /\ Cardinality(L) \in Nat
  <2>1. CASE at' = at
    BY <2>1, JobsAreFew
  <2>2. ASSUME NEW j \in Jobs, at[j] \in {"queued", "threw"}, GoTo(j, "lost")
        PROVE  Cardinality({ k \in Jobs : at'[k] = "lost" }) <= Cardinality(L) + 1
    <3>1. at'[j] = "lost" /\ j \notin L /\ \A k \in Jobs \ {j} : at'[k] = at[k]
      BY <1>1, <2>2 DEF RunTypes, GoTo
    <3>2. { k \in Jobs : at'[k] = "lost" } = L \cup {j}
      BY <3>1
    <3>3. Cardinality(L \cup {j}) = Cardinality(L) + 1 /\ Cardinality(L) \in Nat
      BY <3>1, OneMore, JobsAreFew
    <3>4. Cardinality({ k \in Jobs : at'[k] = "lost" }) = Cardinality(L) + 1
      BY <3>2, <3>3
    <3> HIDE DEF L
    <3> QED BY <3>3, <3>4
  <2> QED BY <2>1, <2>2, JobsAreFew
<1>5. /\ \A l \in Names : StoredIn(l)' = StoredIn(l)
      /\ { k \in Jobs : at'[k] = "stored" } = { k \in Jobs : at[k] = "stored" }
      /\ \A s \in Buckets : { k \in Jobs : at'[k] = "stored" /\ status'[k] = s }
                             = { k \in Jobs : at[k] = "stored" /\ status[k] = s }
  BY <1>3 DEF StoredIn
<1>6. /\ Cardinality({ k \in Jobs : at'[k] = "lost" }) <= metrics'.errors
      /\ metrics'.errors <= faults'
  <2>1. Cardinality(L) <= metrics.errors /\ metrics.errors <= faults /\ metrics.errors \in Nat
    BY DEF CountsInv, CountsAgree, Metrics
  <2>2. Cardinality({ k \in Jobs : at'[k] = "lost" }) \in Nat
    BY JobsAreFew
  <2> HIDE DEF L
  <2> QED BY <1>1, <1>2, <1>4, <2>1, <2>2
<1>7. CountsAgree'
  BY <1>2, <1>5, <1>6 DEF CountsInv, CountsAgree
<1> QED BY <1>1, <1>2, <1>3, <1>7 DEF CountsInv

LEMMA FailureCounts ==
    ASSUME RunsInv, CountsInv, NEW j \in Jobs, TurnFails(j) \/ StoreFailure(j) \/ Complete(j)
    PROVE  CountsInv'
<1>1. /\ RunTypes /\ UNCHANGED <<language, status, recorded, early>> /\ faults \in Nat
  BY DEF TurnFails, StoreFailure, Complete, workVars, runVars, RunsInv, CountsInv
<1>2. CASE GoTo(j, "failed") /\ at[j] = "threw" /\ UNCHANGED <<metrics, faults>>
  <2>1. at'[j] = "failed" /\ \A k \in Jobs \ {j} : at'[k] = at[k]
    BY <1>1, <1>2 DEF RunTypes, GoTo
  <2> QED BY <1>1, <1>2, <2>1, CountsRest
<1>3. CASE at' = at /\ UNCHANGED <<metrics, faults>>
  BY <1>1, <1>3, CountsRest
<1>4. CASE Catch /\ (at' = at \/ (at[j] \in {"queued", "threw"} /\ GoTo(j, "lost")))
  BY <1>1, <1>4, CatchCounts
<1> QED BY <1>2, <1>3, <1>4 DEF TurnFails, StoreFailure, Complete, runVars

LEMMA CountsBegin == Init => CountsInv
<1> SUFFICES ASSUME Init PROVE CountsInv
  OBVIOUS
<1>1. Metrics(metrics)
  BY DEF Init, NoMetrics, Metrics
<1>2. /\ recorded = {} /\ { j \in Jobs : at[j] = "stored" } = {}
      /\ { j \in Jobs : at[j] = "lost" } = {}
      /\ \A s \in Buckets : { j \in Jobs : at[j] = "stored" /\ status[j] = s } = {}
      /\ \A l \in Names : StoredIn(l) = {} /\ StoredIn(l) \ early = {}
  BY DEF Init, StoredIn
<1>3. /\ metrics.submitted = 0 /\ metrics.completed = 0 /\ metrics.errors = 0
      /\ \A s \in Buckets : metrics.bucket[s] = 0
      /\ \A l \in Names : metrics.completedIn[l] = 0 /\ metrics.executionsIn[l] = 0
  BY DEF Init, NoMetrics
<1>4. Cardinality({}) = 0 /\ faults = 0
  BY FS_EmptySet DEF Init
<1>5. CountsAgree
  <2>1. \A l \in Names :
           /\ metrics.completedIn[l] <= Cardinality(StoredIn(l))
           /\ metrics.completedIn[l] >= Cardinality(StoredIn(l) \ early)
           /\ metrics.executionsIn[l] <= Cardinality(StoredIn(l))
    <3> SUFFICES ASSUME NEW l \in Names
                 PROVE  /\ metrics.completedIn[l] <= Cardinality(StoredIn(l))
                        /\ metrics.completedIn[l] >= Cardinality(StoredIn(l) \ early)
                        /\ metrics.executionsIn[l] <= Cardinality(StoredIn(l))
      OBVIOUS
    <3>1. Cardinality(StoredIn(l)) = 0 /\ Cardinality(StoredIn(l) \ early) = 0
      BY <1>2, <1>4
    <3> QED BY <1>3, <3>1
  <2>2. \A s \in Buckets :
           metrics.bucket[s] = Cardinality({ j \in Jobs : at[j] = "stored" /\ status[j] = s })
    BY <1>2, <1>3, <1>4
  <2> QED BY <1>2, <1>3, <1>4, <2>1, <2>2 DEF CountsAgree
<1> QED BY <1>1, <1>2, <1>4, <1>5 DEF CountsInv

LEMMA CountsStep == RunsInv /\ CountsInv /\ [Next]_vars => RunsInv' /\ CountsInv'
<1> SUFFICES ASSUME RunsInv, CountsInv, [Next]_vars PROVE CountsInv'
  BY RunsStep
<1>1. CASE UNCHANGED vars
  BY <1>1, CountsRest DEF vars, runVars, CountsInv
<1>2. CASE ClaimFails
  BY <1>2, CatchCounts DEF ClaimFails, runVars
<1> QED BY <1>1, <1>2, RunsCountNothing, SubmitCounts, StoreCounts, FailureCounts DEF Next, Done

(***************************************************************************)
(* metricsCollector.ts, executorWorker.ts: however submissions, runs and   *)
(* late replies interleave, the counters are those of the jobs, except for *)
(* what CountsAgree says they miss.                                        *)
(***************************************************************************)
THEOREM CountersAgree == Spec => []CountsAgree
<1>1. CountsInv => CountsAgree
  BY DEF CountsInv
<1> QED BY <1>1, CountsStep, RunsBegin, CountsBegin, PTL DEF Spec

\* What the types of the runs and of the counters leave open.
Books == early \subseteq Jobs /\ ended \subseteq Jobs /\ faults \in 0..MaxFaults

LEMMA BooksStep == Books /\ [Next]_vars => Books'
<1> SUFFICES ASSUME Books, [Next]_vars PROVE Books'
  OBVIOUS
<1> USE DEF Next, Submit, Submitted, Admit, TurnFails, ClaimFails, Compile, Run, Outside, Store,
            StoreFailure, Complete, Catch, Fail, Done, vars
<1>1. MaxFaults \in Nat /\ faults \in Nat /\ faults <= MaxFaults
  BY FaultsAssumption DEF Books
<1>2. faults' = faults \/ (faults < MaxFaults /\ faults' = faults + 1)
  OBVIOUS
<1>3. early' = early \/ \E j \in Jobs : early' = early \cup {j}
  OBVIOUS
<1>4. ended' = ended \/ \E j \in Jobs : ended' = ended \cup {j}
  OBVIOUS
<1>5. faults' \in 0..MaxFaults
  BY <1>1, <1>2
<1>6. early' \subseteq Jobs /\ ended' \subseteq Jobs
  BY <1>3, <1>4 DEF Books
<1> QED BY <1>5, <1>6 DEF Books

(***************************************************************************)
(* runner.ts, executeContainer.ts, executorWorker.ts, metricsCollector.ts: *)
(* the records of a run have their shape, for any jobs and inputs.         *)
(***************************************************************************)
THEOREM RunsTyped == Spec => []TypeOK
<1>1. Init => Books
  BY FaultsAssumption DEF Init, Books
<1>2. RunsInv /\ CountsInv /\ Books => TypeOK
  <2> SUFFICES ASSUME RunsInv, CountsInv, Books PROVE TypeOK
    OBVIOUS
  <2>1. RunnerTypeOK /\ at \in [Jobs -> Busy \cup Over \cup {"new", "queued", "returned", "threw"}]
    BY DEF RunsInv, RunTypes, Places
  <2>2. metrics.bucket \in [Buckets -> Nat] /\ metrics.known \subseteq Names
    BY DEF CountsInv, Metrics
  <2>3. {recorded, early, ended} \subseteq SUBSET Jobs
    BY DEF CountsInv, Books
  <2> QED BY <2>1, <2>2, <2>3 DEF TypeOK, Books
<1> QED BY <1>1, <1>2, CountsStep, BooksStep, RunsBegin, CountsBegin, PTL DEF Spec
=============================================================================
