------------------------------- MODULE Runner -------------------------------
(***************************************************************************)
(* src/src/core/runner/: runCode and the containers it starts, for several *)
(* jobs of one process at once.  Docker's daemon, the programs and the     *)
(* clock are the environment.  The runs share one event loop, and the kill *)
(* timer calls spawnSync, which stops that loop for up to 2 s.  A program  *)
(* ends, its docker client exits and the loop hears of it at three times,  *)
(* and the timer may be first at any of them.                              *)
(***************************************************************************)
EXTENDS Naturals, FiniteSets, Sequences, Languages

CONSTANTS
    Jobs,
    Submissions, \* languages that the jobs may be submitted with
    InputCount,  \* how many inputs each has (POST /submit allows 1 to 50)
    NoJob        \* null

ASSUME InputsAssumption == InputCount \in [Jobs -> 1..50]
ASSUME SubmissionsAssumption == Submissions \subseteq [Jobs -> Names]
ASSUME JobAssumption == NoJob \notin Jobs /\ IsFiniteSet(Jobs)

VARIABLES
    at,          \* where the run of a job is
    language,    \* of the job record
    results,     \* results, the status of each
    status,      \* what runCode returned
    client,      \* the docker client of each input: its process and its events
    box,         \* the container of each input
    exit,        \* how its program ended
    timer,       \* killTimer
    killing,     \* the job whose timer is inside spawnSync("docker", ["kill", ..])
    missed       \* history: inputs whose container is there after docker kill

runVars == <<at, language, results, status, client, box, exit, timer, killing,
             missed>>

Inputs == UNION { 1..InputCount[j] : j \in Jobs }
Statuses == {"ACCEPTED", "RUNTIME_ERROR", "TIME_LIMIT_EXCEEDED", "COMPILE_ERROR",
             "SYSTEM_ERROR"}
Busy == {"compile", "spawn", "run"}

RunnerInit ==
    /\ language \in Submissions
    /\ results = [j \in Jobs |-> <<>>]
    /\ status = [j \in Jobs |-> "none"]
    /\ client = [j \in Jobs |-> [n \in Inputs |-> "none"]]
    /\ box = [j \in Jobs |-> [n \in Inputs |-> "none"]]
    /\ exit = [j \in Jobs |-> [n \in Inputs |-> "none"]]
    /\ timer = [j \in Jobs |-> "off"]
    /\ killing = NoJob
    /\ missed = {}

-----------------------------------------------------------------------------

\* Slip: nothing is found if nothing failed.
OverallStatus_FindOnly(rs) ==
    IF \E i \in DOMAIN rs : rs[i] # "ACCEPTED"
    THEN rs[CHOOSE i \in DOMAIN rs : rs[i] # "ACCEPTED"] ELSE "undefined"

\* getOverallStatus: that of the first result that is not ACCEPTED
OverallStatus(rs) ==
    LET bad == { i \in DOMAIN rs : rs[i] # "ACCEPTED" }
    IN  IF bad = {} THEN "ACCEPTED"
        ELSE rs[CHOOSE i \in bad : \A k \in bad : i <= k]

\* The input that is being run.
Now(j) == Len(results[j]) + 1

\* The event loop can turn to j.
Free == killing = NoJob

\* runCode returns; its finally removes the directory.
Return(j, s) ==
    /\ at' = [at EXCEPT ![j] = "returned"]
    /\ status' = [status EXCEPT ![j] = s]

\* A result comes in: the next input, or the end.
Take(j, s) ==
    LET rs == Append(results[j], s)
    IN  /\ results' = [results EXCEPT ![j] = rs]
        /\ timer' = [timer EXCEPT ![j] = "off"]
        /\ IF Len(rs) < InputCount[j]
           THEN at' = [at EXCEPT ![j] = "spawn"] /\ UNCHANGED status
           ELSE Return(j, OverallStatus(rs))

\* runCode up to its first await.  An alias of a language has no branch,
\* and the source may not be written.  Without a directory (mkdtempSync is
\* outside the try) it throws.
Begin(j) ==
    /\ Free
    /\ \/ /\ language[j] \in {"c", "python", "java"}
          /\ at' = [at EXCEPT ![j] = IF language[j] = "c" THEN "compile" ELSE "spawn"]
          /\ UNCHANGED status
       \/ Return(j, "SYSTEM_ERROR")
       \/ at' = [at EXCEPT ![j] = "threw"] /\ UNCHANGED status
    /\ UNCHANGED <<language, results, client, box, exit, timer, killing,
                   missed>>

\* compileC is over.  It has no timer, and any failure counts as the
\* program's, one of docker too.
CompileEnds(j) ==
    /\ at[j] = "compile" /\ Free
    /\ \/ at' = [at EXCEPT ![j] = "spawn"] /\ UNCHANGED status
       \/ Return(j, "COMPILE_ERROR")
    /\ UNCHANGED <<language, results, client, box, exit, timer, killing,
                   missed>>

\* Slip: the timer is forgotten.
Spawn_NoTimer(j) ==
    /\ at[j] = "spawn" /\ Free
    /\ at' = [at EXCEPT ![j] = "run"]
    /\ client' = [client EXCEPT ![j][Now(j)] = "up"]
    /\ box' = [box EXCEPT ![j][Now(j)] = "asked"]
    /\ UNCHANGED <<language, results, status, exit, timer, killing, missed>>

\* executeContainer or runJava: spawn("docker", ..) and the timer
Spawn(j) ==
    /\ at[j] = "spawn" /\ Free
    /\ at' = [at EXCEPT ![j] = "run"]
    /\ client' = [client EXCEPT ![j][Now(j)] = "up"]
    /\ box' = [box EXCEPT ![j][Now(j)] = "asked"]
    /\ timer' = [timer EXCEPT ![j] = "set"]
    /\ UNCHANGED <<language, results, status, exit, killing, missed>>

\* The "error" event of a process that could not be started: a result for
\* runJava, the end of the run for the others, and for all if spawn throws.
\* The "close" event after it finds the promise settled.
SpawnFails(j) ==
    /\ at[j] = "spawn" /\ Free
    /\ client' = [client EXCEPT ![j][Now(j)] = "exited"]
    /\ \/ language[j] = "java" /\ Take(j, "RUNTIME_ERROR")
       \/ Return(j, "SYSTEM_ERROR") /\ UNCHANGED <<results, timer>>
    /\ UNCHANGED <<language, box, exit, killing, missed>>

\* Slip: finished is not set when the timer has settled the promise.
Close_NotOnce(j, n) ==
    /\ client[j][n] = "exited" /\ Free
    /\ client' = [client EXCEPT ![j][n] = "closed"]
    /\ IF at[j] = "run"
       THEN Take(j, IF exit[j][n] = "zero" THEN "ACCEPTED" ELSE "RUNTIME_ERROR")
       ELSE UNCHANGED <<at, results, status, timer>>
    /\ UNCHANGED <<language, box, exit, killing, missed>>

\* The "close" event of input n.  If its promise is settled, nothing; else
\* the exit code decides.  For Java a failing javac is told from a failing
\* program by what is on stderr, if the words are among those looked for.
Close(j, n) ==
    /\ client[j][n] = "exited" /\ Free
    /\ client' = [client EXCEPT ![j][n] = "closed"]
    /\ IF at[j] = "run" /\ n = Now(j)
       THEN \/ exit[j][n] = "zero" /\ Take(j, "ACCEPTED")
            \/ exit[j][n] # "zero" /\ Take(j, "RUNTIME_ERROR")
            \/ exit[j][n] # "zero" /\ language[j] = "java" /\ Take(j, "COMPILE_ERROR")
       ELSE UNCHANGED <<at, results, status, timer>>
    /\ UNCHANGED <<language, box, exit, killing, missed>>

\* The timer fires: docker kill, while everything else in the process waits.
Expire(j) ==
    /\ timer[j] = "due" /\ Free
    /\ killing' = j
    /\ UNCHANGED <<at, language, results, status, client, box, exit, timer, missed>>

\* Slip: only the client is killed, without docker kill.
KillReturns_ClientOnly(j) ==
    /\ killing = j /\ killing' = NoJob
    /\ client' = [client EXCEPT ![j][Now(j)] = IF @ = "up" THEN "exited" ELSE @]
    /\ Take(j, "TIME_LIMIT_EXCEEDED")
    /\ UNCHANGED <<language, box, exit, missed>>

\* docker kill is over: it ended the container, or missed it, because there
\* is none yet, or it failed, or took more than 2 s.  Then the client is
\* killed, and the input has its result.
KillReturns(j) ==
    LET n == Now(j)
    IN  /\ killing = j /\ killing' = NoJob
        /\ \/ /\ box[j][n] = "up"
              /\ box' = [box EXCEPT ![j][n] = "gone"]
              /\ exit' = [exit EXCEPT ![j][n] = "killed"]
              /\ UNCHANGED missed
           \/ /\ missed' = IF box[j][n] = "gone" THEN missed ELSE missed \cup {<<j, n>>}
              /\ UNCHANGED <<box, exit>>
        /\ client' = [client EXCEPT ![j][n] = IF @ = "up" THEN "exited" ELSE @]
        /\ Take(j, "TIME_LIMIT_EXCEEDED")
        /\ UNCHANGED language

-----------------------------------------------------------------------------
(* The environment *)

DaemonStarts(j, n) ==
    /\ box[j][n] = "asked"
    /\ box' = [box EXCEPT ![j][n] = "up"]
    /\ UNCHANGED <<at, language, results, status, client, exit, timer, killing,
                   missed>>

\* The program ends, or the daemon cannot start it, which docker run tells
\* by an exit code of its own.
ProgramEnds(j, n) ==
    /\ \/ box[j][n] = "up" /\ \E e \in {"zero", "nonzero"} : exit' = [exit EXCEPT ![j][n] = e]
       \/ box[j][n] = "asked" /\ exit' = [exit EXCEPT ![j][n] = "nonzero"]
    /\ box' = [box EXCEPT ![j][n] = "gone"]
    /\ missed' = missed \ {<<j, n>>}
    /\ UNCHANGED <<at, language, results, status, client, timer, killing>>

\* docker run --rm has waited for the container, and exits with its code.
ClientExits(j, n) ==
    /\ client[j][n] = "up" /\ box[j][n] = "gone"
    /\ client' = [client EXCEPT ![j][n] = "exited"]
    /\ UNCHANGED <<at, language, results, status, box, exit, timer, killing,
                   missed>>

\* Time is up, however far the input is.
TimeIsUp(j) ==
    /\ timer[j] = "set"
    /\ timer' = [timer EXCEPT ![j] = "due"]
    /\ UNCHANGED <<at, language, results, status, client, box, exit, killing, missed>>

Environment(j) ==
    \/ TimeIsUp(j)
    \/ \E n \in Inputs : DaemonStarts(j, n) \/ ProgramEnds(j, n) \/ ClientExits(j, n)

\* What the event loop does for a job that has been compiled.
RunnerStep(j) ==
    \/ Spawn(j) \/ SpawnFails(j) \/ Expire(j) \/ KillReturns(j)
    \/ \E n \in Inputs : Close(j, n)

-----------------------------------------------------------------------------
(* Properties *)

RunnerTypeOK ==
    /\ language \in Submissions
    /\ results \in [Jobs -> Seq(Statuses)]
    /\ status \in [Jobs -> Statuses \cup {"none"}]
    /\ client \in [Jobs -> [Inputs -> {"none", "up", "exited", "closed"}]]
    /\ box \in [Jobs -> [Inputs -> {"none", "asked", "up", "gone"}]]
    /\ exit \in [Jobs -> [Inputs -> {"none", "zero", "nonzero", "killed"}]]
    /\ timer \in [Jobs -> {"off", "set", "due"}]
    /\ killing \in Jobs \cup {NoJob}
    /\ missed \subseteq Jobs \X Inputs

\* Verdicts follow from what the programs did, each input's from its own,
\* however close, error and timer events of different inputs and jobs mix:
\* a job is ACCEPTED only if its program succeeded on every input, and a
\* result by exit code is that of a program nobody killed
\* (executeContainer.ts:32-101).  Nothing is said of TIME_LIMIT_EXCEEDED: the
\* timer may fire while the client of a program that ended in time exits.
VerdictsAreTrue ==
    \A j \in Jobs :
        /\ status[j] = "ACCEPTED" => \A n \in 1..InputCount[j] : exit[j][n] = "zero"
        /\ \A n \in DOMAIN results[j] :
              /\ results[j][n] = "ACCEPTED" => exit[j][n] = "zero"
              /\ results[j][n] \in {"RUNTIME_ERROR", "COMPILE_ERROR"} =>
                    exit[j][n] = "nonzero" \/ (language[j] = "java" /\ box[j][n] = "none")

\* A job has no container but that of the input being run: those of earlier
\* inputs have ended, and when runCode removes the directory all have, but
\* for those that docker kill was sent to and missed (executeContainer.ts:68).
ContainersEnd ==
    \A j \in Jobs, n \in Inputs :
        box[j][n] \in {"asked", "up"} =>
            (at[j] = "run" /\ n = Now(j)) \/ <<j, n>> \in missed
=============================================================================
