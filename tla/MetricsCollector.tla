-------------------------- MODULE MetricsCollector --------------------------
(***************************************************************************)
(* The counters of src/src/infrastructure/metrics/metricsCollector.ts that *)
(* follow runs; the gauges of queue and system and the samples of times    *)
(* are left out.  Of an execution only whether it took a measurable time   *)
(* is kept.                                                                *)
(***************************************************************************)
EXTENDS Naturals, Languages

Buckets == {"ACCEPTED", "RUNTIME_ERROR", "TIME_LIMIT_EXCEEDED", "COMPILE_ERROR"}

\* The constructor.  known: the keys of jobs.by_language
NoMetrics ==
    [submitted |-> 0, completed |-> 0,
     bucket |-> [s \in Buckets |-> 0],
     known |-> {},
     submittedIn |-> [l \in Names |-> 0],
     completedIn |-> [l \in Names |-> 0],
     executions |-> 0,
     executionsIn |-> [l \in Names |-> 0],
     errors |-> 0]

RecordSubmission(m, language) ==
    [m EXCEPT !.submitted = @ + 1,
              !.known = @ \cup {language},
              !.submittedIn[language] = @ + 1]

\* Slip: the case of COMPILE_ERROR falls through into no bucket at all.
RecordCompletion_NoCompileErrors(m, status, language, timed) ==
    [m EXCEPT !.completed = @ + 1,
              !.bucket = [s \in Buckets |->
                            m.bucket[s] + (IF s = status /\ s # "COMPILE_ERROR" THEN 1 ELSE 0)],
              !.completedIn[language] = IF language \in m.known THEN @ + 1 ELSE @]

\* A status without a case is counted in no bucket; a language nothing was
\* recorded of yet is counted for nobody; a time of 0 ms is no execution.
RecordCompletion(m, status, language, timed) ==
    LET took == IF timed THEN 1 ELSE 0
    IN  [m EXCEPT !.completed = @ + 1,
                  !.bucket = [s \in Buckets |-> m.bucket[s] + (IF s = status THEN 1 ELSE 0)],
                  !.completedIn[language] = IF language \in m.known THEN @ + 1 ELSE @,
                  !.executions = @ + took,
                  !.executionsIn[language] = @ + took]

RecordWorkerError(m) == [m EXCEPT !.errors = @ + 1]
=============================================================================
