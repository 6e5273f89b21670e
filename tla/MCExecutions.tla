---------------------------- MODULE MCExecutions ----------------------------
EXTENDS Executions, TLC

CONSTANTS j1, j2

MCInputCount == j1 :> 2 @@ j2 :> 1

\* With a compiler and without; Java beside a language there is not; the
\* same alias twice
MCSubmissions ==
    { j1 :> "c" @@ j2 :> "python", j1 :> "java" @@ j2 :> "rust", j1 :> "py" @@ j2 :> "py" }
=============================================================================
