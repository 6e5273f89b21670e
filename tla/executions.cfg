SPECIFICATION LiveSpec
CONSTANTS
    j1 = j1
    j2 = j2
    Jobs = {j1, j2}
    Names = {"c", "java", "py", "python", "rust"}
    Submissions <- MCSubmissions
    NoJob = NoJob
    InputCount <- MCInputCount
    MaxFaults = 1
INVARIANTS TypeOK VerdictsAreTrue ContainersEnd CountsAgree
PROPERTIES RunsEnd
