\* One thread: a skipped task is counted twice and another is never run.
CONSTANTS
    MaxTasks = 4
    MaxPreds = 2
    Workers = {w1}
    NoWorker = NoWorker
    Outcomes = {TRUE, FALSE}
    SpuriousWakeups = FALSE

SPECIFICATION Spec

INVARIANTS
    ExecutesAll

\* The run stops when RunTasks has returned, and may hang before (Terminates).
CHECK_DEADLOCK FALSE
