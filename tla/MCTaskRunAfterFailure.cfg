\* Two threads: a dependent starts before its failed dependency skips it.
CONSTANTS
    MaxTasks = 3
    MaxPreds = 2
    Workers = {w1, w2}
    NoWorker = NoWorker
    Outcomes = {TRUE, FALSE}
    SpuriousWakeups = FALSE

SPECIFICATION Spec

INVARIANTS
    FailureStopsDependents

\* The run stops when RunTasks has returned, and may hang before (Terminates).
CHECK_DEADLOCK FALSE
