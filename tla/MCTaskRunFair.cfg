\* Every graph of up to three tasks, pools of one and of two threads, any task
\* may fail.
CONSTANTS
    MaxTasks = 3
    MaxPreds = 2
    Workers = {w1, w2}
    NoWorker = NoWorker
    Outcomes = {TRUE, FALSE}
    SpuriousWakeups = FALSE

SPECIFICATION FairSpec

INVARIANTS
    NoEarlyExit

PROPERTIES
    AllSettle
    SoleWorkerReturns

\* The run stops when RunTasks has returned, and may hang before (Terminates).
CHECK_DEADLOCK FALSE
