\* Two tasks, two threads, nothing fails: the last notification is lost.
CONSTANTS
    MaxTasks = 2
    MaxPreds = 1
    Workers = {w1, w2}
    NoWorker = NoWorker
    Outcomes = {TRUE}
    SpuriousWakeups = FALSE

SPECIFICATION FairSpec

PROPERTIES
    Terminates

\* The run stops when RunTasks has returned, and may hang before (Terminates).
CHECK_DEADLOCK FALSE
