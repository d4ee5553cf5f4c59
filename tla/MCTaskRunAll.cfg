\* Every graph of up to three tasks, three threads, any task may fail.
CONSTANTS
    MaxTasks = 3
    MaxPreds = 2
    Workers = {w1, w2, w3}
    NoWorker = NoWorker
    Outcomes = {TRUE, FALSE}
    SpuriousWakeups = TRUE

SYMMETRY WorkerSymmetry

SPECIFICATION Spec

INVARIANTS
    TypeOK
    StartsAfterDeps
    RunNotRefused
    ResultCorrect
    CountNeverAhead
    PopsReadyTask
    FailureStopsForest

PROPERTIES
    ImplementsSchedule

\* The run stops when RunTasks has returned, and may hang before (Terminates).
CHECK_DEADLOCK FALSE
