------------------------------- MODULE TaskRun -------------------------------
(***************************************************************************)
(* TaskGraph::RunTasks of src/source/Task.cxx: a pool of worker threads     *)
(* pops ready tasks, runs them, releases their dependents and skips what    *)
(* depends on a failure, while the main thread joins the pool.              *)
(*                                                                          *)
(* One action per step another thread can observe.  readyMtx, failureMtx    *)
(* and the condition variable readyCond are explicit: a waiter evaluates    *)
(* its predicate, blocks, and takes the mutex back in three steps, and a    *)
(* notification reaches only the threads already blocked.                   *)
(***************************************************************************)
EXTENDS TaskGraph, Sequences

CONSTANTS Workers,          \* the threads hardware_concurrency() allows at most
          NoWorker,         \* nobody holds a mutex
          Outcomes,         \* what a task's callback may return
          SpuriousWakeups   \* whether wait() may return without a notification

ASSUME RunAssumption ==
    /\ Workers # {}
    /\ NoWorker \notin Workers
    /\ Outcomes \subseteq BOOLEAN
    /\ SpuriousWakeups \in BOOLEAN

VARIABLES state,            \* Task::state of every task
          ready,            \* the queue of tasks to run
          readyMtx,         \* the worker holding it, or NoWorker
          waiting,          \* workers blocked in readyCond.wait
          failureMtx,       \* the worker holding it, or NoWorker
          completed,        \* the count that ends the run
          succeeded,        \* the count that decides its result
          completedQueue,   \* the order successes were recorded in
          main,             \* where the calling thread is
          result,           \* what RunTasks returned
          pc,               \* where each worker is
          nextTask,         \* the task a worker popped
          ok,               \* what its Run returned
          todo,             \* the tasks a worker's loop has still to visit
          freed,            \* the dependent a worker is about to queue
          skipped           \* skippedCount of skipDescendants

sharedVars == <<state, ready, readyMtx, waiting, failureMtx, completed,
                succeeded, completedQueue>>
mainVars   == <<main, result>>
localVars  == <<pc, nextTask, ok, todo, freed, skipped>>
vars       == <<graphVars, sharedVars, mainVars, localVars>>

TaskState == {"Pending", "Running", "Finished", "Skipped", "Failed"}

Labels == {"idle", "lock", "check", "block", "blocked", "pop", "run", "body",
           "count", "release", "push", "succeed", "fail", "skip", "notify", "last", "done", "undefined"}

-----------------------------------------------------------------------------
RunInit ==
    /\ state = [t \in TaskIds |-> "Pending"]
    /\ ready = <<>>
    /\ readyMtx = NoWorker
    /\ waiting = {}
    /\ failureMtx = NoWorker
    /\ completed = 0
    /\ succeeded = 0
    /\ completedQueue = <<>>
    /\ main = "building"
    /\ result = FALSE
    /\ pc = [w \in Workers |-> "idle"]
    /\ nextTask = [w \in Workers |-> 0]
    /\ ok = [w \in Workers |-> FALSE]
    /\ todo = [w \in Workers |-> {}]
    /\ freed = [w \in Workers |-> 0]
    /\ skipped = [w \in Workers |-> 0]

Init == GraphInit /\ RunInit

-----------------------------------------------------------------------------
(* The calling thread.                                                      *)

Build ==
    /\ main = "building"
    /\ GraphNext
    /\ UNCHANGED <<sharedVars, mainVars, localVars>>

\* The empty graph: "nothing to do".
RunNothing ==
    /\ main = "building"
    /\ curId = 0
    /\ main' = "returned"
    /\ result' = TRUE
    /\ UNCHANGED <<graphVars, sharedVars, localVars>>

\* One worker per task at most.
PoolSize(cores) == IF cores <= curId THEN cores ELSE curId

\* Mutant: every task is queued at the start.
Sources_All == Tasks

Sources == {t \in Tasks : inDegree[t] = 0}

\* Queue the tasks without dependencies in id order and start the pool.  The
\* topological sort before it never fails (SearchesCorrect).
StartWorkers ==
    /\ main = "building"
    /\ curId > 0
    /\ \E q \in [1 .. Cardinality(Sources) -> Sources] :
           /\ \A i, j \in DOMAIN q : i < j => q[i] < q[j]
           /\ ready' = q
    /\ \E cores \in 1 .. Cardinality(Workers), pool \in SUBSET Workers :
           /\ Cardinality(pool) = PoolSize(cores)
           /\ pc' = [w \in Workers |-> IF w \in pool THEN "lock" ELSE "idle"]
    /\ main' = "started"
    /\ UNCHANGED <<graphVars, state, readyMtx, waiting, failureMtx, completed,
                   succeeded, completedQueue, result, nextTask, ok, todo,
                   freed, skipped>>

\* "Go ahead and get the ball rolling": notify_all without the mutex.
RollBall ==
    /\ main = "started"
    /\ waiting' = {}
    /\ main' = "joining"
    /\ UNCHANGED <<graphVars, state, ready, readyMtx, failureMtx, completed,
                   succeeded, completedQueue, result, localVars>>

\* Mutant: one success is enough.
RunResult_Any == succeeded > 0

RunResult == succeeded = curId

\* Every thread has been joined.
JoinWorkers ==
    /\ main = "joining"
    /\ \A w \in Workers : pc[w] \in {"idle", "done"}
    /\ result' = RunResult
    /\ main' = "returned"
    /\ UNCHANGED <<graphVars, sharedVars, localVars>>

-----------------------------------------------------------------------------
(* A worker waits for a task.                                               *)

Goto(w, label) == pc' = [pc EXCEPT ![w] = label]

\* Mutants: the count is compared off by one, in either direction.
AllCompleted_Early == completed >= curId - 1
AllCompleted_Late == completed > curId

AllCompleted == completed = curId

\* Mutant: wait() without a predicate.
TaskReady_Unchecked == TRUE

\* The predicate of readyCond.wait.
TaskReady == ready # <<>> \/ AllCompleted

Lock(w) ==
    /\ pc[w] = "lock"
    /\ readyMtx = NoWorker
    /\ readyMtx' = w
    /\ Goto(w, "check")
    /\ UNCHANGED <<graphVars, state, ready, waiting, failureMtx, completed,
                   succeeded, completedQueue, mainVars, nextTask, ok, todo,
                   freed, skipped>>

\* completed is read here without its writers being excluded.
CheckPredicate(w) ==
    /\ pc[w] = "check"
    /\ Goto(w, IF TaskReady THEN "pop" ELSE "block")
    /\ UNCHANGED <<graphVars, sharedVars, mainVars, nextTask, ok, todo, freed,
                   skipped>>

Block(w) ==
    /\ pc[w] = "block"
    /\ readyMtx' = NoWorker
    /\ waiting' = waiting \cup {w}
    /\ Goto(w, "blocked")
    /\ UNCHANGED <<graphVars, state, ready, failureMtx, completed, succeeded,
                   completedQueue, mainVars, nextTask, ok, todo, freed, skipped>>

SpuriousWakeup(w) ==
    /\ SpuriousWakeups
    /\ w \in waiting
    /\ waiting' = waiting \ {w}
    /\ UNCHANGED <<graphVars, state, ready, readyMtx, failureMtx, completed,
                   succeeded, completedQueue, mainVars, localVars>>

Wake(w) ==
    /\ pc[w] = "blocked"
    /\ w \notin waiting
    /\ readyMtx = NoWorker
    /\ readyMtx' = w
    /\ Goto(w, "check")
    /\ UNCHANGED <<graphVars, state, ready, waiting, failureMtx, completed,
                   succeeded, completedQueue, mainVars, nextTask, ok, todo,
                   freed, skipped>>

\* completed is read a second time after the wait.
Exit(w) ==
    /\ pc[w] = "pop"
    /\ AllCompleted
    /\ readyMtx' = NoWorker
    /\ Goto(w, "done")
    /\ UNCHANGED <<graphVars, state, ready, waiting, failureMtx, completed,
                   succeeded, completedQueue, mainVars, nextTask, ok, todo,
                   freed, skipped>>

Pop(w) ==
    /\ pc[w] = "pop"
    /\ ~ AllCompleted
    /\ ready # <<>>
    /\ nextTask' = [nextTask EXCEPT ![w] = Head(ready)]
    /\ ready' = Tail(ready)
    /\ readyMtx' = NoWorker
    /\ Goto(w, "run")
    /\ UNCHANGED <<graphVars, state, waiting, failureMtx, completed, succeeded,
                   completedQueue, mainVars, ok, todo, freed, skipped>>

\* front() and pop() of an empty queue: undefined behaviour, after which the
\* model follows this worker no further.
PopEmpty(w) ==
    /\ pc[w] = "pop"
    /\ ~ AllCompleted
    /\ ready = <<>>
    /\ Goto(w, "undefined")
    /\ UNCHANGED <<graphVars, sharedVars, mainVars, nextTask, ok, todo, freed,
                   skipped>>

-----------------------------------------------------------------------------
(* A worker runs the task and releases its dependents.                      *)

\* The compare-and-swap of Task::Run.
BeginRun(w) ==
    /\ pc[w] = "run"
    /\ state[nextTask[w]] = "Pending"
    /\ state' = [state EXCEPT ![nextTask[w]] = "Running"]
    /\ Goto(w, "body")
    /\ UNCHANGED <<graphVars, ready, readyMtx, waiting, failureMtx, completed,
                   succeeded, completedQueue, mainVars, nextTask, ok, todo,
                   freed, skipped>>

\* A skipped task is honoured by returning true without running it; any other
\* state is an error.
RefuseRun(w) ==
    /\ pc[w] = "run"
    /\ state[nextTask[w]] # "Pending"
    /\ ok' = [ok EXCEPT ![w] = state[nextTask[w]] = "Skipped"]
    /\ Goto(w, "count")
    /\ UNCHANGED <<graphVars, sharedVars, mainVars, nextTask, todo, freed,
                   skipped>>

EndRun(w) ==
    /\ pc[w] = "body"
    /\ \E r \in Outcomes :
           /\ state' = [state EXCEPT ![nextTask[w]] =
                            IF r THEN "Finished" ELSE "Failed"]
           /\ ok' = [ok EXCEPT ![w] = r]
    /\ Goto(w, "count")
    /\ UNCHANGED <<graphVars, ready, readyMtx, waiting, failureMtx, completed,
                   succeeded, completedQueue, mainVars, nextTask, todo, freed,
                   skipped>>

Count(w) ==
    /\ pc[w] = "count"
    /\ completed' = completed + 1
    /\ todo' = [todo EXCEPT ![w] = adjList[nextTask[w]]]
    /\ Goto(w, "release")
    /\ UNCHANGED <<graphVars, state, ready, readyMtx, waiting, failureMtx,
                   succeeded, completedQueue, mainVars, nextTask, ok, freed,
                   skipped>>

\* Mutants: the first dependency to end releases the task; the count is
\* compared after the decrement; a failed dependency releases like any other.
Releases_First(w, dep) == ok[w]
Releases_Failed(w, dep) == inDegree[dep] = 1

\* The last dependency to be decremented queues the task, if it succeeded.
Releases(w, dep) == inDegree[dep] = 1 /\ ok[w]

\* One turn of the loop over adjList[nextTask].
Release(w) ==
    /\ pc[w] = "release"
    /\ \E dep \in todo[w] :
           /\ inDegree' = [inDegree EXCEPT ![dep] = @ - 1]
           /\ todo' = [todo EXCEPT ![w] = @ \ {dep}]
           /\ IF Releases(w, dep)
              THEN Goto(w, "push") /\ freed' = [freed EXCEPT ![w] = dep]
              ELSE UNCHANGED <<pc, freed>>
    /\ UNCHANGED <<curId, adjList, sharedVars, mainVars, nextTask, ok, skipped>>

EndRelease(w) ==
    /\ pc[w] = "release"
    /\ todo[w] = {}
    /\ Goto(w, IF ok[w] THEN "succeed" ELSE "fail")
    /\ UNCHANGED <<graphVars, sharedVars, mainVars, nextTask, ok, todo, freed,
                   skipped>>

\* notify_one reaches one blocked worker, if there is any.
NotifyOne ==
    \/ waiting = {} /\ UNCHANGED waiting
    \/ \E w \in waiting : waiting' = waiting \ {w}

\* The critical section of addReadyTask.
addReadyTask(w) ==
    /\ pc[w] = "push"
    /\ readyMtx = NoWorker
    /\ ready' = Append(ready, freed[w])
    /\ NotifyOne
    /\ Goto(w, "release")
    /\ UNCHANGED <<graphVars, state, readyMtx, failureMtx, completed, succeeded,
                   completedQueue, mainVars, nextTask, ok, todo, freed, skipped>>

Succeed(w) ==
    /\ pc[w] = "succeed"
    /\ succeeded' = succeeded + 1
    /\ completedQueue' = Append(completedQueue, nextTask[w])
    /\ Goto(w, "last")
    /\ UNCHANGED <<graphVars, state, ready, readyMtx, waiting, failureMtx,
                   completed, mainVars, nextTask, ok, todo, freed, skipped>>

-----------------------------------------------------------------------------
(* skipDescendants: one failing worker at a time.                           *)

BeginSkip(w) ==
    /\ pc[w] = "fail"
    /\ failureMtx = NoWorker
    /\ failureMtx' = w
    /\ todo' = [todo EXCEPT ![w] = getDescendants(nextTask[w])]
    /\ skipped' = [skipped EXCEPT ![w] = 0]
    /\ Goto(w, "skip")
    /\ UNCHANGED <<graphVars, state, ready, readyMtx, waiting, completed,
                   succeeded, completedQueue, mainVars, nextTask, ok, freed>>

\* Mutant: skipping is a plain store.
Skippable_Store(t) == state[t] # "Skipped"

\* The compare-and-swap of Task::Skip.
Skippable(t) == state[t] = "Pending"

\* Mutant: every descendant visited is counted.
CountsAsSkipped_Visited(t) == TRUE

\* Task::Skip answers Skipped for a task it skips now and for one that
\* already was.
CountsAsSkipped(t) == Skippable(t) \/ state[t] = "Skipped"

Skip(w) ==
    /\ pc[w] = "skip"
    /\ \E t \in todo[w] :
           /\ todo' = [todo EXCEPT ![w] = @ \ {t}]
           /\ IF Skippable(t)
              THEN state' = [state EXCEPT ![t] = "Skipped"]
              ELSE UNCHANGED state
           /\ IF CountsAsSkipped(t)
              THEN skipped' = [skipped EXCEPT ![w] = @ + 1]
              ELSE UNCHANGED skipped
    /\ UNCHANGED <<graphVars, ready, readyMtx, waiting, failureMtx, completed,
                   succeeded, completedQueue, mainVars, pc, nextTask, ok, freed>>

\* The skipped tasks are counted in one addition.
Tally(w) ==
    /\ pc[w] = "skip"
    /\ todo[w] = {}
    /\ completed' = completed + skipped[w]
    /\ IF skipped[w] > 0 /\ completed' = curId
       THEN Goto(w, "notify") /\ UNCHANGED failureMtx
       ELSE Goto(w, "last") /\ failureMtx' = NoWorker
    /\ UNCHANGED <<graphVars, state, ready, readyMtx, waiting, succeeded,
                   completedQueue, mainVars, nextTask, ok, todo, freed, skipped>>

\* notify_all without readyMtx.
NotifySkipped(w) ==
    /\ pc[w] = "notify"
    /\ waiting' = {}
    /\ failureMtx' = NoWorker
    /\ Goto(w, "last")
    /\ UNCHANGED <<graphVars, state, ready, readyMtx, completed, succeeded,
                   completedQueue, mainVars, nextTask, ok, todo, freed, skipped>>

\* The end of the worker's loop: notify_all without readyMtx when all is done.
NotifyLast(w) ==
    /\ pc[w] = "last"
    /\ waiting' = IF completed >= curId THEN {} ELSE waiting
    /\ Goto(w, "lock")
    /\ UNCHANGED <<graphVars, state, ready, readyMtx, failureMtx, completed,
                   succeeded, completedQueue, mainVars, nextTask, ok, todo,
                   freed, skipped>>

-----------------------------------------------------------------------------
Wait(w) ==
    \/ Lock(w) \/ CheckPredicate(w) \/ Block(w) \/ Wake(w)
    \/ Exit(w) \/ Pop(w) \/ PopEmpty(w)

RunOne(w) ==
    \/ BeginRun(w) \/ RefuseRun(w) \/ EndRun(w) \/ Count(w)
    \/ Release(w) \/ EndRelease(w) \/ addReadyTask(w) \/ Succeed(w)

SkipBelow(w) == BeginSkip(w) \/ Skip(w) \/ Tally(w) \/ NotifySkipped(w)

Worker(w) == Wait(w) \/ RunOne(w) \/ SkipBelow(w) \/ NotifyLast(w)

Main == RunNothing \/ StartWorkers \/ RollBall \/ JoinWorkers

Next ==
    \/ Build
    \/ Main
    \/ \E w \in Workers : Worker(w) \/ SpuriousWakeup(w)

Spec == Init /\ [][Next]_vars

\* The operating system runs every thread that can run and hands a free mutex
\* to one of the threads asking for it; callbacks return.  A spurious wakeup
\* may happen but never has to.
Fairness ==
    /\ WF_vars(RollBall \/ JoinWorkers)
    /\ \A w \in Workers : WF_vars(Worker(w))

FairSpec == Spec /\ Fairness

-----------------------------------------------------------------------------
Settled == {"Finished", "Skipped", "Failed"}
Started == {"Running", "Finished", "Failed"}

RunTypeOK ==
    /\ state \in [TaskIds -> TaskState]
    /\ ready \in Seq(TaskIds)
    /\ readyMtx \in Workers \cup {NoWorker}
    /\ failureMtx \in Workers \cup {NoWorker}
    /\ waiting \in SUBSET Workers
    /\ completed \in Nat
    /\ succeeded \in Nat
    /\ completedQueue \in Seq(TaskIds)
    /\ main \in {"building", "started", "joining", "returned"}
    /\ result \in BOOLEAN
    /\ pc \in [Workers -> Labels]
    /\ nextTask \in [Workers -> TaskIds]
    /\ ok \in [Workers -> BOOLEAN]
    /\ todo \in [Workers -> SUBSET TaskIds]
    /\ freed \in [Workers -> TaskIds]
    /\ skipped \in [Workers -> Nat]

\* Types; edges join existing tasks only.
TypeOK == GraphTypeOK /\ RunTypeOK

\* Dependency order: no callback has started while a task it depends on is
\* still to run or running, whichever worker released it and in whatever
\* order the dependencies came in.
StartsAfterDeps ==
    \A t \in Tasks : state[t] \in Started =>
        \A p \in Predecessors(t) : state[p] \in Settled

\* Every task is queued at most once, so the error branch of Task::Run ("is
\* not in a pending state") is never taken.
RunNotRefused ==
    \A w \in Workers : pc[w] = "run" => state[nextTask[w]] \in {"Pending", "Skipped"}

\* RunTasks answers true exactly when every callback ran and returned true,
\* although a skipped task that is popped counts as a success too.
ResultCorrect ==
    main = "returned" => (result <=> \A t \in Tasks : state[t] = "Finished")

\* The pool behaves as a scheduler that knows of no threads, queues or counts.
Schedule == INSTANCE TaskSchedule WITH
               MaxTasks <- MaxTasks, curId <- curId, adjList <- adjList,
               state <- state, main <- main, result <- result
ImplementsSchedule == Schedule!Spec

-----------------------------------------------------------------------------
(* What holds as long as completion is counted once per task.               *)

\* No task has two dependencies of which one may skip it while the other
\* queues or skips it too.
CountsOnce ==
    \/ \A t \in Tasks : state[t] # "Failed"
    \/ \A t \in Tasks : Cardinality(Predecessors(t)) <= 1

\* While nothing is counted twice, the count that ends the run is never ahead of
\* the tasks that are over.
CountNeverAhead ==
    (CountsOnce /\ main # "building") =>
        completed <= Cardinality({t \in Tasks : state[t] \in Settled})

\* While nothing is counted twice, no worker leaves the pool with a task yet
\* to run, for all that the count is read and added to without a lock.
NoEarlyExit ==
    (CountsOnce /\ \E w \in Workers : pc[w] = "done")
        => \A t \in Tasks : state[t] \in Settled

\* While nothing is counted twice, a worker pops only a queue that holds a task:
\* "first we wait for a task to be ready, and then we pop it".
PopsReadyTask == CountsOnce => \A w \in Workers : pc[w] # "undefined"

\* No callback runs below a failed task.
FailureStopsDependents ==
    \A p, t \in Tasks :
        (state[p] = "Failed" /\ t # p /\ t \in getDescendants(p))
            => state[t] \in {"Pending", "Skipped"}

\* Where no task has two dependencies, no callback runs below a failed task:
\* nobody but the failed one could have released it.
FailureStopsForest ==
    (\A t \in Tasks : Cardinality(Predecessors(t)) <= 1) => FailureStopsDependents

\* While nothing is counted twice, every task is over in the end, even when a
\* worker sleeps through the last notification.
AllSettle ==
    main = "started" ~>
        ((\A t \in Tasks : state[t] \in Settled) \/ ~ CountsOnce)

\* With one worker there is nobody to lose a notification, and RunTasks returns.
SoleWorkerReturns ==
    main = "started" ~>
        \/ main = "returned"
        \/ Cardinality({w \in Workers : pc[w] # "idle"}) > 1
        \/ ~ CountsOnce

-----------------------------------------------------------------------------
(* What the code says of itself and does not keep.                          *)

\* "Execute as long as there are tasks to run".
ExecutesAll ==
    (\E w \in Workers : pc[w] = "done") => \A t \in Tasks : state[t] \in Settled

\* "We also check for failure or completion to exit the loop", so RunTasks
\* returns.
Terminates == main = "started" ~> main = "returned"

=============================================================================
