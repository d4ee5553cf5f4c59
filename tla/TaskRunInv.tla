------------------------------ MODULE TaskRunInv ------------------------------
(***************************************************************************)
(* The inductive invariant behind the safety properties of TaskRun.  A task *)
(* waits for its dependencies (its in-degree is positive), then is in one   *)
(* place at a time: about to be queued, queued, or held by one worker that  *)
(* runs it and releases its dependents; after that it is nowhere.           *)
(***************************************************************************)
EXTENDS TaskRun

Holding(w) == pc[w] \in {"run", "body", "count", "release", "push"}
Pushing(w) == pc[w] = "push"
Queued(t)  == \E i \in DOMAIN ready : ready[i] = t

\* p has still to be run and counted, or to take itself off d's in-degree.
Owes(p, d) ==
    \/ state[p] \notin Settled
    \/ inDegree[p] > 0
    \/ Queued(p)
    \/ \E w \in Workers : Pushing(w) /\ freed[w] = p
    \/ \E w \in Workers :
           /\ nextTask[w] = p
           /\ \/ pc[w] \in {"run", "body", "count"}
              \/ pc[w] \in {"release", "push"} /\ d \in todo[w]

Owers(d) == {p \in Predecessors(d) : Owes(p, d)}

\* While the graph is built nothing has run.
NothingRunYet ==
    main = "building" =>
        /\ \A w \in Workers : pc[w] = "idle"
        /\ ready = <<>>
        /\ \A t \in TaskIds : state[t] = "Pending"

\* The in-degree covers every dependency that has not let go.
DegreeCovers == \A d \in TaskIds : Cardinality(Owers(d)) <= inDegree[d]

\* A task in a place has no dependency left, and no two places hold it.
OnePlace ==
    /\ \A i \in DOMAIN ready : inDegree[ready[i]] = 0
    /\ \A i, j \in DOMAIN ready : i # j => ready[i] # ready[j]
    /\ \A w \in Workers : Pushing(w) =>
           inDegree[freed[w]] = 0 /\ ~ Queued(freed[w])
    /\ \A w \in Workers : Holding(w) =>
           inDegree[nextTask[w]] = 0 /\ ~ Queued(nextTask[w])
    /\ \A v, w \in Workers : Pushing(v) /\ Holding(w) => freed[v] # nextTask[w]
    /\ \A v, w \in Workers : v # w =>
           /\ Pushing(v) /\ Pushing(w) => freed[v] # freed[w]
           /\ Holding(v) /\ Holding(w) => nextTask[v] # nextTask[w]

\* A task no worker has begun is pending or skipped.
Untouched(t) == state[t] \in {"Pending", "Skipped"}

\* The state of a task agrees with its place.
StateAtPlace ==
    /\ \A t \in TaskIds : (inDegree[t] > 0 \/ Queued(t)) => Untouched(t)
    /\ \A w \in Workers :
           /\ Pushing(w) => Untouched(freed[w])
           /\ pc[w] = "run" => Untouched(nextTask[w])
           /\ pc[w] = "body" => state[nextTask[w]] = "Running"
           /\ pc[w] \in {"count", "release", "push"} =>
                  state[nextTask[w]] \in Settled

\* A worker releases dependents of its own task.
ReleasesOwn ==
    \A w \in Workers :
        pc[w] \in {"release", "push"} => todo[w] \subseteq adjList[nextTask[w]]

IInv ==
    /\ TypeOK
    /\ NothingRunYet
    /\ DegreeCovers
    /\ OnePlace
    /\ StateAtPlace
    /\ ReleasesOwn
    /\ StartsAfterDeps

-----------------------------------------------------------------------------
(* What the answer of RunTasks rests on: where a task is whose callback is   *)
(* over, and what its worker knows of it.                                   *)

\* The workers that have not ended the turn of their loop for nextTask[w].
Owners == {w \in Workers : Holding(w) \/ pc[w] \in {"succeed", "fail", "skip"}}

\* The tasks nobody will queue any more.
Gone ==
    {t \in TaskIds :
        /\ inDegree[t] = 0
        /\ ~ Queued(t)
        /\ \A w \in Workers : Pushing(w) => freed[w] # t}

Recorded == {completedQueue[i] : i \in DOMAIN completedQueue}

Below == [t \in TaskIds |-> getDescendants(t)]

\* The calling thread returns when all workers are gone.
MainWaits ==
    /\ main = "building" => succeeded = 0 /\ completedQueue = <<>>
    /\ main = "returned" => \A w \in Workers : pc[w] \in {"idle", "done"}

InGraph ==
    /\ \A i \in DOMAIN ready : ready[i] \in Tasks
    /\ \A w \in Workers : Pushing(w) => freed[w] \in Tasks
    /\ \A w \in Owners : nextTask[w] \in Tasks

OneOwner ==
    /\ \A w \in Owners : nextTask[w] \in Gone
    /\ \A v, w \in Owners : v # w => nextTask[v] # nextTask[w]

\* A success is recorded once, and then the task is nowhere.
RecordedOnce ==
    /\ Recorded \subseteq Tasks \cap Gone
    /\ \A t \in Recorded : state[t] \in {"Finished", "Skipped"}
    /\ \A w \in Owners : nextTask[w] \notin Recorded
    /\ succeeded = Len(completedQueue)
    /\ \A i, j \in DOMAIN completedQueue :
           i # j => completedQueue[i] # completedQueue[j]

\* What Run returned agrees with the state of the task.
Verdict(w) ==
    /\ w \in Owners /\ pc[w] \notin {"run", "body"} =>
           /\ ok[w] => state[nextTask[w]] \in {"Finished", "Skipped"}
           /\ ~ ok[w] => state[nextTask[w]] = "Failed"
    /\ pc[w] = "succeed" => ok[w]
    /\ pc[w] \in {"fail", "skip"} => ~ ok[w]
    /\ pc[w] = "skip" => todo[w] \subseteq Below[nextTask[w]]

\* Nothing is skipped unless something failed.
SkippedForReason ==
    (\E t \in TaskIds : state[t] = "Skipped") => \E p \in Tasks : state[p] = "Failed"

\* A task that runs has a worker, and one that succeeded is recorded or about
\* to be.
Accounted(t) ==
    /\ state[t] = "Running" => \E w \in Workers : pc[w] = "body" /\ nextTask[w] = t
    /\ state[t] = "Finished" =>
           \/ t \in Recorded
           \/ \E w \in Workers :
                  /\ nextTask[w] = t
                  /\ pc[w] \in {"count", "release", "push", "succeed"}

AnswerInv ==
    /\ IInv
    /\ MainWaits
    /\ InGraph
    /\ OneOwner
    /\ RecordedOnce
    /\ \A w \in Workers : Verdict(w)
    /\ SkippedForReason
    /\ \A t \in TaskIds : Accounted(t)
    /\ ResultCorrect

-----------------------------------------------------------------------------
(* What the count of the completed tasks rests on, while nothing is counted *)
(* twice: where the edges are a forest, or nothing has failed.              *)

Forest == \A t \in Tasks : Cardinality(Predecessors(t)) <= 1

\* The tasks that were queued, or are about to be.
Reached ==
    {t \in TaskIds :
        \/ Queued(t)
        \/ \E w \in Workers : Pushing(w) /\ freed[w] = t
        \/ \E w \in Owners : nextTask[w] = t
        \/ state[t] \in Started}

\* Only what is wholly below successes is reached.
ReachedBelowFinished ==
    \A t \in Reached : \A p \in Tasks \ {t} : t \in Below[p] => state[p] = "Finished"

\* A task is skipped by a worker that has gone past it.
SkippedBelow ==
    \A t \in TaskIds : state[t] = "Skipped" =>
        \E p \in Tasks \ {t} :
            /\ t \in Below[p]
            /\ state[p] = "Failed"
            /\ \A w \in Owners : nextTask[w] = p => pc[w] = "skip" /\ t \notin todo[w]

\* The descendants a worker has gone past.
Visited == [w \in Workers |-> (Below[nextTask[w]] \ todo[w]) \ {nextTask[w]}]

VisitedSkipped ==
    \A w \in Workers : pc[w] = "skip" =>
        /\ \A t \in Visited[w] : state[t] = "Skipped"
        /\ skipped[w] <= Cardinality(Visited[w])

\* The mutexes exclude.
Excluded ==
    \A w \in Workers :
        /\ pc[w] \in {"skip", "notify"} => failureMtx = w
        /\ pc[w] \in {"check", "block", "pop"} => readyMtx = w

SettledTasks == {t \in Tasks : state[t] \in Settled}

\* The tasks whose completion the count has taken in.
Counted ==
    {t \in SettledTasks : \A w \in Workers :
        /\ pc[w] = "count" => nextTask[w] # t
        /\ pc[w] = "skip" => t \notin Visited[w]}

CountCovered == completed <= Cardinality(Counted)

\* A worker that holds readyMtx with its predicate true will find it true.
PopWillFind == \A w \in Workers : pc[w] = "pop" => ready # <<>> \/ AllCompleted

CountInv ==
    /\ AnswerInv
    /\ Excluded
    /\ SkippedBelow
    /\ Forest => ReachedBelowFinished /\ VisitedSkipped
    /\ main = "building" => completed = 0
    /\ CountsOnce => CountCovered /\ PopWillFind
    /\ NoEarlyExit
    /\ PopsReadyTask

=============================================================================
