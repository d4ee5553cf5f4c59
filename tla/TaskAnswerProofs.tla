-------------------------- MODULE TaskAnswerProofs --------------------------
(***************************************************************************)
(* The answer of RunTasks, for every graph, pool and outcome; and that the  *)
(* pool implements TaskSchedule.                                            *)
(***************************************************************************)
EXTENDS TaskRunProofs

-----------------------------------------------------------------------------
(***************************************************************************)
(* The answer is right, and the pool implements TaskSchedule.               *)
(***************************************************************************)

(* What follows from the graph or the queue being left alone.               *)

LEMMA BelowFixed ==
    ASSUME curId' = curId, adjList' = adjList
    PROVE  Tasks' = Tasks /\ Below' = Below
<1>1. Tasks' = Tasks
    BY DEF Tasks
<1>2. \A t, d : pathExists(t, d)' <=> pathExists(t, d)
    BY <1>1 DEF pathExists, Closed
<1>3. \A t : getDescendants(t)' = getDescendants(t)
    BY <1>1, <1>2 DEF getDescendants
<1> QED BY <1>1, <1>3 DEF Below, TaskIds

LEMMA GoneStays ==
    ASSUME inDegree' = inDegree, ready' = ready, freed' = freed,
           \A w \in Workers : pc'[w] = "push" => pc[w] = "push"
    PROVE  Gone \subseteq Gone'
BY DEF Gone, Queued, Pushing, TaskIds

LEMMA RecordedFixed == completedQueue' = completedQueue => Recorded' = Recorded
BY DEF Recorded

-----------------------------------------------------------------------------
(* A worker keeps its task and moves on with it; only its own task, and,    *)
(* while it skips, pending ones change their state.                         *)

HoldsOn(w) ==
    /\ w \in Owners /\ Owners' = Owners
    /\ Tasks' = Tasks /\ Below' = Below
    /\ Gone \subseteq Gone'
    /\ main' = main /\ result' = result /\ nextTask' = nextTask
    /\ succeeded' = succeeded /\ completedQueue' = completedQueue
    /\ \A v \in Workers : v # w => pc'[v] = pc[v] /\ ok'[v] = ok[v] /\ todo'[v] = todo[v]
    /\ \A t \in TaskIds :
           \/ state'[t] = state[t]
           \/ pc[w] = "skip" /\ state[t] = "Pending" /\ state'[t] = "Skipped"
           \/ t = nextTask[w] /\ pc[w] \in {"run", "body"} /\ state'[t] # "Skipped"

LEMMA HoldsOnKeepsAnswer ==
    ASSUME AnswerInv, IInv', NEW w \in Workers, HoldsOn(w), InGraph', Verdict(w)'
    PROVE  AnswerInv'
<1>1. Recorded' = Recorded
    BY RecordedFixed DEF HoldsOn
<1>2. w \in Owners /\ pc[w] \notin {"idle", "done"}
    BY DEF HoldsOn, Owners, Holding
<1>3. main' # "returned"
    BY <1>2 DEF AnswerInv, MainWaits, HoldsOn
<1>4. MainWaits' /\ ResultCorrect'
    BY <1>3 DEF AnswerInv, MainWaits, ResultCorrect, HoldsOn
<1>5. OneOwner'
    BY DEF AnswerInv, OneOwner, HoldsOn
<1>6. \A t \in Recorded : t \in TaskIds /\ t # nextTask[w] /\ state'[t] = state[t]
    BY <1>2 DEF AnswerInv, RecordedOnce, HoldsOn, Gone
<1>7. RecordedOnce'
    BY <1>1, <1>6 DEF AnswerInv, RecordedOnce, HoldsOn
<1>8. ASSUME NEW v \in Workers, v # w
      PROVE  Verdict(v)'
  <2>1. /\ Verdict(v) /\ pc'[v] = pc[v] /\ ok'[v] = ok[v] /\ todo'[v] = todo[v]
        /\ nextTask'[v] = nextTask[v] /\ Below' = Below /\ Owners' = Owners
      BY <1>8 DEF AnswerInv, HoldsOn
  <2>2. v \in Owners => nextTask[v] \in TaskIds /\ nextTask[v] # nextTask[w]
      BY <1>2, <1>8 DEF AnswerInv, OneOwner, Gone
  <2>3. v \in Owners /\ pc[v] \notin {"run", "body"} => state'[nextTask[v]] = state[nextTask[v]]
      BY <2>1, <2>2 DEF HoldsOn, Verdict
  <2> QED BY <2>1, <2>3 DEF Verdict
<1>9. \A t \in TaskIds : state[t] = "Failed" => state'[t] = "Failed"
  <2>1. pc[w] \in {"run", "body"} => state[nextTask[w]] # "Failed"
      BY DEF AnswerInv, IInv, StateAtPlace, Untouched
  <2> QED BY <2>1 DEF HoldsOn
<1>10. SkippedForReason'
  <2>1. Tasks \subseteq TaskIds /\ Tasks' = Tasks
      BY TasksAreIds DEF AnswerInv, IInv, TypeOK, HoldsOn
  <2>2. ASSUME NEW t \in TaskIds, state'[t] = "Skipped"
        PROVE  \E p \in Tasks : state[p] = "Failed"
    <3>1. CASE state[t] = "Skipped"
        BY <3>1 DEF AnswerInv, SkippedForReason
    <3>2. CASE pc[w] = "skip"
        BY <1>2, <3>2 DEF AnswerInv, Verdict, InGraph
    <3> QED BY <2>2, <3>1, <3>2 DEF HoldsOn
  <2> QED BY <1>9, <2>1, <2>2 DEF SkippedForReason
<1>11. ASSUME NEW t \in TaskIds, t # nextTask[w]
       PROVE  Accounted(t)'
  <2>1. /\ state'[t] \in {"Running", "Finished"} => state'[t] = state[t]
        /\ \A v \in Workers : nextTask[v] = t => pc'[v] = pc[v] /\ nextTask'[v] = t
      BY <1>11 DEF HoldsOn
  <2>2. Accounted(t)
      BY DEF AnswerInv
  <2> QED BY <1>1, <2>1, <2>2 DEF Accounted
<1>12. Accounted(nextTask[w])'
  <2>1. w \in Owners' /\ (pc[w] \in {"run", "body", "count", "release", "push", "succeed", "fail", "skip"})'
      BY <1>2 DEF HoldsOn, Owners, Holding
  <2>2. (pc[w] = "run")' => (state[nextTask[w]] \in {"Pending", "Skipped"})'
      BY DEF IInv, StateAtPlace, Untouched
  <2>3. (pc[w] = "body")' => (state[nextTask[w]] = "Running")'
      BY DEF IInv, StateAtPlace
  <2>4. (pc[w] \notin {"run", "body"})' =>
            /\ (state[nextTask[w]] \in {"Finished", "Skipped", "Failed"})'
            /\ (pc[w] \in {"fail", "skip"} => state[nextTask[w]] = "Failed")'
      BY <2>1 DEF Verdict
  <2> QED BY <2>1, <2>2, <2>3, <2>4 DEF Accounted
<1> QED BY <1>4, <1>5, <1>7, <1>8, <1>10, <1>11, <1>12 DEF AnswerInv, HoldsOn

\* The queue, the in-degrees and what is about to be queued are left alone.
LEMMA InGraphStays ==
    ASSUME AnswerInv, NEW w \in Workers, HoldsOn(w),
           inDegree' = inDegree, ready' = ready, freed' = freed, pc'[w] # "push"
    PROVE  InGraph'
BY DEF AnswerInv, InGraph, HoldsOn, Pushing

-----------------------------------------------------------------------------
(* The steps in which a worker moves on with its task.                      *)

LEMMA BeginRunKeepsAnswer ==
    ASSUME AnswerInv, IInv', NEW w \in Workers, BeginRun(w)
    PROVE  AnswerInv'
<1>1. /\ curId' = curId /\ adjList' = adjList /\ inDegree' = inDegree /\ ready' = ready
      /\ freed' = freed /\ nextTask' = nextTask /\ ok' = ok /\ todo' = todo
      /\ main' = main /\ result' = result
      /\ succeeded' = succeeded /\ completedQueue' = completedQueue
      /\ pc[w] = "run" /\ nextTask[w] \in TaskIds
    BY DEF BeginRun, graphVars, mainVars, AnswerInv, IInv, TypeOK, RunTypeOK
<1>2. /\ \A v \in Workers : pc'[v] = IF v = w THEN "body" ELSE pc[v]
      /\ \A t \in TaskIds : state'[t] = IF t = nextTask[w] THEN "Running" ELSE state[t]
    BY DEF BeginRun, Goto, AnswerInv, IInv, TypeOK, RunTypeOK
<1>3. Owners' = Owners /\ w \in Owners
    BY <1>1, <1>2 DEF Owners, Holding
<1>4. HoldsOn(w)
    BY <1>1, <1>2, <1>3, BelowFixed, GoneStays DEF HoldsOn
<1>5. Verdict(w)'
    BY <1>2 DEF Verdict
<1> QED BY <1>1, <1>2, <1>4, <1>5, InGraphStays, HoldsOnKeepsAnswer

LEMMA RefuseRunKeepsAnswer ==
    ASSUME AnswerInv, IInv', NEW w \in Workers, RefuseRun(w)
    PROVE  AnswerInv'
<1>1. /\ curId' = curId /\ adjList' = adjList /\ inDegree' = inDegree /\ ready' = ready
      /\ freed' = freed /\ nextTask' = nextTask /\ todo' = todo /\ state' = state
      /\ main' = main /\ result' = result
      /\ succeeded' = succeeded /\ completedQueue' = completedQueue
      /\ pc[w] = "run" /\ state[nextTask[w]] # "Pending"
    BY DEF RefuseRun, graphVars, sharedVars, mainVars
<1>2. /\ \A v \in Workers : pc'[v] = IF v = w THEN "count" ELSE pc[v]
      /\ \A v \in Workers : v # w => ok'[v] = ok[v]
      /\ ok'[w] = (state[nextTask[w]] = "Skipped")
    BY DEF RefuseRun, Goto, AnswerInv, IInv, TypeOK, RunTypeOK
<1>3. Owners' = Owners /\ w \in Owners
    BY <1>1, <1>2 DEF Owners, Holding
<1>4. HoldsOn(w)
    BY <1>1, <1>2, <1>3, BelowFixed, GoneStays DEF HoldsOn
<1>5. state[nextTask[w]] = "Skipped"
    BY <1>1 DEF AnswerInv, IInv, StateAtPlace, Untouched
<1>6. Verdict(w)'
    BY <1>1, <1>2, <1>5 DEF Verdict
<1> QED BY <1>1, <1>2, <1>4, <1>6, InGraphStays, HoldsOnKeepsAnswer

LEMMA EndRunKeepsAnswer ==
    ASSUME AnswerInv, IInv', NEW w \in Workers, EndRun(w)
    PROVE  AnswerInv'
<1>1. /\ curId' = curId /\ adjList' = adjList /\ inDegree' = inDegree /\ ready' = ready
      /\ freed' = freed /\ nextTask' = nextTask /\ todo' = todo
      /\ main' = main /\ result' = result
      /\ succeeded' = succeeded /\ completedQueue' = completedQueue
      /\ pc[w] = "body" /\ nextTask[w] \in TaskIds
    BY DEF EndRun, graphVars, mainVars, AnswerInv, IInv, TypeOK, RunTypeOK
<1>2. PICK r \in Outcomes :
          /\ state' = [state EXCEPT ![nextTask[w]] = IF r THEN "Finished" ELSE "Failed"]
          /\ ok' = [ok EXCEPT ![w] = r]
    BY DEF EndRun
<1>3. /\ \A v \in Workers : pc'[v] = IF v = w THEN "count" ELSE pc[v]
      /\ \A v \in Workers : v # w => ok'[v] = ok[v]
      /\ ok'[w] = r
      /\ \A t \in TaskIds : t # nextTask[w] => state'[t] = state[t]
      /\ state'[nextTask[w]] = IF r THEN "Finished" ELSE "Failed"
    BY <1>1, <1>2 DEF EndRun, Goto, AnswerInv, IInv, TypeOK, RunTypeOK
<1>4. Owners' = Owners /\ w \in Owners
    BY <1>1, <1>3 DEF Owners, Holding
<1>5. HoldsOn(w)
    BY <1>1, <1>3, <1>4, BelowFixed, GoneStays DEF HoldsOn
<1>6. Verdict(w)'
    BY <1>1, <1>3, RunAssumption DEF Verdict
<1> QED BY <1>1, <1>3, <1>5, <1>6, InGraphStays, HoldsOnKeepsAnswer

LEMMA CountKeepsAnswer ==
    ASSUME AnswerInv, IInv', NEW w \in Workers, Count(w)
    PROVE  AnswerInv'
<1>1. /\ curId' = curId /\ adjList' = adjList /\ inDegree' = inDegree /\ ready' = ready
      /\ freed' = freed /\ nextTask' = nextTask /\ ok' = ok /\ state' = state
      /\ main' = main /\ result' = result
      /\ succeeded' = succeeded /\ completedQueue' = completedQueue
      /\ pc[w] = "count"
    BY DEF Count, graphVars, mainVars
<1>2. /\ \A v \in Workers : pc'[v] = IF v = w THEN "release" ELSE pc[v]
      /\ \A v \in Workers : v # w => todo'[v] = todo[v]
    BY DEF Count, Goto, AnswerInv, IInv, TypeOK, RunTypeOK
<1>3. Owners' = Owners /\ w \in Owners
    BY <1>1, <1>2 DEF Owners, Holding
<1>4. HoldsOn(w)
    BY <1>1, <1>2, <1>3, BelowFixed, GoneStays DEF HoldsOn
<1>5. Verdict(w)'
    BY <1>1, <1>2, <1>3 DEF AnswerInv, Verdict
<1> QED BY <1>1, <1>2, <1>4, <1>5, InGraphStays, HoldsOnKeepsAnswer

LEMMA EndReleaseKeepsAnswer ==
    ASSUME AnswerInv, IInv', NEW w \in Workers, EndRelease(w)
    PROVE  AnswerInv'
<1>1. /\ curId' = curId /\ adjList' = adjList /\ inDegree' = inDegree /\ ready' = ready
      /\ freed' = freed /\ nextTask' = nextTask /\ ok' = ok /\ state' = state /\ todo' = todo
      /\ main' = main /\ result' = result
      /\ succeeded' = succeeded /\ completedQueue' = completedQueue
      /\ pc[w] = "release"
    BY DEF EndRelease, graphVars, sharedVars, mainVars
<1>2. \A v \in Workers : pc'[v] = IF v = w THEN IF ok[w] THEN "succeed" ELSE "fail" ELSE pc[v]
    BY DEF EndRelease, Goto, AnswerInv, IInv, TypeOK, RunTypeOK
<1>3. Owners' = Owners /\ w \in Owners
    BY <1>1, <1>2 DEF Owners, Holding
<1>4. HoldsOn(w)
    BY <1>1, <1>2, <1>3, BelowFixed, GoneStays DEF HoldsOn
<1>5. Verdict(w)'
    BY <1>1, <1>2, <1>3 DEF AnswerInv, Verdict
<1> QED BY <1>1, <1>2, <1>4, <1>5, InGraphStays, HoldsOnKeepsAnswer

LEMMA ReleaseKeepsAnswer ==
    ASSUME AnswerInv, IInv', NEW w \in Workers, Release(w)
    PROVE  AnswerInv'
<1>1. PICK dep \in todo[w] :
          /\ inDegree' = [inDegree EXCEPT ![dep] = @ - 1]
          /\ todo' = [todo EXCEPT ![w] = @ \ {dep}]
          /\ \/ pc' = [pc EXCEPT ![w] = "push"] /\ freed' = [freed EXCEPT ![w] = dep]
             \/ pc' = pc /\ freed' = freed
    BY DEF Release, Goto
<1>2. /\ curId' = curId /\ adjList' = adjList /\ ready' = ready
      /\ nextTask' = nextTask /\ ok' = ok /\ state' = state
      /\ main' = main /\ result' = result
      /\ succeeded' = succeeded /\ completedQueue' = completedQueue
      /\ pc[w] = "release"
    BY DEF Release, sharedVars, mainVars
<1>3. /\ \A v \in Workers : v # w => pc'[v] = pc[v] /\ todo'[v] = todo[v] /\ freed'[v] = freed[v]
      /\ (pc'[w] = "push" /\ freed'[w] = dep) \/ pc'[w] = "release"
    BY <1>1, <1>2 DEF AnswerInv, IInv, TypeOK, RunTypeOK
<1>4. Owners' = Owners /\ w \in Owners
    BY <1>2, <1>3 DEF Owners, Holding
<1>5. dep \in Tasks /\ dep \in TaskIds
  <2>1. todo[w] \subseteq adjList[nextTask[w]] /\ nextTask[w] \in TaskIds
      BY <1>2 DEF AnswerInv, IInv, ReleasesOwn, TypeOK, RunTypeOK
  <2> QED BY <2>1, TasksAreIds DEF AnswerInv, IInv, TypeOK, GraphTypeOK
<1>6. Gone \subseteq Gone' \cup {dep} /\ inDegree' [dep] = inDegree[dep] - 1
    BY <1>1, <1>2, <1>3, <1>5 DEF Gone, Queued, Pushing, TaskIds, AnswerInv, IInv, TypeOK, GraphTypeOK
<1>7. dep \notin Gone
  <2>1. nextTask[w] \in Predecessors(dep) /\ Owes(nextTask[w], dep)
      BY <1>2, <1>4 DEF Predecessors, Owes, AnswerInv, InGraph, IInv, ReleasesOwn
  <2> QED BY <1>5, <2>1, NoneLeft DEF AnswerInv, Gone
<1>8. HoldsOn(w)
    BY <1>2, <1>3, <1>4, <1>6, <1>7, BelowFixed DEF HoldsOn
<1>9. InGraph'
    BY <1>1, <1>2, <1>3, <1>4, <1>5, BelowFixed DEF AnswerInv, InGraph, Pushing
<1>10. Verdict(w)'
    BY <1>2, <1>3, <1>4 DEF AnswerInv, Verdict
<1> QED BY <1>8, <1>9, <1>10, HoldsOnKeepsAnswer

LEMMA PushKeepsAnswer ==
    ASSUME AnswerInv, IInv', NEW w \in Workers, addReadyTask(w)
    PROVE  AnswerInv'
<1>1. /\ curId' = curId /\ adjList' = adjList /\ inDegree' = inDegree
      /\ freed' = freed /\ nextTask' = nextTask /\ ok' = ok /\ state' = state /\ todo' = todo
      /\ main' = main /\ result' = result
      /\ succeeded' = succeeded /\ completedQueue' = completedQueue
      /\ pc[w] = "push" /\ ready' = Append(ready, freed[w])
    BY DEF addReadyTask, graphVars, mainVars
<1>2. \A v \in Workers : pc'[v] = IF v = w THEN "release" ELSE pc[v]
    BY DEF addReadyTask, Goto, AnswerInv, IInv, TypeOK, RunTypeOK
<1>3. Owners' = Owners /\ w \in Owners
    BY <1>1, <1>2 DEF Owners, Holding
<1>4. /\ DOMAIN ready' = 1 .. Len(ready) + 1 /\ DOMAIN ready = 1 .. Len(ready)
      /\ \A i \in DOMAIN ready' : ready'[i] = IF i = Len(ready) + 1 THEN freed[w] ELSE ready[i]
    BY <1>1 DEF AnswerInv, IInv, TypeOK, RunTypeOK
<1>5. Gone \subseteq Gone'
    BY <1>1, <1>2, <1>4 DEF Gone, Queued, Pushing, TaskIds
<1>6. HoldsOn(w)
    BY <1>1, <1>2, <1>3, <1>5, BelowFixed DEF HoldsOn
<1>7. InGraph'
  <2>1. freed[w] \in Tasks /\ Tasks' = Tasks
      BY <1>1, BelowFixed DEF AnswerInv, InGraph, Pushing
  <2> QED BY <1>1, <1>2, <1>3, <1>4, <2>1 DEF AnswerInv, InGraph, Pushing
<1>8. Verdict(w)'
    BY <1>1, <1>2, <1>3 DEF AnswerInv, Verdict
<1> QED BY <1>6, <1>7, <1>8, HoldsOnKeepsAnswer

LEMMA BeginSkipKeepsAnswer ==
    ASSUME AnswerInv, IInv', NEW w \in Workers, BeginSkip(w)
    PROVE  AnswerInv'
<1>1. /\ curId' = curId /\ adjList' = adjList /\ inDegree' = inDegree /\ ready' = ready
      /\ freed' = freed /\ nextTask' = nextTask /\ ok' = ok /\ state' = state
      /\ main' = main /\ result' = result
      /\ succeeded' = succeeded /\ completedQueue' = completedQueue
      /\ pc[w] = "fail" /\ nextTask[w] \in TaskIds
    BY DEF BeginSkip, graphVars, mainVars, AnswerInv, IInv, TypeOK, RunTypeOK
<1>2. /\ \A v \in Workers : pc'[v] = IF v = w THEN "skip" ELSE pc[v]
      /\ \A v \in Workers : v # w => todo'[v] = todo[v]
      /\ todo'[w] = Below[nextTask[w]]
    BY <1>1 DEF BeginSkip, Goto, Below, AnswerInv, IInv, TypeOK, RunTypeOK
<1>3. Owners' = Owners /\ w \in Owners
    BY <1>1, <1>2 DEF Owners, Holding
<1>4. HoldsOn(w)
    BY <1>1, <1>2, <1>3, BelowFixed, GoneStays DEF HoldsOn
<1>5. Verdict(w)'
    BY <1>1, <1>2, <1>3, BelowFixed DEF AnswerInv, Verdict
<1> QED BY <1>1, <1>2, <1>4, <1>5, InGraphStays, HoldsOnKeepsAnswer

LEMMA SkipKeepsAnswer ==
    ASSUME AnswerInv, IInv', NEW w \in Workers, Skip(w)
    PROVE  AnswerInv'
<1>1. /\ curId' = curId /\ adjList' = adjList /\ inDegree' = inDegree /\ ready' = ready
      /\ freed' = freed /\ nextTask' = nextTask /\ ok' = ok /\ pc' = pc
      /\ main' = main /\ result' = result
      /\ succeeded' = succeeded /\ completedQueue' = completedQueue
      /\ pc[w] = "skip"
    BY DEF Skip, graphVars, mainVars
<1>2. PICK t \in todo[w] :
          /\ todo' = [todo EXCEPT ![w] = @ \ {t}]
          /\ \/ state[t] = "Pending" /\ state' = [state EXCEPT ![t] = "Skipped"]
             \/ state' = state
    BY DEF Skip, Skippable
<1>3. /\ \A v \in Workers : v # w => todo'[v] = todo[v]
      /\ todo'[w] \subseteq todo[w]
      /\ \A u \in TaskIds : \/ state'[u] = state[u]
                            \/ state[u] = "Pending" /\ state'[u] = "Skipped"
    BY <1>2 DEF AnswerInv, IInv, TypeOK, RunTypeOK
<1>4. Owners' = Owners /\ w \in Owners
    BY <1>1 DEF Owners, Holding
<1>5. HoldsOn(w)
    BY <1>1, <1>3, <1>4, BelowFixed, GoneStays DEF HoldsOn
<1>6. Verdict(w)'
  <2>1. Verdict(w) /\ nextTask[w] \in TaskIds
      BY DEF AnswerInv, IInv, TypeOK, RunTypeOK
  <2> QED BY <1>1, <1>3, <1>4, <2>1, BelowFixed DEF Verdict
<1> QED BY <1>1, <1>5, <1>6, InGraphStays, HoldsOnKeepsAnswer

-----------------------------------------------------------------------------
(* The steps in which a worker takes a task up, and puts it down.           *)

LEMMA PopKeepsAnswer ==
    ASSUME AnswerInv, IInv', NEW w \in Workers, Pop(w)
    PROVE  AnswerInv'
<1>1. /\ curId' = curId /\ adjList' = adjList /\ inDegree' = inDegree /\ ready' = Tail(ready)
      /\ freed' = freed /\ ok' = ok /\ state' = state /\ todo' = todo
      /\ main' = main /\ result' = result
      /\ succeeded' = succeeded /\ completedQueue' = completedQueue
      /\ pc[w] = "pop" /\ ready # <<>>
    BY DEF Pop, graphVars, mainVars
<1>2. /\ \A v \in Workers : pc'[v] = IF v = w THEN "run" ELSE pc[v]
      /\ \A v \in Workers : nextTask'[v] = IF v = w THEN ready[1] ELSE nextTask[v]
    BY DEF Pop, Goto, AnswerInv, IInv, TypeOK, RunTypeOK
<1>3. Owners' = Owners \cup {w} /\ w \notin Owners
    BY <1>1, <1>2 DEF Owners, Holding
<1>4. /\ DOMAIN ready = 1 .. Len(ready) /\ 1 \in DOMAIN ready
      /\ \A i \in DOMAIN ready' : i + 1 \in DOMAIN ready /\ ready'[i] = ready[i + 1]
    BY <1>1 DEF AnswerInv, IInv, TypeOK, RunTypeOK
<1>5. Tasks' = Tasks /\ Below' = Below /\ Recorded' = Recorded
    BY <1>1, BelowFixed, RecordedFixed
<1>6. Gone \subseteq Gone' /\ ready[1] \notin Gone /\ ready[1] \in Tasks
    BY <1>1, <1>2, <1>4 DEF Gone, Queued, Pushing, TaskIds, AnswerInv, InGraph
<1>7. ready[1] \in Gone'
  <2>1. /\ ready[1] \in TaskIds /\ inDegree[ready[1]] = 0
        /\ \A i \in DOMAIN ready : i # 1 => ready[i] # ready[1]
        /\ \A v \in Workers : pc[v] = "push" => freed[v] # ready[1]
      BY <1>4, <1>6, TasksAreIds DEF AnswerInv, IInv, TypeOK, OnePlace, Pushing, Queued
  <2>2. \A i \in DOMAIN ready' : ready'[i] # ready[1]
      BY <1>4, <2>1
  <2> QED BY <1>1, <1>2, <2>1, <2>2 DEF Gone, Queued, Pushing, TaskIds
<1>8. main # "returned"
    BY <1>1 DEF AnswerInv, MainWaits
<1>9. MainWaits' /\ ResultCorrect'
    BY <1>1, <1>8 DEF AnswerInv, MainWaits, ResultCorrect
<1>10. InGraph'
  <2>1. \A i \in DOMAIN ready' : ready'[i] \in Tasks
      BY <1>4 DEF AnswerInv, InGraph
  <2>2. \A v \in Owners' : nextTask'[v] \in Tasks
      BY <1>2, <1>3, <1>6 DEF AnswerInv, InGraph, Owners
  <2>3. \A v \in Workers : pc'[v] = "push" => freed'[v] \in Tasks
      BY <1>1, <1>2 DEF AnswerInv, InGraph, Pushing
  <2> QED BY <1>5, <2>1, <2>2, <2>3 DEF InGraph, Pushing
<1>11. OneOwner'
    BY <1>2, <1>3, <1>6, <1>7 DEF AnswerInv, OneOwner, Owners
<1>12. RecordedOnce'
    BY <1>1, <1>2, <1>3, <1>5, <1>6 DEF AnswerInv, RecordedOnce, Owners
<1>13. \A v \in Workers : Verdict(v)'
    BY <1>1, <1>2, <1>3, <1>5 DEF AnswerInv, Verdict
<1>14. SkippedForReason'
    BY <1>1, <1>5 DEF AnswerInv, SkippedForReason
<1>15. \A t \in TaskIds : Accounted(t)'
    BY <1>1, <1>2, <1>5 DEF AnswerInv, Accounted
<1> QED BY <1>9, <1>10, <1>11, <1>12, <1>13, <1>14, <1>15 DEF AnswerInv

LEMMA SucceedKeepsAnswer ==
    ASSUME AnswerInv, IInv', NEW w \in Workers, Succeed(w)
    PROVE  AnswerInv'
<1>1. /\ curId' = curId /\ adjList' = adjList /\ inDegree' = inDegree /\ ready' = ready
      /\ freed' = freed /\ nextTask' = nextTask /\ ok' = ok /\ state' = state /\ todo' = todo
      /\ main' = main /\ result' = result
      /\ succeeded' = succeeded + 1 /\ completedQueue' = Append(completedQueue, nextTask[w])
      /\ pc[w] = "succeed"
    BY DEF Succeed, graphVars, mainVars
<1>2. \A v \in Workers : pc'[v] = IF v = w THEN "last" ELSE pc[v]
    BY DEF Succeed, Goto, AnswerInv, IInv, TypeOK, RunTypeOK
<1>3. Owners' = Owners \ {w} /\ w \in Owners
    BY <1>1, <1>2 DEF Owners, Holding
<1>4. /\ DOMAIN completedQueue = 1 .. Len(completedQueue)
      /\ DOMAIN completedQueue' = 1 .. Len(completedQueue) + 1
      /\ Len(completedQueue') = Len(completedQueue) + 1 /\ Len(completedQueue) \in Nat
      /\ \A i \in DOMAIN completedQueue' :
             completedQueue'[i] = IF i = Len(completedQueue) + 1 THEN nextTask[w] ELSE completedQueue[i]
    BY <1>1 DEF AnswerInv, IInv, TypeOK, RunTypeOK
<1>5. Tasks' = Tasks /\ Below' = Below /\ Gone \subseteq Gone'
    BY <1>1, <1>2, BelowFixed, GoneStays
<1>6. Recorded' = Recorded \cup {nextTask[w]} /\ nextTask[w] \notin Recorded
    BY <1>3, <1>4 DEF Recorded, AnswerInv, RecordedOnce
<1>7. main # "returned" /\ main # "building"
    BY <1>1, WorkersRun DEF AnswerInv, MainWaits
<1>8. MainWaits' /\ ResultCorrect'
    BY <1>1, <1>7 DEF MainWaits, ResultCorrect
<1>9. InGraph'
    BY <1>1, <1>2, <1>3, <1>5 DEF AnswerInv, InGraph, Pushing
<1>10. OneOwner'
    BY <1>1, <1>3, <1>5 DEF AnswerInv, OneOwner
<1>11. RecordedOnce'
  <2>1. nextTask[w] \in Tasks \cap Gone /\ state[nextTask[w]] \in {"Finished", "Skipped"}
      BY <1>1, <1>3 DEF AnswerInv, InGraph, OneOwner, Verdict
  <2>2. \A v \in Owners' : nextTask'[v] \notin Recorded'
      BY <1>1, <1>3, <1>6 DEF AnswerInv, OneOwner, RecordedOnce
  <2>3. \A i, j \in DOMAIN completedQueue' : i # j => completedQueue'[i] # completedQueue'[j]
      BY <1>4, <1>6 DEF AnswerInv, RecordedOnce, Recorded
  <2>4. succeeded' = Len(completedQueue')
      BY <1>1, <1>4 DEF AnswerInv, RecordedOnce
  <2> QED BY <1>1, <1>5, <1>6, <2>1, <2>2, <2>3, <2>4 DEF AnswerInv, RecordedOnce
<1>12. \A v \in Workers : Verdict(v)'
    BY <1>1, <1>2, <1>3, <1>5 DEF AnswerInv, Verdict
<1>13. SkippedForReason'
    BY <1>1, <1>5 DEF AnswerInv, SkippedForReason
<1>14. \A t \in TaskIds : Accounted(t)'
    BY <1>1, <1>2, <1>6 DEF AnswerInv, Accounted
<1> QED BY <1>8, <1>9, <1>10, <1>11, <1>12, <1>13, <1>14 DEF AnswerInv

\* Nobody takes a task up, runs it or records it; a worker may put its task
\* down when it has recorded it or skipped what is below it.
PutsDown ==
    /\ curId' = curId /\ adjList' = adjList /\ inDegree' = inDegree /\ ready' = ready
    /\ freed' = freed /\ nextTask' = nextTask /\ ok' = ok /\ state' = state
    /\ succeeded' = succeeded /\ completedQueue' = completedQueue
    /\ Owners' \subseteq Owners
    /\ \A v \in Owners' : pc'[v] = pc[v] /\ todo'[v] = todo[v]
    /\ \A v \in Workers :
           pc[v] \in {"body", "count", "release", "push", "succeed"} => pc'[v] = pc[v]

LEMMA PutsDownKeepsAnswer ==
    ASSUME AnswerInv, IInv', PutsDown, MainWaits', ResultCorrect'
    PROVE  AnswerInv'
<1>1. /\ nextTask' = nextTask /\ ok' = ok /\ state' = state
      /\ succeeded' = succeeded /\ completedQueue' = completedQueue /\ freed' = freed /\ ready' = ready
      /\ Owners' \subseteq Owners
      /\ \A v \in Owners' : pc'[v] = pc[v] /\ todo'[v] = todo[v]
    BY DEF PutsDown
<1>2. \A v \in Workers : pc'[v] = "push" => pc[v] = "push"
    BY DEF PutsDown, Owners, Holding
<1>3. Tasks' = Tasks /\ Below' = Below /\ Gone \subseteq Gone' /\ Recorded' = Recorded
    BY <1>2, BelowFixed, GoneStays, RecordedFixed DEF PutsDown
<1>4. InGraph'
    BY <1>1, <1>2, <1>3 DEF AnswerInv, InGraph, Pushing
<1>5. OneOwner'
    BY <1>1, <1>3 DEF AnswerInv, OneOwner
<1>6. RecordedOnce'
    BY <1>1, <1>3 DEF AnswerInv, RecordedOnce
<1>7. ASSUME NEW v \in Workers PROVE Verdict(v)'
  <2>1. v \in Owners' \/ pc'[v] \notin {"succeed", "fail", "skip"}
      BY DEF Owners
  <2> QED BY <1>1, <1>3, <2>1 DEF AnswerInv, Verdict
<1>8. SkippedForReason'
    BY <1>1, <1>3 DEF AnswerInv, SkippedForReason
<1>9. \A t \in TaskIds : Accounted(t)'
    BY <1>1, <1>3 DEF AnswerInv, Accounted, PutsDown
<1> QED BY <1>4, <1>5, <1>6, <1>7, <1>8, <1>9 DEF AnswerInv

LEMMA OthersPutDown ==
    ASSUME AnswerInv, NEW w \in Workers,
           \/ Lock(w) \/ CheckPredicate(w) \/ Block(w) \/ Wake(w) \/ Exit(w) \/ PopEmpty(w)
           \/ Tally(w) \/ NotifySkipped(w) \/ NotifyLast(w)
    PROVE  PutsDown /\ MainWaits' /\ ResultCorrect'
<1>1. /\ UNCHANGED <<graphVars, ready, freed, nextTask, ok, state, succeeded, completedQueue>>
      /\ UNCHANGED <<main, result, todo>>
      /\ pc[w] \in {"lock", "check", "block", "blocked", "pop", "skip", "notify", "last"}
    BY DEF Lock, CheckPredicate, Block, Wake, Exit, PopEmpty, Tally, NotifySkipped,
           NotifyLast, sharedVars, mainVars
<1>2. \E label \in Labels \ {"run", "body", "count", "release", "push", "succeed", "fail", "skip"} :
          pc' = [pc EXCEPT ![w] = label]
    BY DEF Lock, CheckPredicate, Block, Wake, Exit, PopEmpty, Tally, NotifySkipped,
           NotifyLast, Goto, Labels
<1>3. /\ \A v \in Workers : v # w => pc'[v] = pc[v]
      /\ pc'[w] \notin {"run", "body", "count", "release", "push", "succeed", "fail", "skip"}
    BY <1>2 DEF AnswerInv, IInv, TypeOK, RunTypeOK
<1>4. Owners' \subseteq Owners /\ w \notin Owners'
    BY <1>3 DEF Owners, Holding
<1>5. PutsDown
    BY <1>1, <1>3, <1>4 DEF PutsDown, graphVars, Owners
<1>6. main' = main /\ main # "returned"
    BY <1>1 DEF AnswerInv, MainWaits
<1> QED BY <1>1, <1>5, <1>6 DEF AnswerInv, MainWaits, ResultCorrect

LEMMA RestPutsDown ==
    ASSUME AnswerInv, RollBall \/ UNCHANGED vars \/ \E w \in Workers : SpuriousWakeup(w)
    PROVE  PutsDown /\ MainWaits' /\ ResultCorrect'
<1>1. /\ UNCHANGED <<graphVars, ready, freed, nextTask, ok, state, succeeded, completedQueue>>
      /\ UNCHANGED <<pc, todo>>
      /\ (main' = main /\ result' = result) \/ main' = "joining"
    BY DEF RollBall, SpuriousWakeup, vars, sharedVars, localVars, mainVars
<1>2. Owners' = Owners /\ Tasks' = Tasks
    BY <1>1 DEF Owners, Holding, Tasks, graphVars
<1> QED BY <1>1, <1>2 DEF PutsDown, Owners, graphVars, AnswerInv, MainWaits, ResultCorrect

-----------------------------------------------------------------------------
(* The calling thread.                                                      *)

LEMMA NothingYet ==
    ASSUME AnswerInv, main = "building"
    PROVE  /\ Owners = {} /\ Recorded = {} /\ succeeded = 0 /\ completedQueue = <<>>
           /\ \A w \in Workers : pc[w] = "idle"
           /\ \A t \in TaskIds : state[t] = "Pending"
<1>1. /\ \A w \in Workers : pc[w] = "idle" 
      /\ \A t \in TaskIds : state[t] = "Pending"
      /\ completedQueue = <<>> /\ succeeded = 0
    BY DEF AnswerInv, IInv, NothingRunYet, MainWaits
<1> QED BY <1>1 DEF Owners, Holding, Recorded

LEMMA BuildKeepsAnswer == AnswerInv /\ IInv' /\ Build => AnswerInv'
<1> SUFFICES ASSUME AnswerInv, IInv', Build PROVE AnswerInv'
    OBVIOUS
<1>1. /\ main = "building" /\ main' = main /\ pc' = pc /\ ready' = ready /\ state' = state
      /\ succeeded' = succeeded /\ completedQueue' = completedQueue
    BY DEF Build, sharedVars, mainVars, localVars
<1>2. /\ Owners' = {} /\ Recorded' = {} /\ succeeded = 0 /\ completedQueue = <<>> /\ ready = <<>>
      /\ \A w \in Workers : pc'[w] = "idle"
      /\ \A t \in TaskIds : state'[t] = "Pending"
    BY <1>1, NothingYet DEF Owners, Holding, Recorded, AnswerInv, IInv, NothingRunYet
<1>3. MainWaits' /\ ResultCorrect'
    BY <1>1, <1>2 DEF MainWaits, ResultCorrect
<1>4. InGraph' /\ OneOwner' /\ RecordedOnce'
    BY <1>1, <1>2 DEF InGraph, OneOwner, RecordedOnce, Pushing
<1>5. \A v \in Workers : Verdict(v)'
    BY <1>2 DEF Verdict
<1>6. SkippedForReason' /\ \A t \in TaskIds : Accounted(t)'
    BY <1>2 DEF SkippedForReason, Accounted
<1> QED BY <1>3, <1>4, <1>5, <1>6 DEF AnswerInv

LEMMA StartKeepsAnswer == AnswerInv /\ IInv' /\ StartWorkers => AnswerInv'
<1> SUFFICES ASSUME AnswerInv, IInv', StartWorkers PROVE AnswerInv'
    OBVIOUS
<1>1. /\ main = "building" /\ main' = "started" /\ state' = state
      /\ succeeded' = succeeded /\ completedQueue' = completedQueue
      /\ \A w \in Workers : pc'[w] \in {"idle", "lock"}
      /\ Tasks' = Tasks
    BY BelowFixed DEF StartWorkers, graphVars
<1>2. /\ Owners' = {} /\ Recorded' = {} /\ succeeded = 0 /\ completedQueue = <<>>
      /\ \A t \in TaskIds : state'[t] = "Pending"
    BY <1>1, NothingYet DEF Owners, Holding, Recorded
<1>3. \A i \in DOMAIN ready' : ready'[i] \in Tasks
    BY SourcesFinite DEF StartWorkers, Sources
<1>4. MainWaits' /\ ResultCorrect'
    BY <1>1 DEF MainWaits, ResultCorrect
<1>5. InGraph' /\ OneOwner' /\ RecordedOnce'
    BY <1>1, <1>2, <1>3 DEF InGraph, OneOwner, RecordedOnce, Pushing
<1>6. \A v \in Workers : Verdict(v)'
    BY <1>1, <1>2 DEF Verdict
<1>7. SkippedForReason' /\ \A t \in TaskIds : Accounted(t)'
    BY <1>2 DEF SkippedForReason, Accounted
<1> QED BY <1>4, <1>5, <1>6, <1>7 DEF AnswerInv

\* Every recorded task is another one.
LEMMA RecordedCounted ==
    ASSUME AnswerInv
    PROVE  /\ Recorded \subseteq Tasks /\ IsFiniteSet(Tasks) /\ Cardinality(Tasks) = curId
           /\ Cardinality(Recorded) = succeeded
<1>1. IsFiniteSet(Tasks) /\ Cardinality(Tasks) = curId
    BY FS_Interval DEF AnswerInv, IInv, TypeOK, GraphTypeOK, Tasks
<1>2. /\ DOMAIN completedQueue = 1 .. Len(completedQueue) /\ Len(completedQueue) \in Nat
      /\ completedQueue \in [1 .. Len(completedQueue) -> Recorded]
    BY DEF AnswerInv, IInv, TypeOK, RunTypeOK, Recorded
<1>3. ExistsBijection(1 .. Len(completedQueue), Recorded)
  <2>1. completedQueue \in Injection(1 .. Len(completedQueue), Recorded)
      BY <1>2 DEF Injection, IsInjective, AnswerInv, RecordedOnce
  <2>2. completedQueue \in Surjection(1 .. Len(completedQueue), Recorded)
      BY <1>2 DEF Surjection, Recorded
  <2> QED BY <2>1, <2>2 DEF ExistsBijection, Bijection
<1>4. Cardinality(Recorded) = Len(completedQueue)
    BY <1>2, <1>3, FS_CountingElements
<1> QED BY <1>1, <1>4 DEF AnswerInv, RecordedOnce

LEMMA ReturnIsRight ==
    ASSUME AnswerInv, JoinWorkers \/ RunNothing
    PROVE  result' <=> \A t \in Tasks : state[t] = "Finished"
<1>1. CASE RunNothing
    BY <1>1 DEF RunNothing, Tasks
<1>2. CASE JoinWorkers
  <2>1. /\ result' = (succeeded = curId)
        /\ \A w \in Workers : pc[w] \in {"idle", "done"}
      BY <1>2 DEF JoinWorkers, RunResult
  <2>2. ASSUME succeeded = curId
        PROVE  \A t \in Tasks : state[t] = "Finished"
    <3>1. Recorded = Tasks
        BY <2>2, RecordedCounted, FS_Subset
    <3>2. \A t \in Tasks : t \in TaskIds /\ state[t] \in {"Finished", "Skipped"}
        BY <3>1, TasksAreIds DEF AnswerInv, RecordedOnce, IInv, TypeOK
    <3> QED BY <3>2 DEF AnswerInv, SkippedForReason
  <2>3. ASSUME \A t \in Tasks : state[t] = "Finished"
        PROVE  succeeded = curId
    <3>1. \A t \in Tasks : t \in Recorded
        BY <2>1, <2>3, TasksAreIds DEF AnswerInv, Accounted, IInv, TypeOK
    <3>2. Recorded = Tasks
        BY <3>1, RecordedCounted
    <3> QED BY <3>2, RecordedCounted
  <2> QED BY <2>1, <2>2, <2>3
<1> QED BY <1>1, <1>2

LEMMA ReturnKeepsAnswer ==
    ASSUME AnswerInv, IInv', JoinWorkers \/ RunNothing
    PROVE  AnswerInv'
<1>1. /\ UNCHANGED <<graphVars, ready, freed, nextTask, ok, state, succeeded, completedQueue>>
      /\ UNCHANGED <<pc, todo>> /\ main' = "returned"
    BY DEF JoinWorkers, RunNothing, sharedVars, localVars
<1>2. Owners' = Owners /\ Tasks' = Tasks
    BY <1>1 DEF Owners, Holding, Tasks, graphVars
<1>3. \A w \in Workers : pc[w] \in {"idle", "done"}
    BY NothingYet DEF JoinWorkers, RunNothing
<1>4. MainWaits' /\ PutsDown
    BY <1>1, <1>2, <1>3 DEF MainWaits, PutsDown, graphVars, Owners
<1>5. ResultCorrect'
    BY <1>1, <1>2, ReturnIsRight DEF ResultCorrect
<1> QED BY <1>4, <1>5, PutsDownKeepsAnswer

-----------------------------------------------------------------------------
LEMMA AnswerInit == Init => AnswerInv
<1> SUFFICES ASSUME Init PROVE AnswerInv
    OBVIOUS
<1>1. IInv
    BY IInvInit
<1>2. /\ main = "building" /\ succeeded = 0 /\ completedQueue = <<>> /\ ready = <<>>
      /\ \A w \in Workers : pc[w] = "idle"
      /\ \A t \in TaskIds : state[t] = "Pending"
    BY DEF Init, RunInit
<1>3. Owners = {} /\ Recorded = {}
    BY <1>2 DEF Owners, Holding, Recorded
<1>4. MainWaits /\ ResultCorrect
    BY <1>2 DEF MainWaits, ResultCorrect
<1>5. InGraph /\ OneOwner /\ RecordedOnce
    BY <1>2, <1>3 DEF InGraph, OneOwner, RecordedOnce, Pushing
<1>6. \A v \in Workers : Verdict(v)
    BY <1>2, <1>3 DEF Verdict
<1>7. SkippedForReason /\ \A t \in TaskIds : Accounted(t)
    BY <1>2 DEF SkippedForReason, Accounted
<1> QED BY <1>1, <1>4, <1>5, <1>6, <1>7 DEF AnswerInv

LEMMA NextKeepsAnswer == AnswerInv /\ [Next]_vars => AnswerInv'
<1> SUFFICES ASSUME AnswerInv, [Next]_vars PROVE AnswerInv'
    OBVIOUS
<1>1. IInv'
    BY NextKeepsInv DEF AnswerInv
<1>2. CASE Build
    BY <1>1, <1>2, BuildKeepsAnswer
<1>3. CASE StartWorkers
    BY <1>1, <1>3, StartKeepsAnswer
<1>4. CASE JoinWorkers \/ RunNothing
    BY <1>1, <1>4, ReturnKeepsAnswer
<1>5. CASE RollBall \/ UNCHANGED vars \/ \E w \in Workers : SpuriousWakeup(w)
    BY <1>1, <1>5, RestPutsDown, PutsDownKeepsAnswer
<1>6. ASSUME NEW w \in Workers, Worker(w)
      PROVE  AnswerInv'
  <2>1. CASE Wait(w)
      BY <1>1, <2>1, PopKeepsAnswer, OthersPutDown, PutsDownKeepsAnswer DEF Wait
  <2>2. CASE RunOne(w)
      BY <1>1, <2>2, BeginRunKeepsAnswer, RefuseRunKeepsAnswer, EndRunKeepsAnswer,
         CountKeepsAnswer, ReleaseKeepsAnswer, EndReleaseKeepsAnswer, PushKeepsAnswer,
         SucceedKeepsAnswer DEF RunOne
  <2>3. CASE SkipBelow(w) \/ NotifyLast(w)
      BY <1>1, <2>3, BeginSkipKeepsAnswer, SkipKeepsAnswer, OthersPutDown,
         PutsDownKeepsAnswer DEF SkipBelow
  <2> QED BY <1>6, <2>1, <2>2, <2>3 DEF Worker
<1> QED BY <1>2, <1>3, <1>4, <1>5, <1>6 DEF Next, Main

\* The second inductive invariant: who holds a task, what the record of the
\* successes says, and what every worker knows of its task.
THEOREM AnswerInvariant == Spec => []AnswerInv
BY AnswerInit, NextKeepsAnswer, PTL DEF Spec

\* RunTasks answers true exactly when every callback ran and returned true, for
\* every graph, pool and outcome, although a skipped task that is popped counts
\* as a success and the two counts are kept without a lock between them.
THEOREM AnswerIsRight == Spec => []ResultCorrect
<1>1. AnswerInv => ResultCorrect
    BY DEF AnswerInv
<1> QED BY <1>1, AnswerInvariant, PTL

-----------------------------------------------------------------------------
(* The pool implements TaskSchedule: every step of a thread is a step of    *)
(* the schedule or leaves its variables alone.                              *)

LEMMA BusyMain ==
    ASSUME AnswerInv, NEW w \in Owners
    PROVE  main \in {"started", "joining"} /\ w \in Workers /\ nextTask[w] \in Tasks
<1>1. w \in Workers /\ pc[w] \notin {"idle", "done"} /\ nextTask[w] \in Tasks
    BY DEF Owners, Holding, AnswerInv, InGraph
<1> QED BY <1>1, WorkersRun DEF AnswerInv, MainWaits, IInv, TypeOK, RunTypeOK

LEMMA BuildRefines ==
    ASSUME AnswerInv, AnswerInv', Build
    PROVE  Schedule!Build
<1>1. main = "building" /\ UNCHANGED <<state, main, result>> /\ GraphNext
    BY DEF Build, sharedVars, mainVars
<1>2. curId \in 0 .. MaxTasks /\ curId' \in 0 .. MaxTasks /\ curId <= curId'
    BY <1>1 DEF AnswerInv, IInv, TypeOK, GraphTypeOK, GraphNext, AddTask, AddDependency
<1>3. adjList \in [TaskIds -> SUBSET Tasks] /\ adjList' \in [TaskIds -> SUBSET (0 .. curId' - 1)]
    BY DEF AnswerInv, IInv, TypeOK, GraphTypeOK, Tasks
<1>4. \A t \in TaskIds : adjList[t] \subseteq adjList'[t]
    BY <1>1, <1>3 DEF GraphNext, AddTask, AddDependency
<1> QED BY <1>1, <1>2, <1>3, <1>4, BoundsAssumption DEF Schedule!Build, Schedule!TaskIds, TaskIds

LEMMA BeginRunRefines ==
    ASSUME AnswerInv, NEW w \in Workers, BeginRun(w)
    PROVE  Schedule!Start(nextTask[w]) /\ nextTask[w] \in Tasks
<1>1. /\ pc[w] = "run" /\ state[nextTask[w]] = "Pending"
      /\ state' = [state EXCEPT ![nextTask[w]] = "Running"]
      /\ UNCHANGED <<curId, adjList, main, result>>
    BY DEF BeginRun, graphVars, mainVars
<1>2. nextTask[w] \in Tasks /\ main \in {"started", "joining"}
    BY <1>1, BusyMain DEF Owners, Holding
<1>3. nextTask[w] \in TaskIds /\ inDegree[nextTask[w]] = 0
    BY <1>1 DEF AnswerInv, IInv, OnePlace, Holding, TypeOK, RunTypeOK
<1>4. \A p \in Tasks : nextTask[w] \in adjList[p] => state[p] \in Settled
    BY <1>3, NoneLeft DEF AnswerInv, Predecessors
<1> QED BY <1>1, <1>2, <1>4
        DEF Schedule!Start, Schedule!Become, Schedule!Tasks, Schedule!Over, Tasks, Settled

LEMMA EndRunRefines ==
    ASSUME AnswerInv, NEW w \in Workers, EndRun(w)
    PROVE  Schedule!End(nextTask[w]) /\ nextTask[w] \in Tasks
<1>1. /\ pc[w] = "body" /\ UNCHANGED <<curId, adjList, main, result>>
      /\ \E s \in {"Finished", "Failed"} : state' = [state EXCEPT ![nextTask[w]] = s]
    BY DEF EndRun, graphVars, mainVars
<1>2. nextTask[w] \in Tasks /\ main \in {"started", "joining"}
    BY <1>1, BusyMain DEF Owners, Holding
<1>3. state[nextTask[w]] = "Running"
    BY <1>1 DEF AnswerInv, IInv, StateAtPlace
<1> QED BY <1>1, <1>2, <1>3 DEF Schedule!End, Schedule!Become

LEMMA SkipRefines ==
    ASSUME AnswerInv, NEW w \in Workers, Skip(w)
    PROVE  \/ UNCHANGED <<curId, adjList, state, main, result>>
           \/ \E t \in Tasks : Schedule!SkipTask(t)
<1>1. /\ pc[w] = "skip" /\ UNCHANGED <<curId, adjList, main, result>>
    BY DEF Skip, graphVars, mainVars
<1>2. PICK t \in todo[w] :
          \/ state[t] = "Pending" /\ state' = [state EXCEPT ![t] = "Skipped"]
          \/ state' = state
    BY DEF Skip, Skippable
<1>3. /\ w \in Owners /\ nextTask[w] \in Tasks /\ main \in {"started", "joining"}
      /\ nextTask[w] \in TaskIds
    BY <1>1, BusyMain DEF Owners, Holding, AnswerInv, IInv, TypeOK, RunTypeOK
<1>4. state[nextTask[w]] = "Failed" /\ t \in getDescendants(nextTask[w])
    BY <1>1, <1>3 DEF AnswerInv, Verdict, Below
<1>5. t \in Tasks /\ Schedule!Below(nextTask[w], t)
    BY <1>4 DEF getDescendants, pathExists, Closed, Schedule!Below, Schedule!Tasks, Tasks
<1>6. CASE state[t] = "Pending" /\ state' = [state EXCEPT ![t] = "Skipped"]
    BY <1>1, <1>3, <1>4, <1>5, <1>6
    DEF Schedule!SkipTask, Schedule!Become, Schedule!Tasks, Tasks
<1> QED BY <1>1, <1>2, <1>6

LEMMA ReturnRefines ==
    ASSUME AnswerInv, JoinWorkers \/ RunNothing
    PROVE  Schedule!Return
<1>1. /\ main' = "returned" /\ UNCHANGED <<curId, adjList, state>>
      /\ (main = "building" /\ curId = 0) \/ main = "joining"
      /\ result' \in BOOLEAN
    BY DEF JoinWorkers, RunNothing, RunResult, graphVars, sharedVars
<1>2. \A w \in Workers : pc[w] \in {"idle", "done"}
    BY NothingYet DEF JoinWorkers, RunNothing
<1>3. \A t \in Tasks : state[t] # "Running"
    BY <1>2, TasksAreIds DEF AnswerInv, Accounted, IInv, TypeOK
<1>4. result' = \A t \in Tasks : state[t] = "Finished"
    BY <1>1, ReturnIsRight
<1> QED BY <1>1, <1>3, <1>4 DEF Schedule!Return, Schedule!Tasks, Tasks

\* The steps the schedule does not see.
LEMMA OthersStutter ==
    ASSUME NEW w \in Workers,
           \/ Wait(w) \/ SpuriousWakeup(w) \/ NotifyLast(w)
           \/ RefuseRun(w) \/ Count(w) \/ Release(w) \/ EndRelease(w) \/ addReadyTask(w)
           \/ Succeed(w) \/ BeginSkip(w) \/ Tally(w) \/ NotifySkipped(w)
    PROVE  UNCHANGED <<curId, adjList, state, main, result>>
<1>1. CASE Wait(w) \/ SpuriousWakeup(w) \/ NotifyLast(w)
    BY <1>1 DEF Wait, Lock, CheckPredicate, Block, Wake, Exit, Pop, PopEmpty, SpuriousWakeup,
                NotifyLast, graphVars, sharedVars, mainVars
<1>2. CASE \/ RefuseRun(w) \/ Count(w) \/ Release(w) \/ EndRelease(w) \/ addReadyTask(w)
           \/ Succeed(w)
    BY <1>2 DEF RefuseRun, Count, Release, EndRelease, addReadyTask, Succeed,
                graphVars, sharedVars, mainVars
<1>3. CASE BeginSkip(w) \/ Tally(w) \/ NotifySkipped(w)
    BY <1>3 DEF BeginSkip, Tally, NotifySkipped, graphVars, mainVars
<1> QED BY <1>1, <1>2, <1>3

LEMMA StepRefines ==
    AnswerInv /\ AnswerInv' /\ [Next]_vars => [Schedule!Next]_(Schedule!vars)
<1> SUFFICES ASSUME AnswerInv, AnswerInv', [Next]_vars
             PROVE  Schedule!Next \/ UNCHANGED <<curId, adjList, state, main, result>>
    BY DEF Schedule!vars
<1>1. Schedule!Tasks = Tasks
    BY DEF Schedule!Tasks, Tasks
<1>2. CASE Build
    BY <1>2, BuildRefines DEF Schedule!Next
<1>3. CASE StartWorkers \/ RollBall
    BY <1>3 DEF StartWorkers, RollBall, graphVars, Schedule!Launch, Schedule!Next
<1>4. CASE JoinWorkers \/ RunNothing
    BY <1>4, ReturnRefines DEF Schedule!Next
<1>5. ASSUME NEW w \in Workers, Worker(w) \/ SpuriousWakeup(w)
      PROVE  Schedule!Next \/ UNCHANGED <<curId, adjList, state, main, result>>
  <2>1. CASE BeginRun(w)
      BY <1>1, <2>1, BeginRunRefines DEF Schedule!Next
  <2>2. CASE EndRun(w)
      BY <1>1, <2>2, EndRunRefines DEF Schedule!Next
  <2>3. CASE Skip(w)
      BY <1>1, <2>3, SkipRefines DEF Schedule!Next
  <2> QED BY <1>5, <2>1, <2>2, <2>3, OthersStutter DEF Worker, RunOne, SkipBelow
<1>6. CASE UNCHANGED vars
    BY <1>6 DEF vars, graphVars, sharedVars, mainVars
<1> QED BY <1>2, <1>3, <1>4, <1>5, <1>6 DEF Next, Main

\* The pool is a scheduler that knows of no threads, queues or counts: tasks
\* run in dependency order, each at most once, only what is below a failure is
\* skipped, and the answer is the conjunction of the outcomes.
THEOREM PoolImplementsSchedule == Spec => ImplementsSchedule
<1>1. Init => Schedule!Init
    BY DEF Init, GraphInit, RunInit, Schedule!Init, Schedule!TaskIds, TaskIds
<1> QED BY <1>1, StepRefines, AnswerInvariant, PTL DEF Spec, ImplementsSchedule, Schedule!Spec

-----------------------------------------------------------------------------
(***************************************************************************)
(* While no completion is counted twice the count of the completed tasks is *)
(* never ahead, no worker leaves early and none pops an empty queue; and    *)
(* where no task has two dependencies, nothing runs below a failure.        *)
(***************************************************************************)

(* Descendants, and what they are in a forest.                              *)

\* The descendants of a task are the least set that holds it and that no edge
\* leaves.
LEMMA BelowLeast ==
    ASSUME GraphTypeOK, NEW p \in Tasks
    PROVE  /\ p \in Below[p] /\ Below[p] \subseteq Tasks
           /\ \A u \in Below[p] : adjList[u] \subseteq Below[p]
           /\ \A S \in SUBSET Tasks :
                  p \in S /\ (\A u \in S : adjList[u] \subseteq S) => Below[p] \subseteq S
<1>1. Below[p] = {d \in Tasks : pathExists(p, d)}
    BY TasksAreIds DEF Below, getDescendants
<1>2. \A u \in Tasks : adjList[u] \subseteq Tasks
    BY TasksAreIds DEF GraphTypeOK
<1> QED BY <1>1, <1>2 DEF pathExists, Closed

LEMMA OnePredecessor ==
    ASSUME GraphTypeOK, Forest, NEW t \in Tasks, NEW p \in Predecessors(t), NEW q \in Predecessors(t)
    PROVE  p = q
<1>1. IsFiniteSet(Predecessors(t)) /\ Cardinality(Predecessors(t)) <= 1
    BY PredecessorsFinite DEF Forest
<1>2. IsFiniteSet({p, q}) /\ Cardinality({p, q}) <= Cardinality(Predecessors(t))
    BY <1>1, FS_Subset
<1>3. Cardinality({p}) = 1 /\ IsFiniteSet({p}) /\ {p, q} = {p} \cup {q}
    BY FS_Singleton
<1>4. ASSUME p # q
      PROVE  Cardinality({p, q}) = 2
    <2>1. q \notin {p}
        BY <1>4
    <2>2. Cardinality({p} \cup {q}) = Cardinality({p}) + 1
        BY <1>3, <2>1, FS_AddElement
    <2> QED BY <1>3, <2>2
<1>5. Cardinality(Predecessors(t)) \in Nat
    BY <1>1, FS_CardinalityType
<1> QED BY <1>1, <1>2, <1>4, <1>5

\* In a forest the way down to a task leads through its predecessor.
LEMMA ForestAncestor ==
    ASSUME GraphTypeOK, Forest, NEW p \in Tasks, NEW q \in Tasks,
           NEW t \in adjList[q], t # p, t \in Below[p]
    PROVE  q \in Below[p]
<1> SUFFICES ASSUME q \notin Below[p] PROVE FALSE
    OBVIOUS
<1>1. t \in Tasks
    BY BelowLeast
<1>2. \A u \in Below[p] \ {t} : adjList[u] \subseteq Below[p] \ {t}
  <2> SUFFICES ASSUME NEW u \in Below[p], t \in adjList[u] PROVE FALSE
      BY BelowLeast
  <2>1. u \in Predecessors(t) /\ q \in Predecessors(t)
      BY BelowLeast DEF Predecessors
  <2> QED BY <1>1, <2>1, OnePredecessor
<1> QED BY <1>2, BelowLeast

\* In a forest two tasks with a common descendant lie one below the other.
LEMMA ForestComparable ==
    ASSUME GraphTypeOK, Forest, NEW p \in Tasks, NEW q \in Tasks,
           NEW t, t \in Below[p], t \in Below[q]
    PROVE  q \in Below[p] \/ p \in Below[q]
<1> SUFFICES ASSUME q \notin Below[p], p \notin Below[q] PROVE FALSE
    OBVIOUS
<1>1. \A u \in Below[p] \ Below[q] : adjList[u] \subseteq Below[p] \ Below[q]
  <2> SUFFICES ASSUME NEW u \in Below[p], NEW v \in adjList[u], v \in Below[q]
               PROVE  u \in Below[q]
      BY BelowLeast
  <2>1. u \in Tasks /\ v \in Below[p]
      BY BelowLeast
  <2> QED BY <2>1, ForestAncestor
<1> QED BY <1>1, BelowLeast

-----------------------------------------------------------------------------
(* What a step of one worker leaves alone.                                  *)

LEMMA OthersStill ==
    ASSUME TypeOK, NEW w \in Workers, Worker(w), NEW v \in Workers, v # w
    PROVE  /\ pc'[v] = pc[v] /\ nextTask'[v] = nextTask[v] /\ ok'[v] = ok[v]
           /\ todo'[v] = todo[v] /\ freed'[v] = freed[v] /\ skipped'[v] = skipped[v]
<1> USE DEF TypeOK, RunTypeOK, Goto
<1>1. CASE Lock(w) \/ CheckPredicate(w) \/ Block(w) \/ Wake(w)
    BY <1>1 DEF Lock, CheckPredicate, Block, Wake
<1>2. CASE Exit(w) \/ Pop(w) \/ PopEmpty(w) \/ NotifyLast(w)
    BY <1>2 DEF Exit, Pop, PopEmpty, NotifyLast
<1>3. CASE BeginRun(w) \/ RefuseRun(w) \/ EndRun(w) \/ Count(w)
    BY <1>3 DEF BeginRun, RefuseRun, EndRun, Count
<1>4. CASE Release(w) \/ EndRelease(w) \/ addReadyTask(w) \/ Succeed(w)
    BY <1>4 DEF Release, EndRelease, addReadyTask, Succeed
<1>5. CASE SkipBelow(w)
    BY <1>5 DEF SkipBelow, BeginSkip, Skip, Tally, NotifySkipped
<1> QED BY <1>1, <1>2, <1>3, <1>4, <1>5 DEF Worker, Wait, RunOne

\* Where every worker goes from where it is.
Moves ==
    {<<"lock", "check">>, <<"check", "pop">>, <<"check", "block">>, <<"block", "blocked">>,
     <<"blocked", "check">>, <<"pop", "done">>, <<"pop", "run">>, <<"pop", "undefined">>,
     <<"run", "body">>, <<"run", "count">>, <<"body", "count">>, <<"count", "release">>,
     <<"release", "push">>, <<"release", "release">>, <<"push", "release">>,
     <<"release", "succeed">>, <<"release", "fail">>, <<"succeed", "last">>,
     <<"fail", "skip">>, <<"skip", "skip">>, <<"skip", "notify">>, <<"skip", "last">>,
     <<"notify", "last">>, <<"last", "lock">>}

LEMMA WorkerMoves ==
    ASSUME TypeOK, NEW w \in Workers, Worker(w)
    PROVE  <<pc[w], pc'[w]>> \in Moves
<1> USE DEF TypeOK, RunTypeOK, Goto, Moves
<1>1. CASE Lock(w) \/ CheckPredicate(w) \/ Block(w) \/ Wake(w)
    BY <1>1 DEF Lock, CheckPredicate, Block, Wake
<1>2. CASE Exit(w) \/ Pop(w) \/ PopEmpty(w) \/ NotifyLast(w)
    BY <1>2 DEF Exit, Pop, PopEmpty, NotifyLast
<1>3. CASE BeginRun(w) \/ RefuseRun(w) \/ EndRun(w) \/ Count(w)
    BY <1>3 DEF BeginRun, RefuseRun, EndRun, Count
<1>4. CASE Release(w)
    BY <1>4 DEF Release
<1>5. CASE EndRelease(w) \/ addReadyTask(w) \/ Succeed(w)
    BY <1>5 DEF EndRelease, addReadyTask, Succeed
<1>6. CASE SkipBelow(w)
    BY <1>6 DEF SkipBelow, BeginSkip, Skip, Tally, NotifySkipped
<1> QED BY <1>1, <1>2, <1>3, <1>4, <1>5, <1>6 DEF Worker, Wait, RunOne

\* Workers leave the graph and the calling thread alone, and what is settled.
LEMMA WorkerFrame ==
    ASSUME AnswerInv, NEW w \in Workers, Worker(w)
    PROVE  /\ curId' = curId /\ adjList' = adjList /\ main' = main
           /\ \A t \in TaskIds : state[t] \in Settled => state'[t] = state[t]
<1> USE DEF graphVars, sharedVars, mainVars
<1>1. CASE Wait(w) \/ NotifyLast(w)
    BY <1>1 DEF Wait, Lock, CheckPredicate, Block, Wake, Exit, Pop, PopEmpty, NotifyLast
<1>2. CASE BeginRun(w)
    BY <1>2 DEF BeginRun, Settled, AnswerInv, IInv, TypeOK, RunTypeOK
<1>3. CASE EndRun(w)
  <2>1. state[nextTask[w]] = "Running"
      BY <1>3 DEF EndRun, AnswerInv, IInv, StateAtPlace
  <2> QED BY <1>3, <2>1 DEF EndRun, Settled, AnswerInv, IInv, TypeOK, RunTypeOK
<1>4. CASE \/ RefuseRun(w) \/ Count(w) \/ Release(w) \/ EndRelease(w) \/ addReadyTask(w)
           \/ Succeed(w)
    BY <1>4 DEF RefuseRun, Count, Release, EndRelease, addReadyTask, Succeed
<1>5. CASE Skip(w)
    BY <1>5 DEF Skip, Skippable, Settled, AnswerInv, IInv, TypeOK, RunTypeOK
<1>6. CASE BeginSkip(w) \/ Tally(w) \/ NotifySkipped(w)
    BY <1>6 DEF BeginSkip, Tally, NotifySkipped
<1> QED BY <1>1, <1>2, <1>3, <1>4, <1>5, <1>6 DEF Worker, RunOne, SkipBelow

LEMMA ForestFixed ==
    ASSUME curId' = curId, adjList' = adjList
    PROVE  Forest' <=> Forest
BY EdgesFixed DEF Forest

\* Once a count may come twice it stays so.
LEMMA CountsOnceBefore ==
    ASSUME AnswerInv, NEW w \in Workers, Worker(w), CountsOnce'
    PROVE  CountsOnce
<1>1. /\ Tasks' = Tasks /\ \A t : Predecessors(t)' = Predecessors(t)
      /\ \A t \in TaskIds : state[t] = "Failed" => state'[t] = "Failed"
    BY WorkerFrame, EdgesFixed DEF Settled
<1>2. Tasks \subseteq TaskIds
    BY TasksAreIds DEF AnswerInv, IInv, TypeOK
<1> QED BY <1>1, <1>2 DEF CountsOnce

-----------------------------------------------------------------------------
(* What is reached in a forest lies below successes.                        *)

LEMMA ReachedStays ==
    ASSUME ready' = ready, freed' = freed, nextTask' = nextTask, Owners' \subseteq Owners,
           \A v \in Workers : pc'[v] = "push" => pc[v] = "push",
           \A t \in TaskIds : state'[t] \in Started =>
               state[t] \in Started \/ \E v \in Owners : nextTask[v] = t
    PROVE  Reached' \subseteq Reached
BY DEF Reached, Queued, Pushing, TaskIds

LEMMA OwnersOf ==
    ASSUME TypeOK, NEW w \in Workers, Worker(w)
    PROVE  /\ \A v \in Workers : v # w => (v \in Owners' <=> v \in Owners)
           /\ w \in Owners' <=> pc'[w] \in {"run", "body", "count", "release", "push",
                                            "succeed", "fail", "skip"}
           /\ w \in Owners <=> pc[w] \in {"run", "body", "count", "release", "push",
                                          "succeed", "fail", "skip"}
           /\ Owners' \subseteq Workers /\ Owners \subseteq Workers
BY OthersStill DEF Owners, Holding

LEMMA ReachedKept ==
    ASSUME AnswerInv, AnswerInv', NEW w \in Workers, Worker(w), ~ Release(w)
    PROVE  Reached' \subseteq Reached
<1> USE DEF graphVars, sharedVars, mainVars
<1>1. CASE Pop(w)
  <2>1. /\ state' = state /\ freed' = freed /\ ready # <<>> /\ ready' = Tail(ready) 
        /\ nextTask'[w] = ready[1] /\ pc'[w] = "run"
      BY <1>1 DEF Pop, Goto, AnswerInv, IInv, TypeOK, RunTypeOK
  <2>2. /\ DOMAIN ready = 1 .. Len(ready) /\ 1 \in DOMAIN ready
        /\ \A i \in DOMAIN ready' : i + 1 \in DOMAIN ready /\ ready'[i] = ready[i + 1]
      BY <2>1 DEF AnswerInv, IInv, TypeOK, RunTypeOK
  <2>3. \A v \in Workers : v # w =>
            pc'[v] = pc[v] /\ nextTask'[v] = nextTask[v] /\ (v \in Owners' <=> v \in Owners)
      BY <1>1, OthersStill, OwnersOf DEF AnswerInv, IInv
  <2>4. \A t : Queued(t)' => Queued(t)
      BY <2>2 DEF Queued
  <2>5. Queued(ready[1])
      BY <2>2 DEF Queued
  <2> QED BY <2>1, <2>3, <2>4, <2>5 DEF Reached, Pushing, TaskIds, Owners
<1>2. CASE addReadyTask(w)
  <2>1. /\ state' = state /\ freed' = freed /\ nextTask' = nextTask
        /\ ready' = Append(ready, freed[w]) /\ pc[w] = "push" /\ pc'[w] = "release"
      BY <1>2 DEF addReadyTask, Goto, AnswerInv, IInv, TypeOK, RunTypeOK
  <2>2. \A t : Queued(t)' => Queued(t) \/ t = freed[w]
      BY <2>1 DEF Queued, AnswerInv, IInv, TypeOK, RunTypeOK
  <2>3. \A v \in Workers : pc'[v] = IF v = w THEN "release" ELSE pc[v]
      BY <2>1, OthersStill DEF AnswerInv, IInv
  <2>4. Owners' = Owners
      BY <2>1, <2>3 DEF Owners, Holding
  <2> QED BY <2>1, <2>2, <2>3, <2>4 DEF Reached, Pushing, TaskIds
<1>3. CASE \/ (Wait(w) /\ ~ Pop(w)) \/ NotifyLast(w) \/ RefuseRun(w) \/ Count(w) \/ EndRelease(w)
           \/ Succeed(w) \/ BeginSkip(w) \/ Tally(w) \/ NotifySkipped(w)
  <2>1. ready' = ready /\ freed' = freed /\ nextTask' = nextTask /\ state' = state
      BY <1>3 DEF Wait, Lock, CheckPredicate, Block, Wake, Exit, PopEmpty, NotifyLast,
                  RefuseRun, Count, EndRelease, Succeed, BeginSkip, Tally, NotifySkipped
  <2>2. <<pc[w], pc'[w]>> \in Moves \ {<<"pop", "run">>, <<"release", "push">>}
      BY <1>3, WorkerMoves DEF AnswerInv, IInv, TypeOK, RunTypeOK, Goto, Moves, Wait, Lock,
         CheckPredicate, Block, Wake, Exit, PopEmpty, NotifyLast,
         RefuseRun, Count, EndRelease, Succeed, BeginSkip, Tally, NotifySkipped
  <2>3. Owners' \subseteq Owners /\ \A v \in Workers : pc'[v] = "push" => pc[v] = "push"
      BY <2>2, OthersStill, OwnersOf DEF AnswerInv, IInv, Moves
  <2> QED BY <2>1, <2>3, ReachedStays
<1>4. CASE BeginRun(w) \/ EndRun(w) \/ Skip(w)
  <2>1. /\ ready' = ready /\ freed' = freed /\ nextTask' = nextTask
        /\ pc[w] \in {"run", "body", "skip"} /\ pc'[w] \in {"body", "count", "skip"}
      BY <1>4 DEF BeginRun, EndRun, Skip, Goto, AnswerInv, IInv, TypeOK, RunTypeOK
  <2>2. Owners' = Owners /\ w \in Owners /\ \A v \in Workers : pc'[v] = "push" => pc[v] = "push"
      BY <2>1, OthersStill, OwnersOf DEF AnswerInv, IInv
  <2>3. \A t \in TaskIds : state'[t] \in Started => state[t] \in Started \/ t = nextTask[w]
      BY <1>4 DEF BeginRun, EndRun, Skip, Started, AnswerInv, IInv, TypeOK, RunTypeOK
  <2> QED BY <2>1, <2>2, <2>3, ReachedStays
<1> QED BY <1>1, <1>2, <1>3, <1>4 DEF Worker, RunOne, SkipBelow, Wait

LEMMA ReachedNotSkipped ==
    ASSUME CountInv, Forest, NEW t \in Reached
    PROVE  state[t] # "Skipped"
BY DEF CountInv, ReachedBelowFinished, SkippedBelow, Reached

LEMMA ReachedBelowKept ==
    ASSUME CountInv, AnswerInv', NEW w \in Workers, Worker(w), Forest'
    PROVE  ReachedBelowFinished'
<1>1. /\ Tasks' = Tasks /\ Below' = Below /\ Forest /\ ReachedBelowFinished /\ AnswerInv
      /\ \A t \in TaskIds : state[t] = "Finished" => state'[t] = "Finished"
      /\ Tasks \subseteq TaskIds
    BY WorkerFrame, BelowFixed, ForestFixed, TasksAreIds
    DEF Settled, CountInv, AnswerInv, IInv, TypeOK
<1>2. CASE ~ Release(w)
    BY <1>1, <1>2, ReachedKept DEF ReachedBelowFinished
<1>3. CASE Release(w)
  <2>1. PICK dep \in todo[w] :
            \/ /\ ok[w] /\ pc' = [pc EXCEPT ![w] = "push"]
               /\ freed' = [freed EXCEPT ![w] = dep]
            \/ pc' = pc /\ freed' = freed
      BY <1>3 DEF Release, Releases, Goto
  <2>2. /\ ready' = ready /\ state' = state /\ nextTask' = nextTask /\ pc[w] = "release"
      BY <1>3 DEF Release, sharedVars
  <2>3. /\ \A v \in Workers : v # w => pc'[v] = pc[v] /\ freed'[v] = freed[v]
        /\ \/ ok[w] /\ pc'[w] = "push" /\ freed'[w] = dep
           \/ pc'[w] = "release"
      BY <1>1, <2>1, <2>2 DEF AnswerInv, IInv, TypeOK, RunTypeOK
  <2>4. Owners' = Owners /\ w \in Owners
      BY <2>2, <2>3 DEF Owners, Holding
  <2>5. Reached' \subseteq Reached \cup {dep} /\ (pc'[w] # "push" => Reached' \subseteq Reached)
      BY <2>2, <2>3, <2>4 DEF Reached, Queued, Pushing, TaskIds
  <2>6. nextTask[w] \in Tasks /\ dep \in adjList[nextTask[w]]
      BY <1>1, <2>2, <2>4 DEF AnswerInv, InGraph, IInv, ReleasesOwn
  <2>7. ASSUME pc'[w] = "push", NEW p \in Tasks \ {dep}, dep \in Below[p]
        PROVE  state[p] = "Finished"
    <3>1. nextTask[w] \in Reached /\ nextTask[w] \in Below[p]
        BY <1>1, <2>4, <2>6, <2>7, ForestAncestor
        DEF Reached, AnswerInv, IInv, TypeOK, RunTypeOK
    <3>2. state[nextTask[w]] = "Finished"
        BY <1>1, <2>2, <2>3, <2>4, <2>7, <3>1, ReachedNotSkipped DEF AnswerInv, Verdict
    <3> QED BY <1>1, <3>1, <3>2 DEF ReachedBelowFinished
  <2> QED BY <1>1, <2>2, <2>3, <2>5, <2>7 DEF ReachedBelowFinished
<1> QED BY <1>2, <1>3

-----------------------------------------------------------------------------
(* What is skipped was skipped on the way down from a failure.              *)

\* A worker that owns a task has just taken it up, or had it already and goes
\* on with its skipping.
LEMMA OwnerKeeps ==
    ASSUME AnswerInv, NEW w \in Workers, Worker(w), w \in Owners'
    PROVE  \/ state[nextTask'[w]] # "Failed"
           \/ /\ w \in Owners /\ nextTask'[w] = nextTask[w]
              /\ pc[w] = "skip" => pc'[w] = "skip" /\ todo'[w] \subseteq todo[w]
<1>1. CASE Pop(w)
  <2>1. nextTask'[w] = ready[1] /\ Queued(ready[1]) /\ ready[1] \in TaskIds
      BY <1>1 DEF Pop, Queued, AnswerInv, IInv, TypeOK, RunTypeOK
  <2> QED BY <2>1 DEF AnswerInv, IInv, StateAtPlace, Untouched
<1>2. CASE ~ Pop(w)
  <2>1. nextTask' = nextTask
      BY <1>2 DEF Worker, Wait, RunOne, SkipBelow, Lock, CheckPredicate, Block, Wake, Exit,
         PopEmpty, BeginRun, RefuseRun, EndRun, Count, Release, EndRelease, addReadyTask,
         Succeed, BeginSkip, Skip, Tally, NotifySkipped, NotifyLast
  <2>2. <<pc[w], pc'[w]>> \in Moves \ {<<"pop", "run">>}
      BY <1>2, WorkerMoves DEF Moves, AnswerInv, IInv, TypeOK, RunTypeOK, Goto, Worker, Wait,
         RunOne, SkipBelow, Lock, CheckPredicate, Block, Wake, Exit, PopEmpty, BeginRun,
         RefuseRun, EndRun, Count, Release, EndRelease, addReadyTask, Succeed, BeginSkip,
         Skip, Tally, NotifySkipped, NotifyLast
  <2>3. w \in Owners
      BY <2>2, OwnersOf DEF Moves, AnswerInv, IInv
  <2>4. pc[w] = "skip" => pc'[w] = "skip"
      BY <2>2, OwnersOf DEF Moves, AnswerInv, IInv
  <2>5. pc[w] = "skip" => todo'[w] \subseteq todo[w]
      BY DEF Worker, Wait, RunOne, SkipBelow, Lock, CheckPredicate, Block, Wake, Exit, Pop,
         PopEmpty, BeginRun, RefuseRun, EndRun, Count, Release, EndRelease, addReadyTask,
         Succeed, BeginSkip, Skip, Tally, NotifySkipped, NotifyLast,
         AnswerInv, IInv, TypeOK, RunTypeOK
  <2> QED BY <2>1, <2>3, <2>4, <2>5
<1> QED BY <1>1, <1>2

\* Who skips what.
LEMMA SkipEffect ==
    ASSUME AnswerInv, NEW w \in Workers, Skip(w)
    PROVE  \E t \in todo[w] :
              /\ t \in TaskIds /\ t \in Below[nextTask[w]] /\ state[nextTask[w]] = "Failed"
              /\ pc[w] = "skip" /\ pc'[w] = "skip" /\ todo'[w] = todo[w] \ {t}
              /\ w \in Owners /\ Owners' = Owners
              /\ nextTask' = nextTask /\ completed' = completed
              /\ \A u \in TaskIds : state'[u] = IF u = t /\ state[t] = "Pending"
                                                THEN "Skipped" ELSE state[u]
              /\ skipped'[w] = IF state[t] \in {"Pending", "Skipped"}
                               THEN skipped[w] + 1 ELSE skipped[w]
<1>1. PICK t \in todo[w] :
          /\ todo' = [todo EXCEPT ![w] = @ \ {t}]
          /\ \/ state[t] = "Pending" /\ state' = [state EXCEPT ![t] = "Skipped"]
             \/ state[t] # "Pending" /\ state' = state
          /\ \/ state[t] \in {"Pending", "Skipped"} /\ skipped' = [skipped EXCEPT ![w] = @ + 1]
             \/ state[t] \notin {"Pending", "Skipped"} /\ skipped' = skipped
    BY DEF Skip, Skippable, CountsAsSkipped
<1>2. pc[w] = "skip" /\ pc' = pc /\ nextTask' = nextTask /\ completed' = completed
    BY DEF Skip
<1>3. Owners' = Owners /\ w \in Owners
    BY <1>2 DEF Owners, Holding
<1>4. t \in Below[nextTask[w]] /\ state[nextTask[w]] = "Failed"
    BY <1>2, <1>3 DEF AnswerInv, Verdict
<1>5. t \in TaskIds /\ todo'[w] = todo[w] \ {t}
    BY <1>1 DEF AnswerInv, IInv, TypeOK, RunTypeOK
<1>6. \A u \in TaskIds : state'[u] = IF u = t /\ state[t] = "Pending" THEN "Skipped" ELSE state[u]
    BY <1>1 DEF AnswerInv, IInv, TypeOK, RunTypeOK
<1>7. skipped'[w] = IF state[t] \in {"Pending", "Skipped"} THEN skipped[w] + 1 ELSE skipped[w]
    BY <1>1 DEF AnswerInv, IInv, TypeOK, RunTypeOK
<1> QED BY <1>2, <1>3, <1>4, <1>5, <1>6, <1>7

LEMMA OnlySkipSkips ==
    ASSUME AnswerInv, NEW w \in Workers, Worker(w), ~ Skip(w)
    PROVE  \A t \in TaskIds : state'[t] = "Skipped" => state[t] = "Skipped"
BY DEF Worker, Wait, RunOne, SkipBelow, Lock, CheckPredicate, Block, Wake, Exit, Pop, PopEmpty,
       BeginRun, RefuseRun, EndRun, Count, Release, EndRelease, addReadyTask, Succeed,
       BeginSkip, Tally, NotifySkipped, NotifyLast, sharedVars,
       AnswerInv, IInv, TypeOK, RunTypeOK

LEMMA SkippedBelowKept ==
    ASSUME CountInv, NEW w \in Workers, Worker(w)
    PROVE  SkippedBelow'
<1>1. /\ Tasks' = Tasks /\ Below' = Below /\ AnswerInv
      /\ \A t \in TaskIds : state[t] = "Failed" => state'[t] = "Failed"
      /\ Tasks \subseteq TaskIds /\ Owners' \subseteq Workers
    BY WorkerFrame, BelowFixed, TasksAreIds, OwnersOf
    DEF Settled, CountInv, AnswerInv, IInv, TypeOK
<1> SUFFICES ASSUME NEW t \in TaskIds, state'[t] = "Skipped"
             PROVE  \E p \in Tasks \ {t} :
                       /\ t \in Below[p] /\ state'[p] = "Failed"
                       /\ \A v \in Owners' : nextTask'[v] = p => pc'[v] = "skip" /\ t \notin todo'[v]
    BY <1>1 DEF SkippedBelow
<1>2. CASE state[t] = "Skipped"
  <2>1. PICK p \in Tasks \ {t} :
            /\ t \in Below[p] /\ state[p] = "Failed"
            /\ \A v \in Owners : nextTask[v] = p => pc[v] = "skip" /\ t \notin todo[v]
      BY <1>2 DEF CountInv, SkippedBelow
  <2>2. ASSUME NEW v \in Owners', nextTask'[v] = p
        PROVE  pc'[v] = "skip" /\ t \notin todo'[v]
    <3>1. CASE v = w
        BY <1>1, <2>1, <2>2, <3>1, OwnerKeeps
    <3>2. CASE v # w
        BY <1>1, <2>1, <2>2, <3>2, OthersStill, OwnersOf DEF AnswerInv, IInv
    <3> QED BY <3>1, <3>2
  <2> QED BY <1>1, <2>1, <2>2
<1>3. CASE state[t] # "Skipped"
  <2>1. Skip(w)
      BY <1>1, <1>3, OnlySkipSkips
  <2>2. /\ t \in Below[nextTask[w]] /\ state[nextTask[w]] = "Failed" /\ state[t] = "Pending"
        /\ pc'[w] = "skip" /\ t \notin todo'[w]
        /\ w \in Owners /\ Owners' = Owners /\ nextTask' = nextTask
      BY <1>1, <1>3, <2>1, SkipEffect
  <2>3. nextTask[w] \in Tasks \ {t} /\ \A v \in Owners : nextTask[v] = nextTask[w] => v = w
      BY <1>1, <2>2 DEF AnswerInv, InGraph, OneOwner
  <2> QED BY <1>1, <2>2, <2>3
<1> QED BY <1>2, <1>3

-----------------------------------------------------------------------------
(* What a worker has gone past while it skips.                              *)

LEMMA VisitedOf ==
    ASSUME AnswerInv, NEW v \in Workers
    PROVE  /\ Visited[v] = (Below[nextTask[v]] \ todo[v]) \ {nextTask[v]}
           /\ Visited[v] \subseteq Tasks /\ IsFiniteSet(Visited[v])
           /\ Cardinality(Visited[v]) \in Nat
<1>1. IsFiniteSet(Tasks)
    BY FS_Interval DEF AnswerInv, IInv, TypeOK, GraphTypeOK, Tasks
<1>2. Visited[v] = (Below[nextTask[v]] \ todo[v]) \ {nextTask[v]}
    BY DEF Visited
<1>3. nextTask[v] \in TaskIds
    BY DEF AnswerInv, IInv, TypeOK, RunTypeOK
<1>4. Visited[v] \subseteq Tasks
    BY <1>2, <1>3 DEF Below, getDescendants
<1> QED BY <1>1, <1>2, <1>4, FS_Subset, FS_CardinalityType

\* A worker that skips does not meet a task that was skipped before it: in a
\* forest one failed task would be below the other.
LEMMA MeetsPending ==
    ASSUME CountInv, Forest, NEW w \in Workers, pc[w] = "skip",
           NEW t \in todo[w], t # nextTask[w]
    PROVE  state[t] = "Pending"
<1>1. /\ AnswerInv /\ GraphTypeOK /\ ReachedBelowFinished /\ w \in Owners
      /\ nextTask[w] \in Tasks /\ t \in Below[nextTask[w]] /\ state[nextTask[w]] = "Failed"
    BY DEF CountInv, AnswerInv, IInv, TypeOK, InGraph, Verdict, Owners, Holding
<1>2. t \in Tasks /\ t \in TaskIds
    BY <1>1, BelowLeast, TasksAreIds
<1>3. state[t] \notin Started
    BY <1>1, <1>2 DEF ReachedBelowFinished, Reached
<1>4. ASSUME state[t] = "Skipped" PROVE FALSE
  <2>1. PICK p \in Tasks \ {t} :
            /\ t \in Below[p] /\ state[p] = "Failed"
            /\ \A v \in Owners : nextTask[v] = p => pc[v] = "skip" /\ t \notin todo[v]
      BY <1>2, <1>4 DEF CountInv, SkippedBelow
  <2>2. p # nextTask[w]
      BY <1>1, <2>1
  <2>3. nextTask[w] \in Below[p] \/ p \in Below[nextTask[w]]
      BY <1>1, <2>1, ForestComparable
  <2>4. p \in Reached /\ nextTask[w] \in Reached
      BY <1>1, <2>1, TasksAreIds DEF Reached, Started
  <2> QED BY <1>1, <2>1, <2>2, <2>3, <2>4 DEF ReachedBelowFinished
<1>5. state[t] \in TaskState
    BY <1>2 DEF CountInv, AnswerInv, IInv, TypeOK, RunTypeOK
<1> QED BY <1>3, <1>4, <1>5 DEF TaskState, Started

LEMMA BeginSkipEffect ==
    ASSUME AnswerInv, NEW w \in Workers, BeginSkip(w)
    PROVE  /\ nextTask' = nextTask /\ todo'[w] = Below[nextTask[w]] /\ skipped'[w] = 0
           /\ pc[w] = "fail" /\ state' = state /\ completed' = completed
BY DEF BeginSkip, Below, AnswerInv, IInv, TypeOK, RunTypeOK

\* Only BeginSkip and Skip lead to the skipping.
LEMMA ToSkip ==
    ASSUME AnswerInv, NEW w \in Workers, Worker(w), pc'[w] = "skip"
    PROVE  BeginSkip(w) \/ Skip(w)
BY DEF Worker, Wait, RunOne, SkipBelow, Lock, CheckPredicate, Block, Wake, Exit, Pop, PopEmpty,
       BeginRun, RefuseRun, EndRun, Count, Release, EndRelease, addReadyTask, Succeed,
       Tally, NotifySkipped, NotifyLast, Goto, AnswerInv, IInv, TypeOK, RunTypeOK

LEMMA VisitedKept ==
    ASSUME CountInv, AnswerInv', NEW w \in Workers, Worker(w), Forest'
    PROVE  VisitedSkipped'
<1>1. /\ Below' = Below /\ Tasks' = Tasks /\ Forest /\ VisitedSkipped /\ AnswerInv
      /\ \A t \in TaskIds : state[t] = "Skipped" => state'[t] = "Skipped"
    BY WorkerFrame, BelowFixed, ForestFixed DEF Settled, CountInv
<1>2. \A v \in Workers : /\ Visited'[v] = (Below[nextTask'[v]] \ todo'[v]) \ {nextTask'[v]}
    BY <1>1 DEF Visited
<1>3. Tasks \subseteq TaskIds
    BY <1>1, TasksAreIds DEF AnswerInv, IInv, TypeOK
<1> SUFFICES ASSUME NEW v \in Workers, pc'[v] = "skip"
             PROVE  /\ \A t \in Visited'[v] : state'[t] = "Skipped"
                    /\ skipped'[v] <= Cardinality(Visited'[v])
    BY DEF VisitedSkipped
<1>4. CASE v # w
  <2>1. /\ pc'[v] = pc[v] /\ nextTask'[v] = nextTask[v] /\ todo'[v] = todo[v]
        /\ skipped'[v] = skipped[v]
      BY <1>1, <1>4, OthersStill DEF AnswerInv, IInv
  <2>2. Visited'[v] = Visited[v]
      BY <1>1, <1>2, <2>1, VisitedOf
  <2> QED BY <1>1, <1>3, <2>1, <2>2, VisitedOf DEF VisitedSkipped
<1>5. CASE v = w /\ BeginSkip(w)
  <2>1. Visited'[w] = {} /\ skipped'[w] = 0
      BY <1>1, <1>2, <1>5, BeginSkipEffect
  <2> QED BY <1>5, <2>1, FS_EmptySet
<1>6. CASE v = w /\ Skip(w)
  <2>1. PICK t \in todo[w] :
              /\ t \in TaskIds /\ t \in Below[nextTask[w]] /\ state[nextTask[w]] = "Failed"
              /\ pc[w] = "skip" /\ pc'[w] = "skip" /\ todo'[w] = todo[w] \ {t}
              /\ nextTask' = nextTask
              /\ \A u \in TaskIds : state'[u] = IF u = t /\ state[t] = "Pending"
                                                THEN "Skipped" ELSE state[u]
              /\ skipped'[w] = IF state[t] \in {"Pending", "Skipped"}
                               THEN skipped[w] + 1 ELSE skipped[w]
      BY <1>1, <1>6, SkipEffect
  <2>2. /\ IsFiniteSet(Visited[w]) /\ Cardinality(Visited[w]) \in Nat /\ Visited[w] \subseteq Tasks
        /\ \A u \in Visited[w] : state[u] = "Skipped"
        /\ skipped[w] <= Cardinality(Visited[w]) /\ skipped[w] \in Nat
      BY <1>1, <2>1, VisitedOf DEF VisitedSkipped, AnswerInv, IInv, TypeOK, RunTypeOK
  <2>3. CASE t = nextTask[w]
    <3>1. skipped'[w] = skipped[w]
        BY <2>1, <2>3
    <3>2. Visited'[w] = (Below[nextTask[w]] \ todo[w]) \ {nextTask[w]}
        BY <1>1, <1>2, <2>1, <2>3
    <3>3. Visited'[w] = Visited[w]
        BY <1>1, <3>2, VisitedOf
    <3> QED BY <1>1, <1>3, <1>6, <2>2, <3>1, <3>3
  <2>4. CASE t # nextTask[w]
    <3>1. state[t] = "Pending" /\ t \notin Visited[w]
        BY <1>1, <2>1, <2>4, MeetsPending, VisitedOf
    <3>2. Visited'[w] = Visited[w] \cup {t} /\ skipped'[w] = skipped[w] + 1 /\ state'[t] = "Skipped"
        BY <1>1, <1>2, <2>1, <2>4, <3>1, VisitedOf
    <3>3. Cardinality(Visited'[w]) = Cardinality(Visited[w]) + 1
        BY <2>2, <3>1, <3>2, FS_AddElement
    <3>4. \A u \in Visited'[w] : state'[u] = "Skipped"
        BY <1>1, <1>3, <2>2, <3>2
    <3> QED BY <1>6, <2>2, <3>2, <3>3, <3>4
  <2> QED BY <2>3, <2>4
<1> QED BY <1>1, <1>4, <1>5, <1>6, ToSkip

LEMMA ExcludedKept ==
    ASSUME CountInv, NEW w \in Workers, Worker(w)
    PROVE  Excluded'
<1>1. Excluded /\ TypeOK
    BY DEF CountInv, AnswerInv, IInv
<1>2. /\ pc'[w] \in {"skip", "notify"} => failureMtx' = w
      /\ pc'[w] \in {"check", "block", "pop"} => readyMtx' = w
    BY <1>1 DEF Excluded, Worker, Wait, RunOne, SkipBelow, Lock, CheckPredicate, Block, Wake, Exit, Pop,
       PopEmpty, BeginRun, RefuseRun, EndRun, Count, Release, EndRelease, addReadyTask, Succeed,
       BeginSkip, Skip, Tally, NotifySkipped, NotifyLast, Goto, sharedVars, TypeOK, RunTypeOK
<1>3. failureMtx' = failureMtx \/ failureMtx \in {w, NoWorker}
    BY <1>1 DEF Excluded, Worker, Wait, RunOne, SkipBelow, Lock, CheckPredicate, Block, Wake, Exit, Pop,
       PopEmpty, BeginRun, RefuseRun, EndRun, Count, Release, EndRelease, addReadyTask, Succeed,
       BeginSkip, Skip, Tally, NotifySkipped, NotifyLast, sharedVars
<1>4. readyMtx' = readyMtx \/ readyMtx \in {w, NoWorker}
    BY <1>1 DEF Excluded, Worker, Wait, RunOne, SkipBelow, Lock, CheckPredicate, Block, Wake, Exit, Pop,
       PopEmpty, BeginRun, RefuseRun, EndRun, Count, Release, EndRelease, addReadyTask, Succeed,
       BeginSkip, Skip, Tally, NotifySkipped, NotifyLast, sharedVars
<1>5. \A v \in Workers : v # w => pc'[v] = pc[v] /\ v # NoWorker
    BY <1>1, OthersStill, RunAssumption
<1> QED BY <1>1, <1>2, <1>3, <1>4, <1>5 DEF Excluded

-----------------------------------------------------------------------------
(* The count.                                                               *)

LEMMA CountWithin ==
    ASSUME NEW n \in Nat, NEW S \in SUBSET (0 .. n - 1), NEW C \in SUBSET S
    PROVE  /\ IsFiniteSet(S) /\ Cardinality(S) \in Nat
           /\ IsFiniteSet(C) /\ Cardinality(C) \in Nat
           /\ Cardinality(C) <= Cardinality(S) /\ Cardinality(S) <= n
           /\ Cardinality(C) >= n => S = 0 .. n - 1
<1>1. IsFiniteSet(0 .. n - 1) /\ Cardinality(0 .. n - 1) = n
    BY FS_Interval
<1>2. /\ IsFiniteSet(S) /\ Cardinality(S) \in Nat /\ Cardinality(S) <= n
      /\ Cardinality(S) = n => S = 0 .. n - 1
    BY <1>1, FS_Subset, FS_CardinalityType
<1>3. IsFiniteSet(C) /\ Cardinality(C) \in Nat /\ Cardinality(C) <= Cardinality(S)
    BY <1>2, FS_Subset, FS_CardinalityType
<1> QED BY <1>2, <1>3

LEMMA CountedFinite ==
    ASSUME AnswerInv
    PROVE  /\ IsFiniteSet(Counted) /\ Cardinality(Counted) \in Nat
           /\ Cardinality(Counted) <= Cardinality(SettledTasks)
           /\ Cardinality(SettledTasks) \in Nat /\ Cardinality(SettledTasks) <= curId
           /\ Cardinality(Counted) >= curId => SettledTasks = Tasks
<1>1. curId \in Nat /\ SettledTasks \subseteq 0 .. curId - 1 /\ Counted \subseteq SettledTasks
    BY DEF AnswerInv, IInv, TypeOK, GraphTypeOK, Tasks, SettledTasks, Counted
<1> QED BY <1>1, CountWithin DEF Tasks

LEMMA CountedFiniteNext ==
    ASSUME AnswerInv'
    PROVE  /\ IsFiniteSet(Counted') /\ Cardinality(Counted') \in Nat
           /\ Cardinality(Counted') <= curId'
<1>1. /\ curId' \in Nat /\ SettledTasks' \subseteq 0 .. curId' - 1
      /\ Counted' \subseteq SettledTasks'
    BY DEF AnswerInv, IInv, TypeOK, GraphTypeOK, Tasks, SettledTasks, Counted
<1> QED BY <1>1, CountWithin

\* Where nothing failed and where there is a forest no task is popped that was
\* skipped, and where nothing failed nobody skips.
LEMMA OnceMeans ==
    ASSUME CountInv, CountsOnce
    PROVE  /\ \A t \in Reached : state[t] # "Skipped"
           /\ ~ Forest => \A w \in Workers : pc[w] \notin {"fail", "skip"}
<1>1. CASE Forest
    BY <1>1, ReachedNotSkipped
<1>2. CASE ~ Forest
  <2>1. \A t \in Tasks : state[t] # "Failed"
      BY <1>2 DEF CountsOnce, Forest
  <2>2. \A t \in TaskIds : state[t] # "Skipped"
      BY <2>1 DEF CountInv, AnswerInv, SkippedForReason
  <2>3. ASSUME NEW w \in Workers, pc[w] \in {"fail", "skip"} PROVE FALSE
      BY <2>1, <2>3 DEF CountInv, AnswerInv, InGraph, Verdict, Owners
  <2> QED BY <2>2, <2>3 DEF Reached
<1> QED BY <1>1, <1>2

LEMMA VisitedOther ==
    ASSUME AnswerInv, NEW w \in Workers, Worker(w), NEW v \in Workers, v # w
    PROVE  Visited'[v] = Visited[v]
<1>1. nextTask'[v] = nextTask[v] /\ todo'[v] = todo[v]
    BY OthersStill DEF AnswerInv, IInv
<1>2. Below' = Below
    BY WorkerFrame, BelowFixed
<1> QED BY <1>1, <1>2 DEF Visited

\* Only a task whose callback has just ended goes on to be counted.
LEMMA ToCount ==
    ASSUME AnswerInv, NEW w \in Workers, Worker(w), pc'[w] = "count", ~ RefuseRun(w)
    PROVE  state[nextTask'[w]] = "Running"
<1>1. pc[w] = "body" /\ nextTask' = nextTask
    BY DEF Worker, Wait, RunOne, SkipBelow, Lock, CheckPredicate, Block, Wake, Exit, Pop, PopEmpty,
       BeginRun, EndRun, Count, Release, EndRelease, addReadyTask, Succeed, BeginSkip, Skip,
       Tally, NotifySkipped, NotifyLast, Goto, AnswerInv, IInv, TypeOK, RunTypeOK
<1> QED BY <1>1 DEF AnswerInv, IInv, StateAtPlace

\* What was counted stays so.
LEMMA CountedGrows ==
    ASSUME CountInv, NEW w \in Workers, Worker(w), CountsOnce, ~ RefuseRun(w)
    PROVE  Counted \subseteq Counted'
<1>1. /\ AnswerInv /\ Tasks' = Tasks /\ Tasks \subseteq TaskIds /\ Below' = Below
      /\ \A t \in TaskIds : state[t] \in Settled => state'[t] = state[t]
    BY WorkerFrame, BelowFixed, TasksAreIds DEF CountInv, AnswerInv, IInv, TypeOK
<1> SUFFICES ASSUME NEW u \in Counted, NEW v \in Workers
             PROVE  /\ pc'[v] = "count" => nextTask'[v] # u
                    /\ pc'[v] = "skip" => u \notin Visited'[v]
    BY <1>1 DEF Counted, SettledTasks
<1>2. /\ u \in Tasks /\ state[u] \in {"Finished", "Skipped", "Failed"}
      /\ pc[v] = "count" => nextTask[v] # u
      /\ pc[v] = "skip" => u \notin Visited[v]
    BY DEF Counted, SettledTasks, Settled
<1>3. CASE v # w
  <2>1. pc'[v] = pc[v] /\ nextTask'[v] = nextTask[v]
      BY <1>1, <1>3, OthersStill DEF AnswerInv, IInv
  <2> QED BY <1>1, <1>2, <1>3, <2>1, VisitedOther
<1>4. CASE v = w
  <2>1. pc'[w] = "count" => nextTask'[w] # u
      BY <1>1, <1>2, ToCount
  <2>2. ASSUME pc'[w] = "skip", BeginSkip(w)
        PROVE  u \notin Visited'[w]
      BY <1>1, <2>2, BeginSkipEffect DEF Visited
  <2>3. ASSUME Skip(w)
        PROVE  u \notin Visited'[w]
    <3>1. PICK t \in todo[w] :
              /\ pc[w] = "skip" /\ todo'[w] = todo[w] \ {t} /\ nextTask' = nextTask
        BY <1>1, <2>3, SkipEffect
    <3>2. /\ Visited'[w] = (Below[nextTask[w]] \ (todo[w] \ {t})) \ {nextTask[w]}
          /\ Visited[w] = (Below[nextTask[w]] \ todo[w]) \ {nextTask[w]}
        BY <1>1, <3>1 DEF Visited
    <3>3. t = nextTask[w] \/ state[t] = "Pending"
        BY <3>1, OnceMeans, MeetsPending
    <3> QED BY <1>2, <1>4, <3>1, <3>2, <3>3
  <2> QED BY <1>1, <1>4, <2>1, <2>2, <2>3, ToSkip
<1> QED BY <1>3, <1>4

LEMMA CountsNew ==
    ASSUME CountInv, NEW w \in Workers, Count(w), CountsOnce
    PROVE  nextTask[w] \in Counted' \ Counted
<1>1. /\ AnswerInv /\ Tasks' = Tasks /\ Worker(w) /\ state' = state
      /\ pc[w] = "count" /\ nextTask' = nextTask
    BY WorkerFrame, BelowFixed DEF CountInv, Worker, RunOne, Count
<1>2. pc'[w] = "release"
    BY DEF Count, Goto, CountInv, AnswerInv, IInv, TypeOK, RunTypeOK
<1>3. w \in Owners /\ nextTask[w] \in SettledTasks /\ nextTask[w] \in Reached
    BY <1>1 DEF Owners, Holding, AnswerInv, InGraph, IInv, StateAtPlace, SettledTasks, Reached,
                TypeOK, RunTypeOK
<1>4. ASSUME NEW v \in Workers, v # w
      PROVE  /\ pc'[v] = "count" => nextTask'[v] # nextTask[w]
             /\ pc'[v] = "skip" => nextTask[w] \notin Visited'[v]
  <2>1. pc'[v] = pc[v] /\ nextTask'[v] = nextTask[v] /\ Visited'[v] = Visited[v]
      BY <1>1, <1>4, OthersStill, VisitedOther DEF AnswerInv, IInv
  <2>2. pc[v] = "count" => nextTask[v] # nextTask[w]
      BY <1>1, <1>3, <1>4 DEF AnswerInv, OneOwner, Owners, Holding
  <2>3. pc[v] = "skip" => nextTask[w] \notin Visited[v]
      BY <1>3, OnceMeans DEF CountInv, VisitedSkipped
  <2> QED BY <2>1, <2>2, <2>3
<1>5. nextTask[w] \in SettledTasks'
    BY <1>1, <1>3 DEF SettledTasks
<1> QED BY <1>1, <1>2, <1>4, <1>5 DEF Counted

LEMMA TallyNew ==
    ASSUME CountInv, NEW w \in Workers, Tally(w), CountsOnce
    PROVE  Visited[w] \subseteq Counted' /\ Visited[w] \cap Counted = {}
           /\ skipped[w] <= Cardinality(Visited[w])
<1>1. /\ AnswerInv /\ Tasks' = Tasks /\ Worker(w) /\ state' = state
      /\ pc[w] = "skip" /\ nextTask' = nextTask
    BY WorkerFrame, BelowFixed DEF CountInv, Worker, SkipBelow, Tally
<1>2. pc'[w] \notin {"skip", "count"}
    BY DEF Tally, Goto, CountInv, AnswerInv, IInv, TypeOK, RunTypeOK
<1>3. /\ \A t \in Visited[w] : t \in Tasks /\ state[t] = "Skipped"
      /\ skipped[w] <= Cardinality(Visited[w])
    BY <1>1, OnceMeans, VisitedOf DEF CountInv, VisitedSkipped
<1>4. ASSUME NEW t \in Visited[w], NEW v \in Workers, v # w
      PROVE  (pc'[v] = "count" => nextTask'[v] # t) /\ pc'[v] # "skip"
  <2>1. pc'[v] = pc[v] /\ nextTask'[v] = nextTask[v]
      BY <1>1, <1>4, OthersStill DEF AnswerInv, IInv
  <2>2. pc[v] = "count" => nextTask[v] \in Reached
      BY <1>1 DEF Reached, Owners, Holding, AnswerInv, IInv, TypeOK, RunTypeOK
  <2>3. pc[v] # "skip"
      BY <1>1, <1>4 DEF CountInv, Excluded
  <2> QED BY <1>3, <2>1, <2>2, <2>3, OnceMeans
<1>5. \A t \in Visited[w] : t \in SettledTasks'
    BY <1>1, <1>3 DEF SettledTasks, Settled
<1>6. Visited[w] \subseteq Counted'
    BY <1>2, <1>4, <1>5 DEF Counted
<1>7. Visited[w] \cap Counted = {}
    BY <1>1 DEF Counted
<1> QED BY <1>3, <1>6, <1>7

LEMMA CountKept ==
    ASSUME CountInv, AnswerInv', NEW w \in Workers, Worker(w), CountsOnce'
    PROVE  CountCovered' /\ completed' >= completed
<1>1. /\ CountsOnce /\ AnswerInv /\ completed <= Cardinality(Counted)
      /\ completed \in Nat /\ skipped[w] \in Nat
    BY CountsOnceBefore DEF CountInv, CountCovered, AnswerInv, IInv, TypeOK, RunTypeOK
<1>2. /\ IsFiniteSet(Counted) /\ Cardinality(Counted) \in Nat
      /\ IsFiniteSet(Counted') /\ Cardinality(Counted') \in Nat
    BY <1>1, CountedFinite, CountedFiniteNext
<1>3. ~ RefuseRun(w)
  <2> SUFFICES ASSUME RefuseRun(w) PROVE FALSE
      OBVIOUS
  <2>1. nextTask[w] \in Reached /\ state[nextTask[w]] = "Skipped"
      BY <1>1 DEF RefuseRun, Reached, Owners, Holding, AnswerInv, IInv, TypeOK, RunTypeOK,
                  StateAtPlace, Untouched
  <2> QED BY <1>1, <2>1, OnceMeans
<1>4. Counted \subseteq Counted'
    BY <1>1, <1>3, CountedGrows
<1>5. CASE Count(w)
  <2>1. completed' = completed + 1 /\ nextTask[w] \in Counted' \ Counted
      BY <1>1, <1>5, CountsNew DEF Count
  <2>2. Cardinality(Counted \cup {nextTask[w]}) = Cardinality(Counted) + 1
      BY <1>2, <2>1, FS_AddElement
  <2>3. Cardinality(Counted \cup {nextTask[w]}) <= Cardinality(Counted')
      BY <1>2, <1>4, <2>1, FS_Subset
  <2> QED BY <1>1, <1>2, <2>1, <2>2, <2>3 DEF CountCovered
<1>6. CASE Tally(w)
  <2>1. /\ completed' = completed + skipped[w]
        /\ Visited[w] \subseteq Counted' /\ Visited[w] \cap Counted = {}
        /\ skipped[w] <= Cardinality(Visited[w])
        /\ IsFiniteSet(Visited[w]) /\ Cardinality(Visited[w]) \in Nat
      BY <1>1, <1>6, TallyNew, VisitedOf DEF Tally
  <2>2. Cardinality(Visited[w] \cup Counted) = Cardinality(Visited[w]) + Cardinality(Counted)
    <3>1. Visited[w] \cap Counted = {} /\ Cardinality({}) = 0
        BY <2>1, FS_EmptySet
    <3>2. Cardinality(Visited[w] \cup Counted)
              = Cardinality(Visited[w]) + Cardinality(Counted) - Cardinality(Visited[w] \cap Counted)
        BY <1>2, <2>1, FS_Union
    <3>3. Cardinality(Visited[w] \cap Counted) = 0
        BY <3>1
    <3> QED BY <1>2, <2>1, <3>2, <3>3
  <2>3. Cardinality(Visited[w] \cup Counted) <= Cardinality(Counted')
      BY <1>2, <1>4, <2>1, FS_Subset
  <2> QED BY <1>1, <1>2, <2>1, <2>2, <2>3 DEF CountCovered
<1>7. CASE ~ Count(w) /\ ~ Tally(w)
  <2>1. completed' = completed
      BY <1>7 DEF Worker, Wait, RunOne, SkipBelow, Lock, CheckPredicate, Block, Wake, Exit, Pop,
         PopEmpty, BeginRun, RefuseRun, EndRun, Release, EndRelease, addReadyTask, Succeed,
         BeginSkip, Skip, NotifySkipped, NotifyLast, sharedVars
  <2>2. Cardinality(Counted) <= Cardinality(Counted')
      BY <1>2, <1>4, FS_Subset
  <2> QED BY <1>1, <1>2, <2>1, <2>2 DEF CountCovered
<1> QED BY <1>5, <1>6, <1>7

-----------------------------------------------------------------------------
(* What follows from the count: nobody leaves early, nobody pops in vain.   *)

LEMMA ReadyKept ==
    ASSUME TypeOK, NEW w \in Workers, Worker(w), pc[w] # "pop", ready # <<>>
    PROVE  ready' # <<>>
<1>1. CASE addReadyTask(w)
  <2>1. ready' = Append(ready, freed[w]) /\ Len(ready) \in Nat
      BY <1>1 DEF addReadyTask, TypeOK, RunTypeOK
  <2>2. Len(ready') = Len(ready) + 1
      BY <2>1 DEF TypeOK, RunTypeOK
  <2> QED BY <2>1, <2>2
<1>2. CASE ~ addReadyTask(w)
    BY <1>2 DEF Worker, Wait, RunOne, SkipBelow, Lock, CheckPredicate, Block, Wake, Exit, Pop,
       PopEmpty, BeginRun, RefuseRun, EndRun, Count, Release, EndRelease, Succeed,
       BeginSkip, Skip, Tally, NotifySkipped, NotifyLast, sharedVars
<1> QED BY <1>1, <1>2

LEMMA PopWillFindKept ==
    ASSUME CountInv, AnswerInv', NEW w \in Workers, Worker(w), CountsOnce'
    PROVE  PopWillFind'
<1>1. /\ CountsOnce /\ AnswerInv /\ TypeOK /\ PopWillFind /\ curId' = curId
      /\ CountCovered' /\ completed' >= completed /\ completed \in Nat /\ completed' \in Nat
    BY CountsOnceBefore, CountKept, WorkerFrame
    DEF CountInv, AnswerInv, IInv, TypeOK, RunTypeOK
<1>2. completed' <= curId
    BY <1>1, CountedFiniteNext DEF CountCovered, AnswerInv, IInv, TypeOK, GraphTypeOK
<1> SUFFICES ASSUME NEW v \in Workers, pc'[v] = "pop"
             PROVE  ready' # <<>> \/ completed' = curId'
    BY DEF PopWillFind, AllCompleted
<1>3. CASE v = w
  <2>1. CheckPredicate(w)
      BY <1>1, <1>3 DEF Worker, Wait, RunOne, SkipBelow, Lock, Block, Wake, Exit, Pop,
         PopEmpty, BeginRun, RefuseRun, EndRun, Count, Release, EndRelease, addReadyTask,
         Succeed, BeginSkip, Skip, Tally, NotifySkipped, NotifyLast, Goto, TypeOK, RunTypeOK
  <2>2. TaskReady
      BY <1>1, <1>3, <2>1 DEF CheckPredicate, Goto, TypeOK, RunTypeOK
  <2> QED BY <1>1, <2>1, <2>2 DEF CheckPredicate, TaskReady, AllCompleted, sharedVars
<1>4. CASE v # w
  <2>1. pc[v] = "pop"
      BY <1>1, <1>4, OthersStill
  <2>2. pc[w] # "pop"
      BY <1>4, <2>1 DEF CountInv, Excluded
  <2> QED BY <1>1, <1>2, <2>1, <2>2, ReadyKept DEF PopWillFind, AllCompleted
<1> QED BY <1>3, <1>4

LEMMA NoEarlyExitKept ==
    ASSUME CountInv, AnswerInv', NEW w \in Workers, Worker(w), CountsOnce',
           NEW v \in Workers, pc'[v] = "done", NEW t \in Tasks'
    PROVE  state'[t] \in Settled
<1>1. /\ CountsOnce /\ AnswerInv /\ TypeOK /\ Tasks' = Tasks /\ t \in TaskIds
      /\ state[t] \in Settled => state'[t] = state[t]
    BY CountsOnceBefore, WorkerFrame, BelowFixed, TasksAreIds DEF CountInv, AnswerInv, IInv, TypeOK
<1>2. CASE pc[v] = "done"
    BY <1>1, <1>2 DEF CountInv, NoEarlyExit
<1>3. CASE pc[v] # "done"
  <2>1. v = w
      BY <1>1, <1>3, OthersStill
  <2>2. Exit(w)
      BY <1>1, <2>1 DEF Worker, Wait, RunOne, SkipBelow, Lock, CheckPredicate, Block, Wake, Pop,
         PopEmpty, BeginRun, RefuseRun, EndRun, Count, Release, EndRelease, addReadyTask,
         Succeed, BeginSkip, Skip, Tally, NotifySkipped, NotifyLast, Goto, TypeOK, RunTypeOK
  <2>3. completed = curId /\ completed <= Cardinality(Counted)
      BY <1>1, <2>2 DEF Exit, AllCompleted, CountInv, CountCovered
  <2>4. SettledTasks = Tasks
      BY <1>1, <2>3, CountedFinite
  <2> QED BY <1>1, <2>4 DEF SettledTasks
<1> QED BY <1>2, <1>3

LEMMA PopsReadyKept ==
    ASSUME CountInv, NEW w \in Workers, Worker(w), CountsOnce', NEW v \in Workers
    PROVE  pc'[v] # "undefined"
<1>1. CountsOnce /\ AnswerInv /\ TypeOK
    BY CountsOnceBefore DEF CountInv, AnswerInv, IInv
<1>2. CASE v # w
    BY <1>1, <1>2, OthersStill DEF CountInv, PopsReadyTask
<1>3. CASE v = w
  <2>1. ~ PopEmpty(w)
      BY <1>1 DEF PopEmpty, CountInv, PopWillFind
  <2> QED BY <1>1, <1>3, <2>1 DEF Worker, Wait, RunOne, SkipBelow, Lock, CheckPredicate, Block, Wake, Exit,
         Pop, BeginRun, RefuseRun, EndRun, Count, Release, EndRelease, addReadyTask,
         Succeed, BeginSkip, Skip, Tally, NotifySkipped, NotifyLast, Goto, TypeOK, RunTypeOK
<1> QED BY <1>2, <1>3

LEMMA WorkerKeepsCount ==
    ASSUME CountInv, AnswerInv', NEW w \in Workers, Worker(w)
    PROVE  CountInv'
<1>1. main' # "building"
    BY WorkerFrame, WorkersRun, WorkerMoves DEF Moves, CountInv, AnswerInv, IInv
<1>2. NoEarlyExit'
    BY NoEarlyExitKept DEF NoEarlyExit
<1>3. PopsReadyTask'
    BY PopsReadyKept DEF PopsReadyTask
<1>4. Excluded' /\ SkippedBelow'
    BY ExcludedKept, SkippedBelowKept
<1>5. (Forest => ReachedBelowFinished /\ VisitedSkipped)'
    BY ReachedBelowKept, VisitedKept
<1>6. (CountsOnce => CountCovered /\ PopWillFind)'
    BY CountKept, PopWillFindKept
<1> QED BY <1>1, <1>2, <1>3, <1>4, <1>5, <1>6 DEF CountInv

-----------------------------------------------------------------------------
(* The steps of the calling thread, and those that move no worker.          *)

LEMMA RestKeepsCount ==
    ASSUME CountInv, AnswerInv',
           \/ RunNothing \/ RollBall \/ JoinWorkers \/ UNCHANGED vars
           \/ \E w \in Workers : SpuriousWakeup(w)
    PROVE  CountInv'
<1>1. /\ curId' = curId /\ adjList' = adjList /\ inDegree' = inDegree /\ state' = state
      /\ ready' = ready /\ readyMtx' = readyMtx /\ failureMtx' = failureMtx
      /\ completed' = completed /\ pc' = pc /\ nextTask' = nextTask /\ todo' = todo
      /\ freed' = freed /\ skipped' = skipped
      /\ main' = main \/ main' # "building"
    BY DEF RunNothing, RollBall, JoinWorkers, SpuriousWakeup, vars, graphVars, sharedVars,
           mainVars, localVars
<1>2. /\ Tasks' = Tasks /\ Below' = Below /\ (Forest' <=> Forest) /\ Owners' = Owners
      /\ \A t : Predecessors(t)' = Predecessors(t)
    BY <1>1, BelowFixed, ForestFixed, EdgesFixed DEF Owners, Holding
<1>3. (CountsOnce' <=> CountsOnce) /\ Visited' = Visited /\ Reached' = Reached
    BY <1>1, <1>2 DEF CountsOnce, Visited, Reached, Queued, Pushing, TaskIds
<1>4. Counted' = Counted
    BY <1>1, <1>2, <1>3 DEF Counted, SettledTasks
<1>5. Excluded' /\ SkippedBelow' /\ (main = "building" => completed = 0)'
    BY <1>1, <1>2 DEF CountInv, Excluded, SkippedBelow, TaskIds
<1>6. (Forest => ReachedBelowFinished /\ VisitedSkipped)'
    BY <1>1, <1>2, <1>3 DEF CountInv, ReachedBelowFinished, VisitedSkipped
<1>7. (CountsOnce => CountCovered /\ PopWillFind)'
    BY <1>1, <1>3, <1>4 DEF CountInv, CountCovered, PopWillFind, AllCompleted
<1>8. NoEarlyExit' /\ PopsReadyTask'
    BY <1>1, <1>2, <1>3 DEF CountInv, NoEarlyExit, PopsReadyTask
<1> QED BY <1>5, <1>6, <1>7, <1>8 DEF CountInv

\* Before anything has run there is nothing to be said of workers and counts.
LEMMA QuietStart ==
    ASSUME AnswerInv, completed = 0,
           \A w \in Workers : pc[w] \in {"idle", "lock"},
           \A t \in TaskIds : state[t] = "Pending",
           Forest => ReachedBelowFinished
    PROVE  CountInv
<1>1. Excluded /\ SkippedBelow /\ VisitedSkipped /\ PopWillFind
    BY DEF Excluded, SkippedBelow, VisitedSkipped, PopWillFind
<1>2. CountCovered
    BY CountedFinite DEF CountCovered
<1>3. NoEarlyExit /\ PopsReadyTask
    BY DEF NoEarlyExit, PopsReadyTask
<1> QED BY <1>1, <1>2, <1>3 DEF CountInv

LEMMA QuietStartNext ==
    ASSUME AnswerInv', completed' = 0,
           \A w \in Workers : pc'[w] \in {"idle", "lock"},
           \A t \in TaskIds : state'[t] = "Pending",
           (Forest => ReachedBelowFinished)'
    PROVE  CountInv'
<1>1. (Excluded /\ SkippedBelow /\ VisitedSkipped /\ PopWillFind)'
    BY DEF Excluded, SkippedBelow, VisitedSkipped, PopWillFind, TaskIds
<1>2. CountCovered'
    BY CountedFiniteNext DEF CountCovered
<1>3. (NoEarlyExit /\ PopsReadyTask)'
    BY DEF NoEarlyExit, PopsReadyTask
<1> QED BY <1>1, <1>2, <1>3 DEF CountInv

LEMMA BuildKeepsCount == CountInv /\ AnswerInv' /\ Build => CountInv'
<1> SUFFICES ASSUME CountInv, AnswerInv', Build PROVE CountInv'
    OBVIOUS
<1>1. /\ main = "building" /\ pc' = pc /\ state' = state /\ ready' = ready
      /\ completed' = completed /\ AnswerInv
    BY DEF Build, sharedVars, mainVars, localVars, CountInv
<1>2. /\ \A w \in Workers : pc'[w] = "idle"
      /\ \A t \in TaskIds : state'[t] = "Pending"
      /\ ready' = <<>> /\ completed' = 0
    BY <1>1, NothingYet DEF CountInv, AnswerInv, IInv, NothingRunYet
<1>3. Reached' = {}
    BY <1>2 DEF Reached, Queued, Pushing, Owners, Holding, Started, TaskIds
<1>4. ReachedBelowFinished'
    BY <1>3 DEF ReachedBelowFinished
<1> QED BY <1>2, <1>4, QuietStartNext

LEMMA SourcesOnTop ==
    ASSUME AnswerInv, main = "building", NEW t \in Sources, NEW p \in Tasks \ {t}
    PROVE  t \notin Below[p]
<1>1. GraphTypeOK /\ t \in TaskIds /\ inDegree[t] = 0 /\ IInv
    BY TasksAreIds DEF AnswerInv, IInv, TypeOK, Sources
<1>2. \A u \in Tasks : state[u] \notin Settled
    BY <1>1, NothingYet, TasksAreIds DEF Settled
<1>3. \A u \in Tasks : t \notin adjList[u]
    BY <1>1, <1>2, NoneLeft DEF Predecessors
<1>4. \A u \in Tasks \ {t} : adjList[u] \subseteq Tasks \ {t}
    BY <1>1, <1>3, TasksAreIds DEF GraphTypeOK
<1> QED BY <1>1, <1>4, BelowLeast

LEMMA StartKeepsCount == CountInv /\ AnswerInv' /\ StartWorkers => CountInv'
<1> SUFFICES ASSUME CountInv, AnswerInv', StartWorkers PROVE CountInv'
    OBVIOUS
<1>1. /\ main = "building" /\ state' = state /\ completed' = completed
      /\ \A w \in Workers : pc'[w] \in {"idle", "lock"}
      /\ AnswerInv /\ Tasks' = Tasks /\ Below' = Below
    BY BelowFixed DEF StartWorkers, graphVars, CountInv
<1>2. /\ \A t \in TaskIds : state'[t] = "Pending"
      /\ completed' = 0
    BY <1>1, NothingYet DEF CountInv
<1>3. \A i \in DOMAIN ready' : ready'[i] \in Sources
    BY <1>1, SourcesFinite DEF StartWorkers, AnswerInv, IInv, TypeOK
<1>4. Reached' \subseteq Sources
    BY <1>1, <1>2, <1>3 DEF Reached, Queued, Pushing, Owners, Holding, Started, TaskIds
<1>5. ReachedBelowFinished'
    BY <1>1, <1>4, SourcesOnTop DEF ReachedBelowFinished
<1> QED BY <1>1, <1>2, <1>5, QuietStartNext

LEMMA CountInit == Init => CountInv
<1> SUFFICES ASSUME Init PROVE CountInv
    OBVIOUS
<1>1. AnswerInv
    BY AnswerInit
<1>2. /\ \A w \in Workers : pc[w] = "idle" 
      /\ \A t \in TaskIds : state[t] = "Pending"
      /\ completed = 0 /\ ready = <<>>
    BY DEF Init, RunInit
<1>3. Reached = {}
    BY <1>2 DEF Reached, Queued, Pushing, Owners, Holding, Started
<1>4. ReachedBelowFinished
    BY <1>3 DEF ReachedBelowFinished
<1> QED BY <1>1, <1>2, <1>4, QuietStart

LEMMA NextKeepsCount == CountInv /\ [Next]_vars => CountInv'
<1> SUFFICES ASSUME CountInv, [Next]_vars PROVE CountInv'
    OBVIOUS
<1>1. AnswerInv'
    BY NextKeepsAnswer DEF CountInv
<1>2. CASE Build
    BY <1>1, <1>2, BuildKeepsCount
<1>3. CASE StartWorkers
    BY <1>1, <1>3, StartKeepsCount
<1>4. CASE \/ RunNothing \/ RollBall \/ JoinWorkers \/ UNCHANGED vars
           \/ \E w \in Workers : SpuriousWakeup(w)
    BY <1>1, <1>4, RestKeepsCount
<1>5. ASSUME NEW w \in Workers, Worker(w)
      PROVE  CountInv'
    BY <1>1, <1>5, WorkerKeepsCount
<1> QED BY <1>2, <1>3, <1>4, <1>5 DEF Next, Main

\* The third inductive invariant: what is reached, skipped and counted.
THEOREM CountInvariant == Spec => []CountInv
BY CountInit, NextKeepsCount, PTL DEF Spec

\* The count that ends the run is never ahead of the tasks that are over, as
\* long as no completion is counted twice.
THEOREM CountIsCovered == Spec => []CountNeverAhead
<1>1. CountInv => CountNeverAhead
  <2> SUFFICES ASSUME CountInv, CountsOnce PROVE completed <= Cardinality(SettledTasks)
      BY DEF CountNeverAhead, SettledTasks
  <2> QED BY CountedFinite DEF CountInv, CountCovered, AnswerInv, IInv, TypeOK, RunTypeOK
<1> QED BY <1>1, CountInvariant, PTL

\* No worker leaves the pool with a task yet to run, although the count is read
\* and added to without a lock, as long as no completion is counted twice.
THEOREM NobodyLeavesEarly == Spec => []NoEarlyExit
<1>1. CountInv => NoEarlyExit
    BY DEF CountInv
<1> QED BY <1>1, CountInvariant, PTL

\* No worker pops an empty queue, although completed is read anew after the
\* wait, as long as no completion is counted twice.
THEOREM NobodyPopsInVain == Spec => []PopsReadyTask
<1>1. CountInv => PopsReadyTask
    BY DEF CountInv
<1> QED BY <1>1, CountInvariant, PTL

\* Where no task has two dependencies, no callback runs below a failed task.
THEOREM FailureStops == Spec => []FailureStopsForest
<1>1. CountInv => FailureStopsForest
  <2> SUFFICES ASSUME CountInv, Forest, NEW p \in Tasks, NEW t \in Tasks,
                      state[p] = "Failed", t # p, t \in getDescendants(p)
               PROVE  state[t] \in {"Pending", "Skipped"}
      BY DEF FailureStopsForest, FailureStopsDependents, Forest
  <2>1. p \in TaskIds /\ t \in TaskIds /\ state[t] \in TaskState
      BY TasksAreIds DEF CountInv, AnswerInv, IInv, TypeOK, RunTypeOK
  <2>2. t \in Below[p]
      BY <2>1 DEF Below
  <2>3. t \notin Reached
      BY <2>2 DEF CountInv, ReachedBelowFinished
  <2> QED BY <2>1, <2>3 DEF Reached, Started, TaskState
<1> QED BY <1>1, CountInvariant, PTL

=============================================================================
