--------------------------- MODULE TaskRunProofs ----------------------------
(***************************************************************************)
(* Proofs about TaskGraph and TaskRun, for every graph, every pool of       *)
(* threads and every outcome of the callbacks.                              *)
(***************************************************************************)
EXTENDS TaskRunInv, FiniteSetTheorems, TLAPS

-----------------------------------------------------------------------------
(***************************************************************************)
(* The graph.  Whatever sequence of AddTask and AddDependency calls a       *)
(* caller makes, for any number of tasks, the graph stays acyclic and the   *)
(* in-degrees stay exact.                                                   *)
(***************************************************************************)

\* An edge out of the graph is closed off by a set: the witness Acyclic speaks
\* about without naming it.
Separates(S, v, u) == S \in SUBSET Tasks /\ v \in S /\ u \notin S /\ Closed(S)

\* There is no path from v to u exactly when some closed set around v leaves u
\* out.
LEMMA NoPathSeparates ==
    ASSUME NEW u, NEW v
    PROVE  ~ pathExists(v, u) <=> \E S : Separates(S, v, u)
BY DEF pathExists, Separates

-----------------------------------------------------------------------------
LEMMA GraphTypeInit == GraphInit => GraphTypeOK
BY BoundsAssumption DEF GraphInit, GraphTypeOK, TaskIds, Tasks

LEMMA GraphTypeAddTask == GraphTypeOK /\ AddTask => GraphTypeOK'
<1> SUFFICES ASSUME GraphTypeOK, AddTask PROVE GraphTypeOK'
    OBVIOUS
<1>1. curId' = curId + 1 /\ curId' \in 0 .. MaxTasks
    BY BoundsAssumption DEF AddTask, GraphTypeOK
<1>2. Tasks \subseteq Tasks'
    BY <1>1 DEF Tasks, GraphTypeOK
<1>3. adjList' \in [TaskIds -> SUBSET Tasks'] /\ inDegree' \in [TaskIds -> Int]
    BY <1>2 DEF AddTask, GraphTypeOK, TaskIds
<1>4. \A t \in TaskIds \ Tasks' : adjList'[t] = {}
    BY <1>2 DEF AddTask, GraphTypeOK, TaskIds
<1> QED BY <1>1, <1>3, <1>4 DEF GraphTypeOK, TaskIds

LEMMA GraphTypeAddDependency ==
    ASSUME NEW src \in TaskIds, NEW dest \in TaskIds,
           GraphTypeOK, AddDependency(src, dest)
    PROVE  GraphTypeOK'
<1>1. Tasks' = Tasks /\ src \in Tasks /\ dest \in Tasks
    BY DEF AddDependency, taskExists, Tasks
<1>2. adjList' \in [TaskIds -> SUBSET Tasks'] /\ inDegree' \in [TaskIds -> Int]
    BY <1>1 DEF AddDependency, GraphTypeOK
<1>3. \A t \in TaskIds \ Tasks' : adjList'[t] = {}
    BY <1>1 DEF AddDependency, GraphTypeOK
<1> QED BY <1>1, <1>2, <1>3 DEF AddDependency, GraphTypeOK, TaskIds

\* Type correctness: edges only ever join tasks that exist.
THEOREM GraphTypeCorrect == GraphSpec => []GraphTypeOK
<1>1. GraphTypeOK /\ [GraphNext]_graphVars => GraphTypeOK'
  <2> SUFFICES ASSUME GraphTypeOK, [GraphNext]_graphVars PROVE GraphTypeOK'
      OBVIOUS
  <2>1. CASE AddTask
      BY <2>1, GraphTypeAddTask
  <2>2. ASSUME NEW src \in TaskIds, NEW dest \in TaskIds, AddDependency(src, dest)
        PROVE  GraphTypeOK'
      BY <2>2, GraphTypeAddDependency
  <2>3. CASE UNCHANGED graphVars
      BY <2>3 DEF graphVars, GraphTypeOK, Tasks
  <2> QED BY <2>1, <2>2, <2>3 DEF GraphNext
<1> QED BY GraphTypeInit, <1>1, PTL DEF GraphSpec

-----------------------------------------------------------------------------
\* Adding a task leaves every separating set in place.
LEMMA AcyclicAddTask == GraphTypeOK /\ Acyclic /\ AddTask => Acyclic'
<1> SUFFICES ASSUME GraphTypeOK, Acyclic, AddTask,
                    NEW u \in Tasks', NEW v \in adjList'[u]
             PROVE  \E S : Separates(S, v, u)'
    BY DEF Acyclic, pathExists, Separates, Closed
<1>1. adjList' = adjList /\ Tasks \subseteq Tasks' /\ Tasks' \subseteq TaskIds
    BY BoundsAssumption DEF AddTask, GraphTypeOK, Tasks, TaskIds
<1>2. u \in Tasks
    BY <1>1 DEF GraphTypeOK
<1>3. PICK S : Separates(S, v, u)
    BY <1>1, <1>2, NoPathSeparates DEF Acyclic
<1>4. Separates(S, v, u)'
    BY <1>1, <1>3 DEF Separates, Closed
<1> QED BY <1>4

\* The cycle test finds a closed set S0 around src without dest.  The new edge
\* dest -> src is separated by S0 itself; an old edge separated by S is
\* separated by S \cap S0 or by S \cup S0, which the new edge cannot leave.
LEMMA AcyclicAddDependency ==
    ASSUME NEW src \in TaskIds, NEW dest \in TaskIds,
           GraphTypeOK, Acyclic, AddDependency(src, dest)
    PROVE  Acyclic'
<1> SUFFICES ASSUME NEW u \in Tasks', NEW v \in adjList'[u]
             PROVE  \E S : Separates(S, v, u)'
    BY DEF Acyclic, pathExists, Separates, Closed
<1>1. /\ Tasks' = Tasks /\ Tasks \subseteq TaskIds
      /\ src \in Tasks /\ dest \in Tasks
      /\ \A t \in Tasks : adjList'[t] =
             IF t = dest THEN adjList[t] \cup {src} ELSE adjList[t]
  <2>1. Tasks \subseteq TaskIds
      BY BoundsAssumption DEF GraphTypeOK, Tasks, TaskIds
  <2>2. Tasks' = Tasks /\ src \in Tasks /\ dest \in Tasks
      BY DEF AddDependency, taskExists, Tasks
  <2>3. \A t \in TaskIds : adjList'[t] =
            IF t = dest THEN adjList[t] \cup {src} ELSE adjList[t]
      BY DEF AddDependency, GraphTypeOK
  <2> QED BY <2>1, <2>2, <2>3
<1>2. PICK S0 : Separates(S0, src, dest)
    BY NoPathSeparates DEF AddDependency, ClosesCycle
<1>3. ASSUME NEW S \in SUBSET Tasks, Closed(S), dest \in S => src \in S
      PROVE  Closed(S)'
    BY <1>1, <1>3 DEF Closed
<1>4. CASE u = dest /\ v = src
  <2>1. Closed(S0)'
      BY <1>2, <1>3 DEF Separates
  <2> QED BY <1>1, <1>2, <1>4, <2>1 DEF Separates
<1>5. CASE v \in adjList[u]
  <2>1. PICK S : Separates(S, v, u)
      BY <1>1, <1>5, NoPathSeparates DEF Acyclic
  <2>2. CASE u \in S0
    <3>1. v \in S0
        BY <1>2, <1>5, <2>2 DEF Separates, Closed
    <3>2. Closed(S \cap S0)
        BY <1>2, <2>1 DEF Separates, Closed
    <3>3. Closed(S \cap S0)'
        BY <1>2, <1>3, <2>1, <3>2 DEF Separates
    <3>4. Separates(S \cap S0, v, u)'
        BY <1>1, <1>2, <2>1, <3>1, <3>3 DEF Separates
    <3> QED BY <3>4
  <2>3. CASE u \notin S0
    <3>1. Closed(S \cup S0)
        BY <1>2, <2>1 DEF Separates, Closed
    <3>2. Closed(S \cup S0)'
        BY <1>2, <1>3, <2>1, <3>1 DEF Separates
    <3>3. Separates(S \cup S0, v, u)'
        BY <1>1, <1>2, <2>1, <2>3, <3>2 DEF Separates
    <3> QED BY <3>3
  <2> QED BY <2>2, <2>3
<1> QED BY <1>1, <1>4, <1>5

\* "Reject edges that would create cycles so the graph remains a DAG."
THEOREM GraphStaysAcyclic == GraphSpec => []Acyclic
<1>1. GraphInit => Acyclic
    BY BoundsAssumption DEF GraphInit, Acyclic, Tasks, TaskIds
<1>2. GraphTypeOK /\ Acyclic /\ [GraphNext]_graphVars => Acyclic'
  <2> SUFFICES ASSUME GraphTypeOK, Acyclic, [GraphNext]_graphVars PROVE Acyclic'
      OBVIOUS
  <2>1. CASE AddTask
      BY <2>1, AcyclicAddTask
  <2>2. ASSUME NEW src \in TaskIds, NEW dest \in TaskIds, AddDependency(src, dest)
        PROVE  Acyclic'
      BY <2>2, AcyclicAddDependency
  <2>3. CASE UNCHANGED graphVars
      BY <2>3 DEF graphVars, Acyclic, pathExists, Closed, Tasks
  <2> QED BY <2>1, <2>2, <2>3 DEF GraphNext
<1> QED BY <1>1, <1>2, GraphTypeCorrect, PTL DEF GraphSpec

-----------------------------------------------------------------------------
LEMMA PredecessorsFinite ==
    ASSUME GraphTypeOK, NEW t
    PROVE  IsFiniteSet(Predecessors(t))
<1>1. IsFiniteSet(Tasks)
    BY FS_Interval DEF GraphTypeOK, Tasks
<1> QED BY <1>1, FS_Subset DEF Predecessors

\* A new task has no predecessors and is nobody's predecessor.
LEMMA PredecessorsAddTask ==
    GraphTypeOK /\ AddTask => \A t \in TaskIds : Predecessors(t)' = Predecessors(t)
<1> SUFFICES ASSUME GraphTypeOK, AddTask, NEW t \in TaskIds
             PROVE  Predecessors(t)' = Predecessors(t)
    OBVIOUS
<1>1. \A p \in Tasks' : p \in Tasks \/ adjList[p] = {}
    BY BoundsAssumption DEF AddTask, GraphTypeOK, Tasks, TaskIds
<1>2. Tasks \subseteq Tasks' /\ adjList' = adjList
    BY DEF AddTask, GraphTypeOK, Tasks
<1> QED BY <1>1, <1>2 DEF Predecessors

\* A new edge adds one predecessor, to src: NewEdge saw that it is new.
LEMMA PredecessorsAddDependency ==
    ASSUME NEW src \in TaskIds, NEW dest \in TaskIds,
           GraphTypeOK, AddDependency(src, dest), NEW t \in TaskIds
    PROVE  IF t = src
           THEN /\ Predecessors(t)' = Predecessors(t) \cup {dest}
                /\ dest \notin Predecessors(t)
                /\ inDegree'[t] = inDegree[t] + 1
           ELSE /\ Predecessors(t)' = Predecessors(t)
                /\ inDegree'[t] = inDegree[t]
<1>1. Tasks' = Tasks /\ dest \in Tasks /\ src \notin adjList[dest]
    BY DEF AddDependency, taskExists, NewEdge, Tasks
<1>2. \A p \in Tasks : adjList'[p] =
          IF p = dest THEN adjList[p] \cup {src} ELSE adjList[p]
  <2>1. Tasks \subseteq TaskIds
      BY BoundsAssumption DEF GraphTypeOK, Tasks, TaskIds
  <2> QED BY <2>1 DEF AddDependency, GraphTypeOK
<1>3. inDegree'[t] = IF t = src THEN inDegree[t] + 1 ELSE inDegree[t]
    BY DEF AddDependency, GraphTypeOK
<1> QED BY <1>1, <1>2, <1>3 DEF Predecessors

LEMMA InDegreeAddTask == GraphTypeOK /\ InDegreeExact /\ AddTask => InDegreeExact'
BY PredecessorsAddTask DEF InDegreeExact, AddTask, TaskIds

LEMMA InDegreeAddDependency ==
    ASSUME NEW src \in TaskIds, NEW dest \in TaskIds,
           GraphTypeOK, InDegreeExact, AddDependency(src, dest)
    PROVE  InDegreeExact'
<1> SUFFICES ASSUME NEW t \in TaskIds
             PROVE  inDegree'[t] = Cardinality(Predecessors(t)')
    BY DEF InDegreeExact, TaskIds
<1>1. inDegree[t] = Cardinality(Predecessors(t)) /\ inDegree[t] \in Int
    BY DEF InDegreeExact, GraphTypeOK
<1>2. CASE t = src
  <2>1. Cardinality(Predecessors(t)') = Cardinality(Predecessors(t)) + 1
      BY <1>2, PredecessorsAddDependency, PredecessorsFinite, FS_AddElement
  <2> QED BY <1>1, <1>2, <2>1, PredecessorsAddDependency
<1>3. CASE t # src
    BY <1>1, <1>3, PredecessorsAddDependency
<1> QED BY <1>2, <1>3

\* The count RunTasks starts from is the number of dependencies.
THEOREM InDegreeStaysExact == GraphSpec => []InDegreeExact
<1>1. GraphInit => InDegreeExact
  <2> SUFFICES ASSUME GraphInit, NEW t \in TaskIds
               PROVE  inDegree[t] = Cardinality(Predecessors(t))
      BY DEF InDegreeExact
  <2>1. Predecessors(t) = {}
      BY DEF GraphInit, Predecessors, Tasks
  <2> QED BY <2>1, FS_EmptySet DEF GraphInit
<1>2. GraphTypeOK /\ InDegreeExact /\ [GraphNext]_graphVars => InDegreeExact'
  <2> SUFFICES ASSUME GraphTypeOK, InDegreeExact, [GraphNext]_graphVars
               PROVE  InDegreeExact'
      OBVIOUS
  <2>1. CASE AddTask
      BY <2>1, InDegreeAddTask
  <2>2. ASSUME NEW src \in TaskIds, NEW dest \in TaskIds, AddDependency(src, dest)
        PROVE  InDegreeExact'
      BY <2>2, InDegreeAddDependency
  <2>3. CASE UNCHANGED graphVars
      BY <2>3 DEF graphVars, InDegreeExact, Predecessors, Tasks
  <2> QED BY <2>1, <2>2, <2>3 DEF GraphNext
<1> QED BY <1>1, <1>2, GraphTypeCorrect, PTL DEF GraphSpec

-----------------------------------------------------------------------------
(***************************************************************************)
(* The run.  The scheduler's state keeps its shape, its lock and its counts,*)
(* and a task runs once and after its dependencies.                         *)
(***************************************************************************)

LEMMA TasksAreIds == GraphTypeOK => Tasks \subseteq TaskIds
BY BoundsAssumption DEF GraphTypeOK, Tasks, TaskIds

LEMMA SourcesFinite ==
    ASSUME GraphTypeOK
    PROVE  Cardinality(Sources) \in Nat /\ Sources \subseteq TaskIds
<1>1. IsFiniteSet(Tasks)
    BY FS_Interval DEF GraphTypeOK, Tasks
<1> QED BY <1>1, FS_Subset, FS_CardinalityType, TasksAreIds DEF Sources

-----------------------------------------------------------------------------
LEMMA TypeInit == Init => TypeOK
<1> SUFFICES ASSUME Init PROVE TypeOK
    OBVIOUS
<1>1. GraphTypeOK
    BY GraphTypeInit DEF Init
<1>2. 0 \in TaskIds
    BY BoundsAssumption DEF TaskIds
<1>3. RunTypeOK
  <2>1. ready \in Seq(TaskIds) /\ completedQueue \in Seq(TaskIds)
      BY DEF Init, RunInit
  <2>2. state \in [TaskIds -> TaskState] /\ pc \in [Workers -> Labels]
      BY DEF Init, RunInit, TaskState, Labels
  <2>3. /\ nextTask \in [Workers -> TaskIds] /\ freed \in [Workers -> TaskIds]
        /\ ok \in [Workers -> BOOLEAN] /\ skipped \in [Workers -> Nat]
        /\ todo \in [Workers -> SUBSET TaskIds]
      BY <1>2 DEF Init, RunInit
  <2> QED BY <2>1, <2>2, <2>3 DEF Init, RunInit, RunTypeOK
<1> QED BY <1>1, <1>3 DEF TypeOK

\* An action that leaves the graph alone keeps its types.
LEMMA GraphTypeUnchanged == GraphTypeOK /\ UNCHANGED graphVars => GraphTypeOK'
BY DEF GraphTypeOK, graphVars, Tasks

LEMMA TypeMain ==
    TypeOK /\ (Build \/ Main) => TypeOK'
<1> SUFFICES ASSUME TypeOK, Build \/ Main PROVE TypeOK'
    OBVIOUS
<1> USE DEF TypeOK
<1>1. CASE Build
  <2>1. GraphTypeOK'
      BY <1>1, GraphTypeAddTask, GraphTypeAddDependency DEF Build, GraphNext
  <2>2. RunTypeOK'
      BY <1>1 DEF Build, RunTypeOK, sharedVars, mainVars, localVars
  <2> QED BY <2>1, <2>2
<1>2. CASE RunNothing
    BY <1>2, GraphTypeUnchanged DEF RunNothing, RunTypeOK, sharedVars, localVars
<1>3. CASE StartWorkers
  <2>1. ready' \in Seq(TaskIds)
      BY <1>3, SourcesFinite DEF StartWorkers
  <2>2. pc' \in [Workers -> Labels]
      BY <1>3 DEF StartWorkers, Labels
  <2> QED BY <1>3, <2>1, <2>2, GraphTypeUnchanged DEF StartWorkers, RunTypeOK
<1>4. CASE RollBall
    BY <1>4, GraphTypeUnchanged DEF RollBall, RunTypeOK, localVars
<1>5. CASE JoinWorkers
    BY <1>5, GraphTypeUnchanged DEF JoinWorkers, RunTypeOK, RunResult, sharedVars, localVars
<1> QED BY <1>1, <1>2, <1>3, <1>4, <1>5 DEF Main

LEMMA TypeWait ==
    ASSUME NEW w \in Workers, TypeOK, Wait(w) \/ SpuriousWakeup(w)
    PROVE  TypeOK'
<1> USE DEF TypeOK, Goto, Labels
<1>1. CASE Lock(w)
    BY <1>1, GraphTypeUnchanged DEF Lock, RunTypeOK, mainVars
<1>2. CASE CheckPredicate(w)
    BY <1>2, GraphTypeUnchanged DEF CheckPredicate, RunTypeOK, sharedVars, mainVars
<1>3. CASE Block(w)
    BY <1>3, GraphTypeUnchanged DEF Block, RunTypeOK, mainVars
<1>4. CASE SpuriousWakeup(w)
    BY <1>4, GraphTypeUnchanged DEF SpuriousWakeup, RunTypeOK, mainVars, localVars
<1>5. CASE Wake(w)
    BY <1>5, GraphTypeUnchanged DEF Wake, RunTypeOK, mainVars
<1>6. CASE Exit(w)
    BY <1>6, GraphTypeUnchanged DEF Exit, RunTypeOK, mainVars
<1>7. CASE Pop(w)
  <2>1. Head(ready) \in TaskIds /\ Tail(ready) \in Seq(TaskIds)
      BY <1>7 DEF Pop, RunTypeOK
  <2> QED BY <1>7, <2>1, GraphTypeUnchanged DEF Pop, RunTypeOK, mainVars
<1>8. CASE PopEmpty(w)
    BY <1>8, GraphTypeUnchanged DEF PopEmpty, RunTypeOK, sharedVars, mainVars
<1> QED BY <1>1, <1>2, <1>3, <1>4, <1>5, <1>6, <1>7, <1>8 DEF Wait

LEMMA TypeRunOne ==
    ASSUME NEW w \in Workers, TypeOK, RunOne(w)
    PROVE  TypeOK'
<1> USE DEF TypeOK, Goto, Labels
<1>1. CASE BeginRun(w)
    BY <1>1, GraphTypeUnchanged DEF BeginRun, RunTypeOK, TaskState, mainVars
<1>2. CASE RefuseRun(w)
    BY <1>2, GraphTypeUnchanged DEF RefuseRun, RunTypeOK, sharedVars, mainVars
<1>3. CASE EndRun(w)
    BY <1>3, RunAssumption, GraphTypeUnchanged DEF EndRun, RunTypeOK, TaskState, mainVars
<1>4. CASE Count(w)
  <2>1. adjList[nextTask[w]] \in SUBSET TaskIds
      BY TasksAreIds DEF GraphTypeOK, RunTypeOK
  <2> QED BY <1>4, <2>1, GraphTypeUnchanged DEF Count, RunTypeOK, mainVars
<1>5. CASE Release(w)
  <2>1. PICK dep \in todo[w] :
            /\ inDegree' = [inDegree EXCEPT ![dep] = @ - 1]
            /\ todo' = [todo EXCEPT ![w] = @ \ {dep}]
            /\ \/ pc' = [pc EXCEPT ![w] = "push"] /\ freed' = [freed EXCEPT ![w] = dep]
               \/ UNCHANGED <<pc, freed>>
      BY <1>5 DEF Release
  <2>2. dep \in TaskIds
      BY DEF RunTypeOK
  <2>3. inDegree' \in [TaskIds -> Int]
      BY <2>1, <2>2 DEF GraphTypeOK
  <2>4. GraphTypeOK'
      BY <1>5, <2>3 DEF Release, GraphTypeOK, Tasks
  <2>5. todo' \in [Workers -> SUBSET TaskIds]
      BY <2>1 DEF RunTypeOK
  <2>6. pc' \in [Workers -> Labels] /\ freed' \in [Workers -> TaskIds]
      BY <2>1, <2>2 DEF RunTypeOK
  <2>7. RunTypeOK'
      BY <1>5, <2>5, <2>6 DEF Release, RunTypeOK, sharedVars, mainVars
  <2> QED BY <2>4, <2>7
<1>6. CASE EndRelease(w)
    BY <1>6, GraphTypeUnchanged DEF EndRelease, RunTypeOK, sharedVars, mainVars
<1>7. CASE addReadyTask(w)
    BY <1>7, GraphTypeUnchanged DEF addReadyTask, NotifyOne, RunTypeOK, mainVars
<1>8. CASE Succeed(w)
    BY <1>8, GraphTypeUnchanged DEF Succeed, RunTypeOK, mainVars
<1> QED BY <1>1, <1>2, <1>3, <1>4, <1>5, <1>6, <1>7, <1>8 DEF RunOne

LEMMA TypeSkipBelow ==
    ASSUME NEW w \in Workers, TypeOK, SkipBelow(w) \/ NotifyLast(w)
    PROVE  TypeOK'
<1> USE DEF TypeOK, Goto, Labels
<1>1. CASE BeginSkip(w)
  <2>1. getDescendants(nextTask[w]) \in SUBSET TaskIds
      BY TasksAreIds DEF getDescendants
  <2> QED BY <1>1, <2>1, GraphTypeUnchanged DEF BeginSkip, RunTypeOK, mainVars
<1>2. CASE Skip(w)
  <2>1. PICK t \in todo[w] :
            /\ todo' = [todo EXCEPT ![w] = @ \ {t}]
            /\ state' = [state EXCEPT ![t] = "Skipped"] \/ UNCHANGED state
            /\ skipped' = [skipped EXCEPT ![w] = @ + 1] \/ UNCHANGED skipped
      BY <1>2 DEF Skip
  <2>2. state' \in [TaskIds -> TaskState] /\ todo' \in [Workers -> SUBSET TaskIds]
      BY <2>1 DEF RunTypeOK, TaskState
  <2>3. skipped' \in [Workers -> Nat]
      BY <2>1 DEF RunTypeOK
  <2> QED BY <1>2, <2>2, <2>3, GraphTypeUnchanged DEF Skip, RunTypeOK, mainVars
<1>3. CASE Tally(w)
  <2>1. completed' \in Nat
      BY <1>3 DEF Tally, RunTypeOK
  <2>2. pc' \in [Workers -> Labels] /\ failureMtx' \in Workers \cup {NoWorker}
      BY <1>3 DEF Tally, RunTypeOK
  <2> QED BY <1>3, <2>1, <2>2, GraphTypeUnchanged DEF Tally, RunTypeOK, mainVars
<1>4. CASE NotifySkipped(w)
    BY <1>4, GraphTypeUnchanged DEF NotifySkipped, RunTypeOK, mainVars
<1>5. CASE NotifyLast(w)
    BY <1>5, GraphTypeUnchanged DEF NotifyLast, RunTypeOK, mainVars
<1> QED BY <1>1, <1>2, <1>3, <1>4, <1>5 DEF SkipBelow

\* Type correctness of RunTasks.
THEOREM TypeCorrect == Spec => []TypeOK
<1>1. TypeOK /\ [Next]_vars => TypeOK'
  <2> SUFFICES ASSUME TypeOK, [Next]_vars PROVE TypeOK'
      OBVIOUS
  <2>1. CASE Build \/ Main
      BY <2>1, TypeMain
  <2>2. ASSUME NEW w \in Workers, Worker(w) \/ SpuriousWakeup(w)
        PROVE  TypeOK'
      BY <2>2, TypeWait, TypeRunOne, TypeSkipBelow DEF Worker
  <2>3. CASE UNCHANGED vars
      BY <2>3, GraphTypeUnchanged
      DEF TypeOK, RunTypeOK, vars, sharedVars, mainVars, localVars
  <2> QED BY <2>1, <2>2, <2>3 DEF Next
<1> QED BY TypeInit, <1>1, PTL DEF Spec

-----------------------------------------------------------------------------
(* The inductive invariant.                                                 *)

LEMMA OwersFinite ==
    ASSUME GraphTypeOK, NEW d
    PROVE  IsFiniteSet(Owers(d)) /\ Cardinality(Owers(d)) \in Nat
BY PredecessorsFinite, FS_Subset, FS_CardinalityType DEF Owers

\* Dependencies only ever let go: a step after which nobody owes d who did not
\* owe it before keeps d covered.
LEMMA FewerOwers ==
    ASSUME TypeOK, NEW d \in TaskIds,
           Owers(d)' \subseteq Owers(d),
           Cardinality(Owers(d)) <= inDegree[d],
           inDegree'[d] = inDegree[d]
    PROVE  Cardinality(Owers(d)') <= inDegree'[d]
<1>1. IsFiniteSet(Owers(d)) /\ Cardinality(Owers(d)) \in Nat
    BY OwersFinite DEF TypeOK
<1>2. Cardinality(Owers(d)') <= Cardinality(Owers(d)) /\ Cardinality(Owers(d)') \in Nat
    BY <1>1, FS_Subset, FS_CardinalityType
<1>3. inDegree[d] \in Int
    BY DEF TypeOK, GraphTypeOK
<1> QED BY <1>1, <1>2, <1>3

\* When d has in-degree zero, every dependency of d is over.
LEMMA NoneLeft ==
    ASSUME IInv, NEW d \in TaskIds, inDegree[d] <= 0
    PROVE  \A p \in Predecessors(d) : ~ Owes(p, d) /\ state[p] \in Settled
<1>1. IsFiniteSet(Owers(d)) /\ Cardinality(Owers(d)) \in Nat
    BY OwersFinite DEF IInv, TypeOK
<1>2. Cardinality(Owers(d)) <= 0
    BY <1>1 DEF IInv, DegreeCovers, TypeOK, GraphTypeOK
<1>3. Owers(d) = {}
    BY <1>1, <1>2, FS_EmptySet
<1> QED BY <1>3 DEF Owers, Owes

-----------------------------------------------------------------------------
\* A step that moves no task between places and changes no state except from
\* pending to skipped.
Quiet ==
    /\ UNCHANGED <<graphVars, ready>>
    /\ \A t \in TaskIds :
           \/ state'[t] = state[t]
           \/ state[t] = "Pending" /\ state'[t] = "Skipped"
    /\ \A w \in Workers : Holding(w)' =>
           /\ pc'[w] = pc[w]
           /\ nextTask'[w] = nextTask[w]
           /\ freed'[w] = freed[w]
           /\ todo'[w] = todo[w]
    /\ NothingRunYet'

LEMMA QuietKeepsInv == IInv /\ Quiet /\ TypeOK' => IInv'
<1> SUFFICES ASSUME IInv, Quiet, TypeOK' PROVE IInv'
    OBVIOUS
<1>1. /\ Tasks' = Tasks /\ adjList' = adjList /\ inDegree' = inDegree /\ ready' = ready
      /\ \A t : Predecessors(t)' = Predecessors(t)
      /\ \A t : Queued(t)' <=> Queued(t)
  <2>1. curId' = curId /\ adjList' = adjList /\ inDegree' = inDegree /\ ready' = ready
      BY DEF Quiet, graphVars
  <2>2. Tasks' = Tasks
      BY <2>1 DEF Tasks
  <2>3. \A t : Predecessors(t)' = Predecessors(t)
      BY <2>1, <2>2 DEF Predecessors
  <2>4. ASSUME NEW t PROVE Queued(t)' <=> Queued(t)
      BY <2>1, Zenon DEF Queued
  <2> QED BY <2>1, <2>2, <2>3, <2>4
<1>2. \A w \in Workers : Holding(w)' =>
          /\ Holding(w)
          /\ pc'[w] = pc[w] /\ nextTask'[w] = nextTask[w]
          /\ freed'[w] = freed[w] /\ todo'[w] = todo[w]
    BY DEF Quiet, Holding
<1>3. \A w \in Workers : Pushing(w)' => Pushing(w) /\ Holding(w)'
    BY <1>2 DEF Pushing, Holding
<1>4. Tasks \subseteq TaskIds
    BY TasksAreIds DEF IInv, TypeOK
<1>5. \A t \in TaskIds :
          /\ state'[t] = state[t] \/ (state[t] = "Pending" /\ state'[t] = "Skipped")
          /\ state[t] \in Settled => state'[t] = state[t]
          /\ state'[t] \in Started => state'[t] = state[t]
    BY DEF Quiet, Settled, Started
<1>6. DegreeCovers'
  <2> SUFFICES ASSUME NEW d \in TaskIds
               PROVE  Owers(d)' \subseteq Owers(d)
      BY <1>1, FewerOwers DEF IInv, DegreeCovers, TaskIds
  <2>1. ASSUME NEW p \in Tasks, Owes(p, d)' PROVE Owes(p, d)
    <3>1. CASE state'[p] \notin Settled
        BY <1>4, <1>5, <3>1 DEF Owes
    <3>2. CASE state'[p] \in Settled
        BY <1>1, <1>2, <1>3, <2>1, <3>2 DEF Owes, Holding
    <3> QED BY <3>1, <3>2
  <2> QED BY <1>1, <2>1 DEF Owers, Predecessors
<1>7. OnePlace'
    BY <1>1, <1>2, <1>3 DEF IInv, OnePlace
<1>8. \A t \in TaskIds : Untouched(t) => Untouched(t)'
    BY <1>5 DEF Untouched
<1>9. StateAtPlace'
  <2>1. \A w \in Workers : nextTask[w] \in TaskIds /\ freed[w] \in TaskIds
      BY DEF IInv, TypeOK, RunTypeOK
  <2>2. \A t \in TaskIds : (inDegree'[t] > 0 \/ Queued(t)') => Untouched(t)'
      BY <1>1, <1>8 DEF IInv, StateAtPlace
  <2>3. \A w \in Workers : Pushing(w)' => Untouched(freed[w])' /\ freed'[w] = freed[w]
      BY <1>2, <1>3, <1>8, <2>1 DEF IInv, StateAtPlace
  <2>4. \A w \in Workers : pc'[w] = "run" =>
            Untouched(nextTask[w])' /\ nextTask'[w] = nextTask[w]
      BY <1>2, <1>8, <2>1 DEF IInv, StateAtPlace, Holding
  <2>5. \A w \in Workers : pc'[w] = "body" => state'[nextTask'[w]] = "Running"
      BY <1>2, <1>5, <2>1 DEF IInv, StateAtPlace, Holding
  <2>6. \A w \in Workers : pc'[w] \in {"count", "release", "push"} =>
            state'[nextTask'[w]] \in Settled
      BY <1>2, <1>5, <2>1 DEF IInv, StateAtPlace, Holding
  <2> QED BY <2>2, <2>3, <2>4, <2>5, <2>6 DEF StateAtPlace, Untouched
<1>10. ReleasesOwn'
    BY <1>1, <1>2 DEF IInv, ReleasesOwn, Holding
<1>11. StartsAfterDeps'
  <2> SUFFICES ASSUME NEW t \in Tasks, state'[t] \in Started,
                      NEW p \in Predecessors(t)
               PROVE  state'[p] \in Settled
      BY <1>1 DEF StartsAfterDeps
  <2>1. p \in TaskIds /\ t \in TaskIds
      BY <1>4 DEF Predecessors
  <2> QED BY <1>5, <2>1 DEF IInv, StartsAfterDeps
<1> QED BY <1>6, <1>7, <1>9, <1>10, <1>11 DEF IInv, Quiet

-----------------------------------------------------------------------------
(* The steps that move a task.                                              *)

\* While the graph is built, every dependency is owed.
LEMMA BuildingOwes ==
    ASSUME IInv, main = "building", NEW d
    PROVE  Owers(d) = Predecessors(d)
BY TasksAreIds DEF IInv, TypeOK, NothingRunYet, Owers, Owes, Predecessors, Settled

LEMMA BuildKeepsInv == IInv /\ Build => IInv'
<1> SUFFICES ASSUME IInv, Build PROVE IInv'
    OBVIOUS
<1>1. /\ main = "building" /\ main' = main /\ pc' = pc
      /\ ready' = ready /\ state' = state
    BY DEF Build, sharedVars, mainVars, localVars
<1>2. /\ \A w \in Workers : pc[w] = "idle"
      /\ ready = <<>>
      /\ \A t \in TaskIds : state[t] = "Pending"
    BY <1>1 DEF IInv, NothingRunYet
<1>3. NothingRunYet' /\ OnePlace' /\ ReleasesOwn'
    BY <1>1, <1>2
    DEF NothingRunYet, OnePlace, ReleasesOwn, Pushing, Holding, Queued, TaskIds
<1>4. StateAtPlace'
    BY <1>1, <1>2 DEF StateAtPlace, Untouched, Pushing, Queued, TaskIds
<1>5. TypeOK'
    BY TypeMain DEF IInv
<1>6. StartsAfterDeps'
  <2>1. GraphTypeOK'
      BY <1>5 DEF TypeOK
  <2>2. (Tasks \subseteq TaskIds)'
      BY <2>1, TasksAreIds, PTL
  <2>3. Tasks' \subseteq TaskIds
      BY <2>2 DEF TaskIds
  <2> QED BY <1>1, <1>2, <2>3 DEF StartsAfterDeps, Started
<1>7. DegreeCovers'
  <2> SUFFICES ASSUME NEW d \in TaskIds
               PROVE  Cardinality(Owers(d)') <= inDegree'[d]
      BY DEF DegreeCovers, TaskIds
  <2>1. /\ GraphTypeOK
        /\ Owers(d) = Predecessors(d)
        /\ Owers(d)' \subseteq Predecessors(d)'
        /\ Cardinality(Predecessors(d)) <= inDegree[d]
        /\ inDegree[d] \in Int
      BY <1>1, BuildingOwes DEF IInv, TypeOK, GraphTypeOK, DegreeCovers, Owers
  <2>2. IsFiniteSet(Predecessors(d)) /\ Cardinality(Predecessors(d)) \in Nat
      BY <2>1, PredecessorsFinite, FS_CardinalityType
  <2>3. CASE AddTask
    <3>1. Predecessors(d)' = Predecessors(d) /\ inDegree' = inDegree
        BY <2>1, <2>3, PredecessorsAddTask DEF AddTask
    <3> QED BY <2>1, <2>2, <3>1, FS_Subset, FS_CardinalityType
  <2>4. ASSUME NEW src \in TaskIds, NEW dest \in TaskIds, AddDependency(src, dest)
        PROVE  Cardinality(Owers(d)') <= inDegree'[d]
    <3>1. CASE d = src
      <4>1. /\ Predecessors(d)' = Predecessors(d) \cup {dest}
            /\ dest \notin Predecessors(d)
            /\ inDegree'[d] = inDegree[d] + 1
          BY <2>1, <2>4, <3>1, PredecessorsAddDependency
      <4>2. /\ IsFiniteSet(Predecessors(d)')
            /\ Cardinality(Predecessors(d)') = Cardinality(Predecessors(d)) + 1
          BY <2>2, <4>1, FS_AddElement
      <4> QED BY <2>1, <2>2, <4>1, <4>2, FS_Subset, FS_CardinalityType
    <3>2. CASE d # src
      <4>1. Predecessors(d)' = Predecessors(d) /\ inDegree'[d] = inDegree[d]
          BY <2>1, <2>4, <3>2, PredecessorsAddDependency
      <4> QED BY <2>1, <2>2, <4>1, FS_Subset, FS_CardinalityType
    <3> QED BY <3>1, <3>2
  <2> QED BY <2>3, <2>4 DEF Build, GraphNext
<1> QED BY <1>3, <1>4, <1>5, <1>6, <1>7 DEF IInv

LEMMA StartKeepsInv == IInv /\ StartWorkers => IInv'
<1> SUFFICES ASSUME IInv, StartWorkers PROVE IInv'
    OBVIOUS
<1>1. /\ main = "building" /\ main' = "started" /\ state' = state
      /\ adjList' = adjList /\ inDegree' = inDegree /\ curId' = curId
      /\ \A w \in Workers : pc'[w] \in {"lock", "idle"}
    BY DEF StartWorkers, graphVars
<1>2. \A t \in TaskIds : state[t] = "Pending"
    BY <1>1 DEF IInv, NothingRunYet
<1>3. /\ Tasks' = Tasks
      /\ \A t : Predecessors(t)' = Predecessors(t)
    BY <1>1 DEF Tasks, Predecessors
<1>4. Tasks \subseteq TaskIds
    BY TasksAreIds DEF IInv, TypeOK
<1>5. \A i \in DOMAIN ready' : ready'[i] \in Sources
    BY DEF StartWorkers
<1>6. \A i, j \in DOMAIN ready' : i # j => ready'[i] # ready'[j]
  <2>1. /\ DOMAIN ready' \subseteq Int
        /\ \A i, j \in DOMAIN ready' : i < j => ready'[i] < ready'[j]
      BY SourcesFinite DEF StartWorkers, IInv, TypeOK
  <2>2. \A i \in DOMAIN ready' : ready'[i] \in Int
      BY <1>5 DEF Sources, Tasks
  <2> QED BY <2>1, <2>2
<1>7. OnePlace'
    BY <1>1, <1>5, <1>6 DEF OnePlace, Sources, Pushing, Holding
<1>8. StateAtPlace' /\ ReleasesOwn'
    BY <1>1, <1>2 DEF StateAtPlace, ReleasesOwn, Untouched, Pushing
<1>9. StartsAfterDeps' /\ NothingRunYet'
    BY <1>1, <1>2, <1>3, <1>4 DEF StartsAfterDeps, Started, NothingRunYet
<1>10. DegreeCovers'
  <2> SUFFICES ASSUME NEW d \in TaskIds
               PROVE  Owers(d)' \subseteq Owers(d)
      BY <1>1, FewerOwers DEF IInv, DegreeCovers, TaskIds
  <2> QED BY <1>1, <1>3, BuildingOwes DEF Owers
<1>11. TypeOK'
    BY TypeMain DEF IInv, Main
<1> QED BY <1>7, <1>8, <1>9, <1>10, <1>11 DEF IInv

\* A worker past the start is no part of a graph still being built.
LEMMA WorkersRun ==
    ASSUME IInv, NEW w \in Workers, pc[w] # "idle"
    PROVE  main # "building"
BY DEF IInv, NothingRunYet

\* What the worker's steps leave alone: the graph's edges.
LEMMA EdgesFixed ==
    ASSUME curId' = curId, adjList' = adjList
    PROVE  Tasks' = Tasks /\ \A t : Predecessors(t)' = Predecessors(t)
BY DEF Tasks, Predecessors

LEMMA PopKeepsInv ==
    ASSUME IInv, NEW w \in Workers, Pop(w)
    PROVE  IInv'
<1>0. PICK t : t = Head(ready)
    OBVIOUS
<1>1. /\ pc[w] = "pop" /\ main' = main /\ state' = state /\ inDegree' = inDegree
      /\ curId' = curId /\ adjList' = adjList /\ freed' = freed /\ todo' = todo
      /\ ready' = Tail(ready) /\ ready # <<>>
    BY DEF Pop, graphVars, mainVars
<1>2. /\ \A v \in Workers : pc'[v] = IF v = w THEN "run" ELSE pc[v]
      /\ \A v \in Workers : nextTask'[v] = IF v = w THEN t ELSE nextTask[v]
    BY <1>0 DEF Pop, Goto, IInv, TypeOK, RunTypeOK
<1>3. TypeOK'
    BY TypeWait DEF IInv, Wait
<1>4. Tasks' = Tasks /\ \A x : Predecessors(x)' = Predecessors(x)
    BY <1>1, EdgesFixed
<1>5. main' # "building"
    BY <1>1, WorkersRun
<1>6. ready \in Seq(TaskIds) /\ ready # <<>>
    BY <1>1 DEF IInv, TypeOK, RunTypeOK
<1>7. /\ 1 \in DOMAIN ready /\ t = ready[1] /\ t \in TaskIds
      /\ \A i \in DOMAIN ready' : /\ i + 1 \in DOMAIN ready
                                  /\ i + 1 # 1
                                  /\ ready'[i] = ready[i + 1]
    BY <1>0, <1>1, <1>6
<1>8. /\ Queued(t) /\ ~ Queued(t)'
      /\ \A x : Queued(x)' => Queued(x)
      /\ \A i, j \in DOMAIN ready' : i # j => ready'[i] # ready'[j]
      /\ \A i \in DOMAIN ready' : inDegree[ready'[i]] = 0
  <2>1. \A i, j \in DOMAIN ready : i # j => ready[i] # ready[j]
      BY DEF IInv, OnePlace
  <2>2. \A i \in DOMAIN ready : inDegree[ready[i]] = 0
      BY DEF IInv, OnePlace
  <2>3. DOMAIN ready' \subseteq Int
      BY <1>1, <1>6
  <2> QED BY <1>7, <2>1, <2>2, <2>3 DEF Queued
<1>9. /\ inDegree[t] = 0 /\ Untouched(t)
      /\ \A v \in Workers : Pushing(v) => freed[v] # t
      /\ \A v \in Workers : Holding(v) => nextTask[v] # t
    BY <1>7, <1>8 DEF IInv, OnePlace, StateAtPlace
<1>10. \A v \in Workers :
           /\ Pushing(v)' <=> Pushing(v)
           /\ Holding(v)' <=> (v = w \/ Holding(v))
    BY <1>1, <1>2 DEF Pushing, Holding
<1>11. OnePlace'
    BY <1>1, <1>2, <1>8, <1>9, <1>10 DEF IInv, OnePlace
<1>12. StateAtPlace'
    BY <1>1, <1>2, <1>8, <1>9, <1>10 DEF IInv, StateAtPlace, Untouched
<1>13. ReleasesOwn'
    BY <1>1, <1>2 DEF IInv, ReleasesOwn
<1>14. StartsAfterDeps' /\ NothingRunYet'
    BY <1>1, <1>4, <1>5 DEF IInv, StartsAfterDeps, NothingRunYet
<1>15. DegreeCovers'
  <2> SUFFICES ASSUME NEW d \in TaskIds
               PROVE  Owers(d)' \subseteq Owers(d)
      BY <1>1, FewerOwers DEF IInv, DegreeCovers, TaskIds
  <2>1. ASSUME NEW p, Owes(p, d)' PROVE Owes(p, d)
      BY <1>1, <1>2, <1>8, <1>10, <2>1 DEF Owes
  <2> QED BY <1>4, <2>1 DEF Owers
<1> QED BY <1>3, <1>11, <1>12, <1>13, <1>14, <1>15 DEF IInv

\* The task a worker begins has in-degree zero, so NoneLeft applies to it.
LEMMA BeginRunKeepsInv ==
    ASSUME IInv, NEW w \in Workers, BeginRun(w)
    PROVE  IInv'
<1>0. PICK t \in TaskIds : t = nextTask[w]
    BY DEF IInv, TypeOK, RunTypeOK
<1>1. /\ pc[w] = "run" /\ main' = main /\ inDegree' = inDegree /\ ready' = ready
      /\ curId' = curId /\ adjList' = adjList /\ freed' = freed /\ todo' = todo
      /\ nextTask' = nextTask
    BY DEF BeginRun, graphVars, mainVars
<1>2. /\ state[t] = "Pending"
      /\ \A x \in TaskIds : state'[x] = IF x = t THEN "Running" ELSE state[x]
      /\ \A v \in Workers : pc'[v] = IF v = w THEN "body" ELSE pc[v]
    BY <1>0 DEF BeginRun, Goto, IInv, TypeOK, RunTypeOK
<1>3. TypeOK'
    BY TypeRunOne DEF IInv, RunOne
<1>4. /\ Tasks' = Tasks /\ \A x : Predecessors(x)' = Predecessors(x)
      /\ Tasks \subseteq TaskIds
    BY <1>1, EdgesFixed, TasksAreIds DEF IInv, TypeOK
<1>5. NothingRunYet'
    BY <1>1, WorkersRun DEF NothingRunYet
<1>6. ASSUME NEW x PROVE Queued(x)' <=> Queued(x)
    BY <1>1, Zenon DEF Queued
<1>7. \A v \in Workers :
          /\ Pushing(v)' <=> Pushing(v)
          /\ Holding(v)' <=> Holding(v)
    BY <1>1, <1>2 DEF Pushing, Holding
<1>8. /\ Holding(w) /\ inDegree[t] = 0 /\ ~ Queued(t)
      /\ \A v \in Workers : Pushing(v) => freed[v] # t
      /\ \A v \in Workers : v # w /\ Holding(v) => nextTask[v] # t
    BY <1>0, <1>1 DEF IInv, OnePlace, Holding
<1>9. OnePlace' /\ ReleasesOwn'
    BY <1>1, <1>2, <1>6, <1>7 DEF IInv, OnePlace, ReleasesOwn
<1>10. StateAtPlace'
  <2>1. \A v \in Workers : nextTask[v] \in TaskIds /\ freed[v] \in TaskIds
      BY DEF IInv, TypeOK, RunTypeOK
  <2>2. \A x \in TaskIds : (inDegree'[x] > 0 \/ Queued(x)') => Untouched(x)'
      BY <1>1, <1>2, <1>6, <1>8 DEF IInv, StateAtPlace, Untouched
  <2>3. \A v \in Workers : v # w /\ Holding(v) => nextTask[v] # t
      BY <1>8
  <2> QED BY <1>0, <1>1, <1>2, <1>7, <1>8, <2>1, <2>2, <2>3
          DEF IInv, StateAtPlace, Untouched, Holding, Settled
<1>11. StartsAfterDeps'
  <2> SUFFICES ASSUME NEW x \in Tasks, state'[x] \in Started,
                      NEW p \in Predecessors(x)
               PROVE  state'[p] \in Settled
      BY <1>4 DEF StartsAfterDeps
  <2>1. p \in TaskIds /\ x \in TaskIds
      BY <1>4 DEF Predecessors
  <2>2. state[p] \in Settled
      BY <1>2, <1>8, <2>1, NoneLeft DEF IInv, StartsAfterDeps
  <2> QED BY <1>2, <2>1, <2>2 DEF Settled
<1>12. DegreeCovers'
  <2> SUFFICES ASSUME NEW d \in TaskIds
               PROVE  Owers(d)' \subseteq Owers(d)
      BY <1>1, FewerOwers DEF IInv, DegreeCovers, TaskIds
  <2>1. ASSUME NEW p \in TaskIds, Owes(p, d)' PROVE Owes(p, d)
      BY <1>0, <1>1, <1>2, <1>6, <1>7, <2>1 DEF Owes, Settled
  <2> QED BY <1>4, <2>1 DEF Owers, Predecessors
<1> QED BY <1>3, <1>5, <1>9, <1>10, <1>11, <1>12 DEF IInv

\* The steps from "run" or "body" to "count": the worker keeps its task, which
\* is over from now on.
LEMMA ToCountKeepsInv ==
    ASSUME IInv, NEW w \in Workers, RefuseRun(w) \/ EndRun(w)
    PROVE  IInv'
<1>0. PICK t \in TaskIds : t = nextTask[w]
    BY DEF IInv, TypeOK, RunTypeOK
<1>1. /\ pc[w] \in {"run", "body"} /\ main' = main /\ inDegree' = inDegree
      /\ ready' = ready /\ curId' = curId /\ adjList' = adjList
      /\ freed' = freed /\ todo' = todo /\ nextTask' = nextTask
    BY DEF RefuseRun, EndRun, graphVars, sharedVars, mainVars
<1>2. /\ state'[t] \in Settled
      /\ \A x \in TaskIds \ {t} : state'[x] = state[x]
      /\ \A v \in Workers : pc'[v] = IF v = w THEN "count" ELSE pc[v]
  <2>1. CASE RefuseRun(w)
    <3>1. Untouched(t)
        BY <1>0, <2>1 DEF RefuseRun, IInv, StateAtPlace
    <3> QED BY <1>0, <2>1, <3>1
            DEF RefuseRun, Goto, IInv, TypeOK, RunTypeOK, sharedVars, Untouched, Settled
  <2>2. CASE EndRun(w)
      BY <1>0, <2>2 DEF EndRun, Goto, IInv, TypeOK, RunTypeOK, Settled
  <2> QED BY <2>1, <2>2
<1>3. TypeOK'
    BY TypeRunOne DEF IInv, RunOne
<1>4. /\ Tasks' = Tasks /\ \A x : Predecessors(x)' = Predecessors(x)
      /\ Tasks \subseteq TaskIds
    BY <1>1, EdgesFixed, TasksAreIds DEF IInv, TypeOK
<1>5. NothingRunYet'
    BY <1>1, WorkersRun DEF NothingRunYet
<1>6. ASSUME NEW x PROVE Queued(x)' <=> Queued(x)
    BY <1>1, Zenon DEF Queued
<1>7. \A v \in Workers :
          /\ Pushing(v)' <=> Pushing(v)
          /\ Holding(v)' <=> Holding(v)
    BY <1>1, <1>2 DEF Pushing, Holding
<1>8. /\ Holding(w) /\ inDegree[t] = 0 /\ ~ Queued(t)
      /\ \A v \in Workers : Pushing(v) => freed[v] # t
      /\ \A v \in Workers : v # w /\ Holding(v) => nextTask[v] # t
    BY <1>0, <1>1 DEF IInv, OnePlace, Holding
<1>9. OnePlace' /\ ReleasesOwn'
    BY <1>1, <1>2, <1>6, <1>7 DEF IInv, OnePlace, ReleasesOwn
<1>10. StateAtPlace'
  <2>1. \A v \in Workers : nextTask[v] \in TaskIds /\ freed[v] \in TaskIds
      BY DEF IInv, TypeOK, RunTypeOK
  <2>2. \A x \in TaskIds : (inDegree'[x] > 0 \/ Queued(x)') => Untouched(x)'
      BY <1>1, <1>2, <1>6, <1>8 DEF IInv, StateAtPlace, Untouched
  <2> QED BY <1>0, <1>1, <1>2, <1>7, <1>8, <2>1, <2>2
          DEF IInv, StateAtPlace, Untouched, Holding
<1>11. StartsAfterDeps'
  <2> SUFFICES ASSUME NEW x \in Tasks, state'[x] \in Started,
                      NEW p \in Predecessors(x)
               PROVE  state'[p] \in Settled
      BY <1>4 DEF StartsAfterDeps
  <2>1. p \in TaskIds /\ x \in TaskIds
      BY <1>4 DEF Predecessors
  <2>2. state[p] \in Settled
    <3>1. CASE x = t
        BY <1>8, <3>1, NoneLeft
    <3>2. CASE x # t
        BY <1>2, <2>1, <3>2 DEF IInv, StartsAfterDeps
    <3> QED BY <3>1, <3>2
  <2> QED BY <1>2, <2>1, <2>2
<1>12. DegreeCovers'
  <2> SUFFICES ASSUME NEW d \in TaskIds
               PROVE  Owers(d)' \subseteq Owers(d)
      BY <1>1, FewerOwers DEF IInv, DegreeCovers, TaskIds
  <2>1. ASSUME NEW p \in TaskIds, Owes(p, d)' PROVE Owes(p, d)
      BY <1>0, <1>1, <1>2, <1>6, <1>7, <2>1 DEF Owes
  <2> QED BY <1>4, <2>1 DEF Owers, Predecessors
<1> QED BY <1>3, <1>5, <1>9, <1>10, <1>11, <1>12 DEF IInv

LEMMA CountKeepsInv ==
    ASSUME IInv, NEW w \in Workers, Count(w)
    PROVE  IInv'
<1>0. PICK t \in TaskIds : t = nextTask[w]
    BY DEF IInv, TypeOK, RunTypeOK
<1>1. /\ pc[w] = "count" /\ main' = main /\ inDegree' = inDegree
      /\ ready' = ready /\ curId' = curId /\ adjList' = adjList
      /\ freed' = freed /\ nextTask' = nextTask /\ state' = state
    BY DEF Count, graphVars, mainVars
<1>2. /\ \A v \in Workers : pc'[v] = IF v = w THEN "release" ELSE pc[v]
      /\ \A v \in Workers : todo'[v] = IF v = w THEN adjList[t] ELSE todo[v]
    BY <1>0 DEF Count, Goto, IInv, TypeOK, RunTypeOK
<1>3. TypeOK'
    BY TypeRunOne DEF IInv, RunOne
<1>4. Tasks' = Tasks /\ \A x : Predecessors(x)' = Predecessors(x)
    BY <1>1, EdgesFixed
<1>5. NothingRunYet'
    BY <1>1, WorkersRun DEF NothingRunYet
<1>6. ASSUME NEW x PROVE Queued(x)' <=> Queued(x)
    BY <1>1, Zenon DEF Queued
<1>7. \A v \in Workers :
          /\ Pushing(v)' <=> Pushing(v)
          /\ Holding(v)' <=> Holding(v)
    BY <1>1, <1>2 DEF Pushing, Holding
<1>8. OnePlace' /\ ReleasesOwn'
    BY <1>0, <1>1, <1>2, <1>6, <1>7 DEF IInv, OnePlace, ReleasesOwn
<1>9. StateAtPlace'
    BY <1>1, <1>2, <1>6, <1>7 DEF IInv, StateAtPlace, Untouched
<1>10. StartsAfterDeps'
    BY <1>1, <1>4 DEF IInv, StartsAfterDeps
<1>11. DegreeCovers'
  <2> SUFFICES ASSUME NEW d \in TaskIds
               PROVE  Owers(d)' \subseteq Owers(d)
      BY <1>1, FewerOwers DEF IInv, DegreeCovers, TaskIds
  <2>1. ASSUME NEW p, Owes(p, d)' PROVE Owes(p, d)
      BY <1>1, <1>2, <1>6, <1>7, <2>1 DEF Owes
  <2> QED BY <1>4, <2>1 DEF Owers
<1> QED BY <1>3, <1>5, <1>8, <1>9, <1>10, <1>11 DEF IInv

\* The heart of the matter: the worker's task t owes dep until this step and
\* not after it, so the in-degree may drop by one; and dep, whose in-degree was
\* positive, was in no place before.
LEMMA ReleaseKeepsInv ==
    ASSUME IInv, NEW w \in Workers, Release(w)
    PROVE  IInv'
<1>0. PICK t \in TaskIds : t = nextTask[w]
    BY DEF IInv, TypeOK, RunTypeOK
<1>1. /\ pc[w] = "release" /\ main' = main /\ ready' = ready /\ curId' = curId
      /\ adjList' = adjList /\ nextTask' = nextTask /\ state' = state
    BY DEF Release, sharedVars, mainVars
<1>2. PICK dep \in todo[w] :
          /\ inDegree' = [inDegree EXCEPT ![dep] = @ - 1]
          /\ todo' = [todo EXCEPT ![w] = @ \ {dep}]
          /\ \/ /\ inDegree[dep] = 1
                /\ pc' = [pc EXCEPT ![w] = "push"]
                /\ freed' = [freed EXCEPT ![w] = dep]
             \/ pc' = pc /\ freed' = freed
    BY DEF Release, Releases, Goto
<1>3. dep \in TaskIds /\ t \in Predecessors(dep) /\ inDegree[dep] \in Int
  <2>1. dep \in TaskIds /\ inDegree[dep] \in Int
      BY DEF IInv, TypeOK, RunTypeOK, GraphTypeOK
  <2>2. dep \in adjList[t]
      BY <1>0, <1>1, <1>2 DEF IInv, ReleasesOwn
  <2>3. t \in Tasks
      BY <2>2 DEF IInv, TypeOK, GraphTypeOK
  <2> QED BY <2>1, <2>2, <2>3 DEF Predecessors
<1>4. TypeOK'
    BY TypeRunOne DEF IInv, RunOne
<1>5. Tasks' = Tasks /\ \A x : Predecessors(x)' = Predecessors(x)
    BY <1>1, EdgesFixed
<1>6. NothingRunYet'
    BY <1>1, WorkersRun DEF NothingRunYet
<1>7. ASSUME NEW x PROVE Queued(x)' <=> Queued(x)
    BY <1>1, Zenon DEF Queued
<1>8. /\ IsFiniteSet(Owers(dep)) /\ Cardinality(Owers(dep)) \in Nat
      /\ Cardinality(Owers(dep)) <= inDegree[dep]
      /\ t \in Owers(dep)
  <2>1. Owes(t, dep)
      BY <1>0, <1>1, <1>2 DEF Owes
  <2> QED BY <1>3, <2>1, OwersFinite DEF IInv, TypeOK, DegreeCovers, Owers
<1>9. inDegree[dep] >= 1
    BY <1>3, <1>8, FS_EmptySet
<1>10. /\ Holding(w) /\ inDegree[t] = 0 /\ ~ Queued(t) /\ t # dep
       /\ state[t] \in Settled
       /\ \A v \in Workers : Pushing(v) => freed[v] # t
       /\ \A v \in Workers : v # w /\ Holding(v) => nextTask[v] # t
    BY <1>0, <1>1, <1>9 DEF IInv, OnePlace, StateAtPlace, Holding
<1>11. /\ ~ Queued(dep)
       /\ \A v \in Workers : Pushing(v) => freed[v] # dep
       /\ \A v \in Workers : Holding(v) => nextTask[v] # dep
    BY <1>9 DEF IInv, OnePlace, Queued
<1>12. \A x \in TaskIds :
           /\ inDegree[x] \in Int
           /\ inDegree'[x] = IF x = dep THEN inDegree[x] - 1 ELSE inDegree[x]
    BY <1>2, <1>3 DEF IInv, TypeOK, GraphTypeOK
<1>13. \A v \in Workers :
           /\ Holding(v)' <=> Holding(v)
           /\ v # w => /\ pc'[v] = pc[v] /\ freed'[v] = freed[v]
                       /\ todo'[v] = todo[v]
           /\ v # w => (Pushing(v)' <=> Pushing(v))
    BY <1>1, <1>2 DEF IInv, TypeOK, RunTypeOK, Pushing, Holding
<1>14. /\ pc'[w] \in {"release", "push"} /\ todo'[w] = todo[w] \ {dep} /\ ~ Pushing(w)
       /\ Pushing(w)' => freed'[w] = dep /\ inDegree[dep] = 1
    BY <1>1, <1>2 DEF IInv, TypeOK, RunTypeOK, Pushing
<1>15. \A v \in Workers : nextTask[v] \in TaskIds /\ freed[v] \in TaskIds
    BY DEF IInv, TypeOK, RunTypeOK
<1>16. OnePlace'
  <2>1. /\ \A i \in DOMAIN ready' : inDegree'[ready'[i]] = 0
        /\ \A i, j \in DOMAIN ready' : i # j => ready'[i] # ready'[j]
    <3>1. \A i \in DOMAIN ready : ready[i] \in TaskIds /\ ready[i] # dep
        BY <1>11 DEF IInv, TypeOK, RunTypeOK, Queued
    <3> QED BY <1>1, <1>12, <3>1 DEF IInv, OnePlace
  <2>2. \A v \in Workers : Pushing(v)' =>
            inDegree'[freed'[v]] = 0 /\ ~ Queued(freed'[v])
      BY <1>3, <1>11, <1>12, <1>13, <1>14, <1>15 DEF IInv, OnePlace
  <2>3. \A v \in Workers : Holding(v)' =>
            inDegree'[nextTask[v]] = 0 /\ ~ Queued(nextTask[v])
      BY <1>3, <1>11, <1>12, <1>13, <1>15 DEF IInv, OnePlace
  <2>4. \A u, v \in Workers : Pushing(u)' /\ Holding(v)' => freed'[u] # nextTask[v]
      BY <1>11, <1>13, <1>14 DEF IInv, OnePlace
  <2>5. \A u, v \in Workers : u # v =>
            /\ Pushing(u)' /\ Pushing(v)' => freed'[u] # freed'[v]
            /\ Holding(u)' /\ Holding(v)' => nextTask[u] # nextTask[v]
      BY <1>11, <1>13, <1>14 DEF IInv, OnePlace
  <2> QED BY <1>1, <1>7, <2>1, <2>2, <2>3, <2>4, <2>5 DEF OnePlace
<1>17. StateAtPlace'
  <2>1. \A x \in TaskIds : (inDegree'[x] > 0 \/ Queued(x)') => Untouched(x)'
      BY <1>1, <1>7, <1>12 DEF IInv, StateAtPlace, Untouched
  <2>2. \A v \in Workers : Pushing(v)' => Untouched(freed'[v])
      BY <1>3, <1>13, <1>14 DEF IInv, StateAtPlace
  <2> QED BY <1>0, <1>1, <1>10, <1>13, <1>14, <2>1, <2>2
          DEF IInv, StateAtPlace, Untouched
<1>18. ReleasesOwn'
    BY <1>1, <1>13, <1>14 DEF IInv, ReleasesOwn
<1>19. StartsAfterDeps'
    BY <1>1, <1>5 DEF IInv, StartsAfterDeps
<1>20. ASSUME NEW d \in TaskIds, NEW p \in TaskIds, Owes(p, d)' PROVE Owes(p, d)
    BY <1>1, <1>7, <1>9, <1>12, <1>13, <1>14, <1>20 DEF Owes
<1>21. ~ Owes(t, dep)'
    BY <1>0, <1>1, <1>7, <1>10, <1>12, <1>13, <1>14 DEF Owes, Holding, Pushing
<1>22. DegreeCovers'
  <2> SUFFICES ASSUME NEW d \in TaskIds
               PROVE  Cardinality(Owers(d)') <= inDegree'[d]
      BY DEF DegreeCovers, TaskIds
  <2>1. Owers(d)' \subseteq Owers(d)
      BY <1>5, <1>20, TasksAreIds DEF Owers, Predecessors, IInv, TypeOK
  <2>2. CASE d # dep
      BY <1>12, <2>1, <2>2, FewerOwers DEF IInv, DegreeCovers
  <2>3. CASE d = dep
    <3>1. Owers(dep)' \subseteq Owers(dep) \ {t}
        BY <1>21, <2>1, <2>3 DEF Owers
    <3>2. /\ IsFiniteSet(Owers(dep) \ {t})
          /\ Cardinality(Owers(dep) \ {t}) = Cardinality(Owers(dep)) - 1
        BY <1>8, FS_RemoveElement
    <3>3. /\ Cardinality(Owers(dep)') <= Cardinality(Owers(dep)) - 1
          /\ Cardinality(Owers(dep)') \in Nat
        BY <3>1, <3>2, FS_Subset, FS_CardinalityType
    <3> QED BY <1>3, <1>8, <1>12, <2>3, <3>3
  <2> QED BY <2>2, <2>3
<1> QED BY <1>4, <1>6, <1>16, <1>17, <1>18, <1>19, <1>22 DEF IInv

LEMMA PushKeepsInv ==
    ASSUME IInv, NEW w \in Workers, addReadyTask(w)
    PROVE  IInv'
<1>0. PICK x \in TaskIds : x = freed[w]
    BY DEF IInv, TypeOK, RunTypeOK
<1>1. /\ pc[w] = "push" /\ main' = main /\ inDegree' = inDegree
      /\ curId' = curId /\ adjList' = adjList /\ freed' = freed
      /\ nextTask' = nextTask /\ state' = state /\ todo' = todo
      /\ ready' = Append(ready, x)
    BY <1>0 DEF addReadyTask, graphVars, mainVars
<1>2. \A v \in Workers : pc'[v] = IF v = w THEN "release" ELSE pc[v]
    BY DEF addReadyTask, Goto, IInv, TypeOK, RunTypeOK
<1>3. TypeOK'
    BY TypeRunOne DEF IInv, RunOne
<1>4. Tasks' = Tasks /\ \A y : Predecessors(y)' = Predecessors(y)
    BY <1>1, EdgesFixed
<1>5. NothingRunYet'
    BY <1>1, WorkersRun DEF NothingRunYet
<1>6. \A i \in DOMAIN ready' :
          \/ i \in DOMAIN ready /\ ready'[i] = ready[i]
          \/ i = Len(ready) + 1 /\ ready'[i] = x
    BY <1>1 DEF IInv, TypeOK, RunTypeOK
<1>7. ASSUME NEW y, Queued(y)' PROVE Queued(y) \/ y = x
    BY <1>6, <1>7 DEF Queued
<1>8. /\ Pushing(w) /\ Holding(w) /\ inDegree[x] = 0 /\ ~ Queued(x) /\ Untouched(x)
      /\ \A v \in Workers : Holding(v) => nextTask[v] # x
      /\ \A v \in Workers : v # w /\ Pushing(v) => freed[v] # x
    BY <1>0, <1>1 DEF IInv, OnePlace, StateAtPlace, Pushing, Holding
<1>9. \A v \in Workers :
          /\ Pushing(v)' => Pushing(v) /\ v # w
          /\ Holding(v)' <=> Holding(v)
    BY <1>1, <1>2 DEF Pushing, Holding
<1>10. OnePlace'
  <2>1. \A i \in DOMAIN ready' : inDegree[ready'[i]] = 0
      BY <1>6, <1>8 DEF IInv, OnePlace
  <2>2. \A i, j \in DOMAIN ready' : i # j => ready'[i] # ready'[j]
      BY <1>6, <1>8 DEF IInv, OnePlace, Queued
  <2> QED BY <1>1, <1>7, <1>8, <1>9, <2>1, <2>2 DEF IInv, OnePlace
<1>11. StateAtPlace'
    BY <1>1, <1>2, <1>7, <1>8, <1>9 DEF IInv, StateAtPlace, Untouched
<1>12. ReleasesOwn'
    BY <1>1, <1>2 DEF IInv, ReleasesOwn
<1>13. StartsAfterDeps'
    BY <1>1, <1>4 DEF IInv, StartsAfterDeps
<1>14. DegreeCovers'
  <2> SUFFICES ASSUME NEW d \in TaskIds
               PROVE  Owers(d)' \subseteq Owers(d)
      BY <1>1, FewerOwers DEF IInv, DegreeCovers, TaskIds
  <2>1. ASSUME NEW p, Owes(p, d)' PROVE Owes(p, d)
      BY <1>0, <1>1, <1>2, <1>7, <1>8, <1>9, <2>1 DEF Owes
  <2> QED BY <1>4, <2>1 DEF Owers
<1> QED BY <1>3, <1>5, <1>10, <1>11, <1>12, <1>13, <1>14 DEF IInv

-----------------------------------------------------------------------------
(* All other steps are quiet.                                               *)

LEMMA OthersAreQuiet ==
    ASSUME IInv, NEW w \in Workers,
           \/ Lock(w) \/ CheckPredicate(w) \/ Block(w) \/ Wake(w) \/ Exit(w)
           \/ PopEmpty(w) \/ EndRelease(w) \/ Succeed(w) \/ BeginSkip(w)
           \/ Tally(w) \/ NotifySkipped(w) \/ NotifyLast(w)
    PROVE  Quiet
<1>1. /\ UNCHANGED <<graphVars, ready, state, main, nextTask, freed>>
      /\ pc[w] # "idle"
      /\ \E l \in Labels \ {"run", "body", "count", "release", "push"} :
             pc' = [pc EXCEPT ![w] = l]
      /\ \A v \in Workers \ {w} : todo'[v] = todo[v]
    BY DEF Lock, CheckPredicate, Block, Wake, Exit, PopEmpty, EndRelease, Succeed,
           BeginSkip, Tally, NotifySkipped, NotifyLast, Goto, Labels, sharedVars,
           mainVars, IInv, TypeOK, RunTypeOK
<1>2. NothingRunYet'
    BY <1>1, WorkersRun DEF NothingRunYet
<1>3. \A v \in Workers : Holding(v)' => v # w /\ pc'[v] = pc[v]
    BY <1>1 DEF Holding, IInv, TypeOK, RunTypeOK
<1> QED BY <1>1, <1>2, <1>3 DEF Quiet

LEMMA SkipIsQuiet ==
    ASSUME IInv, NEW w \in Workers, Skip(w)
    PROVE  Quiet
<1>1. /\ UNCHANGED <<graphVars, ready, main, nextTask, freed, pc>>
      /\ pc[w] = "skip"
      /\ \A v \in Workers \ {w} : todo'[v] = todo[v]
    BY DEF Skip, mainVars, IInv, TypeOK, RunTypeOK
<1>2. \A t \in TaskIds :
          \/ state'[t] = state[t]
          \/ state[t] = "Pending" /\ state'[t] = "Skipped"
    BY DEF Skip, Skippable, IInv, TypeOK, RunTypeOK
<1>3. NothingRunYet'
    BY <1>1, WorkersRun DEF NothingRunYet
<1> QED BY <1>1, <1>2, <1>3 DEF Quiet, Holding

LEMMA MainIsQuiet ==
    ASSUME IInv, RunNothing \/ RollBall \/ JoinWorkers \/ UNCHANGED vars
                 \/ \E w \in Workers : SpuriousWakeup(w)
    PROVE  Quiet
<1>1. /\ UNCHANGED <<graphVars, ready, state, localVars>>
      /\ main' = main \/ main' # "building"
    BY DEF RunNothing, RollBall, JoinWorkers, SpuriousWakeup, vars, sharedVars,
           mainVars
<1>2. NothingRunYet'
    BY <1>1 DEF IInv, NothingRunYet, localVars
<1> QED BY <1>1, <1>2 DEF Quiet, localVars

LEMMA IInvInit == Init => IInv
<1> SUFFICES ASSUME Init PROVE IInv
    OBVIOUS
<1>1. TypeOK
    BY TypeInit
<1>2. /\ Tasks = {}
      /\ \A w \in Workers : pc[w] = "idle"
      /\ ready = <<>>
      /\ \A t \in TaskIds : state[t] = "Pending" /\ inDegree[t] = 0
    BY DEF Init, GraphInit, RunInit, Tasks
<1>3. NothingRunYet /\ OnePlace /\ ReleasesOwn /\ StartsAfterDeps
    BY <1>2 DEF NothingRunYet, OnePlace, ReleasesOwn, StartsAfterDeps, Pushing, Holding
<1>4. StateAtPlace
    BY <1>2 DEF StateAtPlace, Untouched, Pushing, Queued
<1>5. DegreeCovers
  <2>1. \A d : Owers(d) = {}
      BY <1>2 DEF Owers, Predecessors
  <2>2. \A d \in TaskIds : Cardinality(Owers(d)) = 0
      BY <2>1, FS_EmptySet
  <2>3. \A d \in TaskIds : inDegree[d] = 0
      BY <1>2
  <2> HIDE DEF Owers
  <2> QED BY <2>2, <2>3 DEF DegreeCovers
<1> QED BY <1>1, <1>3, <1>4, <1>5 DEF IInv

LEMMA NextKeepsInv == IInv /\ [Next]_vars => IInv'
<1> SUFFICES ASSUME IInv, [Next]_vars PROVE IInv'
    OBVIOUS
<1>1. TypeOK'
  <2>1. TypeOK
      BY DEF IInv
  <2>2. CASE Build \/ Main
      BY <2>1, <2>2, TypeMain
  <2>3. ASSUME NEW w \in Workers, Worker(w) \/ SpuriousWakeup(w)
        PROVE  TypeOK'
      BY <2>1, <2>3, TypeWait, TypeRunOne, TypeSkipBelow DEF Worker
  <2>4. CASE UNCHANGED vars
      BY <2>1, <2>4, GraphTypeUnchanged
      DEF TypeOK, RunTypeOK, vars, sharedVars, mainVars, localVars
  <2> QED BY <2>2, <2>3, <2>4 DEF Next
<1>2. CASE Build
    BY <1>2, BuildKeepsInv
<1>3. CASE StartWorkers
    BY <1>3, StartKeepsInv
<1>4. CASE RunNothing \/ RollBall \/ JoinWorkers \/ UNCHANGED vars
    BY <1>1, <1>4, MainIsQuiet, QuietKeepsInv
<1>5. ASSUME NEW w \in Workers, Worker(w) \/ SpuriousWakeup(w)
      PROVE  IInv'
  <2>1. CASE Pop(w)
      BY <2>1, PopKeepsInv
  <2>2. CASE BeginRun(w)
      BY <2>2, BeginRunKeepsInv
  <2>3. CASE RefuseRun(w) \/ EndRun(w)
      BY <2>3, ToCountKeepsInv
  <2>4. CASE Count(w)
      BY <2>4, CountKeepsInv
  <2>5. CASE Release(w)
      BY <2>5, ReleaseKeepsInv
  <2>6. CASE addReadyTask(w)
      BY <2>6, PushKeepsInv
  <2>7. CASE Skip(w)
      BY <1>1, <2>7, SkipIsQuiet, QuietKeepsInv
  <2>8. CASE SpuriousWakeup(w)
      BY <1>1, <2>8, MainIsQuiet, QuietKeepsInv
  <2>9. CASE \/ Lock(w) \/ CheckPredicate(w) \/ Block(w) \/ Wake(w) \/ Exit(w)
             \/ PopEmpty(w) \/ EndRelease(w) \/ Succeed(w) \/ BeginSkip(w)
             \/ Tally(w) \/ NotifySkipped(w) \/ NotifyLast(w)
      BY <1>1, <2>9, OthersAreQuiet, QuietKeepsInv
  <2> QED BY <1>5, <2>1, <2>2, <2>3, <2>4, <2>5, <2>6, <2>7, <2>8, <2>9
          DEF Worker, Wait, RunOne, SkipBelow
<1> QED BY <1>2, <1>3, <1>4, <1>5 DEF Next, Main

\* The inductive invariant holds in every reachable state: what the queue, the
\* in-degrees and the completion mark of a task say about its place in a run.
THEOREM InductiveInvariant == Spec => []IInv
BY IInvInit, NextKeepsInv, PTL DEF Spec

\* Dependency order, for every graph, pool and outcome: no callback starts
\* while a task it depends on is still to run or running.
THEOREM DependencyOrder == Spec => []StartsAfterDeps
<1>1. IInv => StartsAfterDeps
    BY DEF IInv
<1> QED BY <1>1, InductiveInvariant, PTL

\* No task is queued twice: Task::Run never finds its task running or over.
THEOREM NeverRefused == Spec => []RunNotRefused
<1>1. IInv => RunNotRefused
    BY DEF IInv, StateAtPlace, RunNotRefused, Untouched
<1> QED BY <1>1, InductiveInvariant, PTL

=============================================================================
