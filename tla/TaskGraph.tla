------------------------------ MODULE TaskGraph ------------------------------
(***************************************************************************)
(* The dependency graph a TaskGraph object holds while a caller builds it   *)
(* with AddTask and AddDependency (src/source/Task.cxx).                    *)
(*                                                                          *)
(* An adjacency list is a set here: the order of its entries is abstracted, *)
(* and whoever iterates over one takes its entries in any order.  The       *)
(* breadth-first searches of the code are stated by what they compute;      *)
(* TaskGraphSearch writes them out and compares the two.                    *)
(***************************************************************************)
EXTENDS Integers, FiniteSets

CONSTANTS MaxTasks,    \* bound: how many times AddTask is called
          MaxPreds     \* bound: how many dependencies one task is given

ASSUME BoundsAssumption == MaxTasks \in Nat \ {0} /\ MaxPreds \in Nat

VARIABLES curId,       \* number of tasks added; the next id to hand out
          adjList,     \* adjList[d]: the tasks that depend on d
          inDegree     \* inDegree[t]: how many dependencies t still has

graphVars == <<curId, adjList, inDegree>>

TaskIds == 0 .. MaxTasks - 1

\* tasks.size() equals curId, so the tasks in the graph are the ids below it.
Tasks == 0 .. curId - 1

\* Mutant: any id passes.
taskExists_Unbounded(t) == t \in TaskIds

taskExists(t) == t \in Tasks

Predecessors(t) == {p \in Tasks : t \in adjList[p]}

-----------------------------------------------------------------------------
\* A set of tasks no edge leaves.
Closed(S) == \A u \in S : adjList[u] \subseteq S

\* dest lies in every closed set around src: there is a path from src to it.
pathExists(src, dest) ==
    \A S \in SUBSET Tasks : (src \in S /\ Closed(S)) => dest \in S

\* Mutant: only direct dependents are found.
getDescendants_Direct(t) == {t} \cup adjList[t]

\* The task itself is the first of its descendants.
getDescendants(t) == {d \in Tasks : pathExists(t, d)}

-----------------------------------------------------------------------------
GraphInit ==
    /\ curId = 0
    /\ adjList = [t \in TaskIds |-> {}]
    /\ inDegree = [t \in TaskIds |-> 0]

AddTask ==
    /\ curId < MaxTasks
    /\ curId' = curId + 1
    /\ UNCHANGED <<adjList, inDegree>>

\* Mutant: a repeated edge is counted again.
NewEdge_Unchecked(src, dest) == TRUE

NewEdge(src, dest) == src \notin adjList[dest]

\* Mutant: only a direct edge is looked for.
ClosesCycle_Direct(src, dest) == src = dest \/ dest \in adjList[src]

\* dest depends on src already, itself or through others.
ClosesCycle(src, dest) == pathExists(src, dest)

\* src is made to depend on dest.  A call that fails a guard returns without
\* touching the graph, so only the accepted one is a step.
AddDependency(src, dest) ==
    /\ taskExists(src)
    /\ taskExists(dest)
    /\ NewEdge(src, dest)
    /\ ~ ClosesCycle(src, dest)
    /\ Cardinality(Predecessors(src)) < MaxPreds
    /\ adjList' = [adjList EXCEPT ![dest] = @ \cup {src}]
    /\ inDegree' = [inDegree EXCEPT ![src] = @ + 1]
    /\ UNCHANGED curId

GraphNext == AddTask \/ \E src, dest \in TaskIds : AddDependency(src, dest)

GraphSpec == GraphInit /\ [][GraphNext]_graphVars

-----------------------------------------------------------------------------
\* Types: edges join existing tasks only, so an id that was never handed out
\* has no dependents.
GraphTypeOK ==
    /\ curId \in 0 .. MaxTasks
    /\ adjList \in [TaskIds -> SUBSET Tasks]
    /\ inDegree \in [TaskIds -> Int]
    /\ \A t \in TaskIds \ Tasks : adjList[t] = {}

\* "Reject edges that would create cycles so the graph remains a DAG": no
\* sequence of AddDependency calls closes a cycle, however long (RunTasks
\* would refuse such a graph, and a worker would wait for it for ever).
Acyclic ==
    \A u \in Tasks : \A v \in adjList[u] : ~ pathExists(v, u)

\* The counter RunTasks counts down is the number of edges into the task: a
\* repeated dependency is not counted twice and a refused one not at all.
InDegreeExact ==
    \A t \in TaskIds : inDegree[t] = Cardinality(Predecessors(t))

=============================================================================
