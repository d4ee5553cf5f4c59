--------------------------- MODULE TaskGraphSearch ---------------------------
(***************************************************************************)
(* The graph searches of src/source/Task.cxx written out step by step, for  *)
(* comparison with what TaskGraph says they compute and with the closure    *)
(* the community module Graphs calculates.                                  *)
(***************************************************************************)
EXTENDS TaskGraph, Sequences
LOCAL INSTANCE SequencesExt
Ref == INSTANCE Graphs

Ascending(S) == SetToSortSeq(S, <)

-----------------------------------------------------------------------------
RECURSIVE SearchFrom(_, _, _)

\* Mutant: only the tasks first found are ever searched.
SearchFrom_Shallow(dest, pending, visited) ==
    /\ pending # <<>>
    /\ \/ dest \in adjList[Head(pending)]
       \/ SearchFrom(dest, Tail(pending), visited)

SearchFrom(dest, pending, visited) ==
    /\ pending # <<>>
    /\ LET next == adjList[Head(pending)]
           new  == next \ visited
       IN  \/ dest \in next
           \/ SearchFrom(dest, Tail(pending) \o Ascending(new), visited \cup new)

\* Mutant: the arguments are swapped.
pathExistsBfs_Swapped(src, dest) == src = dest \/ SearchFrom(src, <<dest>>, {dest})

pathExistsBfs(src, dest) == src = dest \/ SearchFrom(dest, <<src>>, {src})

RECURSIVE CollectFrom(_, _, _)

CollectFrom(pending, visited, descendants) ==
    IF pending = <<>> THEN descendants
    ELSE LET new == adjList[Head(pending)] \ visited
         IN  CollectFrom(Tail(pending) \o Ascending(new), visited \cup new,
                         Append(descendants, Head(pending)))

getDescendantsBfs(t) == CollectFrom(<<t>>, {t}, <<>>)

\* Kahn's algorithm: a task joins the queue when its last predecessor left it.
RECURSIVE Kahn(_, _, _)

Kahn(topoQueue, topoInDegree, sorted) ==
    IF topoQueue = <<>> THEN sorted
    ELSE LET task  == Head(topoQueue)
             deps  == adjList[task]
             deg   == [t \in Tasks |->
                         topoInDegree[t] - (IF t \in deps THEN 1 ELSE 0)]
             freed == {t \in deps : deg[t] = 0}
         IN  Kahn(Tail(topoQueue) \o Ascending(freed), deg, Append(sorted, task))

sortedTasks ==
    Kahn(Ascending({t \in Tasks : inDegree[t] = 0}),
         [t \in Tasks |-> inDegree[t]], <<>>)

topoSort == Len(sortedTasks) = curId

-----------------------------------------------------------------------------
Digraph == [node |-> Tasks,
            edge |-> {e \in Tasks \X Tasks : e[2] \in adjList[e[1]]}]

Connected == Ref!ConnectionsIn(Digraph)

\* AddDependency refuses a new edge only when the edge would close a cycle, so
\* no legal graph is out of reach.
RefusesOnlyCycles ==
    \A src, dest \in Tasks :
        pathExistsBfs(src, dest) =>
            Ref!HasCycle([Digraph EXCEPT !.edge = @ \cup {<<dest, src>>}])

\* On every graph the calls can build, the searches compute what the rest of
\* the model says.  The one behind AddDependency's cycle test answers
\* reachability, the empty path included.  skipDescendants visits every task
\* below the failed one exactly once: each visit may add one to the completion
\* count.  RunTasks never answers "cycle detected": the sort always places every
\* task, each after all it depends on.
SearchesCorrect ==
    /\ \A s, d \in Tasks :
          /\ pathExistsBfs(s, d) <=> (s = d \/ Connected[s, d])
          /\ pathExists(s, d) <=> pathExistsBfs(s, d)
    /\ \A t \in Tasks :
          /\ IsInjective(getDescendantsBfs(t))
          /\ ToSet(getDescendantsBfs(t)) = {d \in Tasks : d = t \/ Connected[t, d]}
          /\ ToSet(getDescendantsBfs(t)) = getDescendants(t)
    /\ topoSort
    /\ \A i, j \in DOMAIN sortedTasks :
          sortedTasks[j] \in adjList[sortedTasks[i]] => i < j

=============================================================================
