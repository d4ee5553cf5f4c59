---------------------------- MODULE TaskSchedule ----------------------------
(***************************************************************************)
(* What a task graph promises its caller, without threads, queues or        *)
(* counts: tasks run in dependency order, each at most once; only what is   *)
(* below a failure is skipped; the answer is true when everything ran and   *)
(* succeeded.  It does not promise that every task runs, nor that a         *)
(* dependent of a failed task does not: the code gives neither.             *)
(***************************************************************************)
EXTENDS Integers

CONSTANT MaxTasks

VARIABLES curId, adjList, state, main, result

vars == <<curId, adjList, state, main, result>>

TaskIds == 0 .. MaxTasks - 1
Tasks   == 0 .. curId - 1
Over    == {"Finished", "Skipped", "Failed"}

Init ==
    /\ curId = 0
    /\ adjList = [t \in TaskIds |-> {}]
    /\ state = [t \in TaskIds |-> "Pending"]
    /\ main = "building"
    /\ result = FALSE

\* The caller adds tasks and edges.
Build ==
    /\ main = "building"
    /\ curId' \in curId .. MaxTasks
    /\ adjList' \in [TaskIds -> SUBSET (0 .. curId' - 1)]
    /\ \A t \in TaskIds : adjList[t] \subseteq adjList'[t]
    /\ UNCHANGED <<state, main, result>>

Launch ==
    /\ <<main, main'>> \in {<<"building", "started">>, <<"started", "joining">>}
    /\ UNCHANGED <<curId, adjList, state, result>>

Become(t, s) ==
    /\ main \in {"started", "joining"}
    /\ state' = [state EXCEPT ![t] = s]
    /\ UNCHANGED <<curId, adjList, main, result>>

Start(t) ==
    /\ state[t] = "Pending"
    /\ \A p \in Tasks : t \in adjList[p] => state[p] \in Over
    /\ Become(t, "Running")

End(t) ==
    /\ state[t] = "Running"
    /\ Become(t, "Finished") \/ Become(t, "Failed")

\* Every set that holds the failed task and is closed under "depends on"
\* holds t: t is below the failure.
Below(failed, t) ==
    \A S \in SUBSET Tasks :
        (failed \in S /\ \A u \in S : adjList[u] \subseteq S) => t \in S

SkipTask(t) ==
    /\ state[t] = "Pending"
    /\ \E p \in Tasks : state[p] = "Failed" /\ Below(p, t)
    /\ Become(t, "Skipped")

Return ==
    /\ \A t \in Tasks : state[t] # "Running"
    /\ main' = "returned"
    /\ result' = \A t \in Tasks : state[t] = "Finished"
    /\ \/ main = "building" /\ curId = 0
       \/ main = "joining"
    /\ UNCHANGED <<curId, adjList, state>>

Next ==
    \/ Build \/ Launch \/ Return
    \/ \E t \in Tasks : Start(t) \/ End(t) \/ SkipTask(t)

Spec == Init /\ [][Next]_vars

=============================================================================
