------------------------------ MODULE MCTaskRun ------------------------------
\* Instances of TaskRun: the threads are interchangeable.
EXTENDS TaskRunInv, TLC

WorkerSymmetry == Permutations(Workers)

=============================================================================
