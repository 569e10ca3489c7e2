------------------------ MODULE MCPersistWorkerPool ------------------------
(* Small instances of PersistWorkerPool for TLC.                           *)
EXTENDS PersistWorkerPool, TLC

\* Workers, jobs and call slots are each interchangeable.
PoolSymmetry == Permutations(Workers) \cup Permutations(Jobs) \cup Permutations(Calls)
=============================================================================
