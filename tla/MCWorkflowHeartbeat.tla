------------------------ MODULE MCWorkflowHeartbeat ------------------------
(* Small instances of WorkflowHeartbeat for TLC.                           *)
EXTENDS WorkflowHeartbeat

Nodes3 == 1..3
OneOutput == {"x"}
Edge(a, b) == [from |-> a, to |-> b, out |-> "x"]

\* A chain with a bypass, and a join.
SmallGraphs == {{Edge(1, 2), Edge(2, 3), Edge(1, 3)}, {Edge(1, 3), Edge(2, 3)}}
OneOrTwo == {{1}, {1, 2}}
=============================================================================
