------------------------------ MODULE Dataflow ------------------------------
(***************************************************************************)
(* What a run of a workflow promises, whatever schedules it: a node starts *)
(* when every node it takes input from has settled, it settles once, it is *)
(* skipped exactly when none of its inputs can carry a value, and a run is *)
(* reported completed only if no node failed.                              *)
(***************************************************************************)
CONSTANTS
    Nodes,      \* nodes of the workflow
    Outputs,    \* named outputs a node may fill
    Graphs      \* workflows: sets of edges [from, to, out], without a cycle

VARIABLES
    edges,      \* the workflow of this run
    phase,      \* of each node
    outs,       \* outputs an executed node filled
    verdict     \* how the run ended

Ended == {"executed", "skipped", "failed"}

Init ==
    /\ edges \in Graphs
    /\ phase = [n \in Nodes |-> "waiting"]
    /\ outs = [n \in Nodes |-> {}]
    /\ verdict = "executing"

Inbound(n) == {e \in edges : e.to = n}
Carries(e) == phase[e.from] = "executed" /\ e.out \in outs[e.from]
Cut(n) == Inbound(n) # {} /\ \A e \in Inbound(n) : ~Carries(e)

\* What may become of a node in one step.
Moves(n) ==
    \/ /\ phase[n] = "waiting"
       /\ \A e \in Inbound(n) : phase[e.from] \in Ended
       /\ IF Cut(n) THEN phase'[n] = "skipped"
                    ELSE phase'[n] \in {"running", "executed", "failed"}
    \/ /\ phase[n] = "running"
       /\ phase'[n] \in {"executed", "failed"}

Step ==
    /\ phase' \in [Nodes -> Ended \cup {"waiting", "running"}]
    /\ outs' \in [Nodes -> SUBSET Outputs]
    /\ \A n \in Nodes : phase'[n] # phase[n] => Moves(n)
    /\ \A n \in Nodes : outs'[n] # outs[n] => phase[n] # "executed" /\ phase'[n] = "executed"
    /\ UNCHANGED <<edges, verdict>>

End ==
    /\ verdict' \in {"completed", "error"}
    /\ verdict' = "completed" => \A n \in Nodes : phase[n] \in {"executed", "skipped"}
    /\ UNCHANGED <<edges, phase, outs>>

Next == verdict = "executing" /\ (Step \/ End)

Spec == Init /\ [][Next]_<<edges, phase, outs, verdict>>
=============================================================================
