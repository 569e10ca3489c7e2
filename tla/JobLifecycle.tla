---------------------------- MODULE JobLifecycle ----------------------------
(***************************************************************************)
(* What generation_jobs promises to those who read it: a job is generated, *)
(* offered for persisting, taken by an uploader and ends once.  A cancel   *)
(* may be deferred and withdrawn only while the job is generating, and     *)
(* what was offered stays on the row.                                      *)
(***************************************************************************)

VARIABLES
    st,       \* generation_jobs.status
    offered,  \* resultJson says what is to be persisted
    final     \* resultJson says where it was persisted

vars == <<st, offered, final>>

Ended == {"succeeded", "failed", "cancelled"}
Generating == {"generating", "cancelling"}

Init == st = "generating" /\ offered = FALSE /\ final = FALSE

DeferCancel == st = "generating" /\ st' = "cancelling" /\ UNCHANGED <<offered, final>>

WithdrawCancel == st = "cancelling" /\ st' = "generating" /\ UNCHANGED <<offered, final>>

Offer == st \in Generating /\ st' = "ready_to_persist" /\ offered' = TRUE
         /\ UNCHANGED final

Take == st = "ready_to_persist" /\ st' = "uploading" /\ UNCHANGED <<offered, final>>

Succeed == st \in {"ready_to_persist", "uploading"} /\ st' = "succeeded"
           /\ final' = TRUE /\ UNCHANGED offered

Fail == st \in Generating \cup {"uploading"} /\ st' = "failed"
        /\ UNCHANGED <<offered, final>>

Cancel == st \notin Ended /\ st' = "cancelled" /\ UNCHANGED <<offered, final>>

Next == DeferCancel \/ WithdrawCancel \/ Offer \/ Take \/ Succeed \/ Fail \/ Cancel

Spec == Init /\ [][Next]_vars
=============================================================================
