--------------------------- MODULE CanvasImageJob ---------------------------
(***************************************************************************)
(* The image jobs of one canvas node.  POST /ai-image/generate looks for a *)
(* job of the same client request and for an active job of the node,       *)
(* creates the placeholder, the row and the invocation, answers, and then  *)
(* runs one upstream call in the background.  Users cancel and the browser *)
(* completes uploads meanwhile.  As in GenerationJob every database call   *)
(* is a step, and updateGenerationJob returns the current row also when    *)
(* its UPDATE matched nothing.                                             *)
(***************************************************************************)
CONSTANTS
    Submissions,   \* requests to generate; the job a request creates has its name
    ClientIds,     \* clientRequestId values
    Callers        \* slots for concurrent cancel and completion requests

VARIABLES
    req,      \* each submission's clientRequestId and storage mode: [id, storage]
    job,      \* status of its row, "none" before the insert
    media,    \* catalog entry of its placeholder
    inv,      \* its invocation record
    sub,      \* where the submission is
    run,      \* where its background run is: [pc, row]
    rq,       \* where each caller is: [pc, of, row]
    calm      \* no database call has thrown and the API process has not died

vars == <<req, job, media, inv, sub, run, rq, calm>>

-----------------------------------------------------------------------------
Ended == {"succeeded", "failed", "cancelled"}
Active == {"generating", "ready_to_persist"}
Row == {"none"} \cup Active \cup Ended

\* "cloud": persisted by the browser; "ephemeral": not at all.
Request == [id : ClientIds, storage : {"cloud", "ephemeral"}]
Entry == {"none", "generating", "image", "cloud", "failed"}
Invocation == {"none", "pending", "completed", "failed", "cancelled"}
SubmitLabels == {"look", "guard", "check", "register", "insert", "record", "done"}
RunLabels == {"off", "call", "failMark", "failCas", "failClose", "publish", "cas",
              "read", "close", "sync"}
CallLabels == {"cancelCas", "cancelRead", "cancelMark", "completeCas",
               "completeRead", "register", "sync"}

Off == [pc |-> "off", row |-> "none"]
Idle == [pc |-> "idle"]

TypeOK ==
    /\ req \in [Submissions -> Request]
    /\ job \in [Submissions -> Row]
    /\ media \in [Submissions -> Entry]
    /\ inv \in [Submissions -> Invocation]
    /\ sub \in [Submissions -> SubmitLabels]
    /\ run \in [Submissions -> [pc : RunLabels, row : Row]]
    /\ rq \in [Callers -> {Idle} \cup [pc : CallLabels, of : Submissions, row : Row]]
    /\ calm \in BOOLEAN

Init ==
    /\ req \in [Submissions -> Request]
    /\ job = [s \in Submissions |-> "none"]
    /\ media = [s \in Submissions |-> "none"]
    /\ inv = [s \in Submissions |-> "none"]
    /\ sub = [s \in Submissions |-> "look"]
    /\ run = [s \in Submissions |-> Off]
    /\ rq = [p \in Callers |-> Idle]
    /\ calm = TRUE

Set(f, s, value) == [f EXCEPT ![s] = value]

\* updateGenerationJob with its expected statuses.
Update(s, expected, status) == job' = IF job[s] \in expected THEN Set(job, s, status) ELSE job

\* syncGenerationJobInvocation of a row that was read as `row`.
Synced(s, row) ==
    IF row = "succeeded" /\ inv[s] = "pending" THEN Set(inv, s, "completed")
    ELSE IF row \in {"failed", "cancelled"} /\ inv[s] # "none" THEN Set(inv, s, row)
    ELSE inv

-----------------------------------------------------------------------------
(* The submission.                                                         *)

SubmitAt(s, here, next) == sub[s] = here /\ sub' = Set(sub, s, next)

\* A retry is answered with the job of the first request.
LookUp(s) ==
    /\ SubmitAt(s, "look", IF \E t \in Submissions : job[t] # "none" /\ req[t].id = req[s].id
                           THEN "done" ELSE "guard")
    /\ UNCHANGED <<req, job, media, inv, run, rq, calm>>

\* One active job of the node is read, if there is any: 409 unless it is the
\* same request's.
Guard(s) ==
    /\ LET active == {t \in Submissions : job[t] \in Active} IN
       \/ /\ active = {} \/ \E t \in active : req[t].id = req[s].id
          /\ SubmitAt(s, "guard", "check")
       \/ (\E t \in active : req[t].id # req[s].id) /\ SubmitAt(s, "guard", "done")
    /\ UNCHANGED <<req, job, media, inv, run, rq, calm>>

\* Storage gate, model and interface: the request goes on or is refused.
Check(s) ==
    /\ SubmitAt(s, "check", "register") \/ SubmitAt(s, "check", "done")
    /\ UNCHANGED <<req, job, media, inv, run, rq, calm>>

RegisterPlaceholder(s) ==
    /\ SubmitAt(s, "register", "insert")
    /\ media' = Set(media, s, "generating")
    /\ UNCHANGED <<req, job, inv, run, rq, calm>>

\* The unique index on the client request id lets one of two retries in.
InsertJob(s) ==
    /\ IF \E t \in Submissions : job[t] # "none" /\ req[t].id = req[s].id
       THEN SubmitAt(s, "insert", "done") /\ UNCHANGED job
       ELSE SubmitAt(s, "insert", "record") /\ job' = Set(job, s, "generating")
    /\ UNCHANGED <<req, media, inv, run, rq, calm>>

RecordInvocation(s) ==
    /\ SubmitAt(s, "record", "done")
    /\ inv' = Set(inv, s, "pending")
    /\ run' = Set(run, s, [pc |-> "call", row |-> "none"])
    /\ UNCHANGED <<req, job, media, rq, calm>>

Submit(s) == \/ LookUp(s) \/ Guard(s) \/ Check(s) \/ RegisterPlaceholder(s)
             \/ InsertJob(s) \/ RecordInvocation(s)

-----------------------------------------------------------------------------
(* The background run.                                                     *)

RunAt(s, here, next) == run[s].pc = here /\ run' = [run EXCEPT ![s].pc = next]

\* With a bug: a failed call goes straight to the row.
AnsweredUnmarked(s) ==
    /\ RunAt(s, "call", "publish") \/ RunAt(s, "call", "failCas")
    /\ UNCHANGED <<req, job, media, inv, sub, rq, calm>>

Answered(s) ==
    /\ RunAt(s, "call", "publish") \/ RunAt(s, "call", "failMark")
    /\ UNCHANGED <<req, job, media, inv, sub, rq, calm>>

FailMark(s) ==
    /\ RunAt(s, "failMark", "failCas")
    /\ media' = Set(media, s, "failed")
    /\ UNCHANGED <<req, job, inv, sub, rq, calm>>

\* With a bug: the row is failed whatever its status is.
FailAnyStatus(s) ==
    /\ RunAt(s, "failCas", "failClose")
    /\ Update(s, Row, "failed")
    /\ UNCHANGED <<req, media, inv, sub, rq, calm>>

FailCas(s) ==
    /\ RunAt(s, "failCas", "failClose")
    /\ Update(s, {"generating"}, "failed")
    /\ UNCHANGED <<req, media, inv, sub, rq, calm>>

\* By its id, and whatever its status is.
FailClose(s) ==
    /\ RunAt(s, "failClose", "off")
    /\ inv' = Set(inv, s, "failed")
    /\ UNCHANGED <<req, job, media, sub, rq, calm>>

Publish(s) ==
    /\ RunAt(s, "publish", "cas")
    /\ media' = Set(media, s, "image")
    /\ UNCHANGED <<req, job, inv, sub, rq, calm>>

Outcome(s) == IF req[s].storage = "cloud" THEN "ready_to_persist" ELSE "succeeded"

\* With a bug: a job that has been cancelled meanwhile is not spared.
DeliverAnyStatus(s) ==
    /\ RunAt(s, "cas", "read")
    /\ job' = Set(job, s, Outcome(s))
    /\ UNCHANGED <<req, media, inv, sub, rq, calm>>

Deliver(s) ==
    /\ RunAt(s, "cas", "read")
    /\ Update(s, {"generating"}, Outcome(s))
    /\ UNCHANGED <<req, media, inv, sub, rq, calm>>

Delivered(s) ==
    /\ run[s].pc = "read"
    /\ run' = Set(run, s, [pc |-> IF req[s].storage = "cloud" THEN "sync" ELSE "close",
                           row |-> job[s]])
    /\ UNCHANGED <<req, job, media, inv, sub, rq, calm>>

\* With a bug: the status of the job is written for that of the record.
CloseWithStatus(s) ==
    /\ RunAt(s, "close", "sync")
    /\ inv' = Set(inv, s, run[s].row)
    /\ UNCHANGED <<req, job, media, sub, rq, calm>>

Close(s) ==
    /\ RunAt(s, "close", "sync")
    /\ inv' = Set(inv, s, "completed")
    /\ UNCHANGED <<req, job, media, sub, rq, calm>>

RunSync(s) ==
    /\ run[s].pc = "sync"
    /\ run' = Set(run, s, Off)
    /\ inv' = Synced(s, run[s].row)
    /\ UNCHANGED <<req, job, media, sub, rq, calm>>

\* The catch of the run begins the failure again; when it throws as well, the
\* handler around the run starts at the row, or throws too.
RunThrows(s) ==
    /\ \E next \in {"failMark", "failCas", "off"} :
        /\ \/ run[s].pc \in {"publish", "cas", "read", "close", "sync"} /\ next = "failMark"
           \/ run[s].pc \in {"failMark", "failCas", "failClose"}
        /\ run' = Set(run, s, [pc |-> next, row |-> "none"])
    /\ UNCHANGED <<req, job, media, inv, sub, rq>>

\* The request is answered with an error: a row that is there has no run, and
\* perhaps a record.
SubmitThrows(s) ==
    /\ \/ (\E here \in {"register", "insert", "record"} : SubmitAt(s, here, "done")) /\ UNCHANGED inv
       \/ SubmitAt(s, "record", "done") /\ inv' = Set(inv, s, "pending")
    /\ UNCHANGED <<req, job, media, run, rq>>

Throws(s) == (RunThrows(s) \/ SubmitThrows(s)) /\ calm' = FALSE

Run(s) == \/ Answered(s) \/ FailMark(s) \/ FailCas(s) \/ FailClose(s) \/ Publish(s)
          \/ Deliver(s) \/ Delivered(s) \/ Close(s) \/ RunSync(s)

-----------------------------------------------------------------------------
(* Cancel requests and completed uploads.                                  *)

CallAt(p, here, next) == rq[p].pc = here /\ rq' = [rq EXCEPT ![p].pc = next]

Begin(p, s, pc) ==
    /\ rq[p].pc = "idle"
    /\ rq' = Set(rq, p, [pc |-> pc, of |-> s, row |-> job[s]])
    /\ UNCHANGED <<req, job, media, inv, sub, run, calm>>

\* Any other status is answered as it is.
Cancel(p, s) ==
    IF job[s] = "generating" THEN Begin(p, s, "cancelCas") ELSE UNCHANGED vars

CancelCas(p) ==
    /\ CallAt(p, "cancelCas", "cancelRead")
    /\ Update(rq[p].of, {"generating"}, "cancelled")
    /\ UNCHANGED <<req, media, inv, sub, run, calm>>

CancelRead(p) ==
    /\ rq[p].pc = "cancelRead"
    /\ rq' = [rq EXCEPT ![p].row = job[rq[p].of], ![p].pc = "cancelMark"]
    /\ UNCHANGED <<req, job, media, inv, sub, run, calm>>

\* Also when the UPDATE found the job ended or ready.
CancelMark(p) ==
    /\ CallAt(p, "cancelMark", "sync")
    /\ media' = Set(media, rq[p].of, "failed")
    /\ UNCHANGED <<req, job, inv, sub, run, calm>>

Complete(p, s) ==
    IF job[s] = "ready_to_persist" THEN Begin(p, s, "completeCas") ELSE UNCHANGED vars

CompleteCas(p) ==
    /\ CallAt(p, "completeCas", "completeRead")
    /\ Update(rq[p].of, {"ready_to_persist"}, "succeeded")
    /\ UNCHANGED <<req, media, inv, sub, run, calm>>

CompleteRead(p) ==
    /\ rq[p].pc = "completeRead"
    /\ rq' = [rq EXCEPT ![p].row = job[rq[p].of], ![p].pc = "register"]
    /\ UNCHANGED <<req, job, media, inv, sub, run, calm>>

RegisterTransition(p) ==
    /\ CallAt(p, "register", "sync")
    /\ media' = Set(media, rq[p].of, "cloud")
    /\ UNCHANGED <<req, job, inv, sub, run, calm>>

\* With a bug: the record is left to the run.
CallSyncForgets(p) ==
    /\ rq[p].pc = "sync"
    /\ rq' = Set(rq, p, Idle)
    /\ UNCHANGED <<req, job, media, inv, sub, run, calm>>

CallSync(p) ==
    /\ rq[p].pc = "sync"
    /\ rq' = Set(rq, p, Idle)
    /\ inv' = Synced(rq[p].of, rq[p].row)
    /\ UNCHANGED <<req, job, media, sub, run, calm>>

Call(p) == \/ CancelCas(p) \/ CancelRead(p) \/ CancelMark(p) \/ CompleteCas(p)
           \/ CompleteRead(p) \/ RegisterTransition(p) \/ CallSync(p)

\* The API process dies with everything it was doing.
Restart ==
    /\ calm' = FALSE
    /\ sub' = [s \in Submissions |-> IF sub[s] = "look" THEN "look" ELSE "done"]
    /\ run' = [s \in Submissions |-> Off]
    /\ rq' = [p \in Callers |-> Idle]
    /\ UNCHANGED <<req, job, media, inv>>

Next ==
    \/ \E s \in Submissions : Submit(s) \/ Run(s) \/ Throws(s)
    \/ \E p \in Callers : Call(p) \/ \E s \in Submissions : Cancel(p, s) \/ Complete(p, s)
    \/ Restart

Spec == Init /\ [][Next]_vars

-----------------------------------------------------------------------------
(* What should be true of the jobs of a node.                              *)

\* Nothing is in flight for s.
Quiet(s) == /\ sub[s] \in {"look", "done"} /\ run[s].pc = "off"
            /\ \A p \in Callers : rq[p].pc # "idle" => rq[p].of # s

\* An image, a cancel or a failure that comes too late does not move a job that
\* has ended, whatever throws or dies.
EndedStands ==
    [][\A s \in Submissions : job[s] \in Ended => job'[s] = job[s]]_vars

\* Unless something threw or died, the log says how a job ended when nothing is in
\* flight, although the run and the requests write it in any order.  (A
\* cancelled job whose call fails afterwards is logged as failed.)
OutcomeLogged ==
    \A s \in Submissions : calm /\ Quiet(s) =>
        /\ job[s] = "succeeded" => inv[s] = "completed"
        /\ job[s] = "failed" => inv[s] = "failed"
        /\ job[s] = "cancelled" => inv[s] \in {"cancelled", "failed"}

\* Unless something threw or died, a failed job's placeholder is shown as failed:
\* no late answer or request turns it back.
FailedIsMarked ==
    \A s \in Submissions : calm /\ job[s] = "failed" => media[s] = "failed"

\* Never two active jobs for the node.
OneActiveJob == \A s, t \in Submissions : job[s] \in Active /\ job[t] \in Active => s = t

Lifecycle(s) == INSTANCE JobLifecycle
                WITH st <- IF job[s] = "none" THEN "generating" ELSE job[s],
                     offered <- job[s] \in {"ready_to_persist", "succeeded"},
                     final <- job[s] = "succeeded"

\* Each image job that is persisted goes through the same lifecycle as a video job.
ImplementsLifecycle ==
    /\ \A s \in Submissions : Lifecycle(s)!Init
    /\ [][\A s \in Submissions : req[s].storage = "cloud" =>
              [Lifecycle(s)!Next]_(Lifecycle(s)!vars)]_vars
=============================================================================
