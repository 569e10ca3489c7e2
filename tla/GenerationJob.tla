--------------------------- MODULE GenerationJob ---------------------------
(***************************************************************************)
(* One cloud video generation job: its row in generation_jobs, the catalog *)
(* entry of its placeholder, its invocation log entry and the "cancelling" *)
(* badge on the canvas node, driven by concurrent API requests, the cron,  *)
(* the browser, a persist worker and the upstream provider.                *)
(*                                                                         *)
(* A request is a sequence of awaits.  It reads the row once (its `row`),  *)
(* decides from that copy, and every later database call is a step of its  *)
(* own, so that other requests run in between.  updateGenerationJob is a   *)
(* conditional UPDATE followed by a SELECT whose row is returned whether   *)
(* or not the UPDATE matched.                                              *)
(***************************************************************************)

CONSTANTS
    Requests,     \* slots for concurrent API requests
    Cron,         \* the maintenance cron: one sequential caller, refresh only
    Kind,         \* "model": POST /ai-video/submit; "mediakit": video enhance
    MayRestart    \* may the API process die between two awaits?

ASSUME KindAssumption == Kind \in {"model", "mediakit"}
ASSUME RestartAssumption == MayRestart \in BOOLEAN

Callers == Requests \cup {Cron}

VARIABLES
    job,      \* the row: [st, task, ready, res]
    media,    \* catalog entry of the placeholder resource
    inv,      \* status of the model invocation record
    badge,    \* the node's media is marked "cancelling"
    up,       \* the provider's task
    sub,      \* where the submitting request is
    rq,       \* where each caller is: [pc, op, row, got]
    reply     \* last answer to a cancel request: [st, pending]

vars == <<job, media, inv, badge, up, sub, rq, reply>>

-----------------------------------------------------------------------------
Terminal == {"succeeded", "failed", "cancelled"}
Active == {"pending", "generating", "cancelling", "ready_to_persist", "uploading"}
Status == Active \cup Terminal

\* resultJson, reduced to the fields the handlers branch on.  `holds`: the
\* placeholder ids are recorded; `pending`: pendingMedia, carrying the
\* placeholder's id ("bound") or not; `worker`: persistWorkerId is set.
ResultJson == [holds : BOOLEAN, phase : {"none", "queued", "running"},
               pending : {"none", "unbound", "bound"}, final : BOOLEAN,
               owner : {"none", "client", "server"}, worker : BOOLEAN]

\* `task`: upstreamTaskId is set; `ready`: readyAt, unset, recent, or older
\* than the 30 minutes after which the server may take over.
JobRow == [st : Status, task : BOOLEAN, ready : {"none", "fresh", "expired"},
           res : ResultJson]

EmptyResult == [holds |-> FALSE, phase |-> "none", pending |-> "none",
                final |-> FALSE, owner |-> "none", worker |-> FALSE]

NewJob == [st |-> "generating", task |-> FALSE, ready |-> "none",
           res |-> [EmptyResult EXCEPT !.holds = TRUE]]

Idle == [pc |-> "idle", op |-> "none", row |-> NewJob, got |-> "none"]
NoReply == [st |-> "none", pending |-> FALSE]

Ops == {"none", "refresh", "server", "cancel", "claim", "complete", "worker"}
Labels == {"idle", "poll", "failCas", "failRead", "failMark", "sync",
           "stopCas", "stopRead", "phaseCas", "phaseRead", "delete",
           "finCas", "finRead", "finMark", "finBadge", "finSave",
           "finSync", "deferCas", "deferRead", "deferBadge", "deferSave",
           "revertCas", "revertRead", "revertBadge", "revertSave",
           "publish", "readyCas", "readyRead",
           "dispatch", "healthCas", "serverCas", "serverRead", "ensure",
           "claimCas", "completeCas", "workerCas", "doneRead",
           "transition", "finalNode", "workerFailCas"}
Answers == {"none", "noiface", "failed", "cancelled", "queued", "running",
            "completed"}
CallerState == [pc : Labels, op : Ops, row : JobRow, got : Answers]

TypeOK ==
    /\ job \in JobRow
    /\ media \in {"generating", "ready", "failed", "cloud"}
    /\ inv \in {"pending", "completed", "failed", "cancelled"}
    /\ badge \in BOOLEAN
    /\ up \in {"none", "queued", "running", "completed", "failed", "deleted"}
    /\ sub \in {"sending", "reopen", "record", "rejected", "mark", "close", "done"}
    /\ rq \in [Callers -> CallerState]
    /\ reply \in [Callers -> [st : Status \cup {"none"}, pending : BOOLEAN]]

Init ==
    /\ job = NewJob
    /\ media = "generating"
    /\ inv = "pending"
    /\ badge = FALSE
    /\ up = "none"
    /\ sub = "sending"
    /\ rq = [p \in Callers |-> Idle]
    /\ reply = [p \in Callers |-> NoReply]

-----------------------------------------------------------------------------
(* The pieces every handler is made of.                                    *)

At(p, label) == rq[p].pc = label
Goto(p, label) == rq' = [rq EXCEPT ![p].pc = label]
Finish(p) == rq' = [rq EXCEPT ![p] = Idle]

\* updateGenerationJob, first half: UPDATE ... WHERE status IN expected.
Update(expected, new) == job' = IF job.st \in expected THEN new ELSE job

\* updateGenerationJob, second half: the SELECT that feeds its result.
ReadBack(p, label) == rq' = [rq EXCEPT ![p].row = job, ![p].pc = label]

\* syncGenerationJobInvocation for the row the caller holds.
Synced(row) ==
    CASE row.st = "succeeded" -> IF inv = "pending" THEN "completed" ELSE inv
      [] row.st = "cancelled" -> "cancelled"
      [] row.st = "failed" -> "failed"
      [] OTHER -> inv

MarkFailed(row) == IF row.res.holds THEN "failed" ELSE media

\* Where a caller goes once pollVideoGenerationJob, or the server dispatch,
\* has handed it `row`: the rest of refreshGenerationJob, or of
\* requestServerGenerationJobPersist.
After(p, row) ==
    IF rq[p].op = "refresh"
    THEN CASE row.st = "uploading" /\ row.res.owner = "client"
              /\ row.ready = "expired" -> "dispatch"
           [] row.st = "ready_to_persist" /\ row.ready = "expired" -> "dispatch"
           [] row.st = "failed" -> "ensure"
           [] OTHER -> "idle"
    ELSE IF /\ rq[p].op = "server"
            /\ row.st \in {"ready_to_persist", "uploading"}
            /\ ~(row.st = "uploading" /\ row.res.owner = "server")
         THEN "dispatch"
         ELSE "idle"

Resume(p, row) ==
    IF After(p, row) = "idle"
    THEN Finish(p)
    ELSE rq' = [rq EXCEPT ![p].row = row, ![p].pc = After(p, row)]

Enter(p, o, label) ==
    /\ At(p, "idle")
    /\ rq' = [rq EXCEPT ![p] = [pc |-> label, op |-> o, row |-> job, got |-> "none"]]
    /\ reply' = [reply EXCEPT ![p] = NoReply]

-----------------------------------------------------------------------------
(* The submitting request.  It creates the row, calls the provider, sets   *)
(* the invocation back to pending and then records the task id, replacing  *)
(* resultJson; only the MediaKit services list the placeholder ids again.  *)

ProviderAccepts == sub = "sending" /\ up' = "queued" /\ sub' = "reopen"
                   /\ UNCHANGED <<job, media, inv, badge, rq, reply>>

ProviderRejects == sub = "sending" /\ sub' = "rejected"
                   /\ UNCHANGED <<job, media, inv, badge, up, rq, reply>>

SubmitReopen == sub = "reopen" /\ inv' = "pending" /\ sub' = "record"
                /\ UNCHANGED <<job, media, badge, up, rq, reply>>

\* With a bug: the task id is recorded whatever the status has become.
SubmitRecordAnyStatus ==
    /\ sub = "record"
    /\ job' = [job EXCEPT !.st = "generating", !.task = TRUE,
                          !.res = [EmptyResult EXCEPT !.holds = (Kind = "mediakit")]]
    /\ sub' = "done"
    /\ UNCHANGED <<media, inv, badge, up, rq, reply>>

\* With a bug: the placeholder ids are dropped for MediaKit jobs as well.
SubmitRecordForgets ==
    /\ sub = "record"
    /\ Update({"generating"}, [job EXCEPT !.task = TRUE, !.res = EmptyResult])
    /\ sub' = "done"
    /\ UNCHANGED <<media, inv, badge, up, rq, reply>>

SubmitRecord ==
    /\ sub = "record"
    /\ Update({"generating"},
              [job EXCEPT !.task = TRUE,
                          !.res = [EmptyResult EXCEPT !.holds = (Kind = "mediakit")]])
    /\ sub' = "done"
    /\ UNCHANGED <<media, inv, badge, up, rq, reply>>

SubmitFail == sub = "rejected" /\ Update({"generating"}, [job EXCEPT !.st = "failed"])
              /\ sub' = "mark"
              /\ UNCHANGED <<media, inv, badge, up, rq, reply>>

SubmitMark == sub = "mark" /\ media' = "failed" /\ sub' = "close"
              /\ UNCHANGED <<job, inv, badge, up, rq, reply>>

SubmitClose == sub = "close" /\ inv' = "failed" /\ sub' = "done"
               /\ UNCHANGED <<job, media, badge, up, rq, reply>>

Submit == \/ ProviderAccepts \/ ProviderRejects \/ SubmitReopen \/ SubmitRecord
          \/ SubmitFail \/ SubmitMark \/ SubmitClose

-----------------------------------------------------------------------------
(* The provider's task, and the thirty minutes after readyAt.              *)

TaskStarts == up = "queued" /\ up' = "running"
TaskEnds == up \in {"queued", "running"} /\ up' \in {"completed", "failed"}

Provider == (TaskStarts \/ TaskEnds)
            /\ UNCHANGED <<job, media, inv, badge, sub, rq, reply>>

ReadyAtExpires == job.ready = "fresh" /\ job' = [job EXCEPT !.ready = "expired"]
                  /\ UNCHANGED <<media, inv, badge, up, sub, rq, reply>>

\* What a poll can answer.  An HTTP error or a task the provider no longer knows
\* comes back as "failed", and so does a model's answer that is not JSON.
VolcanoAnswers == {"failed"} \cup ({up} \cap {"queued", "running", "completed"})
MediaKitAnswers ==
    VolcanoAnswers \cup (IF up = "deleted" THEN {"cancelled"} ELSE {})

PollAnswers == IF Kind = "mediakit" THEN MediaKitAnswers ELSE VolcanoAnswers

-----------------------------------------------------------------------------
(* refreshGenerationJob: GET /generation-jobs/:id and the cron.  When the  *)
(* upstream poll is not due yet the row is handed on as it was read.       *)

\* With a bug: a job whose cancel was deferred is not polled any more.
PollNeededForgetsDeferred(row) == row.st = "generating" /\ row.task

PollNeeded(row) == row.st \in {"generating", "cancelling"} /\ row.task

RefreshPoll(p) ==
    /\ PollNeeded(job)
    /\ Enter(p, "refresh", "poll")
    /\ UNCHANGED <<job, media, inv, badge, up, sub>>

RefreshExpired(p) ==
    /\ job.ready = "expired"
    /\ job.st = "ready_to_persist" \/ (job.st = "uploading" /\ job.res.owner = "client")
    /\ Enter(p, "refresh", "dispatch")
    /\ UNCHANGED <<job, media, inv, badge, up, sub>>

RefreshFailed(p) ==
    /\ job.st = "failed"
    /\ job.res.holds
    /\ Enter(p, "refresh", "ensure")
    /\ UNCHANGED <<job, media, inv, badge, up, sub>>

EnsureMarked(p) ==
    /\ At(p, "ensure")
    /\ media' = MarkFailed(rq[p].row)
    /\ Finish(p)
    /\ UNCHANGED <<job, inv, badge, up, sub, reply>>

-----------------------------------------------------------------------------
(* persistJobCancellingNodeContent reads the workflow document and, if the  *)
(* node's badge is not as it should be, saves the document it has read.    *)

BadgeDiffers(p, on) == rq[p].row.res.holds /\ badge # on

BadgeRead(p) ==
    /\ \/ At(p, "deferBadge") /\ BadgeDiffers(p, TRUE) /\ Goto(p, "deferSave")
       \/ At(p, "finBadge") /\ BadgeDiffers(p, FALSE) /\ Goto(p, "finSave")
       \/ /\ At(p, "revertBadge")
          /\ rq[p].row.st = "generating"
          /\ BadgeDiffers(p, FALSE)
          /\ Goto(p, "revertSave")
    /\ UNCHANGED <<job, media, inv, badge, up, sub, reply>>

\* The badge is left as it is, or saved as `on`.
BadgeDone(p, read, save, skip, on) ==
    \/ At(p, read) /\ skip /\ UNCHANGED badge
    \/ At(p, save) /\ badge' = on

-----------------------------------------------------------------------------
(* pollVideoGenerationJob and pollVideoEnhanceGenerationJob.               *)

PollInterfaceGone(p) ==
    /\ At(p, "poll")
    /\ rq' = [rq EXCEPT ![p].pc = "failCas", ![p].got = "noiface"]
    /\ UNCHANGED <<job, media, inv, badge, up, sub, reply>>

\* With a bug: a finished task is recorded as a phase.
PollNextAsPhase(row, answer) ==
    CASE answer = "failed" -> "failCas"
      [] answer = "cancelled" -> "stopCas"
      [] answer = "queued" /\ row.st = "cancelling" /\ Kind = "model" -> "delete"
      [] OTHER -> "phaseCas"

PollNext(row, answer) ==
    CASE answer = "failed" -> "failCas"
      [] answer = "cancelled" -> "stopCas"
      [] answer = "completed" ->
            IF Kind = "mediakit" THEN "readyCas"
            ELSE IF row.st = "cancelling" THEN "revertCas" ELSE "publish"
      [] answer = "queued" /\ row.st = "cancelling" /\ Kind = "model" -> "delete"
      [] OTHER -> "phaseCas"

PollAnswered(p) ==
    /\ At(p, "poll")
    /\ \E a \in PollAnswers :
          rq' = [rq EXCEPT ![p].got = a, ![p].pc = PollNext(rq[p].row, a)]
    /\ UNCHANGED <<job, media, inv, badge, up, sub, reply>>

\* The statuses a poll may still overwrite.
ActiveStatuses(p) ==
    IF Kind = "mediakit" /\ rq[p].got = "noiface"
    THEN {"generating", "cancelling"} ELSE {rq[p].row.st}

PollFails(p) ==
    /\ At(p, "failCas")
    /\ Update(ActiveStatuses(p), [job EXCEPT !.st = "failed"])
    /\ Goto(p, "failRead")
    /\ UNCHANGED <<media, inv, badge, up, sub, reply>>

PollFailRead(p) ==
    /\ At(p, "failRead")
    /\ ReadBack(p, "failMark")
    /\ UNCHANGED <<job, media, inv, badge, up, sub, reply>>

PollFailMark(p) ==
    /\ At(p, "failMark")
    /\ media' = MarkFailed(rq[p].row)
    /\ Goto(p, "sync")
    /\ UNCHANGED <<job, inv, badge, up, sub, reply>>

SyncInvocation(p) ==
    /\ At(p, "sync")
    /\ inv' = Synced(rq[p].row)
    /\ Resume(p, rq[p].row)
    /\ UNCHANGED <<job, media, badge, up, sub, reply>>

PollStopped(p) ==
    /\ At(p, "stopCas")
    /\ Update({rq[p].row.st}, [job EXCEPT !.st = "cancelled"])
    /\ Goto(p, "stopRead")
    /\ UNCHANGED <<media, inv, badge, up, sub, reply>>

StopRead(p) ==
    /\ At(p, "stopRead")
    /\ ReadBack(p, "sync")
    /\ UNCHANGED <<job, media, inv, badge, up, sub, reply>>

\* With a bug: the phase is written back whatever the status has become.
PollPhaseAnyStatus(p) ==
    /\ At(p, "phaseCas")
    /\ job' = [job EXCEPT !.res = [rq[p].row.res EXCEPT !.phase = rq[p].got]]
    /\ Goto(p, "phaseRead")
    /\ UNCHANGED <<media, inv, badge, up, sub, reply>>

PollPhase(p) ==
    /\ At(p, "phaseCas")
    /\ Update({rq[p].row.st},
              [job EXCEPT !.st = rq[p].row.st,
                          !.res = [rq[p].row.res EXCEPT !.phase = rq[p].got]])
    /\ Goto(p, "phaseRead")
    /\ UNCHANGED <<media, inv, badge, up, sub, reply>>

PollReturns(p) ==
    /\ At(p, "phaseRead") \/ At(p, "readyRead")
    /\ Resume(p, job)
    /\ UNCHANGED <<job, media, inv, badge, up, sub, reply>>

\* revertVideoCancelToGenerating.
RevertCancel(p) ==
    /\ At(p, "revertCas")
    /\ Update({"cancelling"}, [job EXCEPT !.st = "generating"])
    /\ Goto(p, "revertRead")
    /\ UNCHANGED <<media, inv, badge, up, sub, reply>>

RevertRead(p) ==
    /\ At(p, "revertRead")
    /\ ReadBack(p, "revertBadge")
    /\ UNCHANGED <<job, media, inv, badge, up, sub, reply>>

RevertBadge(p) ==
    /\ BadgeDone(p, "revertBadge", "revertSave",
                 rq[p].row.st # "generating" \/ ~BadgeDiffers(p, FALSE), FALSE)
    /\ IF rq[p].got = "completed" THEN Goto(p, "publish") ELSE Resume(p, rq[p].row)
    /\ UNCHANGED <<job, media, inv, up, sub, reply>>

\* The finished video becomes the placeholder's content, if the row names one.
PublishMedia(p) ==
    /\ At(p, "publish")
    /\ media' = IF rq[p].row.res.holds THEN "ready" ELSE media
    /\ Goto(p, "readyCas")
    /\ UNCHANGED <<job, inv, badge, up, sub, reply>>

\* With a bug: the finished video is only accepted from a deferred cancel.
PollReadyWrongStatus(p) ==
    /\ At(p, "readyCas")
    /\ Update({"cancelling"}, [job EXCEPT !.st = "ready_to_persist", !.ready = "fresh"])
    /\ Goto(p, "readyRead")
    /\ UNCHANGED <<media, inv, badge, up, sub, reply>>

PollReady(p) ==
    /\ At(p, "readyCas")
    /\ Update(IF Kind = "mediakit" THEN {"generating", "cancelling"} ELSE {"generating"},
              [job EXCEPT !.st = "ready_to_persist", !.ready = "fresh",
                          !.res = [rq[p].row.res EXCEPT
                                     !.phase = "none",
                                     !.pending = IF rq[p].row.res.holds
                                                 THEN "bound" ELSE "unbound"]])
    /\ Goto(p, "readyRead")
    /\ UNCHANGED <<media, inv, badge, up, sub, reply>>

Poll(p) ==
    \/ PollInterfaceGone(p) \/ PollAnswered(p) \/ PollFails(p) \/ PollFailRead(p)
    \/ PollFailMark(p) \/ SyncInvocation(p) \/ PollStopped(p) \/ StopRead(p)
    \/ PollPhase(p) \/ PollReturns(p) \/ RevertCancel(p) \/ RevertRead(p)
    \/ RevertBadge(p) \/ PublishMedia(p) \/ PollReady(p)

-----------------------------------------------------------------------------
(* runServerGenerationJobPersist.  The pool may be inactive and the storage *)
(* probe may fail whenever they are asked.                                 *)

DispatchDeclined(p) ==
    /\ At(p, "dispatch")
    /\ Finish(p)
    /\ UNCHANGED <<job, media, inv, badge, up, sub, reply>>

DispatchChecked(p) ==
    /\ At(p, "dispatch")
    /\ rq[p].row.res.pending # "none"
    /\ Goto(p, "healthCas") \/ Goto(p, "serverCas")
    /\ UNCHANGED <<job, media, inv, badge, up, sub, reply>>

\* With a bug: the job is cancelled even if its upload ended meanwhile.
StorageUnhealthyAnyStatus(p) ==
    /\ At(p, "healthCas")
    /\ job' = [job EXCEPT !.st = "cancelled"]
    /\ Goto(p, "stopRead")
    /\ UNCHANGED <<media, inv, badge, up, sub, reply>>

StorageUnhealthy(p) ==
    /\ At(p, "healthCas")
    /\ Update({"ready_to_persist", "uploading"}, [job EXCEPT !.st = "cancelled"])
    /\ Goto(p, "stopRead")
    /\ UNCHANGED <<media, inv, badge, up, sub, reply>>

DispatchToWorkers(p) ==
    /\ At(p, "serverCas")
    /\ Update({"ready_to_persist", "uploading"},
              [job EXCEPT !.st = "uploading",
                          !.res = [rq[p].row.res EXCEPT !.owner = "server",
                                                        !.worker = FALSE]])
    /\ Goto(p, "serverRead")
    /\ UNCHANGED <<media, inv, badge, up, sub, reply>>

DispatchReturns(p) ==
    /\ At(p, "serverRead")
    /\ Resume(p, job)
    /\ UNCHANGED <<job, media, inv, badge, up, sub, reply>>

Dispatch(p) ==
    \/ DispatchDeclined(p) \/ DispatchChecked(p) \/ StorageUnhealthy(p)
    \/ DispatchToWorkers(p) \/ DispatchReturns(p)

\* requestServerGenerationJobPersist: POST /generation-jobs/:id/server-persist.
ServerPersist(p) ==
    /\ \/ PollNeeded(job) /\ Enter(p, "server", "poll")
       \/ /\ job.st = "ready_to_persist"
             \/ (job.st = "uploading" /\ job.res.owner # "server")
          /\ Enter(p, "server", "dispatch")
    /\ UNCHANGED <<job, media, inv, badge, up, sub>>

-----------------------------------------------------------------------------
(* cancelGenerationJobRecord: POST /generation-jobs/:id/cancel.            *)

Answer(p, row, deferred) ==
    /\ reply' = [reply EXCEPT ![p] = [st |-> row.st, pending |-> deferred]]
    /\ Finish(p)

CancelBranch(row) ==
    IF ~row.task
    THEN IF row.st \in {"pending", "generating"} THEN "finCas" ELSE "refused"
    ELSE CASE row.st = "cancelling" -> "deferBadge"
           [] row.st \notin {"pending", "generating", "cancelling"} -> "refused"
           [] row.res.phase = "queued" -> "delete"
           [] OTHER -> "deferCas"

Cancel(p) ==
    /\ IF CancelBranch(job) = "refused"
       THEN At(p, "idle") /\ Answer(p, job, FALSE)
       ELSE Enter(p, "cancel", CancelBranch(job))
    /\ UNCHANGED <<job, media, inv, badge, up, sub>>

\* With a bug: a finished or running task counts as deleted too.
TaskDeletedLate(p) ==
    /\ At(p, "delete")
    /\ up' = "deleted"
    /\ Goto(p, "finCas")
    /\ UNCHANGED <<job, media, inv, badge, sub, reply>>

\* tryCancelUpstreamVideoTask: the provider deletes a task it has not started.
TaskDeleted(p) ==
    /\ At(p, "delete")
    /\ up = "queued"
    /\ up' = "deleted"
    /\ Goto(p, "finCas")
    /\ UNCHANGED <<job, media, inv, badge, sub, reply>>

TaskNotDeleted(p) ==
    /\ At(p, "delete")
    /\ Goto(p, IF rq[p].op = "cancel" THEN "deferCas" ELSE "revertCas")
    /\ UNCHANGED <<job, media, inv, badge, up, sub, reply>>

\* With a bug: a deferred cancel is no longer finalized.
FinalizeForgetsDeferred(p) ==
    /\ At(p, "finCas")
    /\ Update({"pending", "generating"}, [job EXCEPT !.st = "cancelled"])
    /\ Goto(p, "finRead")
    /\ UNCHANGED <<media, inv, badge, up, sub, reply>>

\* finalizeJobCancelled.
FinalizeCancelled(p) ==
    /\ At(p, "finCas")
    /\ Update({"pending", "generating", "cancelling"}, [job EXCEPT !.st = "cancelled"])
    /\ Goto(p, "finRead")
    /\ UNCHANGED <<media, inv, badge, up, sub, reply>>

FinalizeRead(p) ==
    /\ At(p, "finRead")
    /\ ReadBack(p, "finMark")
    /\ UNCHANGED <<job, media, inv, badge, up, sub, reply>>

FinalizeMark(p) ==
    /\ At(p, "finMark")
    /\ media' = MarkFailed(rq[p].row)
    /\ Goto(p, "finBadge")
    /\ UNCHANGED <<job, inv, badge, up, sub, reply>>

FinalizeBadge(p) ==
    /\ BadgeDone(p, "finBadge", "finSave", ~BadgeDiffers(p, FALSE), FALSE)
    /\ Goto(p, IF rq[p].op = "cancel" THEN "finSync" ELSE "sync")
    /\ UNCHANGED <<job, media, inv, up, sub, reply>>

FinalizeAnswer(p) ==
    /\ At(p, "finSync")
    /\ inv' = Synced(rq[p].row)
    /\ Answer(p, IF rq[p].row.st = "cancelled" THEN rq[p].row ELSE job, FALSE)
    /\ UNCHANGED <<job, media, badge, up, sub>>

\* enterVideoDeferredCancel.
DeferCancel(p) ==
    /\ At(p, "deferCas")
    /\ Update({"pending", "generating"}, [job EXCEPT !.st = "cancelling"])
    /\ Goto(p, "deferRead")
    /\ UNCHANGED <<media, inv, badge, up, sub, reply>>

DeferRead(p) ==
    /\ At(p, "deferRead")
    /\ ReadBack(p, "deferBadge")
    /\ UNCHANGED <<job, media, inv, badge, up, sub, reply>>

\* With a bug: the canvas node is not told.
DeferAnswerSilently(p) ==
    /\ At(p, "deferBadge") \/ At(p, "deferSave")
    /\ Answer(p, rq[p].row, TRUE)
    /\ UNCHANGED <<job, media, inv, badge, up, sub>>

DeferAnswer(p) ==
    /\ BadgeDone(p, "deferBadge", "deferSave", ~BadgeDiffers(p, TRUE), TRUE)
    /\ Answer(p, rq[p].row, TRUE)
    /\ UNCHANGED <<job, media, inv, up, sub>>

CancelSteps(p) ==
    \/ TaskDeleted(p) \/ TaskNotDeleted(p) \/ FinalizeCancelled(p) \/ FinalizeRead(p)
    \/ FinalizeMark(p) \/ FinalizeBadge(p) \/ FinalizeAnswer(p) \/ DeferCancel(p)
    \/ DeferRead(p) \/ DeferAnswer(p) \/ BadgeRead(p)

-----------------------------------------------------------------------------
(* The browser: claimClientGenerationJobUpload and, once the upload is     *)
(* done, completeGenerationJobClientUpload, which asks for no claim.       *)

ClientClaim(p) ==
    /\ job.st = "ready_to_persist"
    /\ Enter(p, "claim", "claimCas")
    /\ UNCHANGED <<job, media, inv, badge, up, sub>>

ClientClaimed(p) ==
    /\ At(p, "claimCas")
    /\ Update({"ready_to_persist"},
              [job EXCEPT !.st = "uploading",
                          !.res = [rq[p].row.res EXCEPT !.owner = "client"]])
    /\ Finish(p)
    /\ UNCHANGED <<media, inv, badge, up, sub, reply>>

\* With a bug: an upload the server owns may be completed by the browser.
ClientCompleteAnyOwner(p) ==
    /\ job.st \in {"ready_to_persist", "uploading"}
    /\ Enter(p, "complete", "completeCas")
    /\ UNCHANGED <<job, media, inv, badge, up, sub>>

ClientComplete(p) ==
    /\ job.st \in {"ready_to_persist", "uploading"}
    /\ ~(job.st = "uploading" /\ job.res.owner = "server")
    /\ Enter(p, "complete", "completeCas")
    /\ UNCHANGED <<job, media, inv, badge, up, sub>>

ClientCompleted(p) ==
    /\ At(p, "completeCas")
    /\ Update({"ready_to_persist", "uploading"},
              [job EXCEPT !.st = "succeeded",
                          !.res = [rq[p].row.res EXCEPT !.final = TRUE,
                                                        !.owner = "client"]])
    /\ Goto(p, "doneRead")
    /\ UNCHANGED <<media, inv, badge, up, sub, reply>>

\* The row the SELECT returns is what the rest works on, whatever its status.
\* pendingMedia is never rewritten once set, so it names the entry the caller
\* read before its UPDATE.
CompletionRead(p) ==
    /\ At(p, "doneRead")
    /\ ReadBack(p, "transition")
    /\ UNCHANGED <<job, media, inv, badge, up, sub, reply>>

\* registerMediaResourceTransitions: the uploaded object takes the place of
\* the catalog entry that pendingMedia names.
RegisterTransition(p) ==
    /\ At(p, "transition")
    /\ media' = IF rq[p].row.res.pending = "bound" THEN "cloud" ELSE media
    /\ Goto(p, "finalNode")
    /\ UNCHANGED <<job, inv, badge, up, sub, reply>>

\* persistJobFinalizedGeneratingContent, whose failure is swallowed.
FinalizeNode(p) ==
    /\ At(p, "finalNode")
    /\ badge' \in {badge, FALSE}
    /\ Goto(p, "sync")
    /\ UNCHANGED <<job, media, inv, up, sub, reply>>

-----------------------------------------------------------------------------
(* The persist worker that holds the job: POST .../claim, complete, fail.  *)

WorkerHolds == job.st = "uploading" /\ job.res.owner = "server" /\ job.res.worker

WorkerClaim ==
    /\ job.st = "uploading" /\ job.res.owner = "server" /\ ~job.res.worker
    /\ job' = [job EXCEPT !.res.worker = TRUE]
    /\ UNCHANGED <<media, inv, badge, up, sub, rq, reply>>

WorkerComplete(p) ==
    /\ WorkerHolds
    /\ Enter(p, "worker", "workerCas")
    /\ UNCHANGED <<job, media, inv, badge, up, sub>>

WorkerCompleted(p) ==
    /\ At(p, "workerCas")
    /\ Update({"uploading"},
              [job EXCEPT !.st = "succeeded",
                          !.res = [rq[p].row.res EXCEPT !.final = TRUE,
                                                        !.owner = "server"]])
    /\ Goto(p, "doneRead")
    /\ UNCHANGED <<media, inv, badge, up, sub, reply>>

WorkerFail(p) ==
    /\ WorkerHolds
    /\ Enter(p, "worker", "workerFailCas")
    /\ UNCHANGED <<job, media, inv, badge, up, sub>>

\* With a bug: the failure is recorded whatever the status has become.
WorkerFailedAnyStatus(p) ==
    /\ At(p, "workerFailCas")
    /\ job' = [job EXCEPT !.st = "failed"]
    /\ Goto(p, "stopRead")
    /\ UNCHANGED <<media, inv, badge, up, sub, reply>>

\* With a bug: the invocation is closed from the row read at the start.
WorkerFailedUnread(p) ==
    /\ At(p, "workerFailCas")
    /\ Update({"uploading"}, [job EXCEPT !.st = "failed"])
    /\ rq' = [rq EXCEPT ![p].pc = "sync", ![p].row.st = "failed"]
    /\ UNCHANGED <<media, inv, badge, up, sub, reply>>

WorkerFailed(p) ==
    /\ At(p, "workerFailCas")
    /\ Update({"uploading"}, [job EXCEPT !.st = "failed"])
    /\ Goto(p, "stopRead")
    /\ UNCHANGED <<media, inv, badge, up, sub, reply>>

Persisting(p) ==
    \/ ClientClaimed(p) \/ ClientCompleted(p) \/ CompletionRead(p)
    \/ RegisterTransition(p) \/ FinalizeNode(p) \/ WorkerCompleted(p) \/ WorkerFailed(p)

-----------------------------------------------------------------------------
\* The API process dies: every request in flight, the submission included.
Restart ==
    /\ MayRestart
    /\ rq' = [p \in Callers |-> Idle]
    /\ sub' = "done"
    /\ UNCHANGED <<job, media, inv, badge, up, reply>>

Refresh(p) == RefreshPoll(p) \/ RefreshExpired(p) \/ RefreshFailed(p)
Steps(p) == Poll(p) \/ Dispatch(p) \/ EnsureMarked(p) \/ CancelSteps(p) \/ Persisting(p)
Begin(p) == ServerPersist(p) \/ Cancel(p) \/ ClientClaim(p) \/ ClientComplete(p)
            \/ WorkerComplete(p) \/ WorkerFail(p)

Next ==
    \/ Submit \/ Provider \/ ReadyAtExpires \/ WorkerClaim \/ Restart
    \/ \E p \in Callers : Refresh(p) \/ Steps(p)
    \/ \E p \in Requests : Begin(p)

Spec == Init /\ [][Next]_vars

-----------------------------------------------------------------------------
(* The inductive invariant: rows are coherent, and what a caller has read  *)
(* is a past of the row that the rest of its handler can still rely on.    *)

Early == {"pending", "generating", "cancelling"}
Offered == {"ready_to_persist", "uploading", "succeeded"}

RowOK(r) ==
    /\ r.st # "pending"
    /\ r.st \in Early => /\ r.res.pending = "none"
                         /\ r.ready = "none"
                         /\ ~r.res.worker
    /\ r.st \in Offered => r.res.pending # "none" /\ r.ready # "none"
    /\ r.res.final <=> r.st = "succeeded"
    /\ r.res.worker => r.res.owner = "server" /\ r.st \in {"uploading"} \cup Terminal

\* Row r was read from what is now row j.
PastOf(r, j) ==
    /\ r.st \in Terminal => j.st = r.st
    /\ r.st \notin Early => j.st \notin Early

\* What a handler may assume at its next await, of the row it read and of
\* the provider's answer.
PcOK(pc, row, got) ==
    /\ pc \in {"poll", "failCas", "stopCas", "phaseCas"}
           => row.st \in {"generating", "cancelling"}
    /\ pc \in {"dispatch", "healthCas", "serverCas"}
           => row.st \in {"ready_to_persist", "uploading"}
    /\ pc = "claimCas" => row.st = "ready_to_persist"
    /\ pc = "completeCas" => /\ row.st \in {"ready_to_persist", "uploading"}
                             /\ ~row.res.worker
    /\ pc = "workerCas" => row.st = "uploading" /\ row.res.owner = "server"
    /\ pc = "phaseCas" => got \in {"queued", "running"}
    /\ pc \in {"publish", "readyCas"} => got = "completed"

CallerOK(c, j, u) ==
    /\ RowOK(c.row)
    /\ PastOf(c.row, j)
    /\ PcOK(c.pc, c.row, c.got)
    /\ c.got = "completed" => u = "completed"

\* Every row, current or held by a caller, is coherent and consistent with
\* the point its handler has reached; answers stand; what is offered was
\* completed by the provider.
JobInvariant ==
    /\ RowOK(job)
    /\ \A p \in Callers : CallerOK(rq[p], job, up)
    /\ \A p \in Callers : reply[p].st = "cancelled" => job.st = "cancelled"
    /\ job.st \in Offered => up = "completed"
    /\ sub = "sending" => up = "none"

Lifecycle == INSTANCE JobLifecycle
             WITH st <- job.st, offered <- (job.res.pending # "none"),
                  final <- job.res.final

\* Whatever requests overlap, the row moves as a job is promised to move: no
\* stale write revives it, ends it twice or drops what it offers.
ImplementsLifecycle == Lifecycle!Spec

-----------------------------------------------------------------------------
(* What should be true of a job.                                           *)

\* No request is in flight and the submission has returned.
Quiet == sub = "done" /\ \A p \in Callers : At(p, "idle")

\* A job that can be persisted says what is to be persisted and since when,
\* although polls rewrite resultJson as a whole from a copy they read earlier.
PersistableHasMedia ==
    job.st \in {"ready_to_persist", "uploading", "succeeded"}
        => job.res.pending # "none" /\ job.ready # "none"

\* finalMedia and success come and go together: no later write of resultJson
\* drops the final media, and none adds it to a job that did not succeed.
FinalMediaIffSucceeded == job.res.final <=> job.st = "succeeded"

\* A persist worker holds a job only while the server owns its upload or
\* after that upload has ended.
WorkerHoldsServerUpload ==
    job.res.worker => /\ job.res.owner = "server"
                      /\ job.st \in {"uploading"} \cup Terminal

\* Once every request has ended, a terminal job that reached the provider and
\* its invocation record agree, whichever request lost its UPDATE.
SettledInvocation ==
    Quiet /\ job.task /\ job.st \in Terminal
        => inv = (IF job.st = "succeeded" THEN "completed" ELSE job.st)

\* A job whose provider task was deleted is never offered for persisting.
DeletedTaskNotPersisted ==
    up = "deleted" => job.st \notin {"ready_to_persist", "uploading", "succeeded"}

\* ... and, when every request has ended, it has ended too.
DeletedTaskSettles == Quiet /\ up = "deleted" /\ job.task => job.st \in Terminal

\* An answer "cancelled" to the user is never taken back.
CancelledAnswerIsFinal ==
    \A p \in Callers : reply[p].st = "cancelled" => job.st = "cancelled"

\* While a MediaKit job is cancelling and nothing is in flight, the canvas
\* shows it.
CancellingIsShown == Quiet /\ job.st = "cancelling" /\ job.res.holds => badge

\* What is offered for persisting names the placeholder it replaces.
PendingMediaNamesPlaceholder ==
    job.st = "ready_to_persist" => job.res.pending = "bound"

\* When a job has succeeded and nothing is in flight, the catalog has the
\* uploaded object in the place of the placeholder.
SucceededMediaInCatalog ==
    Quiet /\ job.st = "succeeded" /\ job.res.pending = "bound" => media = "cloud"

-----------------------------------------------------------------------------
\* Every request that was started goes on, the provider ends every task, and
\* the cron keeps coming back to a job whose upstream poll is due: in the code
\* no user request is ever in its way, here one may use its slot in between.
Fairness ==
    /\ WF_vars(Submit) /\ WF_vars(Provider)
    /\ \A p \in Callers : WF_vars(Steps(p))
    /\ SF_vars(RefreshPoll(Cron))

FairSpec == Spec /\ Fairness

\* A deferred cancel is resolved one way or the other.
CancellingResolves == job.st = "cancelling" ~> job.st # "cancelling"

\* Unless users go on cancelling for ever, a job leaves generation.
GenerationSettles ==
    <>[](job.st # "cancelling") => <>(job.st \notin {"generating", "cancelling"})
=============================================================================
