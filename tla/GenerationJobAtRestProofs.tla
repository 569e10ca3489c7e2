---------------------- MODULE GenerationJobAtRestProofs ----------------------
(***************************************************************************)
(* What is true of a generation job once its requests have ended: its      *)
(* invocation record, the provider's task, the placeholder and the mark on *)
(* the canvas node agree with the row.  While requests are in flight they  *)
(* need not agree; the invariants say who still has to make them agree.    *)
(* Three of the four results need that the process goes on: a restart      *)
(* drops the requests that would have closed the record, ended the job or  *)
(* marked the node.                                                        *)
(***************************************************************************)
EXTENDS GenerationJobProofs

-----------------------------------------------------------------------------
(* Who moves in a step.                                                    *)

\* A caller's own steps move no other caller.
LEMMA MovesOne ==
    ASSUME TypeOK, NEW p \in Callers, Refresh(p) \/ Steps(p) \/ Begin(p),
           NEW q \in Callers, q # p
    PROVE  rq'[q] = rq[q]
  <1> USE DEF TypeOK, Goto, Finish, ReadBack, Resume, Enter, Answer
  <1>1. CASE Refresh(p) \/ EnsureMarked(p)
    BY <1>1 DEF Refresh, RefreshPoll, RefreshExpired, RefreshFailed, EnsureMarked
  <1>2. CASE Poll(p)
    BY <1>2 DEF Poll, PollInterfaceGone, PollAnswered, PollFails, PollFailRead, PollFailMark,
        SyncInvocation, PollStopped, StopRead, PollPhase, PollReturns, RevertCancel,
        RevertRead, RevertBadge, BadgeDone, PublishMedia, PollReady
  <1>3. CASE Dispatch(p)
    BY <1>3 DEF Dispatch, DispatchDeclined, DispatchChecked, StorageUnhealthy,
        DispatchToWorkers, DispatchReturns
  <1>4. CASE CancelSteps(p)
    BY <1>4 DEF CancelSteps, TaskDeleted, TaskNotDeleted, FinalizeCancelled, FinalizeRead,
        FinalizeMark, FinalizeBadge, FinalizeAnswer, DeferCancel, DeferRead, DeferAnswer,
        BadgeRead, BadgeDone
  <1>5. CASE Persisting(p)
    BY <1>5 DEF Persisting, ClientClaimed, ClientCompleted, CompletionRead,
        RegisterTransition, FinalizeNode, WorkerCompleted, WorkerFailed
  <1>6. CASE Begin(p)
    BY <1>6 DEF Begin, ServerPersist, Cancel, ClientClaim, ClientComplete, WorkerComplete,
        WorkerFail
  <1> QED
    BY <1>1, <1>2, <1>3, <1>4, <1>5, <1>6 DEF Steps

\* No step moves two callers, unless the process dies.
LEMMA NextMovesOne ==
    ASSUME TypeOK, ~MayRestart, [Next]_vars, NEW q \in Callers,
           ~(Refresh(q) \/ Steps(q) \/ Begin(q))
    PROVE  rq'[q] = rq[q]
  <1>1. ASSUME NEW p \in Callers, Refresh(p) \/ Steps(p) \/ Begin(p) PROVE rq'[q] = rq[q]
    <2>1. p # q
      BY <1>1
    <2> QED
      BY <1>1, <2>1, MovesOne
  <1>2. CASE Submit \/ Provider \/ ReadyAtExpires \/ WorkerClaim \/ UNCHANGED vars
    BY <1>2 DEF Submit, ProviderAccepts, ProviderRejects, SubmitReopen, SubmitRecord,
        SubmitFail, SubmitMark, SubmitClose, Provider, ReadyAtExpires, WorkerClaim, vars
  <1> QED
    BY <1>1, <1>2 DEF Next, Restart, Callers

\* A caller that is about to finalize a cancel does nothing else.
LEMMA FromFinCas ==
    ASSUME NEW p \in Callers, At(p, "finCas"), Refresh(p) \/ Steps(p) \/ Begin(p)
    PROVE  FinalizeCancelled(p)
  <1> USE DEF At, Enter
  <1>1. ~(Refresh(p) \/ EnsureMarked(p) \/ Begin(p))
    BY DEF Refresh, RefreshPoll, RefreshExpired, RefreshFailed, EnsureMarked, Begin,
        ServerPersist, Cancel, ClientClaim, ClientComplete, WorkerComplete, WorkerFail
  <1>2. ~Poll(p)
    BY DEF Poll, PollInterfaceGone, PollAnswered, PollFails, PollFailRead, PollFailMark,
        SyncInvocation, PollStopped, StopRead, PollPhase, PollReturns, RevertCancel,
        RevertRead, RevertBadge, BadgeDone, PublishMedia, PollReady
  <1>3. ~Dispatch(p)
    BY DEF Dispatch, DispatchDeclined, DispatchChecked, StorageUnhealthy,
        DispatchToWorkers, DispatchReturns
  <1>4. ~Persisting(p)
    BY DEF Persisting, ClientClaimed, ClientCompleted, CompletionRead,
        RegisterTransition, FinalizeNode, WorkerCompleted, WorkerFailed
  <1>5. CancelSteps(p) => FinalizeCancelled(p)
    BY DEF CancelSteps, TaskDeleted, TaskNotDeleted, FinalizeCancelled, FinalizeRead,
        FinalizeMark, FinalizeBadge, FinalizeAnswer, DeferCancel, DeferRead, DeferAnswer,
        BadgeRead, BadgeDone
  <1> QED
    BY <1>1, <1>2, <1>3, <1>4, <1>5 DEF Steps

\* A job whose provider task was deleted has ended, or a cancel is about to
\* end it.
DeletedEnds == up = "deleted" => job.st \in Terminal \/ \E p \in Callers : At(p, "finCas")

\* Only finalizeJobCancelled takes a caller out of there, and it ends the job.
LEMMA DeletedEndsStep ==
    ASSUME IInv, DeletedEnds, ~MayRestart, [Next]_vars PROVE DeletedEnds'
  <1> SUFFICES ASSUME up' = "deleted", job'.st \notin Terminal
               PROVE  \E p \in Callers : At(p, "finCas")'
    BY DEF DeletedEnds
  <1>1. ASSUME NEW p \in Callers, TaskDeleted(p) PROVE At(p, "finCas")'
    BY <1>1, Parts DEF TaskDeleted, Goto, At, TypeOK
  <1>2. ASSUME \A p \in Callers : ~TaskDeleted(p) PROVE up = "deleted"
    <2>1. ASSUME NEW p \in Callers, Refresh(p) \/ Steps(p) \/ Begin(p) PROVE up' = up
      <3>1. CASE Refresh(p) \/ EnsureMarked(p) \/ Begin(p)
        BY <3>1 DEF Refresh, RefreshPoll, RefreshExpired, RefreshFailed, EnsureMarked, Begin,
            ServerPersist, Cancel, ClientClaim, ClientComplete, WorkerComplete, WorkerFail
      <3>2. CASE Poll(p)
        BY <3>2 DEF Poll, PollInterfaceGone, PollAnswered, PollFails, PollFailRead, PollFailMark,
            SyncInvocation, PollStopped, StopRead, PollPhase, PollReturns, RevertCancel,
            RevertRead, RevertBadge, BadgeDone, PublishMedia, PollReady
      <3>3. CASE Dispatch(p)
        BY <3>3 DEF Dispatch, DispatchDeclined, DispatchChecked, StorageUnhealthy,
            DispatchToWorkers, DispatchReturns
      <3>4. CASE Persisting(p)
        BY <3>4 DEF Persisting, ClientClaimed, ClientCompleted, CompletionRead,
            RegisterTransition, FinalizeNode, WorkerCompleted, WorkerFailed
      <3>5. CASE CancelSteps(p)
        BY <1>2, <3>5 DEF CancelSteps, TaskNotDeleted, FinalizeCancelled, FinalizeRead,
            FinalizeMark, FinalizeBadge, FinalizeAnswer, DeferCancel, DeferRead, DeferAnswer,
            BadgeRead, BadgeDone
      <3> QED
        BY <2>1, <3>1, <3>2, <3>3, <3>4, <3>5 DEF Steps
    <2>2. CASE Submit \/ Provider \/ ReadyAtExpires \/ WorkerClaim \/ UNCHANGED vars
      BY <2>2 DEF Submit, ProviderAccepts, ProviderRejects, SubmitReopen, SubmitRecord,
          SubmitFail, SubmitMark, SubmitClose, Provider, TaskStarts, TaskEnds,
          ReadyAtExpires, WorkerClaim, vars
    <2> QED
      BY <2>1, <2>2 DEF Next, Restart, Callers
  <1>3. ASSUME up = "deleted" PROVE \E p \in Callers : At(p, "finCas")'
    <2>1. job.st \notin Terminal
      BY EndsOnce, NextFollowsLifecycle
    <2>2. PICK q \in Callers : At(q, "finCas")
      BY <1>3, <2>1 DEF DeletedEnds
    <2>3. ~FinalizeCancelled(q)
      <3> SUFFICES ASSUME FinalizeCancelled(q) PROVE FALSE
        OBVIOUS
      <3>1. job.st \in {"pending", "generating", "cancelling"}
        BY <1>3, <2>1, Parts DEF OfferedOK, Offered, Terminal, JobRow, Status, Active
      <3>2. job'.st = "cancelled"
        BY <3>1, Parts DEF FinalizeCancelled, Update, JobRow
      <3> QED
        BY <3>2 DEF Terminal
    <2>4. rq'[q] = rq[q]
      BY <2>2, <2>3, FromFinCas, NextMovesOne, Parts
    <2> QED
      BY <2>2, <2>4 DEF At
  <1> QED
    BY <1>1, <1>2, <1>3

\* When every request has ended, a job whose provider task was deleted has
\* ended too: no cancel is lost between the provider's answer and the row.
THEOREM DeletedTaskEnds ==
    ASSUME ~MayRestart PROVE Spec => []DeletedTaskSettles
  <1>1. Init => DeletedEnds
    BY DEF Init, DeletedEnds
  <1>2. IInv /\ DeletedEnds /\ [Next]_vars => DeletedEnds'
    BY DeletedEndsStep
  <1>3. DeletedEnds => DeletedTaskSettles
    BY DEF DeletedEnds, DeletedTaskSettles, Quiet, At
  <1> QED
    BY <1>1, <1>2, <1>3, InitInvariant, NextStep, PTL DEF Spec
-----------------------------------------------------------------------------
(* The invocation record.                                                  *)

\* Where a caller is that has just written, or just read back, a status.
Rereads == {"failRead", "stopRead", "finRead", "doneRead"}
Holds == {"failMark", "sync", "finMark", "finBadge", "finSave", "finSync", "transition",
          "finalNode"}

\* The invocation status that belongs to a terminal job.
Closed(s) == IF s = "succeeded" THEN "completed" ELSE s

\* A caller that will still close the invocation of job j.
Owes(c, j) == c.pc \in Rereads \/ (c.pc \in Holds /\ c.row.st = j.st)
Owed == \E p \in Callers : Owes(rq[p], job)

\* An open job has a pending invocation record; that of a job which has ended
\* is closed accordingly, or somebody is still about to do so.
LogFollows ==
    /\ sub \in {"sending", "reopen", "record"} /\ job.st \notin Terminal => inv = "pending"
    /\ job.task => sub = "done"
    /\ job.task /\ job.st \notin Terminal => inv = "pending"
    /\ job.task /\ job.st \in Terminal =>
         inv = Closed(job.st) \/ (inv = "pending" /\ Owed)

\* What reaching the next await leaves with a caller.
LEMMA GotoEffect ==
    ASSUME TypeOK, NEW p \in Callers, NEW l, Goto(p, l)
    PROVE  rq'[p].pc = l /\ rq'[p].row = rq[p].row /\ rq'[p].op = rq[p].op
  BY CallerFields DEF Goto, TypeOK, CallerState

\* What reading the row again leaves with a caller.
LEMMA ReadBackEffect ==
    ASSUME TypeOK, NEW p \in Callers, NEW l, ReadBack(p, l)
    PROVE  rq'[p].pc = l /\ rq'[p].row = job /\ rq'[p].op = rq[p].op
  BY CallerFields DEF ReadBack, TypeOK, CallerState

\* The actions that may follow when a caller owes.
LEMMA FromOwing ==
    ASSUME NEW p \in Callers, Refresh(p) \/ Steps(p) \/ Begin(p),
           rq[p].pc \in Rereads \cup Holds
    PROVE  \/ PollFailRead(p) \/ StopRead(p) \/ FinalizeRead(p) \/ CompletionRead(p)
           \/ PollFailMark(p) \/ FinalizeMark(p) \/ FinalizeBadge(p)
           \/ RegisterTransition(p) \/ FinalizeNode(p) \/ BadgeRead(p)
           \/ SyncInvocation(p) \/ FinalizeAnswer(p)
  <1> USE DEF At, Enter, Rereads, Holds
  <1>1. ~(Refresh(p) \/ EnsureMarked(p) \/ Begin(p))
    <2>1. ~Cancel(p)
      BY DEF Cancel
    <2> QED
      BY <2>1 DEF Refresh, RefreshPoll, RefreshExpired, RefreshFailed, EnsureMarked, Begin,
          ServerPersist, ClientClaim, ClientComplete, WorkerComplete, WorkerFail
  <1>2. ~Dispatch(p)
    BY DEF Dispatch, DispatchDeclined, DispatchChecked, StorageUnhealthy,
        DispatchToWorkers, DispatchReturns
  <1>3. CASE Poll(p)
    BY <1>3 DEF Poll, PollInterfaceGone, PollAnswered, PollFails, PollStopped, PollPhase,
        PollReturns, RevertCancel, RevertRead, RevertBadge, BadgeDone, PublishMedia, PollReady
  <1>4. CASE CancelSteps(p)
    BY <1>4 DEF CancelSteps, TaskDeleted, TaskNotDeleted, FinalizeCancelled, DeferCancel,
        DeferRead, DeferAnswer, BadgeDone
  <1>5. CASE Persisting(p)
    BY <1>5 DEF Persisting, ClientClaimed, ClientCompleted, WorkerCompleted, WorkerFailed
  <1> QED
    BY <1>1, <1>2, <1>3, <1>4, <1>5 DEF Steps

\* A caller that owes goes on owing, or closes the record.
LEMMA OwesOrCloses ==
    ASSUME IInv, NEW p \in Callers, Refresh(p) \/ Steps(p) \/ Begin(p),
           job.st \in Terminal, inv = "pending", Owes(rq[p], job)
    PROVE  \/ Owes(rq[p], job)' /\ inv' = inv
           \/ inv' = Closed(job.st)
  <1>0. TypeOK /\ PastOf(rq[p].row, job) /\ rq[p].pc \in Rereads \cup Holds
    BY Parts, CallerRow DEF Owes
  <1>1. CASE PollFailRead(p) \/ StopRead(p) \/ FinalizeRead(p) \/ CompletionRead(p)
    <2>1. PICK l \in {"failMark", "sync", "finMark", "transition"} : ReadBack(p, l)
      BY <1>1 DEF PollFailRead, StopRead, FinalizeRead, CompletionRead
    <2>2. inv' = inv /\ job' = job
      BY <1>1 DEF PollFailRead, StopRead, FinalizeRead, CompletionRead
    <2> QED
      BY <1>0, <2>1, <2>2, ReadBackEffect DEF Owes, Holds
  <1>2. CASE \/ PollFailMark(p) \/ FinalizeMark(p) \/ FinalizeBadge(p)
             \/ RegisterTransition(p) \/ FinalizeNode(p) \/ BadgeRead(p)
    <2>1. PICK l \in {"sync", "finBadge", "finSave", "finSync", "finalNode"} : Goto(p, l)
      BY <1>0, <1>2 DEF PollFailMark, FinalizeMark, FinalizeBadge, RegisterTransition,
                        FinalizeNode, BadgeRead, At, Rereads, Holds
    <2>2. inv' = inv /\ job' = job /\ rq[p].pc \notin Rereads
      BY <1>2 DEF PollFailMark, FinalizeMark, FinalizeBadge, RegisterTransition, FinalizeNode,
                  BadgeRead, BadgeDone, At, Rereads
    <2>3. rq[p].row.st = job.st
      BY <2>2 DEF Owes
    <2> QED
      BY <1>0, <2>1, <2>2, <2>3, GotoEffect DEF Owes, Holds
  <1>3. CASE SyncInvocation(p) \/ FinalizeAnswer(p)
    <2>1. inv' = Synced(rq[p].row) /\ rq[p].pc \notin Rereads
      BY <1>3 DEF SyncInvocation, FinalizeAnswer, At, Rereads
    <2>2. rq[p].row.st = job.st
      BY <2>1 DEF Owes
    <2> QED
      BY <2>1, <2>2 DEF Synced, Closed, Terminal
  <1> QED
    BY <1>0, <1>1, <1>2, <1>3, FromOwing

\* A caller that ends the job owes the record.
LEMMA EnderOwes ==
    ASSUME IInv, NEW p \in Callers, Refresh(p) \/ Steps(p) \/ Begin(p),
           job.st \notin Terminal, job'.st \in Terminal
    PROVE  Owes(rq[p], job)'
  <1>0. TypeOK /\ job \in JobRow /\ job' # job
    BY Parts
  <1>1. \/ PollFails(p) \/ PollStopped(p) \/ PollPhase(p) \/ RevertCancel(p) \/ PollReady(p)
        \/ StorageUnhealthy(p) \/ DispatchToWorkers(p) \/ FinalizeCancelled(p)
        \/ DeferCancel(p) \/ ClientClaimed(p) \/ ClientCompleted(p) \/ WorkerCompleted(p)
        \/ WorkerFailed(p)
    <2>1. ~(Refresh(p) \/ EnsureMarked(p) \/ Begin(p))
      BY <1>0 DEF Refresh, RefreshPoll, RefreshExpired, RefreshFailed, EnsureMarked, Begin,
          ServerPersist, Cancel, ClientClaim, ClientComplete, WorkerComplete, WorkerFail
    <2> QED
      BY <1>0, <2>1
      DEF Steps, Poll, PollInterfaceGone, PollAnswered, PollFailRead, PollFailMark,
          SyncInvocation, StopRead, PollReturns, RevertRead, RevertBadge, BadgeDone, PublishMedia,
          Dispatch, DispatchDeclined, DispatchChecked, DispatchReturns,
          CancelSteps, TaskDeleted, TaskNotDeleted, FinalizeRead, FinalizeMark,
          FinalizeBadge, FinalizeAnswer, DeferRead, DeferAnswer, BadgeRead,
          Persisting, CompletionRead, RegisterTransition, FinalizeNode
  <1>2. CASE \/ PollFails(p) \/ PollStopped(p) \/ StorageUnhealthy(p) \/ FinalizeCancelled(p)
             \/ ClientCompleted(p) \/ WorkerCompleted(p) \/ WorkerFailed(p)
    <2>1. PICK l \in Rereads : Goto(p, l)
      BY <1>2 DEF PollFails, PollStopped, StorageUnhealthy, FinalizeCancelled,
                  ClientCompleted, WorkerCompleted, WorkerFailed, Rereads
    <2> QED
      BY <1>0, <2>1, GotoEffect DEF Owes
  <1>3. CASE PollPhase(p)
    BY <1>0, <1>3, CallerRow DEF PollPhase, Update, JobRow, Terminal, PcOK, At
  <1>4. CASE RevertCancel(p)
    BY <1>0, <1>4 DEF RevertCancel, Update, JobRow, Terminal
  <1>5. CASE PollReady(p)
    BY <1>0, <1>5 DEF PollReady, Update, JobRow, Terminal
  <1>6. CASE DispatchToWorkers(p) \/ DeferCancel(p) \/ ClientClaimed(p)
    BY <1>0, <1>6 DEF DispatchToWorkers, DeferCancel, ClientClaimed, Update, JobRow, Terminal
  <1> QED
    BY <1>1, <1>2, <1>3, <1>4, <1>5, <1>6

\* A caller leaves the record alone or closes it for a job that has ended.
LEMMA OnlyCloses ==
    ASSUME IInv, NEW p \in Callers, Refresh(p) \/ Steps(p) \/ Begin(p),
           inv' # inv
    PROVE  job.st \in Terminal /\ job'.st = job.st /\ inv' = Closed(job.st)
  <1>1. SyncInvocation(p) \/ FinalizeAnswer(p)
    <2>1. ~(Refresh(p) \/ EnsureMarked(p) \/ Begin(p))
      BY DEF Refresh, RefreshPoll, RefreshExpired, RefreshFailed, EnsureMarked, Begin,
          ServerPersist, Cancel, ClientClaim, ClientComplete, WorkerComplete, WorkerFail
    <2>2. CASE Poll(p)
      BY <2>2 DEF Poll, PollInterfaceGone, PollAnswered, PollFails, PollFailRead, PollFailMark,
        PollStopped, StopRead, PollPhase, PollReturns, RevertCancel,
        RevertRead, RevertBadge, BadgeDone, PublishMedia, PollReady
    <2>3. ~(Dispatch(p) \/ Persisting(p))
      BY DEF Dispatch, DispatchDeclined, DispatchChecked, StorageUnhealthy,
        DispatchToWorkers, DispatchReturns, Persisting, ClientClaimed, ClientCompleted, CompletionRead,
        RegisterTransition, FinalizeNode, WorkerCompleted, WorkerFailed
    <2>4. CASE CancelSteps(p)
      BY <2>4 DEF CancelSteps, TaskDeleted, TaskNotDeleted, FinalizeCancelled, FinalizeRead,
        FinalizeMark, FinalizeBadge, FinalizeAnswer, DeferCancel, DeferRead, DeferAnswer,
        BadgeRead, BadgeDone
    <2> QED
      BY <2>1, <2>2, <2>3, <2>4 DEF Steps
  <1>2. inv' = Synced(rq[p].row) /\ job' = job
    BY <1>1 DEF SyncInvocation, FinalizeAnswer
  <1> QED
    BY <1>2, CallerRow DEF Synced, Closed, PastOf, Terminal

\* No step leaves a job that has ended with an open record and nobody to close it.
LEMMA LogStep ==
    ASSUME IInv, LogFollows, ~MayRestart, [Next]_vars PROVE LogFollows'
  <1>1. TypeOK /\ job \in JobRow
    BY Parts
  <1>2. CASE Submit
    <2>1. ~job.task \/ sub = "done"
      BY DEF LogFollows
    <2>2. ~job.task
      BY <1>2, <2>1 DEF Submit, ProviderAccepts, ProviderRejects, SubmitReopen, SubmitRecord,
        SubmitFail, SubmitMark, SubmitClose
    <2>3. CASE SubmitRecord
      <3>1. job.st \in {"generating"} => job'.task /\ job'.st = "generating"
        BY <1>1, <2>3 DEF SubmitRecord, Update, JobRow
      <3>2. job.st \notin {"generating"} => job' = job
        BY <2>3 DEF SubmitRecord, Update
      <3> QED
        BY <2>2, <2>3, <3>1, <3>2 DEF SubmitRecord, LogFollows, Terminal
    <2>4. CASE SubmitFail
      <3>1. job'.task = job.task
        BY <1>1, <2>4 DEF SubmitFail, Update, JobRow
      <3> QED
        BY <2>2, <2>4, <3>1 DEF SubmitFail, LogFollows
    <2> QED
      BY <1>2, <2>2, <2>3, <2>4
      DEF Submit, ProviderAccepts, ProviderRejects, SubmitReopen, SubmitMark, SubmitClose, LogFollows
  <1>3. CASE Provider \/ ReadyAtExpires \/ WorkerClaim \/ UNCHANGED vars
    <2>1. job'.st = job.st /\ job'.task = job.task
      BY <1>1, <1>3 DEF Provider, ReadyAtExpires, WorkerClaim, vars, JobRow
    <2>2. inv' = inv /\ sub' = sub /\ rq' = rq
      BY <1>3 DEF Provider, ReadyAtExpires, WorkerClaim, vars
    <2>3. Owed => Owed'
      BY <2>1, <2>2 DEF Owed, Owes
    <2> QED
      BY <2>1, <2>2, <2>3 DEF LogFollows
  <1>4. ASSUME NEW p \in Callers, Refresh(p) \/ Steps(p) \/ Begin(p) PROVE LogFollows'
    <2>1. sub' = sub
      BY <1>4 DEF Refresh, Steps, Begin, RefreshPoll, RefreshExpired, RefreshFailed, EnsureMarked,
        ServerPersist, Cancel, ClientClaim, ClientComplete, WorkerComplete, WorkerFail,
        Poll, PollInterfaceGone, PollAnswered, PollFails, PollFailRead, PollFailMark,
        SyncInvocation, PollStopped, StopRead, PollPhase, PollReturns, RevertCancel,
        RevertRead, RevertBadge, BadgeDone, PublishMedia, PollReady,
        Dispatch, DispatchDeclined, DispatchChecked, StorageUnhealthy,
        DispatchToWorkers, DispatchReturns,
        CancelSteps, TaskDeleted, TaskNotDeleted, FinalizeCancelled, FinalizeRead,
        FinalizeMark, FinalizeBadge, FinalizeAnswer, DeferCancel, DeferRead, DeferAnswer,
        BadgeRead, BadgeDone,
        Persisting, ClientClaimed, ClientCompleted, CompletionRead,
        RegisterTransition, FinalizeNode, WorkerCompleted, WorkerFailed
    <2>2. job'.task = job.task
      <3>1. CASE Refresh(p) \/ EnsureMarked(p) \/ Begin(p)
        BY <3>1 DEF Refresh, RefreshPoll, RefreshExpired, RefreshFailed, EnsureMarked, Begin,
            ServerPersist, Cancel, ClientClaim, ClientComplete, WorkerComplete, WorkerFail
      <3>2. CASE Poll(p)
        BY <1>1, <3>2 DEF Poll, PollInterfaceGone, PollAnswered, PollFails, PollFailRead, PollFailMark,
            SyncInvocation, PollStopped, StopRead, PollPhase, PollReturns, RevertCancel,
            RevertRead, RevertBadge, BadgeDone, PublishMedia, PollReady, Update, JobRow
      <3>3. CASE Dispatch(p)
        BY <1>1, <3>3 DEF Dispatch, DispatchDeclined, DispatchChecked, StorageUnhealthy,
            DispatchToWorkers, DispatchReturns, Update, JobRow
      <3>4. CASE Persisting(p)
        BY <1>1, <3>4 DEF Persisting, ClientClaimed, ClientCompleted, CompletionRead,
            RegisterTransition, FinalizeNode, WorkerCompleted, WorkerFailed, Update, JobRow
      <3>5. CASE CancelSteps(p)
        BY <1>1, <3>5 DEF CancelSteps, TaskDeleted, TaskNotDeleted, FinalizeCancelled, FinalizeRead,
            FinalizeMark, FinalizeBadge, FinalizeAnswer, DeferCancel, DeferRead, DeferAnswer,
            BadgeRead, BadgeDone, Update, JobRow
      <3> QED
        BY <1>4, <3>1, <3>2, <3>3, <3>4, <3>5 DEF Steps
    <2>3. CASE job.st \in Terminal
      <3>1. job'.st = job.st
        BY <1>4, <2>3, EndsOnce, CallerFollowsLifecycle
      <3>2. CASE ~job.task
        BY <2>1, <2>2, <2>3, <3>1, <3>2 DEF LogFollows
      <3>3. CASE job.task /\ inv = Closed(job.st)
        <4>1. inv' = inv
          BY <1>4, <3>3, OnlyCloses
        <4> QED
          BY <2>1, <2>2, <2>3, <3>1, <3>3, <4>1 DEF LogFollows, Closed
      <3>4. CASE job.task /\ inv # Closed(job.st)
        <4>1. inv = "pending"
          BY <2>3, <3>4 DEF LogFollows
        <4>2. PICK q \in Callers : Owes(rq[q], job)
          BY <2>3, <3>4 DEF LogFollows, Owed
        <4>3. inv' = Closed(job.st) \/ (inv' = inv /\ Owes(rq[q], job)')
          <5>1. CASE q = p
            BY <1>4, <2>3, <4>1, <4>2, <5>1, OwesOrCloses
          <5>2. CASE q # p
            <6>1. rq'[q] = rq[q]
              BY <1>1, <1>4, <5>2, MovesOne
            <6> QED
              BY <1>4, <3>1, <4>2, <6>1, OnlyCloses DEF Owes
          <5> QED
            BY <5>1, <5>2
        <4> QED
          BY <2>1, <2>2, <2>3, <3>1, <3>4, <4>1, <4>3 DEF LogFollows, Owed
      <3> QED
        BY <3>2, <3>3, <3>4
    <2>4. CASE job.st \notin Terminal
      <3>1. inv' = inv
        BY <1>4, <2>4, OnlyCloses
      <3>2. CASE job'.st \in Terminal
        <4>1. Owed'
          BY <1>4, <2>4, <3>2, EnderOwes DEF Owed
        <4> QED
          BY <2>1, <2>2, <2>4, <3>1, <3>2, <4>1 DEF LogFollows
      <3>3. CASE job'.st \notin Terminal
        BY <2>1, <2>2, <2>4, <3>1, <3>3 DEF LogFollows
      <3> QED
        BY <3>2, <3>3
    <2> QED
      BY <2>3, <2>4
  <1> QED
    BY <1>2, <1>3, <1>4 DEF Next, Restart, Callers

\* Once every request has ended, the invocation record of a job that reached
\* the provider says what the row says, whichever request lost its UPDATE.
THEOREM InvocationAgrees ==
    ASSUME ~MayRestart PROVE Spec => []SettledInvocation
  <1>1. Init => LogFollows
    BY DEF Init, LogFollows, NewJob, Terminal
  <1>2. IInv /\ LogFollows /\ [Next]_vars => LogFollows'
    BY LogStep
  <1>3. LogFollows => SettledInvocation
    <2>1. Quiet => ~Owed
      BY DEF Quiet, Owed, Owes, At, Rereads, Holds
    <2> QED
      BY <2>1 DEF LogFollows, SettledInvocation, Closed
  <1> QED
    BY <1>1, <1>2, <1>3, InitInvariant, NextStep, PTL DEF Spec
-----------------------------------------------------------------------------
(* The placeholder of a MediaKit job.  Its submission records the ids      *)
(* again, so that no copy of resultJson is ever without them.              *)

Named(r) == r.res.holds /\ r.res.pending # "unbound"
PlaceholderNamed == Named(job) /\ \A p \in Callers : Named(rq[p].row)

\* A caller keeps the row it has, reads it again or forgets it.
LEMMA RowSource ==
    ASSUME TypeOK, NEW p \in Callers, Refresh(p) \/ Steps(p) \/ Begin(p)
    PROVE  rq'[p].row \in {rq[p].row, job, NewJob}
  <1>1. ASSUME NEW l, Goto(p, l) \/ ReadBack(p, l) PROVE rq'[p].row \in {rq[p].row, job}
    BY <1>1, GotoEffect, ReadBackEffect
  <1>2. ASSUME Finish(p) PROVE rq'[p].row = NewJob
    BY <1>2 DEF Finish, Idle, TypeOK
  <1>3. ASSUME NEW r, Resume(p, r) PROVE rq'[p].row \in {r, NewJob}
    BY <1>2, <1>3 DEF Resume, TypeOK, CallerState
  <1>4. ASSUME NEW o, NEW l, Enter(p, o, l) PROVE rq'[p].row = job
    BY <1>4 DEF Enter, TypeOK
  <1>5. CASE Refresh(p) \/ EnsureMarked(p) \/ Begin(p)
    BY <1>2, <1>4, <1>5
    DEF Refresh, RefreshPoll, RefreshExpired, RefreshFailed, EnsureMarked, Begin,
        ServerPersist, Cancel, Answer, ClientClaim, ClientComplete, WorkerComplete, WorkerFail
  <1>6. CASE Poll(p)
    <2>1. CASE PollInterfaceGone(p) \/ PollAnswered(p)
      BY ZenonT(30), <2>1 DEF PollInterfaceGone, PollAnswered, TypeOK, CallerState
    <2>2. CASE SyncInvocation(p) \/ PollReturns(p) \/ RevertBadge(p)
      BY <1>1, <1>3, <2>2 DEF SyncInvocation, PollReturns, RevertBadge
    <2> QED
      BY <1>1, <1>6, <2>1, <2>2
      DEF Poll, PollFails, PollFailRead, PollFailMark, PollStopped, StopRead, PollPhase,
          RevertCancel, RevertRead, PublishMedia, PollReady
  <1>7. CASE Dispatch(p)
    BY <1>1, <1>2, <1>3, <1>7
    DEF Dispatch, DispatchDeclined, DispatchChecked, StorageUnhealthy, DispatchToWorkers,
        DispatchReturns
  <1>8. CASE CancelSteps(p)
    BY <1>1, <1>2, <1>8
    DEF CancelSteps, TaskDeleted, TaskNotDeleted, FinalizeCancelled, FinalizeRead,
        FinalizeMark, FinalizeBadge, FinalizeAnswer, DeferCancel, DeferRead, DeferAnswer,
        BadgeRead, BadgeDone, Answer
  <1>9. CASE Persisting(p)
    BY <1>1, <1>2, <1>9
    DEF Persisting, ClientClaimed, ClientCompleted, CompletionRead, RegisterTransition,
        FinalizeNode, WorkerCompleted, WorkerFailed
  <1> QED
    BY <1>5, <1>6, <1>7, <1>8, <1>9 DEF Steps

\* No update of a caller drops the placeholder's name.
LEMMA RowStaysNamed ==
    ASSUME IInv, NEW p \in Callers, Refresh(p) \/ Steps(p) \/ Begin(p),
           Named(job), Named(rq[p].row)
    PROVE  Named(job')
  <1>0. job \in JobRow /\ rq[p].row \in JobRow
    BY Parts, CallerRow
  <1> USE <1>0 DEF Named, Update, JobRow, ResultJson
  <1>1. CASE Refresh(p) \/ EnsureMarked(p) \/ Begin(p)
    BY <1>1 DEF Refresh, RefreshPoll, RefreshExpired, RefreshFailed, EnsureMarked, Begin,
        ServerPersist, Cancel, ClientClaim, ClientComplete, WorkerComplete, WorkerFail
  <1>2. CASE Poll(p)
    <2>1. CASE PollFails(p) \/ PollStopped(p) \/ RevertCancel(p)
      BY <2>1 DEF PollFails, PollStopped, RevertCancel
    <2>2. CASE PollPhase(p)
      BY <2>2 DEF PollPhase
    <2>3. CASE PollReady(p)
      BY <2>3 DEF PollReady
    <2> QED
      BY <1>2, <2>1, <2>2, <2>3
      DEF Poll, PollInterfaceGone, PollAnswered, PollFailRead, PollFailMark,
          SyncInvocation, StopRead, PollReturns, RevertRead, RevertBadge, BadgeDone, PublishMedia
  <1>3. CASE Dispatch(p)
    <2>1. CASE StorageUnhealthy(p)
      BY <2>1 DEF StorageUnhealthy
    <2>2. CASE DispatchToWorkers(p)
      BY <2>2 DEF DispatchToWorkers
    <2> QED
      BY <1>3, <2>1, <2>2 DEF Dispatch, DispatchDeclined, DispatchChecked, DispatchReturns
  <1>4. CASE CancelSteps(p)
    <2>1. CASE FinalizeCancelled(p) \/ DeferCancel(p)
      BY <2>1 DEF FinalizeCancelled, DeferCancel
    <2> QED
      BY <1>4, <2>1
      DEF CancelSteps, TaskDeleted, TaskNotDeleted, FinalizeRead, FinalizeMark,
          FinalizeBadge, FinalizeAnswer, DeferRead, DeferAnswer, BadgeRead
  <1>5. CASE Persisting(p)
    <2>1. CASE ClientClaimed(p)
      BY <2>1 DEF ClientClaimed
    <2>2. CASE WorkerFailed(p)
      BY <2>2 DEF WorkerFailed
    <2>3. CASE ClientCompleted(p)
      BY <2>3 DEF ClientCompleted
    <2>4. CASE WorkerCompleted(p)
      BY <2>4 DEF WorkerCompleted
    <2> QED
      BY <1>5, <2>1, <2>2, <2>3, <2>4
      DEF Persisting, CompletionRead, RegisterTransition, FinalizeNode
  <1> QED
    BY <1>1, <1>2, <1>3, <1>4, <1>5 DEF Steps

\* A new job names its placeholder.
LEMMA NewIsNamed == Named(NewJob) /\ Named(Idle.row)
  BY DEF Named, NewJob, EmptyResult, Idle

\* Neither callers nor the submission lose the placeholder's name.
LEMMA NamedStep ==
    ASSUME Kind = "mediakit", IInv, PlaceholderNamed, [Next]_vars
    PROVE  PlaceholderNamed'
  <1>1. TypeOK /\ job \in JobRow
    BY Parts
  <1>2. ASSUME NEW p \in Callers, Refresh(p) \/ Steps(p) \/ Begin(p) PROVE PlaceholderNamed'
    <2>1. Named(job')
      BY <1>2, RowStaysNamed DEF PlaceholderNamed
    <2>2. ASSUME NEW q \in Callers PROVE Named(rq'[q].row)
      <3>1. CASE q = p
        BY <1>1, <1>2, <3>1, RowSource, NewIsNamed DEF PlaceholderNamed
      <3>2. CASE q # p
        BY <1>1, <1>2, <3>2, MovesOne DEF PlaceholderNamed
      <3> QED
        BY <3>1, <3>2
    <2> QED
      BY <2>1, <2>2 DEF PlaceholderNamed, Named
  <1>3. CASE Submit \/ Provider \/ ReadyAtExpires \/ WorkerClaim \/ UNCHANGED vars
    <2>1. rq' = rq
      BY <1>3 DEF Submit, ProviderAccepts, ProviderRejects, SubmitReopen, SubmitRecord,
        SubmitFail, SubmitMark, SubmitClose, Provider, ReadyAtExpires, WorkerClaim, vars
    <2>2. Named(job')
      <3>1. CASE SubmitRecord
        BY <1>1, <3>1 DEF SubmitRecord, Update, PlaceholderNamed, Named, EmptyResult, JobRow
      <3>2. CASE SubmitFail \/ WorkerClaim \/ ReadyAtExpires
        BY <1>1, <3>2 DEF SubmitFail, WorkerClaim, ReadyAtExpires, Update, PlaceholderNamed,
                          Named, JobRow, ResultJson
      <3> QED
        BY <1>3, <3>1, <3>2
        DEF Submit, ProviderAccepts, ProviderRejects, SubmitReopen, SubmitMark, SubmitClose,
            Provider, vars, PlaceholderNamed
    <2> QED
      BY <2>1, <2>2 DEF PlaceholderNamed, Named
  <1>4. CASE Restart
    BY <1>4, NewIsNamed DEF Restart, PlaceholderNamed, Named
  <1> QED
    BY <1>2, <1>3, <1>4 DEF Next, Callers

\* What a MediaKit job offers for persisting names its placeholder, with
\* restarts too: no write of resultJson from an older copy drops the ids.
THEOREM MediaKitNamesPlaceholder ==
    ASSUME Kind = "mediakit" PROVE Spec => []PendingMediaNamesPlaceholder
  <1>1. Init => PlaceholderNamed
    BY NewIsNamed DEF Init, PlaceholderNamed, Named
  <1>2. IInv /\ PlaceholderNamed /\ [Next]_vars => PlaceholderNamed'
    BY NamedStep
  <1>3. IInv /\ PlaceholderNamed => PendingMediaNamesPlaceholder
    BY DEF IInv, TypeOK, JobInvariant, RowOK, Offered, JobRow, ResultJson,
           PlaceholderNamed, Named, PendingMediaNamesPlaceholder
  <1> QED
    BY <1>1, <1>2, <1>3, InitInvariant, NextStep, PTL DEF Spec

-----------------------------------------------------------------------------
(* The "cancelling" mark on the node of a MediaKit job.                    *)

\* Where a caller is after the job has left generation; where a MediaKit
\* caller never gets, because its polls do not withdraw a cancel; and where
\* one is that will still mark the node.
Late == {"finRead", "finMark", "finBadge", "finSave", "doneRead", "transition", "finalNode"}
Withdraws == {"revertCas", "revertRead", "revertBadge", "revertSave", "publish"}
Marks == {"deferRead", "deferBadge", "deferSave"}

MediaKitPlace(c, j) ==
    /\ c.pc \in Late => j.st \notin Early
    /\ c.pc \notin Withdraws
    /\ c.pc = "delete" => c.op = "cancel"

CancelMarked ==
    /\ \A p \in Callers : MediaKitPlace(rq[p], job)
    /\ job.st = "cancelling" => badge \/ \E p \in Callers : rq[p].pc \in Marks

\* A caller gets only where a MediaKit caller may be.
LEMMA PlaceStep ==
    ASSUME Kind = "mediakit", IInv, NEW p \in Callers, Refresh(p) \/ Steps(p) \/ Begin(p),
           MediaKitPlace(rq[p], job)
    PROVE  MediaKitPlace(rq'[p], job')
  <1>0. /\ TypeOK /\ rq[p] \in CallerState /\ rq \in [Callers -> CallerState]
        /\ job \in JobRow
        /\ RowOK(rq[p].row) /\ PastOf(rq[p].row, job) /\ PcOK(rq[p].pc, rq[p].row, rq[p].got)
        /\ job.st \notin Early => job'.st \notin Early
    BY Parts, CallerRow, EndsOnce, CallerFollowsLifecycle DEF TypeOK
  <1> USE <1>0 DEF MediaKitPlace, Late, Withdraws
  <1>1. ASSUME Finish(p) PROVE MediaKitPlace(rq'[p], job')
    BY <1>1 DEF Finish, Idle
  <1>2. ASSUME NEW r, Resume(p, r) PROVE MediaKitPlace(rq'[p], job')
    BY <1>1, <1>2 DEF Resume, After, CallerState
  <1>3. ASSUME NEW l \in Labels \ (Late \cup Withdraws \cup {"delete"}), Goto(p, l) \/ ReadBack(p, l)
        PROVE  MediaKitPlace(rq'[p], job')
    BY <1>3, GotoEffect, ReadBackEffect
  <1>4. ASSUME NEW l \in Late, Goto(p, l) \/ ReadBack(p, l), job'.st \notin Early
        PROVE  MediaKitPlace(rq'[p], job')
    BY <1>4, GotoEffect, ReadBackEffect
  <1>5. ASSUME NEW o, NEW l \in Labels \ (Late \cup Withdraws), Enter(p, o, l),
               l = "delete" => o = "cancel"
        PROVE  MediaKitPlace(rq'[p], job')
    BY <1>5 DEF Enter
  <1>6. CASE Refresh(p) \/ EnsureMarked(p) \/ Begin(p)
    <2>1. CASE Cancel(p)
      BY <2>1, <1>1, <1>5 DEF Cancel, Answer, CancelBranch, Labels
    <2>2. CASE Refresh(p) \/ EnsureMarked(p)
      BY <2>2, <1>1, <1>5 DEF Refresh, RefreshPoll, RefreshExpired, RefreshFailed, EnsureMarked, Labels
    <2>3. CASE Begin(p) /\ ~Cancel(p)
      BY <2>3, <1>5 DEF Begin, ServerPersist, ClientClaim, ClientComplete, WorkerComplete, WorkerFail, Labels
    <2> QED
      BY <1>6, <2>1, <2>2, <2>3
  <1>7. CASE Poll(p)
    <2>1. CASE PollInterfaceGone(p)
      BY <2>1 DEF PollInterfaceGone, CallerState
    <2>2. CASE PollAnswered(p)
      BY <2>2 DEF PollAnswered, PollNext, CallerState
    <2>3. CASE PollFails(p) \/ PollFailRead(p) \/ PollFailMark(p) \/ PollStopped(p)
               \/ StopRead(p) \/ PollPhase(p) \/ PollReady(p)
      BY <2>3, <1>3 DEF PollFails, PollFailRead, PollFailMark, PollStopped, StopRead,
                        PollPhase, PollReady, Labels
    <2>4. CASE SyncInvocation(p) \/ PollReturns(p)
      BY <2>4, <1>2 DEF SyncInvocation, PollReturns
    <2> QED
      BY <1>7, <2>1, <2>2, <2>3, <2>4
      DEF Poll, RevertCancel, RevertRead, RevertBadge, BadgeDone, PublishMedia, At
  <1>8. CASE Dispatch(p)
    BY <1>8, <1>1, <1>2, <1>3
    DEF Dispatch, DispatchDeclined, DispatchChecked, StorageUnhealthy, DispatchToWorkers,
        DispatchReturns, Labels
  <1>9. CASE CancelSteps(p)
    <2>1. CASE TaskDeleted(p) \/ DeferCancel(p) \/ DeferRead(p)
      BY <2>1, <1>3 DEF TaskDeleted, DeferCancel, DeferRead, Labels
    <2>2. CASE TaskNotDeleted(p)
      BY <2>2, <1>3 DEF TaskNotDeleted, Labels, At
    <2>3. CASE FinalizeCancelled(p)
      <3>1. job'.st \notin Early
        BY <2>3 DEF FinalizeCancelled, Update, JobRow, Early
      <3> QED
        BY <2>3, <3>1, <1>4 DEF FinalizeCancelled
    <2>4. CASE FinalizeRead(p) \/ FinalizeMark(p)
      BY <2>4, <1>4 DEF FinalizeRead, FinalizeMark, At
    <2>5. CASE FinalizeBadge(p)
      BY <2>5, <1>3 DEF FinalizeBadge, Labels
    <2>6. CASE FinalizeAnswer(p) \/ DeferAnswer(p)
      BY <2>6, <1>1 DEF FinalizeAnswer, DeferAnswer, Answer
    <2>7. CASE BadgeRead(p)
      <3>1. (At(p, "deferBadge") /\ Goto(p, "deferSave")) \/ (At(p, "finBadge") /\ Goto(p, "finSave"))
        BY <2>7 DEF BadgeRead, At
      <3>2. job' = job
        BY <2>7 DEF BadgeRead
      <3> QED
        BY <3>1, <3>2, <1>3, <1>4 DEF At, Labels
    <2> QED
      BY <1>9, <2>1, <2>2, <2>3, <2>4, <2>5, <2>6, <2>7 DEF CancelSteps
  <1>10. CASE Persisting(p)
    <2>1. CASE ClientClaimed(p)
      BY <2>1, <1>1 DEF ClientClaimed
    <2>2. CASE ClientCompleted(p) \/ WorkerCompleted(p)
      <3>1. job.st \notin Early
        BY <2>2 DEF ClientCompleted, WorkerCompleted, At, PcOK, PastOf, Early
      <3> QED
        BY <2>2, <3>1, <1>4 DEF ClientCompleted, WorkerCompleted
    <2>3. CASE CompletionRead(p) \/ RegisterTransition(p)
      BY <2>3, <1>4 DEF CompletionRead, RegisterTransition, At
    <2>4. CASE FinalizeNode(p) \/ WorkerFailed(p)
      BY <2>4, <1>3 DEF FinalizeNode, WorkerFailed, Labels
    <2> QED
      BY <1>10, <2>1, <2>2, <2>3, <2>4 DEF Persisting
  <1> QED
    BY <1>6, <1>7, <1>8, <1>9, <1>10 DEF Steps

\* Nobody takes the mark away while the job is being cancelled.
LEMMA MarkStays ==
    ASSUME Kind = "mediakit", NEW p \in Callers, Refresh(p) \/ Steps(p) \/ Begin(p),
           MediaKitPlace(rq[p], job), job.st = "cancelling"
    PROVE  badge => badge'
  <1> USE DEF MediaKitPlace, Late, Withdraws, At, Early
  <1>1. CASE Refresh(p) \/ EnsureMarked(p) \/ Begin(p)
    BY <1>1 DEF Refresh, RefreshPoll, RefreshExpired, RefreshFailed, EnsureMarked, Begin,
        ServerPersist, Cancel, ClientClaim, ClientComplete, WorkerComplete, WorkerFail
  <1>2. CASE Poll(p)
    BY <1>2 DEF Poll, PollInterfaceGone, PollAnswered, PollFails, PollFailRead, PollFailMark,
        SyncInvocation, PollStopped, StopRead, PollPhase, PollReturns, RevertCancel,
        RevertRead, RevertBadge, BadgeDone, PublishMedia, PollReady
  <1>3. CASE Dispatch(p)
    BY <1>3 DEF Dispatch, DispatchDeclined, DispatchChecked, StorageUnhealthy,
        DispatchToWorkers, DispatchReturns
  <1>4. CASE CancelSteps(p)
    BY <1>4 DEF CancelSteps, TaskDeleted, TaskNotDeleted, FinalizeCancelled, FinalizeRead,
        FinalizeMark, FinalizeBadge, FinalizeAnswer, DeferCancel, DeferRead, DeferAnswer,
        BadgeRead, BadgeDone
  <1>5. CASE Persisting(p)
    BY <1>5 DEF Persisting, ClientClaimed, ClientCompleted, CompletionRead,
        RegisterTransition, FinalizeNode, WorkerCompleted, WorkerFailed
  <1> QED
    BY <1>1, <1>2, <1>3, <1>4, <1>5 DEF Steps

\* A caller that will mark the node goes on to do so.
LEMMA MarkerMarks ==
    ASSUME IInv, NEW p \in Callers, Refresh(p) \/ Steps(p) \/ Begin(p),
           rq[p].pc \in Marks, Named(rq[p].row)
    PROVE  rq'[p].pc \in Marks \/ badge'
  <1>1. DeferRead(p) \/ DeferAnswer(p) \/ BadgeRead(p)
    <2> USE DEF At, Enter, Marks
    <2>1. ~(Refresh(p) \/ EnsureMarked(p) \/ Begin(p))
      <3>1. ~Cancel(p)
        BY DEF Cancel
      <3> QED
        BY <3>1 DEF Refresh, RefreshPoll, RefreshExpired, RefreshFailed, EnsureMarked, Begin,
            ServerPersist, ClientClaim, ClientComplete, WorkerComplete, WorkerFail
    <2>2. ~(Poll(p) \/ Dispatch(p) \/ Persisting(p))
      BY DEF Poll, PollInterfaceGone, PollAnswered, PollFails, PollFailRead, PollFailMark,
          SyncInvocation, PollStopped, StopRead, PollPhase, PollReturns, RevertCancel,
          RevertRead, RevertBadge, BadgeDone, PublishMedia, PollReady,
          Dispatch, DispatchDeclined, DispatchChecked, StorageUnhealthy,
          DispatchToWorkers, DispatchReturns,
          Persisting, ClientClaimed, ClientCompleted, CompletionRead,
          RegisterTransition, FinalizeNode, WorkerCompleted, WorkerFailed
    <2> QED
      BY <2>1, <2>2
      DEF Steps, CancelSteps, TaskDeleted, TaskNotDeleted, FinalizeCancelled, FinalizeRead,
          FinalizeMark, FinalizeBadge, FinalizeAnswer, DeferCancel, BadgeDone
  <1>2. CASE DeferRead(p)
    BY <1>2, Parts, ReadBackEffect DEF DeferRead, Marks
  <1>3. CASE DeferAnswer(p)
    <2>1. (~BadgeDiffers(p, TRUE) /\ badge' = badge) \/ badge' = TRUE
      BY <1>3 DEF DeferAnswer, BadgeDone
    <2>2. rq[p].row.res.holds /\ badge \in BOOLEAN
      BY Parts DEF Named, TypeOK
    <2>3. ~BadgeDiffers(p, TRUE) => badge = TRUE
      BY <2>2 DEF BadgeDiffers
    <2>4. badge' = TRUE
      BY <2>1, <2>3
    <2>5. badge'
      BY ONLY <2>4
    <2> QED
      BY <2>5
  <1>4. CASE BadgeRead(p)
    <2>1. Goto(p, "deferSave")
      BY <1>4 DEF BadgeRead, At, Marks
    <2> QED
      BY <2>1, Parts, GotoEffect DEF Marks
  <1> QED
    BY <1>1, <1>2, <1>3, <1>4

\* Only a deferred cancel makes a job "cancelling", and it will mark the node.
LEMMA CancellerMarks ==
    ASSUME IInv, NEW p \in Callers, Refresh(p) \/ Steps(p) \/ Begin(p),
           job.st # "cancelling", job'.st = "cancelling"
    PROVE  rq'[p].pc \in Marks
  <1>0. TypeOK /\ job \in JobRow /\ job' # job
    BY Parts
  <1>1. DeferCancel(p)
    <2> USE <1>0 DEF Update, JobRow
    <2>1. ~(Refresh(p) \/ EnsureMarked(p) \/ Begin(p))
      BY DEF Refresh, RefreshPoll, RefreshExpired, RefreshFailed, EnsureMarked, Begin,
          ServerPersist, Cancel, ClientClaim, ClientComplete, WorkerComplete, WorkerFail
    <2>2. ~Poll(p)
      <3>1. ~(PollFails(p) \/ PollStopped(p) \/ RevertCancel(p))
        BY DEF PollFails, PollStopped, RevertCancel
      <3>2. ~PollPhase(p)
        BY DEF PollPhase
      <3>3. ~PollReady(p)
        BY DEF PollReady
      <3> QED
        BY <3>1, <3>2, <3>3
        DEF Poll, PollInterfaceGone, PollAnswered, PollFailRead, PollFailMark,
            SyncInvocation, StopRead, PollReturns, RevertRead, RevertBadge, BadgeDone, PublishMedia
    <2>3. ~Dispatch(p)
      BY DEF Dispatch, DispatchDeclined, DispatchChecked, StorageUnhealthy,
          DispatchToWorkers, DispatchReturns
    <2>4. CancelSteps(p) => DeferCancel(p)
      BY DEF CancelSteps, TaskDeleted, TaskNotDeleted, FinalizeCancelled, FinalizeRead,
          FinalizeMark, FinalizeBadge, FinalizeAnswer, DeferRead, DeferAnswer,
          BadgeRead
    <2>5. ~Persisting(p)
      BY DEF Persisting, ClientClaimed, ClientCompleted, CompletionRead,
          RegisterTransition, FinalizeNode, WorkerCompleted, WorkerFailed
    <2> QED
      BY <2>1, <2>2, <2>3, <2>4, <2>5 DEF Steps
  <1> QED
    BY <1>0, <1>1, GotoEffect DEF DeferCancel, Marks

\* No step leaves a cancelling job without its mark or somebody to set it.
LEMMA CancelMarkedStep ==
    ASSUME Kind = "mediakit", ~MayRestart, IInv, PlaceholderNamed, CancelMarked, [Next]_vars
    PROVE  CancelMarked'
  <1>1. TypeOK /\ job \in JobRow
    BY Parts
  <1>2. job.st \notin Early => job'.st \notin Early
    BY NextFollowsLifecycle, EndsOnce
  <1>3. ASSUME NEW p \in Callers, Refresh(p) \/ Steps(p) \/ Begin(p) PROVE CancelMarked'
    <2>1. ASSUME NEW q \in Callers PROVE MediaKitPlace(rq'[q], job')
      <3>1. CASE q = p
        BY <1>3, <3>1, PlaceStep DEF CancelMarked
      <3>2. CASE q # p
        BY <1>1, <1>2, <1>3, <3>2, MovesOne DEF CancelMarked, MediaKitPlace
      <3> QED
        BY <3>1, <3>2
    <2>2. ASSUME job'.st = "cancelling"
          PROVE  badge' \/ \E q \in Callers : rq'[q].pc \in Marks
      <3>1. CASE job.st # "cancelling"
        BY <1>3, <2>2, <3>1, CancellerMarks
      <3>2. CASE job.st = "cancelling" /\ badge
        BY <1>3, <3>2, MarkStays DEF CancelMarked
      <3>3. CASE job.st = "cancelling" /\ ~badge
        <4>1. PICK q \in Callers : rq[q].pc \in Marks
          BY <3>3 DEF CancelMarked
        <4>2. CASE q = p
          BY <1>3, <4>1, <4>2, MarkerMarks DEF PlaceholderNamed
        <4>3. CASE q # p
          BY <1>1, <1>3, <4>1, <4>3, MovesOne
        <4> QED
          BY <4>2, <4>3
      <3> QED
        BY <3>1, <3>2, <3>3
    <2> QED
      BY <2>1, <2>2 DEF CancelMarked, MediaKitPlace
  <1>4. CASE Submit \/ Provider \/ ReadyAtExpires \/ WorkerClaim \/ UNCHANGED vars
    <2>1. rq' = rq /\ badge' = badge
      BY <1>4 DEF Submit, ProviderAccepts, ProviderRejects, SubmitReopen, SubmitRecord,
        SubmitFail, SubmitMark, SubmitClose, Provider, ReadyAtExpires, WorkerClaim, vars
    <2>2. job'.st = "cancelling" => job.st = "cancelling"
      <3>1. CASE SubmitRecord
        BY <1>1, <3>1 DEF SubmitRecord, Update, JobRow
      <3>2. CASE SubmitFail \/ WorkerClaim \/ ReadyAtExpires
        BY <1>1, <3>2 DEF SubmitFail, WorkerClaim, ReadyAtExpires, Update, JobRow
      <3> QED
        BY <1>4, <3>1, <3>2
        DEF Submit, ProviderAccepts, ProviderRejects, SubmitReopen, SubmitMark, SubmitClose,
            Provider, vars
    <2> QED
      BY <1>2, <2>1, <2>2 DEF CancelMarked, MediaKitPlace
  <1> QED
    BY <1>3, <1>4 DEF Next, Restart, Callers

\* While a MediaKit job is being cancelled and no request is in flight, the
\* canvas shows it, whatever polls and completions overlapped the cancel.
THEOREM CancelIsMarked ==
    ASSUME Kind = "mediakit", ~MayRestart PROVE Spec => []CancellingIsShown
  <1>1. Init => PlaceholderNamed /\ CancelMarked
    <2>1. MediaKitPlace(Idle, NewJob) /\ NewJob.st # "cancelling"
      BY DEF MediaKitPlace, Late, Withdraws, Idle, NewJob
    <2> QED
      BY <2>1, NewIsNamed DEF Init, PlaceholderNamed, Named, CancelMarked
  <1>2. IInv /\ PlaceholderNamed /\ CancelMarked /\ [Next]_vars
           => PlaceholderNamed' /\ CancelMarked'
    BY NamedStep, CancelMarkedStep
  <1>3. CancelMarked => CancellingIsShown
    BY DEF CancelMarked, CancellingIsShown, Quiet, At, Marks
  <1> QED
    BY <1>1, <1>2, <1>3, InitInvariant, NextStep, PTL DEF Spec
=============================================================================
