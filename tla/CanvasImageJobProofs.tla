------------------------ MODULE CanvasImageJobProofs ------------------------
(***************************************************************************)
(* Proofs about CanvasImageJob: the type invariant, that an ended job      *)
(* stands, that until something throws or the process dies a failed job is *)
(* shown as failed and every end is logged, and the refinement of          *)
(* JobLifecycle.                                                           *)
(***************************************************************************)
EXTENDS CanvasImageJob, TLAPS

\* Steps are moves of one function at one point: these keep its type.
LEMMA SubmitTyped ==
    ASSUME TypeOK, NEW s \in Submissions, NEW here \in SubmitLabels,
           NEW next \in SubmitLabels, SubmitAt(s, here, next)
    PROVE  sub' \in [Submissions -> SubmitLabels]
  BY DEF TypeOK, SubmitAt, Set

\* A background run moves between the awaits of runCanvasImageGenerationJob.
LEMMA RunTyped ==
    ASSUME TypeOK, NEW s \in Submissions, NEW here \in RunLabels,
           NEW next \in RunLabels, RunAt(s, here, next)
    PROVE  run' \in [Submissions -> [pc : RunLabels, row : Row]]
  BY DEF TypeOK, RunAt

\* A cancel or completion request moves between its awaits.
LEMMA CallTyped ==
    ASSUME TypeOK, NEW p \in Callers, NEW here \in CallLabels,
           NEW next \in CallLabels, CallAt(p, here, next)
    PROVE  rq' \in [Callers -> {Idle} \cup [pc : CallLabels, of : Submissions, row : Row]]
  BY DEF TypeOK, CallAt, Idle, CallLabels

\* updateGenerationJob writes statuses of a row only.
LEMMA UpdateTyped ==
    ASSUME TypeOK, NEW s \in Submissions, NEW expected, NEW status \in Row,
           Update(s, expected, status)
    PROVE  job' \in [Submissions -> Row]
  BY DEF TypeOK, Update, Set

\* syncGenerationJobInvocation writes statuses of a record only.
LEMMA SyncedTyped ==
    ASSUME TypeOK, NEW s \in Submissions, NEW row \in Row
    PROVE  Synced(s, row) \in [Submissions -> Invocation]
  BY DEF TypeOK, Synced, Set, Row, Active, Ended, Invocation

-----------------------------------------------------------------------------
(* The type invariant, one lemma for each actor.                           *)

\* Every step of POST /ai-image/generate keeps the types.
LEMMA SubmitKeepsType == ASSUME TypeOK, NEW s \in Submissions, Submit(s) PROVE TypeOK'
  <1> USE DEF SubmitLabels
  <1>1. CASE LookUp(s) \/ Guard(s) \/ Check(s)
    <2>1. sub' \in [Submissions -> SubmitLabels]
      BY <1>1, SubmitTyped DEF LookUp, Guard, Check
    <2> QED
      BY <1>1, <2>1 DEF TypeOK, LookUp, Guard, Check
  <1>2. CASE RegisterPlaceholder(s)
    <2>1. sub' \in [Submissions -> SubmitLabels]
      BY <1>2, SubmitTyped DEF RegisterPlaceholder
    <2>2. media' \in [Submissions -> Entry]
      BY <1>2 DEF Set, RegisterPlaceholder, TypeOK, Entry
    <2> QED
      BY <1>2, <2>1, <2>2 DEF TypeOK, RegisterPlaceholder
  <1>3. CASE InsertJob(s)
    <2>1. sub' \in [Submissions -> SubmitLabels]
      BY <1>3, SubmitTyped DEF InsertJob
    <2>2. job' \in [Submissions -> Row]
      BY <1>3 DEF Set, InsertJob, TypeOK, Row, Active
    <2> QED
      BY <1>3, <2>1, <2>2 DEF TypeOK, InsertJob
  <1>4. CASE RecordInvocation(s)
    <2>1. sub' \in [Submissions -> SubmitLabels]
      BY <1>4, SubmitTyped DEF RecordInvocation
    <2>2. inv' \in [Submissions -> Invocation]
      BY <1>4 DEF Set, RecordInvocation, TypeOK, Invocation
    <2>3. run' \in [Submissions -> [pc : RunLabels, row : Row]]
      BY <1>4 DEF RecordInvocation, TypeOK, Set, RunLabels, Row
    <2> QED
      BY <1>4, <2>1, <2>2, <2>3 DEF TypeOK, RecordInvocation
  <1> QED
    BY <1>1, <1>2, <1>3, <1>4 DEF Submit

\* A request that is answered with an error stays within the types.
LEMMA SubmitThrowsKeepsType ==
    ASSUME TypeOK, NEW s \in Submissions, SubmitThrows(s), calm' = FALSE PROVE TypeOK'
  <1>1. sub' \in [Submissions -> SubmitLabels]
    BY SubmitTyped DEF SubmitThrows, SubmitLabels
  <1>2. inv' \in [Submissions -> Invocation]
    BY DEF SubmitThrows, TypeOK, Set, Invocation
  <1> QED
    BY <1>1, <1>2 DEF TypeOK, SubmitThrows

\* A run whose database call throws stays within the types.
LEMMA RunThrowsKeepsType ==
    ASSUME TypeOK, NEW s \in Submissions, RunThrows(s), calm' = FALSE PROVE TypeOK'
  <1>1. run' \in [Submissions -> [pc : RunLabels, row : Row]]
    BY DEF RunThrows, TypeOK, Set, Row, RunLabels
  <1> QED
    BY <1>1 DEF TypeOK, RunThrows

\* Every step of the background run keeps the types.
LEMMA RunKeepsType ==
    ASSUME TypeOK, NEW s \in Submissions, Run(s) PROVE TypeOK'
  <1> USE DEF RunLabels
  <1>1. CASE Answered(s)
    <2>1. run' \in [Submissions -> [pc : RunLabels, row : Row]]
      BY <1>1, RunTyped DEF Answered
    <2> QED
      BY <1>1, <2>1 DEF TypeOK, Answered
  <1>2. CASE FailMark(s) \/ Publish(s)
    <2>1. run' \in [Submissions -> [pc : RunLabels, row : Row]]
      BY <1>2, RunTyped DEF FailMark, Publish
    <2>2. media' \in [Submissions -> Entry]
      BY <1>2 DEF Set, FailMark, Publish, TypeOK, Entry
    <2> QED
      BY <1>2, <2>1, <2>2 DEF TypeOK, FailMark, Publish
  <1>3. CASE FailCas(s) \/ Deliver(s)
    <2>1. run' \in [Submissions -> [pc : RunLabels, row : Row]]
      BY <1>3, RunTyped DEF FailCas, Deliver
    <2>2. "failed" \in Row /\ Outcome(s) \in Row
      BY DEF Outcome, Row, Active, Ended
    <2>3. job' \in [Submissions -> Row]
      BY <1>3, <2>2, UpdateTyped DEF FailCas, Deliver
    <2> QED
      BY <1>3, <2>1, <2>3 DEF TypeOK, FailCas, Deliver
  <1>4. CASE FailClose(s) \/ Close(s)
    <2>1. run' \in [Submissions -> [pc : RunLabels, row : Row]]
      BY <1>4, RunTyped DEF FailClose, Close
    <2>2. inv' \in [Submissions -> Invocation]
      BY <1>4 DEF Set, FailClose, Close, TypeOK, Invocation
    <2> QED
      BY <1>4, <2>1, <2>2 DEF TypeOK, FailClose, Close
  <1>5. CASE Delivered(s)
    <2>1. run' \in [Submissions -> [pc : RunLabels, row : Row]]
      BY <1>5 DEF Delivered, TypeOK, Set
    <2> QED
      BY <1>5, <2>1 DEF TypeOK, Delivered
  <1>6. CASE RunSync(s)
    <2>1. run' \in [Submissions -> [pc : RunLabels, row : Row]]
      BY <1>6 DEF RunSync, TypeOK, Set, Off, Row
    <2>2. inv' \in [Submissions -> Invocation]
      BY <1>6, SyncedTyped DEF RunSync, TypeOK
    <2> QED
      BY <1>6, <2>1, <2>2 DEF TypeOK, RunSync
  <1> QED
    BY <1>1, <1>2, <1>3, <1>4, <1>5, <1>6 DEF Run

\* Every step of a cancel or completion request keeps the types.
LEMMA CallKeepsType == ASSUME TypeOK, NEW p \in Callers, Call(p) PROVE TypeOK'
  <1> USE DEF CallLabels
  <1>0. rq[p].of \in Submissions /\ rq[p].row \in Row
    BY DEF TypeOK, Idle, Call, CallAt, CancelCas, CancelRead, CancelMark, CompleteCas,
           CompleteRead, RegisterTransition, CallSync
  <1>1. CASE CancelCas(p) \/ CompleteCas(p)
    <2>1. rq' \in [Callers -> {Idle} \cup [pc : CallLabels, of : Submissions, row : Row]]
      BY <1>1, CallTyped DEF CancelCas, CompleteCas
    <2>2. job' \in [Submissions -> Row]
      BY <1>0, <1>1, UpdateTyped DEF CancelCas, CompleteCas, Row, Ended
    <2> QED
      BY <1>1, <2>1, <2>2 DEF TypeOK, CancelCas, CompleteCas
  <1>2. CASE CancelRead(p) \/ CompleteRead(p)
    <2>0. rq[p] \in [pc : CallLabels, of : Submissions, row : Row]
      BY <1>2 DEF CancelRead, CompleteRead, TypeOK, Idle
    <2>3. job[rq[p].of] \in Row
      BY <1>0 DEF TypeOK
    <2>1. rq' \in [Callers -> {Idle} \cup [pc : CallLabels, of : Submissions, row : Row]]
      BY <1>2, <2>0, <2>3 DEF CancelRead, CompleteRead, TypeOK
    <2> QED
      BY <1>2, <2>1 DEF TypeOK, CancelRead, CompleteRead
  <1>3. CASE CancelMark(p) \/ RegisterTransition(p)
    <2>1. rq' \in [Callers -> {Idle} \cup [pc : CallLabels, of : Submissions, row : Row]]
      BY <1>3, CallTyped DEF CancelMark, RegisterTransition
    <2>2. media' \in [Submissions -> Entry]
      BY <1>0, <1>3 DEF Set, CancelMark, RegisterTransition, TypeOK, Entry
    <2> QED
      BY <1>3, <2>1, <2>2 DEF TypeOK, CancelMark, RegisterTransition
  <1>4. CASE CallSync(p)
    <2>1. rq' \in [Callers -> {Idle} \cup [pc : CallLabels, of : Submissions, row : Row]]
      BY <1>4 DEF CallSync, TypeOK, Set
    <2>2. inv' \in [Submissions -> Invocation]
      BY <1>0, <1>4, SyncedTyped DEF CallSync
    <2> QED
      BY <1>4, <2>1, <2>2 DEF TypeOK, CallSync
  <1> QED
    BY <1>1, <1>2, <1>3, <1>4 DEF Call

\* Starting a cancel or completion request keeps the types.
LEMMA BeginKeepsType ==
    ASSUME TypeOK, NEW p \in Callers, NEW s \in Submissions, Cancel(p, s) \/ Complete(p, s)
    PROVE  TypeOK'
  <1>1. CASE Begin(p, s, "cancelCas") \/ Begin(p, s, "completeCas")
    <2>1. rq' \in [Callers -> {Idle} \cup [pc : CallLabels, of : Submissions, row : Row]]
      BY <1>1 DEF Begin, Set, TypeOK, CallLabels
    <2> QED
      BY <1>1, <2>1 DEF Begin, TypeOK
  <1>2. CASE UNCHANGED vars
    BY <1>2 DEF TypeOK, vars
  <1> QED
    BY <1>1, <1>2 DEF Cancel, Complete

\* The death of the process keeps the types.
LEMMA RestartKeepsType == ASSUME TypeOK, Restart PROVE TypeOK'
  <1>1. sub' \in [Submissions -> SubmitLabels]
    BY DEF Restart, SubmitLabels
  <1>2. run' \in [Submissions -> [pc : RunLabels, row : Row]]
    BY DEF Restart, Off, RunLabels, Row
  <1>3. rq' \in [Callers -> {Idle} \cup [pc : CallLabels, of : Submissions, row : Row]]
    BY DEF Restart
  <1> QED
    BY <1>1, <1>2, <1>3 DEF Restart, TypeOK

\* Before the first request everything has its type.
LEMMA InitTyped == Init => TypeOK
  <1> SUFFICES ASSUME Init PROVE TypeOK
    OBVIOUS
  <1>1. run \in [Submissions -> [pc : RunLabels, row : Row]]
    BY DEF Init, Off, RunLabels, Row
  <1>2. rq \in [Callers -> {Idle} \cup [pc : CallLabels, of : Submissions, row : Row]]
    BY DEF Init
  <1> QED
    BY <1>1, <1>2 DEF Init, TypeOK, Row, Entry, Invocation, SubmitLabels

\* The type invariant is inductive.
LEMMA NextTyped == TypeOK /\ [Next]_vars => TypeOK'
  <1> SUFFICES ASSUME TypeOK, [Next]_vars PROVE TypeOK'
    OBVIOUS
  <1>1. CASE UNCHANGED vars
    BY <1>1 DEF TypeOK, vars
  <1>2. CASE \E s \in Submissions : Submit(s)
    BY <1>2, SubmitKeepsType
  <1>7. CASE \E s \in Submissions : Run(s)
    BY <1>7, RunKeepsType
  <1>3. CASE \E s \in Submissions : Throws(s)
    BY <1>3, RunThrowsKeepsType, SubmitThrowsKeepsType DEF Throws
  <1>4. CASE \E p \in Callers : Call(p)
    BY <1>4, CallKeepsType
  <1>5. CASE \E p \in Callers, s \in Submissions : Cancel(p, s) \/ Complete(p, s)
    BY <1>5, BeginKeepsType
  <1>6. CASE Restart
    BY <1>6, RestartKeepsType
  <1> QED
    BY <1>1, <1>2, <1>3, <1>4, <1>5, <1>6, <1>7 DEF Next

\* The rows, records, catalog entries and requests of a node stay within their
\* types, for any number of submissions and requests, and whatever fails.
THEOREM ImageTyped == Spec => []TypeOK
  BY InitTyped, NextTyped, PTL DEF Spec

-----------------------------------------------------------------------------
(* An ended job stands: every UPDATE expects statuses that are not ended,  *)
(* and the unique index keeps an insert from hitting a row that is there.  *)

\* A conditional update that expects active statuses leaves every ended job alone.
LEMMA UpdateSpares ==
    ASSUME TypeOK, NEW s \in Submissions, NEW status, NEW t \in Submissions,
           NEW expected \in SUBSET Active, Update(s, expected, status), job[t] \in Ended
    PROVE  job'[t] = job[t]
  BY DEF Update, Set, TypeOK, Active, Ended

\* Five statements write the status of a row.
LEMMA StatusWriters ==
    ASSUME Next
    PROVE  \/ \E s \in Submissions : InsertJob(s) \/ FailCas(s) \/ Deliver(s)
           \/ \E p \in Callers : CancelCas(p) \/ CompleteCas(p)
           \/ job' = job
  <1>1. \A s \in Submissions : Submit(s) => InsertJob(s) \/ job' = job
    BY DEF Submit, LookUp, Guard, Check, RegisterPlaceholder, RecordInvocation
  <1>2. \A s \in Submissions : Run(s) \/ Throws(s) => FailCas(s) \/ Deliver(s) \/ job' = job
    BY DEF Run, Throws, RunThrows, SubmitThrows, Answered, FailMark, FailClose, Publish, Delivered, Close, RunSync
  <1>3. \A p \in Callers : Call(p) => CancelCas(p) \/ CompleteCas(p) \/ job' = job
    BY DEF Call, CancelRead, CancelMark, CompleteRead, RegisterTransition, CallSync
  <1>4. \A p \in Callers, s \in Submissions : Cancel(p, s) \/ Complete(p, s) => job' = job
    BY DEF Cancel, Complete, Begin, vars
  <1>5. Restart => job' = job
    BY DEF Restart
  <1> QED
    BY <1>1, <1>2, <1>3, <1>4, <1>5 DEF Next

\* No step of anybody changes the status of an ended job.
LEMMA StepSpares ==
    ASSUME TypeOK, Next, NEW t \in Submissions, job[t] \in Ended
    PROVE  job'[t] = job[t]
  <1>1. CASE \E s \in Submissions : InsertJob(s)
    BY <1>1 DEF InsertJob, Set, TypeOK, Ended
  <1>2. CASE \E s \in Submissions : FailCas(s) \/ Deliver(s)
    BY <1>2, UpdateSpares DEF FailCas, Deliver, Active
  <1>3. CASE \E p \in Callers : CancelCas(p) \/ CompleteCas(p)
    <2>1. \A p \in Callers : CancelCas(p) \/ CompleteCas(p) => rq[p].of \in Submissions
      BY DEF TypeOK, CancelCas, CompleteCas, CallAt, Idle
    <2> QED
      BY <1>3, <2>1, UpdateSpares DEF CancelCas, CompleteCas, Active
  <1> QED
    BY <1>1, <1>2, <1>3, StatusWriters

\* No image, cancel, failure or completed upload moves a job that has ended,
\* whatever database call throws and whenever the process dies.
THEOREM ImageEndsOnce == Spec => EndedStands
  <1>1. TypeOK /\ [Next]_vars
          => [\A s \in Submissions : job[s] \in Ended => job'[s] = job[s]]_vars
    BY StepSpares
  <1> QED
    BY ImageTyped, <1>1, PTL DEF Spec, EndedStands

-----------------------------------------------------------------------------
(* A failed job is shown as failed.  What must be known: a run that has    *)
(* not reached the row yet finds it generating or cancelled, one that is   *)
(* about to fail it has marked the placeholder, and an upload is completed *)
(* for a job that was offered.                                             *)

SubmissionOK(s) ==
    /\ sub[s] \in {"look", "guard", "check", "register", "insert"}
           => job[s] = "none" /\ run[s].pc = "off"
    /\ sub[s] = "record" => run[s].pc = "off" /\ job[s] \in {"generating", "cancelled"}

RunOK(s) ==
    /\ run[s].pc \in {"call", "publish", "cas", "failMark", "failCas"}
           => job[s] \in {"generating", "cancelled"}
    /\ run[s].pc = "failCas" => media[s] = "failed"
    /\ job[s] = "failed" => media[s] = "failed"

CallerOK(p) ==
    rq[p].pc \in {"completeCas", "completeRead", "register"}
        => job[rq[p].of] \in {"ready_to_persist", "succeeded"}

Marked ==
    /\ \A s \in Submissions : SubmissionOK(s) /\ RunOK(s)
    /\ \A p \in Callers : CallerOK(p)

MarkInvariant == calm => Marked

\* Before the first request nothing has failed.
LEMMA InitMarked == Init => MarkInvariant
  BY DEF Init, MarkInvariant, Marked, SubmissionOK, RunOK, CallerOK, Off, Idle

\* The submission inserts a row that is not there, and starts a run on a row it inserted.
LEMMA SubmitKeepsMarks ==
    ASSUME TypeOK, Marked, NEW s \in Submissions, Submit(s) PROVE Marked'
  <1> USE DEF Marked, SubmissionOK, RunOK, CallerOK, SubmitAt, Set, TypeOK
  <1>1. CASE LookUp(s) \/ Guard(s) \/ Check(s)
    BY <1>1 DEF LookUp, Guard, Check
  <1>2. CASE RegisterPlaceholder(s)
    BY <1>2 DEF RegisterPlaceholder
  <1>3. CASE InsertJob(s)
    <2>1. job[s] = "none" /\ run[s].pc = "off" /\ run' = run /\ media' = media /\ rq' = rq
      BY <1>3 DEF InsertJob
    <2>2. CASE sub' = [sub EXCEPT ![s] = "done"] /\ job' = job
      BY <2>1, <2>2
    <2>3. CASE sub' = [sub EXCEPT ![s] = "record"] /\ job' = [job EXCEPT ![s] = "generating"]
      <3>1. \A t \in Submissions : SubmissionOK(t)'
        BY <2>1, <2>3
      <3>2. \A t \in Submissions : RunOK(t)'
        BY <2>1, <2>3
      <3>3. \A p \in Callers : CallerOK(p)'
        BY <2>1, <2>3
      <3> QED
        BY <3>1, <3>2, <3>3
    <2> QED
      BY <1>3, <2>2, <2>3 DEF InsertJob
  <1>4. CASE RecordInvocation(s)
    BY <1>4 DEF RecordInvocation
  <1> QED
    BY <1>1, <1>2, <1>3, <1>4 DEF Submit

\* The run marks the placeholder before it fails the row, and publishes only for a row it has not failed.
LEMMA RunKeepsMarks ==
    ASSUME TypeOK, Marked, NEW s \in Submissions, Run(s) PROVE Marked'
  <1> USE DEF Marked, SubmissionOK, RunOK, CallerOK, RunAt, Set, TypeOK
  <1>1. CASE Answered(s)
    BY <1>1 DEF Answered
  <1>2. CASE FailMark(s)
    BY <1>2 DEF FailMark
  <1>3. CASE FailCas(s)
    BY <1>3 DEF FailCas, Update
  <1>4. CASE FailClose(s)
    BY <1>4 DEF FailClose
  <1>9. CASE Close(s)
    BY <1>9 DEF Close
  <1>8. CASE RunSync(s)
    BY <1>8 DEF RunSync, Off
  <1>5. CASE Publish(s)
    BY <1>5 DEF Publish
  <1>6. CASE Deliver(s)
    BY <1>6 DEF Deliver, Update, Outcome
  <1>7. CASE Delivered(s)
    BY <1>7 DEF Delivered
  <1> QED
    BY <1>1, <1>2, <1>3, <1>4, <1>5, <1>6, <1>7, <1>8, <1>9 DEF Run

\* A cancel marks placeholders failed, and an upload is registered for an offered job only.
LEMMA CallKeepsMarks ==
    ASSUME TypeOK, Marked, NEW p \in Callers, Call(p) PROVE Marked'
  <1> USE DEF Marked, SubmissionOK, RunOK, CallerOK, CallAt, Set, TypeOK
  <1>1. CASE CancelCas(p)
    BY <1>1 DEF CancelCas, Update
  <1>2. CASE CancelRead(p)
    BY <1>2 DEF CancelRead
  <1>3. CASE CancelMark(p)
    BY <1>3 DEF CancelMark
  <1>4. CASE CompleteCas(p)
    BY <1>4 DEF CompleteCas, Update
  <1>5. CASE CompleteRead(p)
    BY <1>5 DEF CompleteRead
  <1>6. CASE RegisterTransition(p)
    BY <1>6 DEF RegisterTransition
  <1>7. CASE CallSync(p)
    BY <1>7 DEF CallSync, Idle
  <1> QED
    BY <1>1, <1>2, <1>3, <1>4, <1>5, <1>6, <1>7 DEF Call

\* A request that starts has read the row it relies on.
LEMMA BeginKeepsMarks ==
    ASSUME TypeOK, Marked, NEW p \in Callers, NEW s \in Submissions,
           Cancel(p, s) \/ Complete(p, s)
    PROVE  Marked'
  <1> USE DEF Marked, SubmissionOK, RunOK, CallerOK, TypeOK
  <1>1. CASE UNCHANGED vars
    BY <1>1 DEF vars
  <1>2. CASE Begin(p, s, "cancelCas")
    BY <1>2 DEF Begin, Set
  <1>3. CASE job[s] = "ready_to_persist" /\ Begin(p, s, "completeCas")
    BY <1>3 DEF Begin, Set
  <1> QED
    BY <1>1, <1>2, <1>3 DEF Cancel, Complete

\* Only Throws and Restart end the calm.
LEMMA CalmStays ==
    ASSUME Next, calm' # FALSE
    PROVE  /\ calm' = calm
           /\ \/ \E s \in Submissions : Submit(s) \/ Run(s)
              \/ \E p \in Callers : Call(p) \/ \E s \in Submissions : Cancel(p, s) \/ Complete(p, s)
  <1>1. ~Restart /\ \A s \in Submissions : ~Throws(s)
    BY DEF Restart, Throws
  <1>2. \A s \in Submissions : Submit(s) => calm' = calm
    BY DEF Submit, LookUp, Guard, Check, RegisterPlaceholder, InsertJob, RecordInvocation
  <1>3. \A s \in Submissions : Run(s) => calm' = calm
    BY DEF Run, Answered, FailMark, FailCas, FailClose, Publish, Deliver, Delivered, Close,
           RunSync
  <1>4. \A p \in Callers : Call(p) => calm' = calm
    BY DEF Call, CancelCas, CancelRead, CancelMark, CompleteCas, CompleteRead,
           RegisterTransition, CallSync
  <1>5. \A p \in Callers, s \in Submissions : Cancel(p, s) \/ Complete(p, s) => calm' = calm
    BY DEF Cancel, Complete, Begin, vars
  <1> QED
    BY <1>1, <1>2, <1>3, <1>4, <1>5 DEF Next

\* MarkInvariant is inductive relative to the types.
LEMMA NextMarked == TypeOK /\ MarkInvariant /\ [Next]_vars => MarkInvariant'
  <1> SUFFICES ASSUME TypeOK, MarkInvariant, [Next]_vars PROVE MarkInvariant'
    OBVIOUS
  <1>1. CASE UNCHANGED vars
    BY <1>1 DEF MarkInvariant, Marked, SubmissionOK, RunOK, CallerOK, vars
  <1>2. CASE calm' = FALSE
    BY <1>2 DEF MarkInvariant
  <1>3. CASE Next /\ calm' # FALSE
    <2>1. calm' = calm
      BY <1>3, CalmStays
    <2>2. ASSUME Marked PROVE Marked'
      BY <1>3, <2>2, CalmStays, SubmitKeepsMarks, RunKeepsMarks, CallKeepsMarks,
         BeginKeepsMarks
    <2> QED
      BY <2>1, <2>2 DEF MarkInvariant
  <1> QED
    BY <1>1, <1>2, <1>3

\* Until a database call throws or the process dies, no late image, cancel or
\* upload turns a failed job's placeholder back.
THEOREM FailureIsShown == Spec => []FailedIsMarked
  <1>1. MarkInvariant => FailedIsMarked
    BY DEF MarkInvariant, Marked, RunOK, FailedIsMarked
  <1> QED
    BY ImageTyped, InitMarked, NextMarked, <1>1, PTL DEF Spec

-----------------------------------------------------------------------------
(* The log says how a job ended once nothing is in flight.  While requests *)
(* are in flight, the invariant says who will still close the record: the  *)
(* run until it is over, the request that completed the upload, or the     *)
(* run that is going to start for a job cancelled before its record is     *)
(* there.                                                                  *)

BeforeRow == {"look", "guard", "check", "register", "insert"}
Undecided == {"call", "publish", "cas", "failMark", "failCas"}

\* Where the submission is, there is a record or not.
RecordOK(s) ==
    /\ sub[s] \in BeforeRow \cup {"record"} => inv[s] = "none" /\ run[s].pc = "off"
    /\ sub[s] = "done" /\ job[s] # "none" => inv[s] # "none"
    /\ job[s] = "none" => run[s].pc = "off"

\* What the run has read is still what the row says, or was offered then.
ReadOK(s) ==
    /\ run[s].pc = "failClose" => job[s] \in {"failed", "cancelled"}
    /\ run[s].pc = "read" => job[s] \in {"ready_to_persist", "succeeded", "cancelled"}
    /\ run[s].pc \in {"close", "sync"} =>
         \/ run[s].row \in {"succeeded", "cancelled"} /\ job[s] = run[s].row
         \/ run[s].pc = "sync" /\ run[s].row = "ready_to_persist"
            /\ job[s] \in {"ready_to_persist", "succeeded"}

\* A caller that will close the record of a job whose upload was completed.
Closes(c, s) == /\ c.pc \in {"completeRead", "register", "sync"} /\ c.of = s
                /\ c.pc # "completeRead" => c.row = "succeeded"

Owed(s) == \E p \in Callers : Closes(rq[p], s)

\* The record of a job, by its status.
StatusLogged(s) ==
    /\ job[s] = "generating" => /\ sub[s] = "record" \/ run[s].pc \in Undecided
                                /\ inv[s] \in {"none", "pending"}
    /\ job[s] = "ready_to_persist" => req[s].storage = "cloud"
    /\ job[s] \in {"ready_to_persist", "succeeded"} => inv[s] \in {"pending", "completed"}
    /\ job[s] = "succeeded" =>
         \/ inv[s] = "completed"
         \/ req[s].storage = "ephemeral" /\ run[s].pc \in {"read", "close"}
         \/ req[s].storage = "cloud" /\ Owed(s)
    /\ job[s] = "failed" => inv[s] = "failed" \/ run[s].pc = "failClose"
    /\ job[s] = "cancelled" =>
         inv[s] \in {"cancelled", "failed"} \/ sub[s] = "record" \/ run[s].pc # "off"

\* What a caller has read of a job that had ended stands.
CallerReadOK(p) ==
    rq[p].pc # "idle" /\ rq[p].row \in Ended => job[rq[p].of] = rq[p].row

Logged == /\ \A s \in Submissions : RecordOK(s) /\ ReadOK(s) /\ StatusLogged(s)
          /\ \A p \in Callers : CallerReadOK(p)

LogInvariant == calm => Logged

\* Before the first request there is nothing to log.
LEMMA InitLogged == Init => LogInvariant
  BY DEF Init, LogInvariant, Logged, RecordOK, ReadOK, StatusLogged, CallerReadOK, Off, Idle,
         BeforeRow, Undecided, Ended

\* The submission writes the record before it starts the run.
LEMMA SubmitKeepsLog ==
    ASSUME TypeOK, Marked, Logged, NEW s \in Submissions, Submit(s) PROVE Logged'
  <1>0. rq' = rq /\ req' = req
    BY DEF Submit, LookUp, Guard, Check, RegisterPlaceholder, InsertJob, RecordInvocation
  <1>1. \A t \in Submissions : Owed(t)' <=> Owed(t)
    BY <1>0 DEF Owed
  <1> USE DEF Logged, RecordOK, ReadOK, StatusLogged, CallerReadOK, Marked, SubmissionOK,
          BeforeRow, Undecided, Ended, SubmitAt, Set, TypeOK
  <1>2. CASE LookUp(s) \/ Guard(s) \/ Check(s)
    BY <1>0, <1>1, <1>2 DEF LookUp, Guard, Check
  <1>3. CASE RegisterPlaceholder(s)
    BY <1>0, <1>1, <1>3 DEF RegisterPlaceholder
  <1>4. CASE InsertJob(s)
    <2>1. job[s] = "none" /\ inv[s] = "none" /\ run[s].pc = "off"
          /\ run' = run /\ inv' = inv
      BY <1>4 DEF InsertJob
    <2>2. \A p \in Callers : rq[p].pc # "idle" => rq[p].of \in Submissions
      BY DEF Idle
    <2>3. CASE job' = job /\ sub' = [sub EXCEPT ![s] = "done"]
      BY <1>0, <1>1, <2>1, <2>3
    <2>4. CASE job' = [job EXCEPT ![s] = "generating"] /\ sub' = [sub EXCEPT ![s] = "record"]
      <3>1. \A t \in Submissions : RecordOK(t)'
        BY <2>1, <2>4
      <3>2. \A t \in Submissions : ReadOK(t)'
        BY <2>1, <2>4
      <3>3. \A t \in Submissions : StatusLogged(t)'
        BY <1>0, <1>1, <2>1, <2>4
      <3>4. \A p \in Callers : CallerReadOK(p)'
        BY <1>0, <2>1, <2>2, <2>4
      <3> QED
        BY <3>1, <3>2, <3>3, <3>4
    <2> QED
      BY <1>4, <2>3, <2>4 DEF InsertJob
  <1>5. CASE RecordInvocation(s)
    BY <1>0, <1>1, <1>5 DEF RecordInvocation
  <1> QED
    BY <1>2, <1>3, <1>4, <1>5 DEF Submit

\* The run closes the record by what it has read of the row.
LEMMA RunKeepsLog ==
    ASSUME TypeOK, Marked, Logged, NEW s \in Submissions, Run(s) PROVE Logged'
  <1>0. rq' = rq /\ req' = req /\ sub' = sub
    BY DEF Run, Answered, FailMark, FailCas, FailClose, Publish, Deliver, Delivered, Close,
           RunSync
  <1>1. \A t \in Submissions : Owed(t)' <=> Owed(t)
    BY <1>0 DEF Owed
  <1> USE DEF Logged, RecordOK, ReadOK, StatusLogged, CallerReadOK, Marked, RunOK,
          BeforeRow, Undecided, Ended, RunAt, Set, TypeOK
  <1>2. CASE Answered(s)
    <2>1. /\ run[s].pc = "call" /\ UNCHANGED <<req, job, inv, sub, rq>>
          /\ \E pc \in Undecided : run' = [run EXCEPT ![s].pc = pc]
      BY <1>2 DEF Answered
    <2>2. \A t \in Submissions : RecordOK(t)' /\ ReadOK(t)'
      BY <2>1
    <2>3. \A t \in Submissions : StatusLogged(t)'
      BY <1>1, <2>1
    <2> QED
      BY <2>1, <2>2, <2>3
  <1>3. CASE FailMark(s)
    BY <1>0, <1>1, <1>3 DEF FailMark
  <1>4. CASE FailCas(s)
    BY <1>0, <1>1, <1>4 DEF FailCas, Update
  <1>5. CASE FailClose(s)
    BY <1>0, <1>1, <1>5 DEF FailClose
  <1>6. CASE Publish(s)
    BY <1>0, <1>1, <1>6 DEF Publish
  <1>7. CASE Deliver(s)
    <2>1. /\ run[s].pc = "cas" /\ run' = [run EXCEPT ![s].pc = "read"] /\ inv' = inv
          /\ job[s] \in {"generating", "cancelled"}
      BY <1>7 DEF Deliver
    <2>2. CASE job[s] = "cancelled"
      <3>1. job' = job
        BY <1>7, <2>2 DEF Deliver, Update
      <3> QED
        BY <1>0, <1>1, <2>1, <2>2, <3>1
    <2>3. CASE job[s] = "generating"
      <3>1. /\ job' = [job EXCEPT ![s] = Outcome(s)]
            /\ \/ Outcome(s) = "ready_to_persist" /\ req[s].storage = "cloud"
               \/ Outcome(s) = "succeeded" /\ req[s].storage = "ephemeral"
        BY <1>7, <2>3 DEF Deliver, Update, Outcome, Request
      <3>2. inv[s] = "pending"
        BY <2>1, <2>3 DEF SubmissionOK, SubmitLabels
      <3>3. \A t \in Submissions : RecordOK(t)'
        BY <1>0, <2>1, <2>3, <3>1
      <3>4. \A t \in Submissions : ReadOK(t)'
        BY <2>1, <2>3, <3>1
      <3>5. \A t \in Submissions : StatusLogged(t)'
        BY <1>0, <1>1, <2>1, <2>3, <3>1, <3>2
      <3>6. \A p \in Callers : CallerReadOK(p)'
        BY <1>0, <2>3, <3>1
      <3> QED
        BY <3>3, <3>4, <3>5, <3>6
    <2> QED
      BY <2>1, <2>2, <2>3
  <1>8. CASE Delivered(s)
    BY <1>0, <1>1, <1>8 DEF Delivered, Request
  <1>9. CASE Close(s)
    BY <1>0, <1>1, <1>9 DEF Close
  <1>10. CASE RunSync(s)
    <2>1. /\ run[s].pc = "sync" /\ run' = [run EXCEPT ![s] = Off] /\ job' = job
          /\ inv' = Synced(s, run[s].row)
      BY <1>10 DEF RunSync
    <2>2. \A t \in Submissions : t # s => inv'[t] = inv[t] /\ run'[t] = run[t]
      BY <2>1 DEF Synced
    <2>3. run'[s].pc = "off"
      BY <2>1 DEF Off
    <2>4. sub[s] = "done" /\ job[s] # "none" /\ inv[s] # "none"
      BY <2>1 DEF SubmissionOK, SubmitLabels
    <2>5. /\ job[s] = "succeeded" =>
                inv'[s] = IF run[s].row = "succeeded" /\ inv[s] = "pending"
                          THEN "completed" ELSE inv[s]
          /\ job[s] = "ready_to_persist" => inv'[s] = inv[s]
          /\ job[s] = "cancelled" => inv'[s] = "cancelled"
          /\ job[s] \in {"succeeded", "ready_to_persist", "cancelled"}
      BY <2>1, <2>4 DEF Synced
    <2>6. RecordOK(s)' /\ ReadOK(s)' /\ StatusLogged(s)'
      BY <1>0, <1>1, <2>1, <2>3, <2>4, <2>5
    <2>7. \A t \in Submissions : t # s => RecordOK(t)' /\ ReadOK(t)' /\ StatusLogged(t)'
      BY <1>0, <1>1, <2>1, <2>2
    <2>8. \A p \in Callers : CallerReadOK(p)'
      BY <1>0, <2>1
    <2> QED
      BY <2>6, <2>7, <2>8
  <1> QED
    BY <1>2, <1>3, <1>4, <1>5, <1>6, <1>7, <1>8, <1>9, <1>10 DEF Run

\* A request closes the record by what it has read of the row.
LEMMA CallKeepsLog ==
    ASSUME TypeOK, Marked, Logged, NEW p \in Callers, Call(p) PROVE Logged'
  <1>0. /\ req' = req /\ sub' = sub /\ run' = run
        /\ rq[p].pc # "idle" /\ rq[p].of \in Submissions
    BY DEF TypeOK, Idle, Call, CancelCas, CancelRead, CancelMark, CompleteCas, CompleteRead,
           RegisterTransition, CallSync, CallAt
  <1>1. \A q \in Callers : q # p => rq'[q] = rq[q]
    BY DEF TypeOK, Call, CancelCas, CancelRead, CancelMark, CompleteCas, CompleteRead,
           RegisterTransition, CallSync, CallAt, Set
  <1>2. ASSUME NEW t \in Submissions, Closes(rq[p], t) => Closes(rq'[p], t), Owed(t)
        PROVE  Owed(t)'
    BY <1>1, <1>2 DEF Owed, Closes
  <1> USE DEF Logged, RecordOK, ReadOK, StatusLogged, CallerReadOK, Marked, CallerOK,
          BeforeRow, Undecided, Ended, CallAt, Set, TypeOK
  <1>3. CASE CancelCas(p)
    <2>1. \A t \in Submissions : Owed(t) => Owed(t)'
      BY <1>2, <1>3 DEF CancelCas, Closes
    <2> QED
      BY <1>0, <1>3, <2>1 DEF CancelCas, Update
  <1>4. CASE CancelRead(p)
    <2>1. \A t \in Submissions : Owed(t) => Owed(t)'
      BY <1>2, <1>4 DEF CancelRead, Closes
    <2> QED
      BY <1>0, <1>4, <2>1 DEF CancelRead
  <1>5. CASE CancelMark(p)
    <2>1. \A t \in Submissions : Owed(t) => Owed(t)'
      BY <1>2, <1>5 DEF CancelMark, Closes
    <2> QED
      BY <1>0, <1>5, <2>1 DEF CancelMark
  <1>6. CASE CompleteCas(p)
    <2>1. \A t \in Submissions : Owed(t) => Owed(t)'
      BY <1>2, <1>6 DEF CompleteCas, Closes
    <2>2. Owed(rq[p].of)'
      BY <1>6 DEF CompleteCas, Owed, Closes
    <2> QED
      BY <1>0, <1>6, <2>1, <2>2 DEF CompleteCas, Update
  <1>7. CASE CompleteRead(p)
    <2>1. \A t \in Submissions : job[t] = "succeeded" /\ Owed(t) => Owed(t)'
      BY <1>2, <1>7 DEF CompleteRead, Closes
    <2> QED
      BY <1>0, <1>7, <2>1 DEF CompleteRead
  <1>8. CASE RegisterTransition(p)
    <2>1. \A t \in Submissions : Owed(t) => Owed(t)'
      BY <1>2, <1>8 DEF RegisterTransition, Closes
    <2> QED
      BY <1>0, <1>8, <2>1 DEF RegisterTransition
  <1>9. CASE CallSync(p)
    <2>0. PICK s \in Submissions : s = rq[p].of
      BY <1>0
    <2>1. rq[p].pc = "sync" /\ rq'[p].pc = "idle" /\ job' = job /\ inv' = Synced(s, rq[p].row)
      BY <1>9, <2>0 DEF CallSync, Idle
    <2>2. ASSUME NEW t \in Submissions, Owed(t), t # s \/ rq[p].row # "succeeded" PROVE Owed(t)'
      <3>1. ~Closes(rq[p], t)
        BY <2>0, <2>1, <2>2 DEF Closes
      <3> QED
        BY <1>2, <2>2, <3>1
    <2>3. \A t \in Submissions : t # s => inv'[t] = inv[t]
      BY <2>1 DEF Synced
    <2>4. \A t \in Submissions : t # s => RecordOK(t)' /\ ReadOK(t)' /\ StatusLogged(t)'
      BY <1>0, <2>1, <2>2, <2>3
    <2>5. rq[p].row \in Ended => job[s] = rq[p].row
      BY <1>0, <2>0
    <2>6. /\ rq[p].row = "succeeded" => inv'[s] = (IF inv[s] = "pending" THEN "completed" ELSE inv[s])
          /\ rq[p].row \in {"failed", "cancelled"}
               => inv'[s] = (IF inv[s] # "none" THEN rq[p].row ELSE "none")
          /\ rq[p].row \notin Ended => inv'[s] = inv[s]
      BY <1>0, <2>1 DEF Synced
    <2>7. RecordOK(s)'
      BY <1>0, <2>1, <2>5, <2>6
    <2>8. ReadOK(s)'
      BY <1>0, <2>1, <2>5
    <2>9. StatusLogged(s)'
      BY <1>0, <2>1, <2>2, <2>5, <2>6
    <2>10. ASSUME NEW q \in Callers PROVE CallerReadOK(q)'
      <3>1. CASE q = p
        BY <2>1, <3>1
      <3>2. CASE q # p
        BY <1>1, <2>1, <3>2
      <3> QED
        BY <3>1, <3>2
    <2> QED
      BY <2>4, <2>7, <2>8, <2>9, <2>10
  <1> QED
    BY <1>3, <1>4, <1>5, <1>6, <1>7, <1>8, <1>9 DEF Call

\* A request that starts closes nothing yet.
LEMMA BeginKeepsLog ==
    ASSUME TypeOK, Logged, NEW p \in Callers, NEW s \in Submissions,
           Cancel(p, s) \/ Complete(p, s)
    PROVE  Logged'
  <1> USE DEF Logged, RecordOK, ReadOK, StatusLogged, CallerReadOK
  <1>1. CASE UNCHANGED vars
    BY <1>1 DEF vars, Owed
  <1>2. ASSUME job[s] \in Active, NEW pc \in {"cancelCas", "completeCas"}, Begin(p, s, pc)
        PROVE  Logged'
    <2>1. ASSUME NEW t \in Submissions, Owed(t) PROVE Owed(t)'
      BY <1>2, <2>1 DEF Owed, Closes, Begin, Set, TypeOK
    <2> QED
      BY <1>2, <2>1 DEF Begin, Set, TypeOK, Active, Ended
  <1> QED
    BY <1>1, <1>2 DEF Cancel, Complete, Active

\* LogInvariant is inductive relative to the types and the marks.
LEMMA NextLogged == TypeOK /\ MarkInvariant /\ LogInvariant /\ [Next]_vars => LogInvariant'
  <1> SUFFICES ASSUME TypeOK, MarkInvariant, LogInvariant, [Next]_vars PROVE LogInvariant'
    OBVIOUS
  <1>1. CASE UNCHANGED vars
    BY <1>1 DEF LogInvariant, Logged, RecordOK, ReadOK, StatusLogged, CallerReadOK, Owed, vars
  <1>2. CASE calm' = FALSE
    BY <1>2 DEF LogInvariant
  <1>3. CASE Next /\ calm' # FALSE
    <2>1. calm' = calm
      BY <1>3, CalmStays
    <2>2. ASSUME Marked, Logged PROVE Logged'
      BY <1>3, <2>2, CalmStays, SubmitKeepsLog, RunKeepsLog, CallKeepsLog, BeginKeepsLog
    <2> QED
      BY <2>1, <2>2 DEF LogInvariant, MarkInvariant
  <1> QED
    BY <1>1, <1>2, <1>3

\* Until a database call throws or the process dies, the log says how each job
\* ended once nothing is in flight for it, in whatever order the run, the
\* cancels and the completions write it.
THEOREM EndIsLogged == Spec => []OutcomeLogged
  <1>1. LogInvariant => OutcomeLogged
    <2> SUFFICES ASSUME Logged, NEW s \in Submissions, Quiet(s)
                 PROVE  /\ job[s] = "succeeded" => inv[s] = "completed"
                        /\ job[s] = "failed" => inv[s] = "failed"
                        /\ job[s] = "cancelled" => inv[s] \in {"cancelled", "failed"}
      BY DEF LogInvariant, OutcomeLogged
    <2>1. ~Owed(s)
      BY DEF Quiet, Owed, Closes
    <2> QED
      BY <2>1 DEF Logged, StatusLogged, Quiet
  <1> QED
    BY ImageTyped, InitMarked, NextMarked, InitLogged, NextLogged, <1>1, PTL DEF Spec

-----------------------------------------------------------------------------
(* Each persisted job implements JobLifecycle.                             *)

\* Every new value of a status is reached by one of five statements.
LEMMA StatusStep ==
    ASSUME TypeOK, Next, NEW t \in Submissions, job'[t] # job[t]
    PROVE  \/ job[t] = "none" /\ job'[t] = "generating"
           \/ job[t] = "generating" /\ job'[t] \in {"failed", "cancelled", Outcome(t)}
           \/ job[t] = "ready_to_persist" /\ job'[t] = "succeeded"
  <1>1. CASE \E s \in Submissions : InsertJob(s)
    BY <1>1 DEF InsertJob, Set, TypeOK
  <1>2. CASE \E s \in Submissions : FailCas(s) \/ Deliver(s)
    BY <1>2 DEF FailCas, Deliver, Update, Set, TypeOK
  <1>3. CASE \E p \in Callers : CancelCas(p) \/ CompleteCas(p)
    BY <1>3 DEF CancelCas, CompleteCas, Update, Set, TypeOK
  <1> QED
    BY <1>1, <1>2, <1>3, StatusWriters

\* The row of a job that is persisted is generated, offered and ended once, as
\* JobLifecycle promises, whatever throws or dies.
THEOREM ImageFollowsLifecycle == Spec => ImplementsLifecycle
  <1>1. Init => \A s \in Submissions : Lifecycle(s)!Init
    <2> SUFFICES ASSUME Init, NEW s \in Submissions PROVE Lifecycle(s)!Init
      OBVIOUS
    <2>1. job[s] = "none"
      BY DEF Init
    <2>2. ~(job[s] \in {"ready_to_persist", "succeeded"}) /\ ~(job[s] = "succeeded")
      BY <2>1
    <2>3. (IF job[s] = "none" THEN "generating" ELSE job[s]) = "generating"
      BY <2>1
    <2>4. (job[s] \in {"ready_to_persist", "succeeded"}) = FALSE
      BY <2>2, SMT
    <2>5. (job[s] = "succeeded") = FALSE
      BY <2>2, Zenon
    <2> QED
      BY <2>3, <2>4, <2>5, Zenon DEF Lifecycle!Init
  <1>2. TypeOK /\ [Next]_vars
          => [\A s \in Submissions : req[s].storage = "cloud" =>
                 [Lifecycle(s)!Next]_(Lifecycle(s)!vars)]_vars
    <2> SUFFICES ASSUME TypeOK, Next, NEW s \in Submissions, req[s].storage = "cloud"
                 PROVE  [Lifecycle(s)!Next]_(Lifecycle(s)!vars)
      OBVIOUS
    <2>1. CASE job'[s] = job[s]
      BY <2>1 DEF Lifecycle!vars
    <2>2. CASE job'[s] # job[s]
      BY <2>2, StatusStep DEF Outcome, Lifecycle!vars, Lifecycle!Next, Lifecycle!Offer,
         Lifecycle!Succeed, Lifecycle!Fail, Lifecycle!Cancel, Lifecycle!Ended,
         Lifecycle!Generating
    <2> QED
      BY <2>1, <2>2
  <1> QED
    BY ImageTyped, <1>1, <1>2, PTL DEF Spec, ImplementsLifecycle
=============================================================================
