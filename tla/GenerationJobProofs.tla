------------------------ MODULE GenerationJobProofs ------------------------
(***************************************************************************)
(* The invariant of GenerationJob is inductive, for any set of requests,   *)
(* both kinds of job, with and without restarts, and the row implements    *)
(* JobLifecycle.  The proof has one step per action; the lemmas before it  *)
(* treat, once, what those actions are made of: reaching the next await,   *)
(* reading the row again, returning, and the conditional update.           *)
(***************************************************************************)
EXTENDS GenerationJob, TLAPS

\* The fields of resultJson.
LEMMA ResultFields ==
    ASSUME NEW x \in ResultJson
    PROVE  /\ x.holds \in BOOLEAN /\ x.phase \in {"none", "queued", "running"}
           /\ x.pending \in {"none", "unbound", "bound"} /\ x.final \in BOOLEAN
           /\ x.owner \in {"none", "client", "server"} /\ x.worker \in BOOLEAN
  BY DEF ResultJson

\* The fields of a row.
LEMMA RowFields ==
    ASSUME NEW r \in JobRow
    PROVE  /\ r.st \in Status /\ r.task \in BOOLEAN
           /\ r.ready \in {"none", "fresh", "expired"} /\ r.res \in ResultJson
  BY DEF JobRow

\* Writing the status changes nothing else.
LEMMA SetStatus ==
    ASSUME NEW r \in JobRow, NEW s \in Status
    PROVE  /\ [r EXCEPT !.st = s] \in JobRow
           /\ [r EXCEPT !.st = s].st = s
           /\ [r EXCEPT !.st = s].task = r.task
           /\ [r EXCEPT !.st = s].ready = r.ready
           /\ [r EXCEPT !.st = s].res = r.res
  BY DEF JobRow

\* Writing status and resultJson changes nothing else.
LEMMA SetResult ==
    ASSUME NEW r \in JobRow, NEW s \in Status, NEW x \in ResultJson
    PROVE  /\ [r EXCEPT !.st = s, !.res = x] \in JobRow
           /\ [r EXCEPT !.st = s, !.res = x].st = s
           /\ [r EXCEPT !.st = s, !.res = x].task = r.task
           /\ [r EXCEPT !.st = s, !.res = x].ready = r.ready
           /\ [r EXCEPT !.st = s, !.res = x].res = x
  BY DEF JobRow

\* Writing the upstream phase changes nothing else in resultJson.
LEMMA SetPhase ==
    ASSUME NEW x \in ResultJson, NEW f \in {"none", "queued", "running"}
    PROVE  /\ [x EXCEPT !.phase = f] \in ResultJson
           /\ [x EXCEPT !.phase = f].pending = x.pending
           /\ [x EXCEPT !.phase = f].final = x.final
           /\ [x EXCEPT !.phase = f].owner = x.owner
           /\ [x EXCEPT !.phase = f].worker = x.worker
  BY DEF ResultJson

\* The write that offers a job for persisting.
LEMMA SetReady ==
    ASSUME NEW r \in JobRow, NEW x \in ResultJson
    PROVE  LET n == [r EXCEPT !.st = "ready_to_persist", !.ready = "fresh", !.res = x]
           IN  n \in JobRow /\ n.st = "ready_to_persist" /\ n.ready = "fresh" /\ n.res = x
  BY DEF JobRow, Status, Active

\* The values a job and a caller start with are typed.
LEMMA EmptyRows ==
    /\ EmptyResult \in ResultJson
    /\ NewJob \in JobRow
    /\ Idle \in CallerState
  <1>1. EmptyResult \in ResultJson
    BY DEF EmptyResult, ResultJson
  <1>2. [EmptyResult EXCEPT !.holds = TRUE] \in ResultJson
    BY <1>1 DEF ResultJson
  <1>3. NewJob \in JobRow
    BY <1>2 DEF NewJob, JobRow, Status, Active
  <1> QED
    BY <1>1, <1>3 DEF Idle, CallerState, Labels, Ops, Answers

\* The initial state is typed.
LEMMA InitType == Init => TypeOK
  <1> SUFFICES ASSUME Init PROVE TypeOK
    OBVIOUS
  <1>1. NoReply \in [st : Status \cup {"none"}, pending : BOOLEAN]
    BY DEF NoReply
  <1> QED
    BY <1>1, EmptyRows DEF Init, TypeOK

\* Returning keeps callers typed.
LEMMA FinishType ==
    ASSUME TypeOK, NEW p \in Callers, Finish(p)
    PROVE  rq' \in [Callers -> CallerState]
  BY EmptyRows DEF Finish, TypeOK

\* A new request keeps callers and answers typed.
LEMMA EnterType ==
    ASSUME TypeOK, NEW p \in Callers, NEW o \in Ops, NEW l \in Labels, Enter(p, o, l)
    PROVE  /\ rq' \in [Callers -> CallerState]
           /\ reply' \in [Callers -> [st : Status \cup {"none"}, pending : BOOLEAN]]
  BY DEF Enter, NoReply, TypeOK, CallerState, Answers

\* Answering a cancel keeps callers and answers typed.
LEMMA AnswerType ==
    ASSUME TypeOK, NEW p \in Callers, NEW r \in JobRow, NEW d \in BOOLEAN, Answer(p, r, d)
    PROVE  /\ rq' \in [Callers -> CallerState]
           /\ reply' \in [Callers -> [st : Status \cup {"none"}, pending : BOOLEAN]]
  BY FinishType, RowFields DEF Answer, TypeOK

\* The fields of a caller.
LEMMA CallerFields ==
    ASSUME TypeOK, NEW p \in Callers
    PROVE  /\ rq[p].pc \in Labels /\ rq[p].op \in Ops
           /\ rq[p].row \in JobRow /\ rq[p].got \in Answers
  BY DEF TypeOK, CallerState

-----------------------------------------------------------------------------
\* The conjuncts of JobInvariant, and what every step does to the row: a
\* terminal status stays, and a job never goes back to being generated.
CallersOK == \A p \in Callers : CallerOK(rq[p], job, up)
RepliesOK == \A p \in Callers : reply[p].st = "cancelled" => job.st = "cancelled"
OfferedOK == job.st \in Offered => up = "completed"
Advance == /\ job.st \in Terminal => job'.st = job.st
           /\ job.st \notin Early => job'.st \notin Early
           /\ up = "completed" => up' = "completed"

\* A step that leaves the row alone is an advance.
LEMMA SameJob ==
    ASSUME job' = job, up = "completed" => up' = "completed"
    PROVE  Advance
  BY DEF Advance

\* A caller that does not move stays consistent while the row advances.
LEMMA OtherCaller ==
    ASSUME NEW q \in Callers, CallerOK(rq[q], job, up), rq'[q] = rq[q], Advance
    PROVE  CallerOK(rq'[q], job', up')
  BY DEF CallerOK, PastOf, RowOK, Advance

\* When no caller moves, all stay consistent while the row advances.
LEMMA CallersStay ==
    ASSUME CallersOK, rq' = rq, Advance
    PROVE  CallersOK'
  BY OtherCaller DEF CallersOK

\* When one caller moves to a consistent state, all are consistent.
LEMMA OneCaller ==
    ASSUME TypeOK, CallersOK, Advance, NEW p \in Callers, NEW c \in CallerState,
           rq' = [rq EXCEPT ![p] = c], CallerOK(c, job', up')
    PROVE  /\ rq' \in [Callers -> CallerState]
           /\ CallersOK'
  <1>1. rq' \in [Callers -> CallerState] /\ rq'[p] = c
    BY DEF TypeOK
  <1>2. ASSUME NEW q \in Callers, q # p PROVE CallerOK(rq'[q], job', up')
    <2>1. rq'[q] = rq[q]
      BY <1>2 DEF TypeOK
    <2> QED
      BY <2>1, OtherCaller DEF CallersOK
  <1>3. CallerOK(rq'[p], job', up')
    BY <1>1 DEF CallerOK, PastOf
  <1> QED
    BY <1>1, <1>2, <1>3 DEF CallersOK

\* Reaching the next await keeps callers consistent.
LEMMA GotoStep ==
    ASSUME TypeOK, CallersOK, Advance, NEW p \in Callers, NEW l \in Labels,
           Goto(p, l), PcOK(l, rq[p].row, rq[p].got)
    PROVE  /\ rq' \in [Callers -> CallerState]
           /\ CallersOK'
  <1> DEFINE c == [rq[p] EXCEPT !.pc = l]
  <1>1. c \in CallerState /\ c.pc = l /\ c.row = rq[p].row /\ c.got = rq[p].got
    BY DEF TypeOK, CallerState
  <1>2. rq' = [rq EXCEPT ![p] = c]
    BY DEF Goto
  <1>3. CallerOK(c, job', up')
    BY <1>1 DEF CallersOK, CallerOK, PastOf, Advance
  <1> HIDE DEF c
  <1> QED
    BY <1>1, <1>2, <1>3, OneCaller

\* Reading the row again keeps callers consistent.
LEMMA ReadBackStep ==
    ASSUME TypeOK, CallersOK, RowOK(job), OfferedOK, NEW p \in Callers, NEW l \in Labels,
           job' = job, up' = up, ReadBack(p, l), PcOK(l, job, rq[p].got)
    PROVE  /\ rq' \in [Callers -> CallerState]
           /\ CallersOK'
  <1> DEFINE c == [rq[p] EXCEPT !.row = job, !.pc = l]
  <1>1. c \in CallerState /\ c.pc = l /\ c.row = job /\ c.got = rq[p].got
    BY DEF TypeOK, CallerState
  <1>2. rq' = [rq EXCEPT ![p] = c]
    BY DEF ReadBack
  <1>3. CallerOK(c, job', up')
    BY <1>1 DEF CallersOK, CallerOK, PastOf
  <1>4. Advance
    BY SameJob
  <1> HIDE DEF c
  <1> QED
    BY <1>1, <1>2, <1>3, <1>4, OneCaller

\* Returning keeps callers consistent.
LEMMA FinishStep ==
    ASSUME TypeOK, CallersOK, Advance, NEW p \in Callers, Finish(p)
    PROVE  /\ rq' \in [Callers -> CallerState]
           /\ CallersOK'
  <1>1. CallerOK(Idle, job', up')
    BY DEF CallerOK, RowOK, PastOf, PcOK, Idle, NewJob, EmptyResult, Early, Offered, Terminal
  <1> QED
    BY <1>1, EmptyRows, OneCaller DEF Finish

\* Going on after a poll or a dispatch keeps callers consistent.
LEMMA ResumeStep ==
    ASSUME TypeOK, CallersOK, Advance, NEW p \in Callers, NEW r \in JobRow,
           RowOK(r), PastOf(r, job'), Resume(p, r)
    PROVE  /\ rq' \in [Callers -> CallerState]
           /\ CallersOK'
  <1> DEFINE c == [rq[p] EXCEPT !.row = r, !.pc = After(p, r)]
  <1>1. CASE After(p, r) = "idle"
    BY <1>1, FinishStep DEF Resume
  <1>2. CASE After(p, r) # "idle"
    <2>1. After(p, r) \in {"dispatch", "ensure"}
      BY <1>2 DEF After
    <2>2. After(p, r) = "dispatch" => r.st \in {"ready_to_persist", "uploading"}
      BY DEF After
    <2>3. c \in CallerState /\ c.pc = After(p, r) /\ c.row = r /\ c.got = rq[p].got
      BY ZenonT(30), <2>1 DEF TypeOK, CallerState, Labels
    <2>4. PcOK(After(p, r), r, rq[p].got)
      BY <2>1, <2>2 DEF PcOK
    <2>5. rq' = [rq EXCEPT ![p] = c]
      BY <1>2 DEF Resume
    <2>6. CallerOK(c, job', up')
      BY <2>3, <2>4 DEF CallersOK, CallerOK, Advance, PastOf
    <2> HIDE DEF c
    <2> QED
      BY <2>3, <2>5, <2>6, OneCaller
  <1> QED
    BY <1>1, <1>2

\* A new request, which reads the current row, is consistent.
LEMMA EnterStep ==
    ASSUME TypeOK, CallersOK, RowOK(job), RepliesOK, NEW p \in Callers,
           NEW o \in Ops, NEW l \in Labels,
           job' = job, up' = up, Enter(p, o, l), PcOK(l, job, "none")
    PROVE  /\ rq' \in [Callers -> CallerState]
           /\ reply' \in [Callers -> [st : Status \cup {"none"}, pending : BOOLEAN]]
           /\ CallersOK'
           /\ RepliesOK'
  <1> DEFINE c == [pc |-> l, op |-> o, row |-> job, got |-> "none"]
  <1>1. c \in CallerState /\ CallerOK(c, job', up')
    BY DEF CallerState, TypeOK, CallerOK, PastOf, Answers
  <1>2. rq' = [rq EXCEPT ![p] = c]
    BY DEF Enter
  <1>3. Advance
    BY SameJob
  <1>4. RepliesOK'
    BY DEF Enter, RepliesOK, NoReply, TypeOK
  <1> HIDE DEF c
  <1> QED
    BY <1>1, <1>2, <1>3, <1>4, OneCaller, EnterType

\* An answer taken from a past of the row stands.
LEMMA AnswerStep ==
    ASSUME TypeOK, CallersOK, RepliesOK, Advance, NEW p \in Callers,
           NEW r \in JobRow, NEW d \in BOOLEAN, PastOf(r, job'), Answer(p, r, d)
    PROVE  /\ rq' \in [Callers -> CallerState]
           /\ reply' \in [Callers -> [st : Status \cup {"none"}, pending : BOOLEAN]]
           /\ CallersOK'
           /\ RepliesOK'
  <1>1. reply' = [reply EXCEPT ![p] = [st |-> r.st, pending |-> d]] /\ Finish(p)
    BY DEF Answer
  <1>2. r.st = "cancelled" => job'.st = "cancelled"
    BY DEF PastOf, Terminal
  <1>3. ASSUME NEW q \in Callers, reply'[q].st = "cancelled"
        PROVE  job'.st = "cancelled"
    BY <1>1, <1>2, <1>3 DEF RepliesOK, Advance, TypeOK, Terminal
  <1>4. RepliesOK'
    BY <1>3 DEF RepliesOK
  <1> QED
    BY <1>1, <1>4, FinishStep, AnswerType

\* Earlier answers stand while the row advances.
LEMMA RepliesStay ==
    ASSUME TypeOK, RepliesOK, Advance, reply' = reply
    PROVE  /\ reply' \in [Callers -> [st : Status \cup {"none"}, pending : BOOLEAN]]
           /\ RepliesOK'
  BY DEF TypeOK, RepliesOK, Advance, Terminal

\* A conditional update is an advance when the rows it may replace are not
\* terminal and the new row is coherent.
LEMMA UpdateStep ==
    ASSUME TypeOK, RowOK(job), OfferedOK, up' = up, NEW e, NEW n \in JobRow, Update(e, n),
           job.st \in e => /\ RowOK(n)
                           /\ job.st \notin Terminal
                           /\ n.st \in Early => job.st \in Early
                           /\ n.st \in Offered => up = "completed"
    PROVE  /\ job' \in JobRow
           /\ RowOK(job')
           /\ Advance
           /\ OfferedOK'
  <1>1. CASE job.st \in e
    BY <1>1 DEF Update, Advance, OfferedOK
  <1>2. CASE job.st \notin e
    BY <1>2 DEF Update, Advance, OfferedOK, TypeOK
  <1> QED
    BY <1>1, <1>2

-----------------------------------------------------------------------------
\* The inductive invariant: the types are needed for the fields that the
\* conditional updates replace.
IInv == TypeOK /\ JobInvariant

OtherTypes ==
    /\ media \in {"generating", "ready", "failed", "cloud"}
    /\ inv \in {"pending", "completed", "failed", "cancelled"}
    /\ badge \in BOOLEAN
    /\ up \in {"none", "queued", "running", "completed", "failed", "deleted"}
    /\ sub \in {"sending", "reopen", "record", "rejected", "mark", "close", "done"}

\* The parts of the invariant.
LEMMA Parts ==
    ASSUME IInv
    PROVE  /\ TypeOK /\ OtherTypes /\ job \in JobRow /\ RowOK(job)
           /\ CallersOK /\ RepliesOK /\ OfferedOK
           /\ sub = "sending" => up = "none"
  BY DEF IInv, TypeOK, OtherTypes, JobInvariant, CallersOK, RepliesOK, OfferedOK

\* The parts make the invariant.
LEMMA Combine ==
    ASSUME job' \in JobRow, RowOK(job'), OfferedOK', OtherTypes',
           rq' \in [Callers -> CallerState], CallersOK',
           reply' \in [Callers -> [st : Status \cup {"none"}, pending : BOOLEAN]],
           RepliesOK', sub' = "sending" => up' = "none"
    PROVE  IInv'
  BY DEF IInv, TypeOK, OtherTypes, JobInvariant, CallersOK, RepliesOK, OfferedOK

\* Steps that leave the row, the provider and the submission alone.
LEMMA KeepsRow ==
    ASSUME IInv, job' = job, up' = up, sub' = sub, OtherTypes',
           rq' \in [Callers -> CallerState], CallersOK',
           reply' \in [Callers -> [st : Status \cup {"none"}, pending : BOOLEAN]],
           RepliesOK'
    PROVE  IInv'
  <1>1. OfferedOK'
    BY Parts DEF OfferedOK
  <1> QED
    BY <1>1, Parts, Combine

\* ... when the caller reaches its next await.
LEMMA GotoKeepsRow ==
    ASSUME IInv, NEW p \in Callers, NEW l \in Labels, Goto(p, l),
           PcOK(l, rq[p].row, rq[p].got), job' = job, up' = up, sub' = sub,
           reply' = reply, OtherTypes'
    PROVE  IInv'
  BY Parts, SameJob, GotoStep, RepliesStay, KeepsRow

\* ... when the caller reads the row again.
LEMMA ReadKeepsRow ==
    ASSUME IInv, NEW p \in Callers, NEW l \in Labels, ReadBack(p, l),
           PcOK(l, job, rq[p].got), job' = job, up' = up, sub' = sub,
           reply' = reply, OtherTypes'
    PROVE  IInv'
  BY Parts, SameJob, ReadBackStep, RepliesStay, KeepsRow

\* ... when the caller returns.
LEMMA FinishKeepsRow ==
    ASSUME IInv, NEW p \in Callers, Finish(p), job' = job, up' = up, sub' = sub,
           reply' = reply, OtherTypes'
    PROVE  IInv'
  BY Parts, SameJob, FinishStep, RepliesStay, KeepsRow

\* ... when a request starts.
LEMMA EnterKeepsRow ==
    ASSUME IInv, NEW p \in Callers, NEW o \in Ops, NEW l \in Labels, Enter(p, o, l),
           PcOK(l, job, "none"), job' = job, up' = up, sub' = sub, OtherTypes'
    PROVE  IInv'
  BY Parts, EnterStep, KeepsRow

\* What the invariant says of one caller.
LEMMA CallerRow ==
    ASSUME IInv, NEW p \in Callers
    PROVE  /\ rq[p].row \in JobRow /\ rq[p].op \in Ops /\ rq[p].got \in Answers
           /\ RowOK(rq[p].row) /\ PastOf(rq[p].row, job)
           /\ PcOK(rq[p].pc, rq[p].row, rq[p].got)
           /\ rq[p].got = "completed" => up = "completed"
  BY Parts, CallerFields DEF CallersOK, CallerOK

\* ... when a poll or a dispatch hands its row back.
LEMMA ResumeKeepsRow ==
    ASSUME IInv, NEW p \in Callers, NEW r \in JobRow, RowOK(r), PastOf(r, job), Resume(p, r),
           job' = job, up' = up, sub' = sub, reply' = reply, OtherTypes'
    PROVE  IInv'
  BY Parts, SameJob, ResumeStep, RepliesStay, KeepsRow

\* ... when a cancel is answered.
LEMMA AnswerKeepsRow ==
    ASSUME IInv, NEW p \in Callers, NEW r \in JobRow, NEW d \in BOOLEAN, PastOf(r, job),
           Answer(p, r, d), job' = job, up' = up, sub' = sub, OtherTypes'
    PROVE  IInv'
  BY Parts, SameJob, AnswerStep, KeepsRow

\* A conditional update, after which the caller reads the row again.
LEMMA GotoMovesRow ==
    ASSUME IInv, NEW p \in Callers, NEW l \in Labels, Goto(p, l),
           PcOK(l, rq[p].row, rq[p].got), NEW e, NEW n \in JobRow, Update(e, n),
           job.st \in e => /\ RowOK(n)
                           /\ job.st \notin Terminal
                           /\ n.st \in Early => job.st \in Early
                           /\ n.st \in Offered => up = "completed",
           UNCHANGED <<media, inv, badge, up, sub, reply>>
    PROVE  IInv'
  <1>1. /\ job' \in JobRow
        /\ RowOK(job')
        /\ Advance
        /\ OfferedOK'
    BY Parts, UpdateStep
  <1>2. rq' \in [Callers -> CallerState] /\ CallersOK'
    BY <1>1, Parts, GotoStep
  <1>3. OtherTypes'
    BY Parts DEF OtherTypes
  <1> QED
    BY <1>1, <1>2, <1>3, Parts, RepliesStay, Combine

\* An active job that fails or is cancelled leaves a coherent row.
LEMMA EndsRow ==
    ASSUME IInv, NEW e \in SUBSET Active, NEW s \in {"failed", "cancelled"}
    PROVE  /\ [job EXCEPT !.st = s] \in JobRow
           /\ job.st \in e => /\ RowOK([job EXCEPT !.st = s])
                              /\ job.st \notin Terminal
                              /\ s \notin Early /\ s \notin Offered
           /\ [job EXCEPT !.st = s].st = s
  <1>1. s \in Status
    BY DEF Status, Terminal
  <1>2. /\ [job EXCEPT !.st = s] \in JobRow
        /\ [job EXCEPT !.st = s].st = s
        /\ [job EXCEPT !.st = s].ready = job.ready
        /\ [job EXCEPT !.st = s].res = job.res
    BY <1>1, Parts, SetStatus
  <1> QED
    BY <1>2, Parts DEF RowOK, Active, Terminal, Early, Offered

-----------------------------------------------------------------------------
\* A new job satisfies the invariant.
LEMMA InitInvariant == Init => IInv
  <1> SUFFICES ASSUME Init PROVE IInv
    OBVIOUS
  <1>1. RowOK(NewJob) /\ PastOf(NewJob, NewJob) /\ NewJob.st \notin Offered
    BY DEF RowOK, PastOf, NewJob, EmptyResult, Early, Offered, Terminal
  <1>2. CallerOK(Idle, NewJob, "none")
    BY <1>1 DEF CallerOK, PcOK, Idle
  <1>3. NoReply.st = "none"
    BY DEF NoReply
  <1>4. JobInvariant
    BY <1>1, <1>2, <1>3 DEF Init, JobInvariant
  <1> QED
    BY <1>4, InitType DEF IInv

\* The submitting request preserves the invariant.
LEMMA SubmitStep == ASSUME IInv, Submit PROVE IInv'
  <1> USE Parts
  <1>1. CASE ProviderAccepts
    <2>1. Advance /\ OfferedOK'
      BY <1>1 DEF ProviderAccepts, Advance, OfferedOK
    <2>2. CallersOK' /\ RepliesOK' /\ OtherTypes'
      BY <1>1, <2>1, CallersStay, RepliesStay DEF ProviderAccepts, OtherTypes
    <2> QED
      BY <1>1, <2>1, <2>2, Combine DEF ProviderAccepts, TypeOK
  <1>2. CASE ProviderRejects \/ SubmitReopen \/ SubmitMark \/ SubmitClose
    <2>1. Advance /\ OfferedOK' /\ OtherTypes' /\ sub' # "sending"
      BY <1>2 DEF ProviderRejects, SubmitReopen, SubmitMark, SubmitClose, Advance,
                  OfferedOK, OtherTypes
    <2>2. rq' = rq /\ reply' = reply /\ job' = job
      BY <1>2 DEF ProviderRejects, SubmitReopen, SubmitMark, SubmitClose
    <2> QED
      BY <2>1, <2>2, CallersStay, RepliesStay, Combine DEF TypeOK
  <1>3. CASE SubmitRecord
    <2> DEFINE x == [EmptyResult EXCEPT !.holds = (Kind = "mediakit")]
               n == [job EXCEPT !.task = TRUE, !.res = x]
    <2>1. /\ x \in ResultJson
          /\ x.pending = "none" /\ x.final = FALSE /\ x.worker = FALSE
      BY EmptyRows DEF EmptyResult, ResultJson
    <2>2. n \in JobRow /\ n.st = job.st /\ n.ready = job.ready /\ n.res = x
      BY <2>1 DEF JobRow
    <2>3. job.st \in {"generating"} => RowOK(n) /\ n.st \notin Offered /\ job.st \notin Terminal
      BY <2>1, <2>2 DEF RowOK, Early, Offered, Terminal
    <2>4. Update({"generating"}, n)
      BY <1>3 DEF SubmitRecord
    <2> HIDE DEF n
    <2>5. job' \in JobRow /\ RowOK(job') /\ Advance /\ OfferedOK'
      BY <1>3, <2>2, <2>3, <2>4, UpdateStep DEF SubmitRecord
    <2>6. OtherTypes' /\ rq' = rq /\ reply' = reply /\ sub' = "done"
      BY <1>3 DEF SubmitRecord, OtherTypes
    <2> QED
      BY <2>5, <2>6, CallersStay, RepliesStay, Combine DEF TypeOK
  <1>4. CASE SubmitFail
    <2>1. /\ [job EXCEPT !.st = "failed"] \in JobRow
          /\ job.st \in {"generating"} => /\ RowOK([job EXCEPT !.st = "failed"])
                                          /\ job.st \notin Terminal
                                          /\ [job EXCEPT !.st = "failed"].st \notin Early
                                          /\ [job EXCEPT !.st = "failed"].st \notin Offered
      BY EndsRow, {"generating"} \in SUBSET Active DEF Active
    <2>2. job' \in JobRow /\ RowOK(job') /\ Advance /\ OfferedOK'
      BY <1>4, <2>1, UpdateStep DEF SubmitFail
    <2>3. OtherTypes' /\ rq' = rq /\ reply' = reply /\ sub' = "mark"
      BY <1>4 DEF SubmitFail, OtherTypes
    <2> QED
      BY <2>2, <2>3, CallersStay, RepliesStay, Combine DEF TypeOK
  <1> QED
    BY <1>1, <1>2, <1>3, <1>4 DEF Submit

\* The provider, the clock, a worker's claim and a restart preserve it.
LEMMA WorldStep == ASSUME IInv, Provider \/ ReadyAtExpires \/ WorkerClaim \/ Restart PROVE IInv'
  <1> USE Parts
  <1>1. CASE Provider
    <2>1. /\ Advance /\ OfferedOK' /\ OtherTypes' /\ sub' = sub /\ job' = job
          /\ rq' = rq /\ reply' = reply /\ sub # "sending"
      BY <1>1 DEF Provider, TaskStarts, TaskEnds, Advance, OfferedOK, OtherTypes
    <2> QED
      BY <2>1, CallersStay, RepliesStay, Combine DEF TypeOK
  <1>2. CASE ReadyAtExpires
    <2>1. /\ job' \in JobRow /\ job'.st = job.st /\ job'.res = job.res
          /\ job'.ready = "expired" /\ job.ready = "fresh"
      BY <1>2 DEF ReadyAtExpires, JobRow
    <2>2. RowOK(job')
      BY <2>1 DEF RowOK
    <2>3. /\ Advance /\ OfferedOK' /\ OtherTypes' /\ sub' = sub /\ up' = up
          /\ rq' = rq /\ reply' = reply
      BY <1>2, <2>1 DEF ReadyAtExpires, Advance, OfferedOK, OtherTypes
    <2> QED
      BY <2>1, <2>2, <2>3, CallersStay, RepliesStay, Combine DEF TypeOK
  <1>3. CASE WorkerClaim
    <2>1. /\ job' \in JobRow /\ job'.st = job.st /\ job'.ready = job.ready
          /\ job'.res.pending = job.res.pending /\ job'.res.final = job.res.final
          /\ job'.res.owner = job.res.owner /\ job'.res.worker = TRUE
      BY <1>3 DEF WorkerClaim, JobRow, ResultJson
    <2>2. RowOK(job')
      BY <1>3, <2>1 DEF RowOK, WorkerClaim, Early
    <2>3. /\ Advance /\ OfferedOK' /\ OtherTypes' /\ sub' = sub /\ up' = up
          /\ rq' = rq /\ reply' = reply
      BY <1>3, <2>1 DEF WorkerClaim, Advance, OfferedOK, OtherTypes
    <2> QED
      BY <2>1, <2>2, <2>3, CallersStay, RepliesStay, Combine DEF TypeOK
  <1>4. CASE Restart
    <2>1. CallerOK(Idle, job', up')
      BY DEF CallerOK, RowOK, PastOf, PcOK, Idle, NewJob, EmptyResult, Early, Offered, Terminal
    <2>2. rq' = [p \in Callers |-> Idle] /\ sub' = "done" /\ reply' = reply /\ job' = job
          /\ up' = up /\ OtherTypes' /\ Advance /\ OfferedOK'
      BY <1>4 DEF Restart, OtherTypes, Advance, OfferedOK
    <2>3. rq' \in [Callers -> CallerState] /\ CallersOK'
      BY <2>1, <2>2, EmptyRows DEF CallersOK
    <2> QED
      BY <2>2, <2>3, RepliesStay, Combine
  <1> QED
    BY <1>1, <1>2, <1>3, <1>4

\* Starting a refresh, and its last step on a failed job, preserve it.
LEMMA RefreshStep ==
    ASSUME IInv, NEW p \in Callers, Refresh(p) \/ EnsureMarked(p) PROVE IInv'
  <1> USE Parts DEF OtherTypes
  <1>1. CASE RefreshPoll(p)
    <2>1. PcOK("poll", job, "none")
      BY <1>1 DEF RefreshPoll, PollNeeded, PcOK
    <2> QED
      BY <1>1, <2>1, EnterKeepsRow DEF RefreshPoll, Ops, Labels
  <1>2. CASE RefreshExpired(p)
    <2>1. PcOK("dispatch", job, "none")
      BY <1>2 DEF RefreshExpired, PcOK
    <2> QED
      BY <1>2, <2>1, EnterKeepsRow DEF RefreshExpired, Ops, Labels
  <1>3. CASE RefreshFailed(p)
    <2>1. PcOK("ensure", job, "none")
      BY DEF PcOK
    <2> QED
      BY <1>3, <2>1, EnterKeepsRow DEF RefreshFailed, Ops, Labels
  <1>4. CASE EnsureMarked(p)
    BY <1>4, FinishKeepsRow DEF EnsureMarked, MarkFailed
  <1> QED
    BY <1>1, <1>2, <1>3, <1>4 DEF Refresh

\* Every step of a poll preserves it.
LEMMA PollStep == ASSUME IInv, NEW p \in Callers, Poll(p) PROVE IInv'
  <1> USE Parts, CallerRow DEF OtherTypes
  <1>1. CASE PollInterfaceGone(p)
    <2> DEFINE c == [rq[p] EXCEPT !.pc = "failCas", !.got = "noiface"]
    <2>1. c \in CallerState /\ c.row = rq[p].row /\ c.pc = "failCas" /\ c.got = "noiface"
      BY ZenonT(30) DEF TypeOK, CallerState, Labels, Answers
    <2>2. rq' = [rq EXCEPT ![p] = c] /\ UNCHANGED <<job, media, inv, badge, up, sub, reply>>
      BY <1>1 DEF PollInterfaceGone
    <2>3. CallerOK(c, job', up')
      BY <1>1, <2>1, <2>2 DEF PollInterfaceGone, At, PcOK, CallerOK
    <2> HIDE DEF c
    <2> QED
      BY ZenonT(30), <2>1, <2>2, <2>3, SameJob, OneCaller, RepliesStay, KeepsRow
  <1>2. CASE PollAnswered(p)
    <2>1. PICK a \in PollAnswers :
             rq' = [rq EXCEPT ![p].got = a, ![p].pc = PollNext(rq[p].row, a)]
      BY <1>2 DEF PollAnswered
    <2> DEFINE l == PollNext(rq[p].row, a)
               c == [rq[p] EXCEPT !.got = a, !.pc = l]
    <2>2. /\ a \in {"failed", "cancelled", "queued", "running", "completed"}
          /\ a = "completed" => up = "completed"
      BY DEF PollAnswers, MediaKitAnswers, VolcanoAnswers
    <2>3. /\ l \in {"failCas", "stopCas", "phaseCas", "readyCas", "revertCas", "publish",
                    "delete"}
          /\ l \in {"readyCas", "publish"} => a = "completed"
          /\ l = "phaseCas" => a \in {"queued", "running"}
      BY <2>2 DEF PollNext
    <2> HIDE DEF l
    <2>4. c \in CallerState /\ c.row = rq[p].row /\ c.pc = l /\ c.got = a
      <3>1. rq[p] \in CallerState /\ a \in Answers /\ l \in Labels
        BY <2>2, <2>3 DEF TypeOK, Labels, Answers
      <3> QED
        BY ONLY <3>1 DEF CallerState
    <2>5. rq[p].row.st \in {"generating", "cancelling"}
      BY <1>2 DEF PollAnswered, At, PcOK
    <2>6. PcOK(l, rq[p].row, a)
      BY <2>3, <2>5 DEF PcOK
    <2>7. UNCHANGED <<job, media, inv, badge, up, sub, reply>>
      BY <1>2 DEF PollAnswered
    <2>8. CallerOK(c, job', up')
      BY <2>2, <2>4, <2>6, <2>7 DEF CallerOK
    <2>9. rq' = [rq EXCEPT ![p] = c]
      BY <2>1 DEF l
    <2> HIDE DEF c
    <2> QED
      BY ZenonT(30), <2>4, <2>7, <2>8, <2>9, SameJob, OneCaller, RepliesStay, KeepsRow
  <1>3. CASE PollFails(p)
    <2>1. ActiveStatuses(p) \in SUBSET Active
      BY <1>3 DEF ActiveStatuses, PollFails, At, PcOK, Active
    <2>2. PcOK("failRead", rq[p].row, rq[p].got)
      BY DEF PcOK
    <2> QED
      BY <1>3, <2>1, <2>2, EndsRow, GotoMovesRow DEF PollFails, Labels
  <1>4. CASE PollFailRead(p)
    <2>1. PcOK("failMark", job, rq[p].got)
      BY DEF PcOK
    <2> QED
      BY <1>4, <2>1, ReadKeepsRow DEF PollFailRead, Labels
  <1>5. CASE PollFailMark(p)
    <2>1. PcOK("sync", rq[p].row, rq[p].got)
      BY DEF PcOK
    <2> QED
      BY <1>5, <2>1, GotoKeepsRow DEF PollFailMark, Labels, MarkFailed
  <1>6. CASE SyncInvocation(p)
    <2>1. inv' \in {"pending", "completed", "failed", "cancelled"}
      BY <1>6 DEF SyncInvocation, Synced
    <2> QED
      BY <1>6, <2>1, ResumeKeepsRow DEF SyncInvocation
  <1>7. CASE PollStopped(p)
    <2>1. {rq[p].row.st} \in SUBSET Active
      BY <1>7 DEF PollStopped, At, PcOK, Active
    <2>2. PcOK("stopRead", rq[p].row, rq[p].got)
      BY DEF PcOK
    <2> QED
      BY <1>7, <2>1, <2>2, EndsRow, GotoMovesRow DEF PollStopped, Labels
  <1>8. CASE StopRead(p)
    <2>1. PcOK("sync", job, rq[p].got)
      BY DEF PcOK
    <2> QED
      BY <1>8, <2>1, ReadKeepsRow DEF StopRead, Labels
  <1>9. CASE PollPhase(p)
    <2> DEFINE r == rq[p].row
               x == [r.res EXCEPT !.phase = rq[p].got]
               n == [job EXCEPT !.st = r.st, !.res = x]
    <2>1. rq[p].got \in {"queued", "running"} /\ r.st \in {"generating", "cancelling"}
      BY <1>9 DEF PollPhase, At, PcOK
    <2>2. x \in ResultJson /\ x.pending = r.res.pending /\ x.final = r.res.final
          /\ x.worker = r.res.worker /\ x.owner = r.res.owner
      <3>1. r.res \in ResultJson
        BY RowFields
      <3> QED
        BY ONLY ZenonT(30), <2>1, <3>1, SetPhase
    <2>3. r.st \in Status
      BY RowFields
    <2> HIDE DEF x
    <2>4. n \in JobRow /\ n.st = r.st /\ n.ready = job.ready /\ n.res = x
      <3>1. job \in JobRow
        OBVIOUS
      <3> QED
        BY ONLY ZenonT(30), <2>2, <2>3, <3>1, SetResult
    <2>5. job.st \in {r.st} => RowOK(n) /\ job.st \notin Terminal /\ job.st \in Early
                               /\ n.st \notin Offered
      BY <2>1, <2>2, <2>4 DEF RowOK, Early, Offered, Terminal
    <2>6. PcOK("phaseRead", r, rq[p].got)
      BY DEF PcOK
    <2>7. Update({r.st}, n) /\ Goto(p, "phaseRead")
          /\ UNCHANGED <<media, inv, badge, up, sub, reply>>
      BY <1>9 DEF PollPhase, x
    <2> HIDE DEF n
    <2> QED
      BY <2>4, <2>5, <2>6, <2>7, GotoMovesRow DEF Labels
  <1>10. CASE PollReturns(p)
    <2>1. PastOf(job, job)
      BY DEF PastOf
    <2> QED
      BY <1>10, <2>1, ResumeKeepsRow DEF PollReturns
  <1>11. CASE RevertCancel(p)
    <2>1. /\ [job EXCEPT !.st = "generating"] \in JobRow
          /\ [job EXCEPT !.st = "generating"].st = "generating"
          /\ [job EXCEPT !.st = "generating"].ready = job.ready
          /\ [job EXCEPT !.st = "generating"].res = job.res
      BY SetStatus DEF Status, Active
    <2>2. job.st \in {"cancelling"} => /\ RowOK([job EXCEPT !.st = "generating"])
                                       /\ job.st \notin Terminal /\ job.st \in Early
      BY <2>1 DEF RowOK, Early, Offered, Terminal
    <2>3. PcOK("revertRead", rq[p].row, rq[p].got) /\ "generating" \notin Offered
      BY DEF PcOK, Offered
    <2> QED
      BY <1>11, <2>1, <2>2, <2>3, GotoMovesRow DEF RevertCancel, Labels
  <1>12. CASE RevertRead(p)
    <2>1. PcOK("revertBadge", job, rq[p].got)
      BY DEF PcOK
    <2> QED
      BY <1>12, <2>1, ReadKeepsRow DEF RevertRead, Labels
  <1>13. CASE RevertBadge(p)
    <2>1. CASE rq[p].got = "completed"
      <3>1. PcOK("publish", rq[p].row, rq[p].got)
        BY <2>1 DEF PcOK
      <3>2. Goto(p, "publish")
        BY <1>13, <2>1 DEF RevertBadge
      <3>3. OtherTypes' /\ UNCHANGED <<job, up, sub, reply>>
        BY <1>13 DEF RevertBadge, BadgeDone
      <3> QED
        BY <3>1, <3>2, <3>3, GotoKeepsRow DEF Labels
    <2>2. CASE rq[p].got # "completed"
      <3>1. OtherTypes' /\ UNCHANGED <<job, up, sub, reply>>
        BY <1>13 DEF RevertBadge, BadgeDone
      <3>2. Resume(p, rq[p].row)
        BY <1>13, <2>2 DEF RevertBadge
      <3> QED
        BY <3>1, <3>2, ResumeKeepsRow
    <2> QED
      BY <2>1, <2>2
  <1>14. CASE PublishMedia(p)
    <2>1. PcOK("readyCas", rq[p].row, rq[p].got)
      BY <1>14 DEF PcOK, PublishMedia, At
    <2> QED
      BY <1>14, <2>1, GotoKeepsRow DEF PublishMedia, Labels
  <1>15. CASE PollReady(p)
    <2> DEFINE r == rq[p].row
               b == IF r.res.holds THEN "bound" ELSE "unbound"
               x == [r.res EXCEPT !.phase = "none", !.pending = b]
               n == [job EXCEPT !.st = "ready_to_persist", !.ready = "fresh", !.res = x]
               e == IF Kind = "mediakit" THEN {"generating", "cancelling"}
                    ELSE {"generating"}
    <2>0. b \in {"bound", "unbound"}
      OBVIOUS
    <2> HIDE DEF b
    <2>1. x \in ResultJson /\ x.pending # "none" /\ x.final = r.res.final
          /\ x.worker = r.res.worker /\ x.owner = r.res.owner
      <3>1. r.res \in ResultJson
        BY RowFields
      <3> QED
        BY ONLY <2>0, <3>1 DEF ResultJson
    <2> HIDE DEF x
    <2>2. n \in JobRow /\ n.st = "ready_to_persist" /\ n.ready = "fresh" /\ n.res = x
      BY <2>1, SetReady
    <2>3. up = "completed"
      BY <1>15 DEF PollReady, At, PcOK
    <2>4. job.st \in e => job.st \in Early /\ job.st \notin Terminal
      BY DEF Early, Terminal
    <2>5. job.st \in e => ~r.res.worker /\ ~r.res.final
      BY <2>4 DEF PastOf, RowOK, Early
    <2>6. job.st \in e => RowOK(n)
      BY <2>1, <2>2, <2>5 DEF RowOK, Early
    <2>7. Update(e, n) /\ Goto(p, "readyRead")
          /\ UNCHANGED <<media, inv, badge, up, sub, reply>>
      BY <1>15 DEF PollReady, b, x
    <2>8. PcOK("readyRead", r, rq[p].got)
      BY DEF PcOK
    <2> HIDE DEF n, e
    <2> QED
      BY <2>2, <2>3, <2>4, <2>6, <2>7, <2>8, GotoMovesRow DEF Labels
  <1> QED
    BY <1>1, <1>2, <1>3, <1>4, <1>5, <1>6, <1>7, <1>8, <1>9, <1>10, <1>11, <1>12, <1>13,
       <1>14, <1>15 DEF Poll

\* Every step of a server dispatch preserves it.
LEMMA DispatchStep == ASSUME IInv, NEW p \in Callers, Dispatch(p) PROVE IInv'
  <1> USE Parts, CallerRow DEF OtherTypes
  <1>1. CASE DispatchDeclined(p)
    BY <1>1, FinishKeepsRow DEF DispatchDeclined
  <1>2. CASE DispatchChecked(p)
    <2>1. /\ PcOK("healthCas", rq[p].row, rq[p].got)
          /\ PcOK("serverCas", rq[p].row, rq[p].got)
      BY <1>2 DEF DispatchChecked, At, PcOK
    <2> QED
      BY <1>2, <2>1, GotoKeepsRow DEF DispatchChecked, Labels
  <1>3. CASE StorageUnhealthy(p)
    <2>1. {"ready_to_persist", "uploading"} \in SUBSET Active
      BY DEF Active
    <2>2. PcOK("stopRead", rq[p].row, rq[p].got)
      BY DEF PcOK
    <2> QED
      BY <1>3, <2>1, <2>2, EndsRow, GotoMovesRow DEF StorageUnhealthy, Labels
  <1>4. CASE DispatchToWorkers(p)
    <2> DEFINE r == rq[p].row
               x == [r.res EXCEPT !.owner = "server", !.worker = FALSE]
               n == [job EXCEPT !.st = "uploading", !.res = x]
    <2>1. r.res \in ResultJson /\ job \in JobRow
      BY RowFields
    <2>2. r.st \in {"ready_to_persist", "uploading"}
      BY <1>4 DEF DispatchToWorkers, At, PcOK
    <2>3. r.res.pending # "none" /\ ~r.res.final
      BY <2>1, <2>2 DEF RowOK, Offered, ResultJson
    <2>4. /\ x \in ResultJson /\ x.pending = r.res.pending /\ x.final = r.res.final
          /\ x.owner = "server" /\ x.worker = FALSE
      BY ONLY <2>1 DEF ResultJson
    <2> HIDE DEF x
    <2>5. n \in JobRow /\ n.st = "uploading" /\ n.ready = job.ready /\ n.res = x
      BY ONLY <2>1, <2>4 DEF JobRow, Status, Active
    <2>6. job.st \in {"ready_to_persist", "uploading"}
             => RowOK(n) /\ job.st \notin Terminal /\ n.st \notin Early /\ up = "completed"
      BY <2>3, <2>4, <2>5 DEF RowOK, Early, Offered, Terminal, OfferedOK
    <2>7. PcOK("serverRead", r, rq[p].got)
      BY DEF PcOK
    <2>8. Update({"ready_to_persist", "uploading"}, n) /\ Goto(p, "serverRead")
          /\ UNCHANGED <<media, inv, badge, up, sub, reply>>
      BY <1>4 DEF DispatchToWorkers, x
    <2> HIDE DEF n
    <2> QED
      BY <2>5, <2>6, <2>7, <2>8, GotoMovesRow DEF Labels
  <1>5. CASE DispatchReturns(p)
    <2>1. PastOf(job, job)
      BY DEF PastOf
    <2> QED
      BY <1>5, <2>1, ResumeKeepsRow DEF DispatchReturns
  <1> QED
    BY <1>1, <1>2, <1>3, <1>4, <1>5 DEF Dispatch

\* Every step of a cancel, or of its completion by a poll, preserves it.
LEMMA CancelStep == ASSUME IInv, NEW p \in Callers, CancelSteps(p) PROVE IInv'
  <1> USE Parts, CallerRow DEF OtherTypes
  <1>1. CASE TaskDeleted(p)
    <2>1. job' = job /\ reply' = reply /\ sub' = sub /\ Goto(p, "finCas") /\ up = "queued"
          /\ up' = "deleted" /\ OtherTypes'
      BY <1>1 DEF TaskDeleted
    <2>2. Advance /\ OfferedOK' /\ sub' # "sending"
      BY <2>1 DEF Advance, OfferedOK
    <2>3. PcOK("finCas", rq[p].row, rq[p].got)
      BY DEF PcOK
    <2>4. rq' \in [Callers -> CallerState] /\ CallersOK'
      BY <2>1, <2>2, <2>3, GotoStep DEF Labels
    <2> QED
      BY <2>1, <2>2, <2>4, RepliesStay, Combine
  <1>2. CASE TaskNotDeleted(p)
    <2> DEFINE l == IF rq[p].op = "cancel" THEN "deferCas" ELSE "revertCas"
    <2>1. l \in Labels /\ PcOK(l, rq[p].row, rq[p].got)
      BY DEF Labels, PcOK
    <2>2. Goto(p, l) /\ UNCHANGED <<job, media, inv, badge, up, sub, reply>>
      BY <1>2 DEF TaskNotDeleted
    <2> HIDE DEF l
    <2> QED
      BY <2>1, <2>2, GotoKeepsRow
  <1>3. CASE FinalizeCancelled(p)
    <2>1. {"pending", "generating", "cancelling"} \in SUBSET Active
      BY DEF Active
    <2>2. PcOK("finRead", rq[p].row, rq[p].got)
      BY DEF PcOK
    <2> QED
      BY <1>3, <2>1, <2>2, EndsRow, GotoMovesRow DEF FinalizeCancelled, Labels
  <1>4. CASE FinalizeRead(p)
    <2>1. PcOK("finMark", job, rq[p].got)
      BY DEF PcOK
    <2> QED
      BY <1>4, <2>1, ReadKeepsRow DEF FinalizeRead, Labels
  <1>5. CASE FinalizeMark(p)
    <2>1. PcOK("finBadge", rq[p].row, rq[p].got)
      BY DEF PcOK
    <2> QED
      BY <1>5, <2>1, GotoKeepsRow DEF FinalizeMark, Labels, MarkFailed
  <1>6. CASE FinalizeBadge(p)
    <2> DEFINE l == IF rq[p].op = "cancel" THEN "finSync" ELSE "sync"
    <2>1. l \in Labels /\ PcOK(l, rq[p].row, rq[p].got)
      BY DEF Labels, PcOK
    <2>2. Goto(p, l) /\ UNCHANGED <<job, media, inv, up, sub, reply>> /\ badge' \in BOOLEAN
      BY <1>6 DEF FinalizeBadge, BadgeDone
    <2> HIDE DEF l
    <2> QED
      BY <2>1, <2>2, GotoKeepsRow
  <1>7. CASE FinalizeAnswer(p)
    <2> DEFINE r == IF rq[p].row.st = "cancelled" THEN rq[p].row ELSE job
    <2>1. r \in JobRow /\ PastOf(r, job)
      BY DEF PastOf
    <2>2. Answer(p, r, FALSE) /\ UNCHANGED <<job, media, badge, up, sub>>
          /\ inv' \in {"pending", "completed", "failed", "cancelled"}
      BY <1>7 DEF FinalizeAnswer, Synced
    <2> HIDE DEF r
    <2> QED
      BY <2>1, <2>2, AnswerKeepsRow
  <1>8. CASE DeferCancel(p)
    <2>1. /\ [job EXCEPT !.st = "cancelling"] \in JobRow
          /\ [job EXCEPT !.st = "cancelling"].st = "cancelling"
          /\ [job EXCEPT !.st = "cancelling"].ready = job.ready
          /\ [job EXCEPT !.st = "cancelling"].res = job.res
      BY SetStatus DEF Status, Active
    <2>2. job.st \in {"pending", "generating"}
             => /\ RowOK([job EXCEPT !.st = "cancelling"])
                /\ job.st \notin Terminal /\ job.st \in Early
      BY <2>1 DEF RowOK, Early, Offered, Terminal
    <2>3. PcOK("deferRead", rq[p].row, rq[p].got) /\ "cancelling" \notin Offered
      BY DEF PcOK, Offered
    <2> QED
      BY <1>8, <2>1, <2>2, <2>3, GotoMovesRow DEF DeferCancel, Labels
  <1>9. CASE DeferRead(p)
    <2>1. PcOK("deferBadge", job, rq[p].got)
      BY DEF PcOK
    <2> QED
      BY <1>9, <2>1, ReadKeepsRow DEF DeferRead, Labels
  <1>10. CASE DeferAnswer(p)
    <2>1. badge' \in BOOLEAN
      BY <1>10 DEF DeferAnswer, BadgeDone
    <2>2. Answer(p, rq[p].row, TRUE) /\ UNCHANGED <<job, media, inv, up, sub>>
      BY <1>10 DEF DeferAnswer
    <2> QED
      BY <2>1, <2>2, AnswerKeepsRow
  <1>11. CASE BadgeRead(p)
    <2>1. PICK l \in {"deferSave", "finSave", "revertSave"} : Goto(p, l)
      BY <1>11 DEF BadgeRead
    <2>2. UNCHANGED <<job, media, inv, badge, up, sub, reply>>
      BY <1>11 DEF BadgeRead
    <2>3. l \in Labels /\ PcOK(l, rq[p].row, rq[p].got)
      BY DEF Labels, PcOK
    <2> QED
      BY <2>1, <2>2, <2>3, GotoKeepsRow
  <1> QED
    BY <1>1, <1>2, <1>3, <1>4, <1>5, <1>6, <1>7, <1>8, <1>9, <1>10, <1>11 DEF CancelSteps

\* Every step of a claim, a completion or a worker's failure preserves it.
LEMMA PersistStep == ASSUME IInv, NEW p \in Callers, Persisting(p) PROVE IInv'
  <1> USE Parts, CallerRow DEF OtherTypes
  <1>1. CASE ClientClaimed(p)
    <2> DEFINE x == [rq[p].row.res EXCEPT !.owner = "client"]
               n == [job EXCEPT !.st = "uploading", !.res = x]
    <2>1. rq[p].row.res \in ResultJson /\ job \in JobRow
      BY RowFields
    <2>2. rq[p].row.st = "ready_to_persist"
      BY <1>1 DEF ClientClaimed, At, PcOK
    <2>3. /\ rq[p].row.res.pending # "none" /\ ~rq[p].row.res.final
          /\ ~rq[p].row.res.worker
      BY <2>1, <2>2 DEF RowOK, Offered, Terminal, ResultJson
    <2>4. /\ x \in ResultJson /\ x.pending = rq[p].row.res.pending
          /\ x.final = rq[p].row.res.final /\ x.worker = rq[p].row.res.worker
      BY ONLY <2>1 DEF ResultJson
    <2> HIDE DEF x
    <2>5. n \in JobRow /\ n.st = "uploading" /\ n.ready = job.ready /\ n.res = x
      BY ONLY <2>1, <2>4 DEF JobRow, Status, Active
    <2>6. job.st \in {"ready_to_persist"}
             => RowOK(n) /\ job.st \notin Terminal /\ n.st \notin Early /\ up = "completed"
      BY <2>3, <2>4, <2>5 DEF RowOK, Early, Offered, Terminal, OfferedOK
    <2>7. Update({"ready_to_persist"}, n) /\ Finish(p)
          /\ UNCHANGED <<media, inv, badge, up, sub, reply>>
      BY <1>1 DEF ClientClaimed, x
    <2> HIDE DEF n
    <2>8. job' \in JobRow /\ RowOK(job') /\ Advance /\ OfferedOK'
      BY <2>5, <2>6, <2>7, UpdateStep
    <2>9. rq' \in [Callers -> CallerState] /\ CallersOK'
      BY <2>7, <2>8, FinishStep
    <2> QED
      BY <2>7, <2>8, <2>9, RepliesStay, Combine
  <1>2. CASE ClientCompleted(p)
    <2> DEFINE x == [rq[p].row.res EXCEPT !.final = TRUE, !.owner = "client"]
               n == [job EXCEPT !.st = "succeeded", !.res = x]
               e == {"ready_to_persist", "uploading"}
    <2>1. rq[p].row.res \in ResultJson /\ job \in JobRow
      BY RowFields
    <2>2. rq[p].row.st \in {"ready_to_persist", "uploading"} /\ ~rq[p].row.res.worker
      BY <1>2 DEF ClientCompleted, At, PcOK
    <2>3. rq[p].row.res.pending # "none"
      BY <2>2 DEF RowOK, Offered
    <2>4. /\ x \in ResultJson /\ x.pending = rq[p].row.res.pending
          /\ x.final = TRUE /\ x.worker = rq[p].row.res.worker
      BY ONLY <2>1 DEF ResultJson
    <2> HIDE DEF x
    <2>5. n \in JobRow /\ n.st = "succeeded" /\ n.ready = job.ready /\ n.res = x
      BY ONLY <2>1, <2>4 DEF JobRow, Status, Terminal
    <2>6. job.st \in e
             => RowOK(n) /\ job.st \notin Terminal /\ n.st \notin Early /\ up = "completed"
      BY <2>2, <2>3, <2>4, <2>5 DEF RowOK, Early, Offered, Terminal, OfferedOK
    <2>7. Update(e, n) /\ Goto(p, "doneRead")
          /\ UNCHANGED <<media, inv, badge, up, sub, reply>>
      BY <1>2 DEF ClientCompleted, x
    <2>8. PcOK("doneRead", rq[p].row, rq[p].got)
      BY DEF PcOK
    <2> HIDE DEF n, e
    <2> QED
      BY <2>5, <2>6, <2>7, <2>8, GotoMovesRow DEF Labels
  <1>3. CASE CompletionRead(p)
    <2>1. PcOK("transition", job, rq[p].got)
      BY DEF PcOK
    <2> QED
      BY <1>3, <2>1, ReadKeepsRow DEF CompletionRead, Labels
  <1>4. CASE RegisterTransition(p)
    <2>1. PcOK("finalNode", rq[p].row, rq[p].got)
      BY DEF PcOK
    <2> QED
      BY <1>4, <2>1, GotoKeepsRow DEF RegisterTransition, Labels
  <1>5. CASE FinalizeNode(p)
    <2>1. PcOK("sync", rq[p].row, rq[p].got)
      BY DEF PcOK
    <2>2. badge' \in BOOLEAN
      BY <1>5 DEF FinalizeNode
    <2> QED
      BY <1>5, <2>1, <2>2, GotoKeepsRow DEF FinalizeNode, Labels
  <1>6. CASE WorkerCompleted(p)
    <2> DEFINE x == [rq[p].row.res EXCEPT !.final = TRUE, !.owner = "server"]
               n == [job EXCEPT !.st = "succeeded", !.res = x]
               e == {"uploading"}
    <2>1. rq[p].row.res \in ResultJson /\ job \in JobRow
      BY RowFields
    <2>2. rq[p].row.st = "uploading"
      BY <1>6 DEF WorkerCompleted, At, PcOK
    <2>3. rq[p].row.res.pending # "none"
      BY <2>2 DEF RowOK, Offered
    <2>4. /\ x \in ResultJson /\ x.pending = rq[p].row.res.pending
          /\ x.final = TRUE /\ x.owner = "server"
      BY ONLY <2>1 DEF ResultJson
    <2> HIDE DEF x
    <2>5. n \in JobRow /\ n.st = "succeeded" /\ n.ready = job.ready /\ n.res = x
      BY ONLY <2>1, <2>4 DEF JobRow, Status, Terminal
    <2>6. job.st \in e
             => RowOK(n) /\ job.st \notin Terminal /\ n.st \notin Early /\ up = "completed"
      BY <2>3, <2>4, <2>5 DEF RowOK, Early, Offered, Terminal, OfferedOK
    <2>7. Update(e, n) /\ Goto(p, "doneRead")
          /\ UNCHANGED <<media, inv, badge, up, sub, reply>>
      BY <1>6 DEF WorkerCompleted, x
    <2>8. PcOK("doneRead", rq[p].row, rq[p].got)
      BY DEF PcOK
    <2> HIDE DEF n, e
    <2> QED
      BY <2>5, <2>6, <2>7, <2>8, GotoMovesRow DEF Labels
  <1>7. CASE WorkerFailed(p)
    <2>1. {"uploading"} \in SUBSET Active
      BY DEF Active
    <2>2. PcOK("stopRead", rq[p].row, rq[p].got)
      BY DEF PcOK
    <2> QED
      BY <1>7, <2>1, <2>2, EndsRow, GotoMovesRow DEF WorkerFailed, Labels
  <1> QED
    BY <1>1, <1>2, <1>3, <1>4, <1>5, <1>6, <1>7 DEF Persisting

\* Starting a request preserves it.
LEMMA BeginStep == ASSUME IInv, NEW p \in Callers, Begin(p) PROVE IInv'
  <1> USE Parts DEF OtherTypes
  <1>1. CASE ServerPersist(p)
    <2>1. CASE PollNeeded(job) /\ Enter(p, "server", "poll")
      <3>1. PcOK("poll", job, "none")
        BY <2>1 DEF PollNeeded, PcOK
      <3> QED
        BY <1>1, <2>1, <3>1, EnterKeepsRow DEF ServerPersist, Ops, Labels
    <2>2. CASE /\ job.st = "ready_to_persist"
                  \/ (job.st = "uploading" /\ job.res.owner # "server")
               /\ Enter(p, "server", "dispatch")
      <3>1. PcOK("dispatch", job, "none")
        BY <2>2 DEF PcOK
      <3> QED
        BY <1>1, <2>2, <3>1, EnterKeepsRow DEF ServerPersist, Ops, Labels
    <2> QED
      BY <1>1, <2>1, <2>2 DEF ServerPersist
  <1>2. CASE Cancel(p)
    <2>1. CASE CancelBranch(job) = "refused"
      <3>1. PastOf(job, job)
        BY DEF PastOf
      <3> QED
        BY ZenonT(30), <1>2, <2>1, <3>1, AnswerKeepsRow DEF Cancel
    <2>2. CASE CancelBranch(job) # "refused"
      <3> DEFINE l == CancelBranch(job)
      <3>1. l \in {"finCas", "deferBadge", "delete", "deferCas"}
        BY <2>2 DEF CancelBranch
      <3>2. Enter(p, "cancel", l) /\ UNCHANGED <<job, media, inv, badge, up, sub>>
        BY <1>2, <2>2 DEF Cancel
      <3> HIDE DEF l
      <3>3. l \in Labels /\ PcOK(l, job, "none")
        BY <3>1 DEF Labels, PcOK
      <3> QED
        BY <3>2, <3>3, EnterKeepsRow DEF Ops
    <2> QED
      BY <2>1, <2>2
  <1>3. CASE ClientClaim(p)
    <2>1. PcOK("claimCas", job, "none")
      BY <1>3 DEF ClientClaim, PcOK
    <2> QED
      BY <1>3, <2>1, EnterKeepsRow DEF ClientClaim, Ops, Labels
  <1>4. CASE ClientComplete(p)
    <2>1. PcOK("completeCas", job, "none")
      BY <1>4 DEF ClientComplete, PcOK, RowOK, Terminal
    <2> QED
      BY <1>4, <2>1, EnterKeepsRow DEF ClientComplete, Ops, Labels
  <1>5. CASE WorkerComplete(p)
    <2>1. PcOK("workerCas", job, "none")
      BY <1>5 DEF WorkerComplete, WorkerHolds, PcOK
    <2> QED
      BY <1>5, <2>1, EnterKeepsRow DEF WorkerComplete, Ops, Labels
  <1>6. CASE WorkerFail(p)
    <2>1. PcOK("workerFailCas", job, "none")
      BY DEF PcOK
    <2> QED
      BY <1>6, <2>1, EnterKeepsRow DEF WorkerFail, Ops, Labels
  <1> QED
    BY <1>1, <1>2, <1>3, <1>4, <1>5, <1>6 DEF Begin

\* So does a step that changes nothing.
LEMMA StutterStep == ASSUME IInv, UNCHANGED vars PROVE IInv'
  BY DEF IInv, TypeOK, JobInvariant, vars

\* The invariant is inductive.
LEMMA NextStep == ASSUME IInv, [Next]_vars PROVE IInv'
  <1>1. ASSUME NEW p \in Callers, Refresh(p) \/ Steps(p) PROVE IInv'
    BY <1>1, RefreshStep, PollStep, DispatchStep, CancelStep, PersistStep DEF Steps
  <1>2. ASSUME NEW p \in Requests, Begin(p) PROVE IInv'
    BY <1>2, BeginStep DEF Callers
  <1> QED
    BY <1>1, <1>2, SubmitStep, WorldStep, StutterStep DEF Next

-----------------------------------------------------------------------------
(* What follows from the invariant.                                        *)

\* The fields of every row, request and answer stay in their types.
THEOREM TypeCorrect == Spec => []TypeOK
  <1>1. IInv => TypeOK
    BY DEF IInv
  <1> QED
    BY <1>1, InitInvariant, NextStep, PTL DEF Spec

\* Rows stay coherent and handlers' copies stay consistent with the row.
THEOREM InvariantHolds == Spec => []JobInvariant
  <1>1. IInv => JobInvariant
    BY DEF IInv
  <1> QED
    BY <1>1, InitInvariant, NextStep, PTL DEF Spec

\* A job that can be persisted never loses what is to be persisted, however
\* many requests write resultJson from copies of their own.
THEOREM MediaNeverLost == Spec => []PersistableHasMedia
  <1>1. IInv => PersistableHasMedia
    BY DEF IInv, JobInvariant, RowOK, Offered, PersistableHasMedia
  <1> QED
    BY <1>1, InitInvariant, NextStep, PTL DEF Spec

\* Final media and success are written together and never drift apart.
THEOREM FinalMediaExact == Spec => []FinalMediaIffSucceeded
  <1>1. IInv => FinalMediaIffSucceeded
    BY DEF IInv, JobInvariant, RowOK, FinalMediaIffSucceeded
  <1> QED
    BY <1>1, InitInvariant, NextStep, PTL DEF Spec

\* A worker's hold on a job survives no change of the upload's owner.
THEOREM WorkerHoldExact == Spec => []WorkerHoldsServerUpload
  <1>1. IInv => WorkerHoldsServerUpload
    BY DEF IInv, JobInvariant, RowOK, WorkerHoldsServerUpload
  <1> QED
    BY <1>1, InitInvariant, NextStep, PTL DEF Spec

\* No request un-cancels a job whose cancellation was confirmed.
THEOREM CancelledStands == Spec => []CancelledAnswerIsFinal
  <1>1. IInv => CancelledAnswerIsFinal
    BY DEF IInv, JobInvariant, CancelledAnswerIsFinal
  <1> QED
    BY <1>1, InitInvariant, NextStep, PTL DEF Spec

\* Deleting the provider's task keeps every poll, however late, from offering
\* the job for persisting.
THEOREM DeletedStaysUnoffered == Spec => []DeletedTaskNotPersisted
  <1>1. IInv => DeletedTaskNotPersisted
    BY DEF IInv, JobInvariant, Offered, DeletedTaskNotPersisted
  <1> QED
    BY <1>1, InitInvariant, NextStep, PTL DEF Spec

-----------------------------------------------------------------------------
(* The row implements the lifecycle: every conditional update is one of    *)
(* its steps, or changes nothing it sees.                                  *)

\* A step of the lifecycle, or a stutter.
LifecycleStep == [Lifecycle!Next]_Lifecycle!vars

\* A step that leaves the row alone is a stutter of the lifecycle.
LEMMA SameRowStutters == ASSUME job' = job PROVE LifecycleStep
  BY DEF LifecycleStep, Lifecycle!vars

\* Failing or cancelling an active row is a step of the lifecycle.
LEMMA EndingIsAStep ==
    ASSUME IInv, NEW e \in SUBSET Active, NEW s \in {"failed", "cancelled"},
           s = "failed" => "pending" \notin e /\ "ready_to_persist" \notin e,
           Update(e, [job EXCEPT !.st = s])
    PROVE  LifecycleStep
  <1>1. CASE job.st \in e
    <2>1. job'.st = s /\ job'.res = job.res
      BY <1>1, Parts, SetStatus DEF Update, Status, Terminal
    <2> QED
      BY <1>1, <2>1 DEF LifecycleStep, Lifecycle!Next, Lifecycle!Fail, Lifecycle!Cancel,
           Lifecycle!Generating, Lifecycle!Ended, Active
  <1>2. CASE job.st \notin e
    BY <1>2, SameRowStutters DEF Update
  <1> QED
    BY <1>1, <1>2

\* Every step of a poll maps to a lifecycle step or a stutter.
LEMMA PollImplements == ASSUME IInv, NEW p \in Callers, Poll(p) PROVE LifecycleStep
  <1> USE Parts, CallerRow
  <1>1. CASE PollFails(p)
    <2>1. ActiveStatuses(p) \in SUBSET {"generating", "cancelling"}
      BY <1>1 DEF ActiveStatuses, PollFails, At, PcOK
    <2>2. ActiveStatuses(p) \in SUBSET Active /\ "pending" \notin ActiveStatuses(p)
          /\ "ready_to_persist" \notin ActiveStatuses(p)
      BY <2>1 DEF Active
    <2> QED
      BY <1>1, <2>2, EndingIsAStep DEF PollFails
  <1>2. CASE PollStopped(p)
    <2>1. {rq[p].row.st} \in SUBSET Active
      BY <1>2 DEF PollStopped, At, PcOK, Active
    <2> QED
      BY <1>2, <2>1, EndingIsAStep DEF PollStopped
  <1>3. CASE PollPhase(p)
    <2> DEFINE r == rq[p].row
               x == [r.res EXCEPT !.phase = rq[p].got]
               n == [job EXCEPT !.st = r.st, !.res = x]
    <2>1. rq[p].got \in {"queued", "running"} /\ r.st \in {"generating", "cancelling"}
      BY <1>3 DEF PollPhase, At, PcOK
    <2>2. r.res \in ResultJson /\ r.st \in Status /\ job \in JobRow
      BY RowFields
    <2>3. x \in ResultJson /\ x.pending = r.res.pending /\ x.final = r.res.final
      BY ONLY <2>1, <2>2, SetPhase
    <2>4. job' = IF job.st \in {r.st} THEN n ELSE job
      BY <1>3 DEF PollPhase, Update
    <2> HIDE DEF x
    <2>5. n.st = r.st /\ n.res = x
      BY ONLY <2>2, <2>3 DEF JobRow
    <2> HIDE DEF n
    <2>6. CASE job.st = r.st
      <3>1. /\ job.res.pending = "none" /\ r.res.pending = "none"
            /\ ~job.res.final /\ ~r.res.final
        BY <2>1, <2>2, <2>6, RowFields, ResultFields DEF RowOK, Early
      <3>2. job.res.final = x.final
        BY <2>2, <2>3, <3>1, RowFields, ResultFields
      <3> QED
        BY <2>3, <2>4, <2>5, <2>6, <3>1, <3>2 DEF LifecycleStep, Lifecycle!vars
    <2>7. CASE job.st # r.st
      BY <2>4, <2>7, SameRowStutters
    <2> QED
      BY <2>6, <2>7
  <1>4. CASE RevertCancel(p)
    <2>1. CASE job.st \in {"cancelling"}
      <3>1. job'.st = "generating" /\ job'.res = job.res
        BY <1>4, <2>1, SetStatus DEF RevertCancel, Update, Status, Active
      <3> QED
        BY <2>1, <3>1 DEF LifecycleStep, Lifecycle!Next, Lifecycle!WithdrawCancel
    <2>2. CASE job.st \notin {"cancelling"}
      BY <1>4, <2>2, SameRowStutters DEF RevertCancel, Update
    <2> QED
      BY <2>1, <2>2
  <1>5. CASE PollReady(p)
    <2> DEFINE r == rq[p].row
               b == IF r.res.holds THEN "bound" ELSE "unbound"
               x == [r.res EXCEPT !.phase = "none", !.pending = b]
               n == [job EXCEPT !.st = "ready_to_persist", !.ready = "fresh", !.res = x]
               e == IF Kind = "mediakit" THEN {"generating", "cancelling"}
                    ELSE {"generating"}
    <2>0. b \in {"bound", "unbound"}
      OBVIOUS
    <2>1. r.res \in ResultJson /\ job \in JobRow
      BY RowFields
    <2> HIDE DEF b
    <2>2. x \in ResultJson /\ x.pending # "none" /\ x.final = r.res.final
      BY ONLY <2>0, <2>1 DEF ResultJson
    <2>3. job' = IF job.st \in e THEN n ELSE job
      BY <1>5 DEF PollReady, Update, b
    <2> HIDE DEF x
    <2>4. n.st = "ready_to_persist" /\ n.res = x
      BY <2>1, <2>2, SetReady
    <2> HIDE DEF n
    <2>5. CASE job.st \in e
      <3>1. job.st \in {"generating", "cancelling"}
        BY <2>5
      <3>2. ~r.res.final /\ ~job.res.final
        BY <3>1 DEF PastOf, RowOK, Early, Terminal
      <3>3. job.res.final = x.final
        BY <2>1, <2>2, <3>2, RowFields, ResultFields
      <3> QED
        BY <2>2, <2>3, <2>4, <2>5, <3>1, <3>3
        DEF LifecycleStep, Lifecycle!Next, Lifecycle!Offer, Lifecycle!Generating
    <2>6. CASE job.st \notin e
      BY <2>3, <2>6, SameRowStutters
    <2> QED
      BY <2>5, <2>6
  <1>6. CASE ~(PollFails(p) \/ PollStopped(p) \/ PollPhase(p) \/ RevertCancel(p)
               \/ PollReady(p))
    BY <1>6, SameRowStutters
    DEF Poll, PollInterfaceGone, PollAnswered, PollFailRead, PollFailMark, SyncInvocation,
        StopRead, PollReturns, RevertRead, RevertBadge, PublishMedia
  <1> QED
    BY <1>1, <1>2, <1>3, <1>4, <1>5, <1>6

\* Every step of the submission maps to a lifecycle step or a stutter.
LEMMA SubmitImplements == ASSUME IInv, Submit PROVE LifecycleStep
  <1> USE Parts
  <1>1. CASE SubmitRecord
    <2> DEFINE x == [EmptyResult EXCEPT !.holds = (Kind = "mediakit")]
               n == [job EXCEPT !.task = TRUE, !.res = x]
    <2>1. x \in ResultJson /\ x.pending = "none" /\ x.final = FALSE /\ job \in JobRow
      BY EmptyRows DEF EmptyResult, ResultJson
    <2>2. job' = IF job.st \in {"generating"} THEN n ELSE job
      BY <1>1 DEF SubmitRecord, Update
    <2> HIDE DEF x
    <2>3. n.st = job.st /\ n.res = x
      BY ONLY <2>1 DEF JobRow
    <2> HIDE DEF n
    <2>4. CASE job.st \in {"generating"}
      <3>1. job.res.pending = "none" /\ job.res.final = FALSE
        BY <2>4, RowFields, ResultFields DEF RowOK, Early
      <3> QED
        BY <2>1, <2>2, <2>3, <2>4, <3>1 DEF LifecycleStep, Lifecycle!vars
    <2>5. CASE job.st \notin {"generating"}
      BY <2>2, <2>5, SameRowStutters
    <2> QED
      BY <2>4, <2>5
  <1>2. CASE SubmitFail
    <2>1. {"generating"} \in SUBSET Active
      BY DEF Active
    <2> QED
      BY <1>2, <2>1, EndingIsAStep DEF SubmitFail
  <1>3. CASE ~(SubmitRecord \/ SubmitFail)
    BY <1>3, SameRowStutters
    DEF Submit, ProviderAccepts, ProviderRejects, SubmitReopen, SubmitMark, SubmitClose
  <1> QED
    BY <1>1, <1>2, <1>3

\* So does every step of the provider, the clock, a worker's claim, a restart.
LEMMA WorldImplements ==
    ASSUME IInv, Provider \/ ReadyAtExpires \/ WorkerClaim \/ Restart PROVE LifecycleStep
  <1> USE Parts
  <1>1. CASE ReadyAtExpires
    BY <1>1 DEF ReadyAtExpires, JobRow, LifecycleStep, Lifecycle!vars
  <1>2. CASE WorkerClaim
    <2>1. /\ job'.st = job.st /\ job'.res.pending = job.res.pending
          /\ job'.res.final = job.res.final
      BY <1>2 DEF WorkerClaim, JobRow, ResultJson
    <2> QED
      BY <2>1 DEF LifecycleStep, Lifecycle!vars
  <1>3. CASE Provider \/ Restart
    BY <1>3, SameRowStutters DEF Provider, Restart
  <1> QED
    BY <1>1, <1>2, <1>3

\* Every step of a server dispatch maps to a lifecycle step or a stutter.
LEMMA DispatchImplements == ASSUME IInv, NEW p \in Callers, Dispatch(p) PROVE LifecycleStep
  <1> USE Parts, CallerRow
  <1>1. CASE StorageUnhealthy(p)
    <2>1. {"ready_to_persist", "uploading"} \in SUBSET Active
      BY DEF Active
    <2> QED
      BY <1>1, <2>1, EndingIsAStep DEF StorageUnhealthy
  <1>2. CASE DispatchToWorkers(p)
    <2> DEFINE r == rq[p].row
               x == [r.res EXCEPT !.owner = "server", !.worker = FALSE]
               n == [job EXCEPT !.st = "uploading", !.res = x]
               e == {"ready_to_persist", "uploading"}
    <2>1. r.res \in ResultJson /\ job \in JobRow
      BY RowFields
    <2>2. r.st \in {"ready_to_persist", "uploading"}
      BY <1>2 DEF DispatchToWorkers, At, PcOK
    <2>3. r.res.pending # "none" /\ r.res.final = FALSE
      BY <2>1, <2>2, ResultFields DEF RowOK, Offered
    <2>4. x \in ResultJson /\ x.pending = r.res.pending /\ x.final = r.res.final
      BY ONLY <2>1 DEF ResultJson
    <2>5. job' = IF job.st \in e THEN n ELSE job
      BY <1>2 DEF DispatchToWorkers, Update
    <2> HIDE DEF x
    <2>6. n.st = "uploading" /\ n.res = x
      BY ONLY <2>1, <2>4 DEF JobRow
    <2> HIDE DEF n
    <2>7. CASE job.st \in e
      <3>1. job.res.pending # "none" /\ job.res.final = FALSE
        BY <2>1, <2>7, RowFields, ResultFields DEF RowOK, Offered
      <3> QED
        BY <2>3, <2>4, <2>5, <2>6, <2>7, <3>1
        DEF LifecycleStep, Lifecycle!Next, Lifecycle!Take, Lifecycle!vars
    <2>8. CASE job.st \notin e
      BY <2>5, <2>8, SameRowStutters
    <2> QED
      BY <2>7, <2>8
  <1>3. CASE ~(StorageUnhealthy(p) \/ DispatchToWorkers(p))
    BY <1>3, SameRowStutters DEF Dispatch, DispatchDeclined, DispatchChecked, DispatchReturns
  <1> QED
    BY <1>1, <1>2, <1>3

\* Every step of a cancel maps to a lifecycle step or a stutter.
LEMMA CancelImplements == ASSUME IInv, NEW p \in Callers, CancelSteps(p) PROVE LifecycleStep
  <1> USE Parts
  <1>1. CASE FinalizeCancelled(p)
    <2>1. {"pending", "generating", "cancelling"} \in SUBSET Active
      BY DEF Active
    <2> QED
      BY <1>1, <2>1, EndingIsAStep DEF FinalizeCancelled
  <1>2. CASE DeferCancel(p)
    <2>1. CASE job.st = "generating"
      <3>1. job'.st = "cancelling" /\ job'.res = job.res
        BY <1>2, <2>1, SetStatus DEF DeferCancel, Update, Status, Active
      <3> QED
        BY <2>1, <3>1 DEF LifecycleStep, Lifecycle!Next, Lifecycle!DeferCancel
    <2>2. CASE job.st # "generating"
      <3>1. job.st # "pending"
        BY DEF RowOK
      <3> QED
        BY <1>2, <2>2, <3>1, SameRowStutters DEF DeferCancel, Update
    <2> QED
      BY <2>1, <2>2
  <1>3. CASE ~(FinalizeCancelled(p) \/ DeferCancel(p))
    BY <1>3, SameRowStutters
    DEF CancelSteps, TaskDeleted, TaskNotDeleted, FinalizeRead, FinalizeMark, FinalizeBadge,
        FinalizeAnswer, DeferRead, DeferAnswer, BadgeRead
  <1> QED
    BY <1>1, <1>2, <1>3

\* Every step of a claim, a completion or a worker's failure does too.
LEMMA PersistImplements == ASSUME IInv, NEW p \in Callers, Persisting(p) PROVE LifecycleStep
  <1> USE Parts, CallerRow
  <1>1. CASE ClientClaimed(p)
    <2> DEFINE r == rq[p].row
               x == [r.res EXCEPT !.owner = "client"]
               n == [job EXCEPT !.st = "uploading", !.res = x]
    <2>1. r.res \in ResultJson /\ job \in JobRow
      BY RowFields
    <2>2. r.st = "ready_to_persist"
      BY <1>1 DEF ClientClaimed, At, PcOK
    <2>3. r.res.pending # "none" /\ r.res.final = FALSE
      BY <2>1, <2>2, ResultFields DEF RowOK, Offered
    <2>4. x \in ResultJson /\ x.pending = r.res.pending /\ x.final = r.res.final
      BY ONLY <2>1 DEF ResultJson
    <2>5. job' = IF job.st \in {"ready_to_persist"} THEN n ELSE job
      BY <1>1 DEF ClientClaimed, Update
    <2> HIDE DEF x
    <2>6. n.st = "uploading" /\ n.res = x
      BY ONLY <2>1, <2>4 DEF JobRow
    <2> HIDE DEF n
    <2>7. CASE job.st \in {"ready_to_persist"}
      <3>1. job.res.pending # "none" /\ job.res.final = FALSE
        BY <2>1, <2>7, RowFields, ResultFields DEF RowOK, Offered
      <3> QED
        BY <2>3, <2>4, <2>5, <2>6, <2>7, <3>1
        DEF LifecycleStep, Lifecycle!Next, Lifecycle!Take
    <2>8. CASE job.st \notin {"ready_to_persist"}
      BY <2>5, <2>8, SameRowStutters
    <2> QED
      BY <2>7, <2>8
  <1>2. CASE ClientCompleted(p) \/ WorkerCompleted(p)
    <2>1. PICK o \in {"client", "server"}, e \in SUBSET {"ready_to_persist", "uploading"} :
             Update(e, [job EXCEPT !.st = "succeeded",
                                   !.res = [rq[p].row.res EXCEPT !.final = TRUE,
                                                                 !.owner = o]])
      BY <1>2 DEF ClientCompleted, WorkerCompleted
    <2> DEFINE r == rq[p].row
               x == [r.res EXCEPT !.final = TRUE, !.owner = o]
               n == [job EXCEPT !.st = "succeeded", !.res = x]
    <2>2. r.res \in ResultJson /\ job \in JobRow
      BY RowFields
    <2>3. r.st \in {"ready_to_persist", "uploading"}
      BY <1>2 DEF ClientCompleted, WorkerCompleted, At, PcOK
    <2>4. r.res.pending # "none"
      BY <2>3 DEF RowOK, Offered
    <2>5. x \in ResultJson /\ x.pending = r.res.pending /\ x.final = TRUE
      BY ONLY <2>2, o \in {"client", "server"} DEF ResultJson
    <2>6. job' = IF job.st \in e THEN n ELSE job
      BY <2>1 DEF Update
    <2> HIDE DEF x
    <2>7. n.st = "succeeded" /\ n.res = x
      BY ONLY <2>2, <2>5 DEF JobRow
    <2> HIDE DEF n
    <2>8. CASE job.st \in e
      <3>1. job.st \in {"ready_to_persist", "uploading"}
        BY <2>8
      <3>2. job.res.pending # "none"
        BY <3>1 DEF RowOK, Offered
      <3> QED
        BY <2>4, <2>5, <2>6, <2>7, <2>8, <3>1, <3>2
        DEF LifecycleStep, Lifecycle!Next, Lifecycle!Succeed
    <2>9. CASE job.st \notin e
      BY <2>6, <2>9, SameRowStutters
    <2> QED
      BY <2>8, <2>9
  <1>3. CASE WorkerFailed(p)
    <2>1. {"uploading"} \in SUBSET Active
      BY DEF Active
    <2> QED
      BY <1>3, <2>1, EndingIsAStep DEF WorkerFailed
  <1>4. CASE ~(ClientClaimed(p) \/ ClientCompleted(p) \/ WorkerCompleted(p)
               \/ WorkerFailed(p))
    BY <1>4, SameRowStutters
    DEF Persisting, CompletionRead, RegisterTransition, FinalizeNode
  <1> QED
    BY <1>1, <1>2, <1>3, <1>4

\* Starting a request does not touch the row.
LEMMA RestStutters ==
    ASSUME NEW p \in Callers, Refresh(p) \/ EnsureMarked(p) \/ Begin(p) PROVE LifecycleStep
  BY SameRowStutters
  DEF Refresh, RefreshPoll, RefreshExpired, RefreshFailed, EnsureMarked, Begin,
      ServerPersist, Cancel, ClientClaim, ClientComplete, WorkerComplete, WorkerFail

\* Every step of a caller follows the lifecycle.
LEMMA CallerFollowsLifecycle ==
    ASSUME IInv, NEW p \in Callers, Refresh(p) \/ Steps(p) \/ Begin(p) PROVE LifecycleStep
  BY RestStutters, PollImplements, DispatchImplements, CancelImplements, PersistImplements
  DEF Steps

\* So does every step.
LEMMA NextFollowsLifecycle == ASSUME IInv, [Next]_vars PROVE LifecycleStep
  <1>1. CASE UNCHANGED vars
    BY <1>1, SameRowStutters DEF vars
  <1> QED
    BY <1>1, CallerFollowsLifecycle, SubmitImplements, WorldImplements DEF Next, Callers

\* Whatever requests, polls, workers and restarts overlap, the row is offered,
\* taken and ended as JobLifecycle says: it ends once and keeps what it offers.
THEOREM RowFollowsLifecycle == Spec => ImplementsLifecycle
  <1>1. Init => Lifecycle!Init
    BY DEF Init, Lifecycle!Init, NewJob, EmptyResult
  <1>2. IInv /\ [Next]_vars => [Lifecycle!Next]_Lifecycle!vars
    BY NextFollowsLifecycle DEF LifecycleStep
  <1> QED
    BY <1>1, <1>2, InitInvariant, NextStep, PTL DEF Spec, ImplementsLifecycle, Lifecycle!Spec

\* A job ends once, and never goes back to an earlier stage.
LEMMA EndsOnce ==
    ASSUME IInv, LifecycleStep
    PROVE  /\ job.st \in Terminal => job'.st = job.st
           /\ job.st \notin Early => job'.st \notin Early
  BY Parts
  DEF LifecycleStep, Lifecycle!Next, Lifecycle!vars, Lifecycle!DeferCancel,
      Lifecycle!WithdrawCancel, Lifecycle!Offer, Lifecycle!Take, Lifecycle!Succeed,
      Lifecycle!Fail, Lifecycle!Cancel, Lifecycle!Generating, Lifecycle!Ended, Terminal,
      Early, RowOK
=============================================================================
