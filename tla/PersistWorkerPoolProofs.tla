---------------------- MODULE PersistWorkerPoolProofs ----------------------
(***************************************************************************)
(* Proofs about PersistWorkerPool: whatever dies, is lost, dispatched      *)
(* again or taken over, the count of a worker stays within its limits.     *)
(* The type invariant is inductive as it stands.  Then every job held has  *)
(* a place in the count, if no connection is lost and no upload outlasts   *)
(* its claim; and, without any condition, two workers upload one job only  *)
(* where it was put up for claiming under the first, and a count drifts    *)
(* only for a worker that something befell.  Each proof has one lemma for  *)
(* each actor and one step for each action.                                *)
(***************************************************************************)
EXTENDS PersistWorkerPool, TLAPS, FiniteSetTheorems

\* Giving back a place keeps a count within its limits.
LEMMA LessFits == ASSUME NEW n \in 0..Max PROVE Less(n) \in 0..Max
  BY MaxAssumption DEF Less

\* The state is typed at the start.
LEMMA InitTyped == Init => TypeOK
  <1> SUFFICES ASSUME Init PROVE TypeOK
    OBVIOUS
  <1> USE DEF Init
  <1>1. job \in [Jobs -> JobRow]
    BY DEF JobRow
  <1>2. count \in [Workers -> 0..Max]
    BY MaxAssumption
  <1>3. wk \in [Workers -> Process] /\ call \in [Calls -> Call]
    BY DEF Process, Resting, Call, Free
  <1>4. faults \in 0..MaxFaults
    BY FaultAssumption
  <1> QED
    BY <1>1, <1>2, <1>3, <1>4 DEF TypeOK

\* A fault is counted up to its bound.
LEMMA FaultTyped == ASSUME TypeOK, NEW kind, Fault(kind) PROVE faults' \in 0..MaxFaults
  BY FaultAssumption DEF TypeOK, Fault

\* What is befallen are jobs and workers.
LEMMA LoosenedTyped == ASSUME TypeOK, NEW j \in Jobs, Loosened(j) PROVE loose' \subseteq Jobs
  BY DEF TypeOK, Loosened

LEMMA StrikesTyped == ASSUME TypeOK, NEW W, Strikes(W) PROVE hit' \subseteq Workers
  BY DEF TypeOK, Strikes

\* A call that moves on, or returns, leaves processes and calls typed.
LEMMA ThenTyped ==
    ASSUME TypeOK, NEW c \in Calls,
           NEW pc \in {"pick", "undo", "completeCas", "completeDone", "failCas", "failDone"},
           Then(c, pc)
    PROVE  call' \in [Calls -> Call]
  BY DEF TypeOK, Then, Call

LEMMA ReturnTyped ==
    ASSUME TypeOK, NEW c \in Calls, NEW at \in {"idle", "working", "broken"},
           NEW j \in Jobs \cup {None}, Return(c, at, j)
    PROVE  call' \in [Calls -> Call] /\ wk' \in [Workers -> Process]
  <1>1. call' \in [Calls -> Call]
    BY DEF TypeOK, Return, Free, Call
  <1>2. [at |-> at, job |-> j] \in Process
    BY DEF Process
  <1>3. wk' \in [Workers -> Process]
    BY <1>2 DEF TypeOK, Return
  <1> QED
    BY <1>1, <1>3

LEMMA StartTyped ==
    ASSUME TypeOK, NEW w \in Workers, NEW at \in {"claiming", "completing", "failing"},
           NEW pc \in {"increment", "completeRead", "failRead"}, Start(w, at, pc)
    PROVE  call' \in [Calls -> Call] /\ wk' \in [Workers -> Process]
  <1>1. PICK c \in Calls :
          /\ call' = [call EXCEPT ![c] = [pc |-> pc, worker |-> w, job |-> wk[w].job,
                                          waits |-> TRUE]]
          /\ wk' = [wk EXCEPT ![w].at = at]
    BY DEF Start
  <1>2. wk[w] \in Process /\ wk[w].job \in Jobs \cup {None}
    BY DEF TypeOK, Process
  <1>3. [pc |-> pc, worker |-> w, job |-> wk[w].job, waits |-> TRUE] \in Call
    BY <1>2 DEF Call
  <1> QED
    BY <1>1, <1>3 DEF TypeOK, Process

-----------------------------------------------------------------------------
(* One lemma for each actor.                                               *)

\* What happens to a job's row keeps the state typed.
LEMMA JobTyped == ASSUME TypeOK, NEW j \in Jobs, Job(j) PROVE TypeOK'
  <1>1. job' \in [Jobs -> JobRow]
    <2>1. CASE Dispatch(j) \/ EndedByOthers(j)
      BY <2>1 DEF TypeOK, Dispatch, EndedByOthers, JobRow
    <2>2. CASE DispatchAgain(j)
      <3>1. [job[j] EXCEPT !.holder = None, !.stale = FALSE] \in JobRow
        BY DEF TypeOK, JobRow
      <3>2. job' = [job EXCEPT ![j] = [job[j] EXCEPT !.holder = None, !.stale = FALSE]]
        BY <2>2 DEF TypeOK, DispatchAgain
      <3> QED BY <3>1, <3>2 DEF TypeOK
    <2>3. CASE Age(j)
      BY <2>3 DEF TypeOK, Age, JobRow
    <2> QED
      BY <2>1, <2>2, <2>3 DEF Job
  <1>2. UNCHANGED <<count, wk, call>> /\ faults' \in 0..MaxFaults
    <2>1. CASE Dispatch(j) \/ EndedByOthers(j)
      BY <2>1 DEF Dispatch, EndedByOthers, TypeOK
    <2>2. CASE DispatchAgain(j) \/ Age(j)
      BY <2>2, FaultTyped DEF DispatchAgain, Age, TypeOK
    <2> QED BY <2>1, <2>2 DEF Job
  <1>3. loose' \subseteq Jobs /\ hit' \subseteq Workers
    BY LoosenedTyped, StrikesTyped DEF Job, Dispatch, DispatchAgain, EndedByOthers, Age, TypeOK
  <1> QED
    BY <1>1, <1>2, <1>3 DEF TypeOK

\* What a worker does keeps the state typed.
LEMMA WorkerTyped ==
    ASSUME TypeOK, NEW w \in Workers, ClaimCall(w) \/ Work(w) \/ Crash(w)
    PROVE  TypeOK'
  <1>1. CASE ClaimCall(w) \/ CompleteCall(w) \/ FailCall(w)
    <2>1. call' \in [Calls -> Call] /\ wk' \in [Workers -> Process]
      BY <1>1, StartTyped DEF ClaimCall, CompleteCall, FailCall
    <2>2. UNCHANGED <<job, count, faults, loose, hit>>
      BY <1>1 DEF ClaimCall, CompleteCall, FailCall
    <2> QED
      BY <2>1, <2>2 DEF TypeOK
  <1>2. CASE UploadFails(w)
    <2>1. wk' \in [Workers -> Process]
      BY <1>2 DEF TypeOK, UploadFails, Process
    <2> QED
      BY <1>2, <2>1 DEF TypeOK, UploadFails
  <1>3. CASE Crash(w)
    <2>1. wk' \in [Workers -> Process]
      BY <1>3 DEF TypeOK, Crash, Process, Resting
    <2>2. call' \in [Calls -> Call]
      <3>1. \A c \in Calls : [call[c] EXCEPT !.waits = FALSE] \in Call
        BY DEF TypeOK, Call
      <3> QED BY <1>3, <3>1 DEF TypeOK, Crash
    <2>3. faults' \in 0..MaxFaults
      BY <1>3, FaultTyped DEF Crash
    <2>4. hit' \subseteq Workers
      BY <1>3, StrikesTyped DEF Crash
    <2> QED
      BY <1>3, <2>1, <2>2, <2>3, <2>4 DEF TypeOK, Crash
  <1> QED
    BY <1>1, <1>2, <1>3 DEF Work

\* What a claim does keeps the state typed: this is where the limit is used.
LEMMA ClaimTyped == ASSUME TypeOK, NEW c \in Calls, Claim(c) PROVE TypeOK'
  <1>1. CASE Increment(c)
    <2> DEFINE w == call[c].worker
    <2>1. CASE count[w] < Max
      <3>1. count' = [count EXCEPT ![w] = @ + 1] /\ Then(c, "pick")
            /\ UNCHANGED <<wk, job, faults, loose, hit>>
        BY <1>1, <2>1 DEF Increment
      <3>2. ASSUME w \in Workers PROVE count[w] + 1 \in 0..Max
        BY <2>1, <3>2, MaxAssumption DEF TypeOK
      <3>3. count' \in [Workers -> 0..Max]
        BY <3>1, <3>2 DEF TypeOK
      <3> QED
        BY <3>1, <3>3, ThenTyped DEF TypeOK
    <2>2. CASE ~(count[w] < Max)
      <3>1. Return(c, "idle", None) /\ UNCHANGED <<count, job, faults, loose, hit>>
        BY <1>1, <2>2 DEF Increment
      <3> QED
        BY <3>1, ReturnTyped DEF TypeOK
    <2> QED
      BY <2>1, <2>2
  <1>2. CASE Pick(c)
    <2>1. CASE Claimable = {}
      <3>1. Then(c, "undo") /\ UNCHANGED <<job, count, wk, faults, loose, hit>>
        BY <1>2, <2>1 DEF Pick
      <3> QED
        BY <3>1, ThenTyped DEF TypeOK
    <2>2. CASE Claimable # {}
      <3>1. PICK j \in Claimable :
              /\ count' = [w \in Workers |-> IF w = job[j].holder /\ w # call[c].worker
                                             THEN Less(count[w]) ELSE count[w]]
              /\ job' = [job EXCEPT ![j].holder = call[c].worker, ![j].stale = FALSE]
              /\ Return(c, "working", j)
        BY <1>2, <2>2 DEF Pick
      <3>2. j \in Jobs
        BY DEF Claimable
      <3>3. count' \in [Workers -> 0..Max]
        BY <3>1, LessFits DEF TypeOK
      <3>4. job' \in [Jobs -> JobRow]
        <4> DEFINE h == call[c].worker
        <4>1. h \in Workers \cup {None} /\ job \in [Jobs -> JobRow]
          BY DEF TypeOK, Call
        <4>2. job' = [job EXCEPT ![j].holder = h, ![j].stale = FALSE]
          BY <3>1
        <4> HIDE DEF h
        <4> QED
          BY <3>2, <4>1, <4>2 DEF JobRow
      <3>5. call' \in [Calls -> Call] /\ wk' \in [Workers -> Process]
        BY <3>1, <3>2, ReturnTyped
      <3>6. UNCHANGED <<faults, loose, hit>>
        BY <1>2 DEF Pick
      <3> QED
        BY <3>3, <3>4, <3>5, <3>6 DEF TypeOK
    <2> QED
      BY <2>1, <2>2
  <1>3. CASE PickThrows(c)
    <2>1. call' \in [Calls -> Call] /\ faults' \in 0..MaxFaults
      BY <1>3, ThenTyped, FaultTyped DEF PickThrows
    <2> QED
      BY <1>3, <2>1 DEF TypeOK, PickThrows
  <1>4. CASE Undo(c)
    <2>1. count' \in [Workers -> 0..Max]
      BY <1>4, LessFits DEF TypeOK, Undo
    <2> QED
      BY <1>4, <2>1, ReturnTyped DEF TypeOK, Undo
  <1>5. CASE UndoThrows(c)
    <2>1. faults' \in 0..MaxFaults
      BY <1>5, FaultTyped DEF UndoThrows
    <2>2. call' \in [Calls -> Call] /\ wk' \in [Workers -> Process]
      BY <1>5, ReturnTyped DEF UndoThrows
    <2>3. hit' \subseteq Workers
      BY <1>5, StrikesTyped DEF UndoThrows
    <2> QED
      BY <1>5, <2>1, <2>2, <2>3 DEF TypeOK, UndoThrows
  <1> QED
    BY <1>1, <1>2, <1>3, <1>4, <1>5 DEF Claim

\* What a completion or a failure does keeps the state typed.
LEMMA EndTyped == ASSUME TypeOK, NEW c \in Calls, End(c) PROVE TypeOK'
  <1>1. CASE CompleteRead(c)
    BY <1>1, ThenTyped DEF TypeOK, CompleteRead
  <1>2. CASE CompleteRefused(c)
    <2>1. call[c].job \in Jobs \cup {None}
      BY DEF TypeOK, Call
    <2> QED
      BY <1>2, <2>1, ReturnTyped DEF TypeOK, CompleteRefused
  <1>3. CASE CompleteCas(c) \/ FailCas(c)
    <2>1. call' \in [Calls -> Call] /\ UNCHANGED <<count, wk, faults, loose>>
      BY <1>3, ThenTyped DEF CompleteCas, FailCas
    <2>3. hit' \subseteq Workers
      BY <1>3, StrikesTyped DEF CompleteCas, FailCas
    <2>2. job' \in [Jobs -> JobRow]
      BY <1>3 DEF TypeOK, CompleteCas, FailCas, JobRow, Call
    <2> QED
      BY <2>1, <2>2, <2>3 DEF TypeOK
  <1>4. CASE CompleteDone(c) \/ FailDone(c)
    <2>1. count' \in [Workers -> 0..Max]
      BY <1>4, LessFits DEF TypeOK, CompleteDone, FailDone
    <2>2. call' \in [Calls -> Call] /\ wk' \in [Workers -> Process]
      BY <1>4, ReturnTyped DEF CompleteDone, FailDone
    <2> QED
      BY <1>4, <2>1, <2>2 DEF TypeOK, CompleteDone, FailDone
  <1>5. CASE FailRead(c)
    <2>1. CASE Holds(c)
      BY <1>5, <2>1, ThenTyped DEF TypeOK, FailRead
    <2>2. CASE ~Holds(c)
      BY <1>5, <2>2, ReturnTyped DEF TypeOK, FailRead
    <2> QED
      BY <2>1, <2>2
  <1>6. CASE EndThrows(c)
    <2>1. call[c].job \in Jobs \cup {None}
      BY DEF TypeOK, Call
    <2>2. call' \in [Calls -> Call] /\ wk' \in [Workers -> Process]
      BY <1>6, <2>1, ReturnTyped DEF EndThrows
    <2>3. faults' \in 0..MaxFaults
      BY <1>6, FaultTyped DEF EndThrows
    <2>4. hit' \subseteq Workers
      BY <1>6, StrikesTyped DEF EndThrows
    <2> QED
      BY <1>6, <2>2, <2>3, <2>4 DEF TypeOK, EndThrows
  <1> QED
    BY <1>1, <1>2, <1>3, <1>4, <1>5, <1>6 DEF End

\* A lost connection keeps the state typed.
LEMMA ConnectionLostTyped ==
    ASSUME TypeOK, NEW c \in Calls, ConnectionLost(c) PROVE TypeOK'
  <1> PICK w : w = call[c].worker
    OBVIOUS
  <1>1. wk' \in [Workers -> Process]
    <2>1. CASE wk[w].at = "completing"
      <3>1. wk' = [wk EXCEPT ![w].at = "broken"]
        BY <2>1 DEF ConnectionLost
      <3> QED BY <3>1 DEF TypeOK, Process
    <2>2. CASE wk[w].at # "completing"
      <3>1. wk' = [wk EXCEPT ![w] = Resting]
        BY <2>2 DEF ConnectionLost
      <3> QED BY <3>1 DEF TypeOK, Process, Resting
    <2> QED BY <2>1, <2>2
  <1>2. call' \in [Calls -> Call]
    <2>1. [call[c] EXCEPT !.waits = FALSE] \in Call
      BY DEF TypeOK, Call
    <2>2. call' = [call EXCEPT ![c] = [call[c] EXCEPT !.waits = FALSE]]
      BY DEF TypeOK, ConnectionLost
    <2> QED BY <2>1, <2>2 DEF TypeOK
  <1>3. faults' \in 0..MaxFaults
    BY FaultTyped DEF ConnectionLost
  <1>4. hit' \subseteq Workers
    BY StrikesTyped DEF ConnectionLost
  <1> QED
    BY <1>1, <1>2, <1>3, <1>4 DEF TypeOK, ConnectionLost

-----------------------------------------------------------------------------
\* Whatever dies, is lost, dispatched again or taken over, activeJobCount stays
\* between 0 and maxConcurrentJobs, and the rest of the state keeps its type.
THEOREM PoolTyped == Spec => []TypeOK
  <1>1. TypeOK /\ [Next]_vars => TypeOK'
    <2> SUFFICES ASSUME TypeOK, [Next]_vars PROVE TypeOK'
      OBVIOUS
    <2>1. CASE \E j \in Jobs : Job(j)
      BY <2>1, JobTyped
    <2>2. CASE \E w \in Workers : ClaimCall(w) \/ Work(w) \/ Crash(w)
      BY <2>2, WorkerTyped
    <2>3. CASE \E c \in Calls : Route(c) \/ ConnectionLost(c)
      BY <2>3, ClaimTyped, EndTyped, ConnectionLostTyped DEF Route
    <2>4. CASE UNCHANGED vars
      BY <2>4 DEF TypeOK, vars
    <2> QED
      BY <2>1, <2>2, <2>3, <2>4 DEF Next
  <1> QED
    BY InitTyped, <1>1, PTL DEF Spec

-----------------------------------------------------------------------------
(* How calls, workers and rows belong together: the part of the inductive   *)
(* invariant that all three counting theorems rest on.                      *)

InClaim == {"increment", "pick", "undo"}
InComplete == {"completeRead", "completeCas", "completeDone"}
InFail == {"failRead", "failCas", "failDone"}
AfterUpdate == {"completeDone", "failDone"}

\* The worker that waits for call c is at the call and has the same job at hand.
Awaits(c) ==
    LET p == wk[call[c].worker] IN
    /\ p.job = call[c].job
    /\ \/ call[c].pc \in InClaim /\ p.at = "claiming"
       \/ call[c].pc \in InComplete /\ p.at = "completing"
       \/ call[c].pc \in InFail /\ p.at = "failing"

\* A call belongs to a worker, ends what was dispatched, and leaves it ended.
CallMatches(c) ==
    /\ call[c].pc = "free" <=> call[c].worker = None
    /\ call[c].pc \in InComplete \cup InFail <=> call[c].job # None
    /\ call[c].waits => call[c].pc # "free" /\ Awaits(c)
    /\ call[c].job # None => job[call[c].job].st # "waiting"
    /\ call[c].pc \in AfterUpdate => job[call[c].job].st # "uploading"

\* A worker waits for one call.
OneAwaited ==
    \A c, d \in Calls :
        call[c].waits /\ call[d].waits /\ call[c].worker = call[d].worker => c = d

\* A worker has a job exactly between a claim and its end, and waits for a call
\* exactly when it has made one.
WorkerMatches(w) ==
    /\ wk[w].at \in {"idle", "claiming"} <=> wk[w].job = None
    /\ wk[w].job # None => job[wk[w].job].st # "waiting"
    /\ wk[w].at \in {"claiming", "completing", "failing"}
         => \E c \in Calls : call[c].waits /\ call[c].worker = w

\* A job that is not dispatched has no holder and no claim to grow old.
RowMatches(j) == job[j].st = "waiting" => job[j].holder = None /\ ~job[j].stale

Matching ==
    /\ \A c \in Calls : CallMatches(c)
    /\ OneAwaited
    /\ \A w \in Workers : WorkerMatches(w)
    /\ \A j \in Jobs : RowMatches(j)

-----------------------------------------------------------------------------
\* What a return does to the calls and the workers.
LEMMA ReturnEffect ==
    ASSUME TypeOK, NEW c \in Calls, NEW at, NEW j, Return(c, at, j)
    PROVE  /\ call'[c] = Free
           /\ \A d \in Calls : d # c => call'[d] = call[d]
           /\ call[c].waits /\ call[c].worker \in Workers
                => wk'[call[c].worker] = [at |-> at, job |-> j]
           /\ \A w \in Workers : ~(call[c].waits /\ w = call[c].worker) => wk'[w] = wk[w]
  BY DEF TypeOK, Return

\* Nothing is at hand in the beginning.
LEMMA MatchingAtStart == Init => Matching
  BY NoneAssumption DEF Init, Matching, CallMatches, OneAwaited, WorkerMatches, RowMatches, Free, Resting,
     InClaim, InComplete, InFail, AfterUpdate

\* Rows that are dispatched, ended by others or grow old stay matched.
LEMMA JobMatching == ASSUME TypeOK, Matching, NEW j \in Jobs, Job(j) PROVE Matching'
  <1> USE NoneAssumption DEF TypeOK, JobRow, Process, Call, Matching, CallMatches, WorkerMatches,
      RowMatches, OneAwaited, Awaits, AfterUpdate, InClaim, InComplete, InFail
  <1>1. CASE Dispatch(j)
    BY <1>1 DEF Dispatch
  <1>2. CASE DispatchAgain(j)
    BY <1>2 DEF DispatchAgain
  <1>3. CASE EndedByOthers(j)
    BY <1>3 DEF EndedByOthers
  <1>4. CASE Age(j)
    BY <1>4 DEF Age
  <1> QED
    BY <1>1, <1>2, <1>3, <1>4 DEF Job

\* A worker that makes a call waits for it.
LEMMA StartMatching ==
    ASSUME TypeOK, Matching, NEW w \in Workers, UNCHANGED job,
           \/ wk[w].at = "idle" /\ Start(w, "claiming", "increment")
           \/ wk[w].at = "working" /\ Start(w, "completing", "completeRead")
           \/ wk[w].at = "broken" /\ Start(w, "failing", "failRead")
    PROVE  Matching'
  <1> PICK c \in Calls, at \in {"claiming", "completing", "failing"},
          pc \in {"increment", "completeRead", "failRead"} :
          /\ \/ wk[w].at = "idle" /\ at = "claiming" /\ pc = "increment"
             \/ wk[w].at = "working" /\ at = "completing" /\ pc = "completeRead"
             \/ wk[w].at = "broken" /\ at = "failing" /\ pc = "failRead"
          /\ call[c].pc = "free"
          /\ call' = [call EXCEPT ![c] = [pc |-> pc, worker |-> w, job |-> wk[w].job,
                                          waits |-> TRUE]]
          /\ wk' = [wk EXCEPT ![w].at = at]
    BY DEF Start, Serve
  <1> USE NoneAssumption DEF TypeOK, JobRow, Process, Call, Matching, CallMatches, WorkerMatches,
      RowMatches, OneAwaited, Awaits, AfterUpdate, InClaim, InComplete, InFail
  <1>1. \A d \in Calls : ~(call[d].waits /\ call[d].worker = w)
    OBVIOUS
  <1>2. (\A d \in Calls : CallMatches(d))'
    BY <1>1
  <1>3. OneAwaited'
    BY <1>1
  <1>4. (\A v \in Workers : WorkerMatches(v))'
    BY <1>1
  <1>5. (\A j \in Jobs : RowMatches(j))'
    BY <1>1
  <1> QED BY <1>2, <1>3, <1>4, <1>5

\* What a worker does, its crash included, keeps calls, workers and rows matched.
LEMMA WorkerMatching ==
    ASSUME TypeOK, Matching, NEW w \in Workers, ClaimCall(w) \/ Work(w) \/ Crash(w)
    PROVE  Matching'
  <1>1. CASE ClaimCall(w) \/ CompleteCall(w) \/ FailCall(w)
    BY <1>1, StartMatching DEF ClaimCall, CompleteCall, FailCall
  <1> USE NoneAssumption DEF TypeOK, JobRow, Process, Call, Matching, CallMatches, WorkerMatches,
      RowMatches, OneAwaited, Awaits, AfterUpdate, InClaim, InComplete, InFail
  <1>2. CASE UploadFails(w)
    BY <1>2 DEF UploadFails
  <1>3. CASE Crash(w)
    BY <1>3 DEF Crash, Resting
  <1> QED BY <1>1, <1>2, <1>3 DEF Work

\* A call that moves on without touching a row stays matched.
LEMMA ThenMatching ==
    ASSUME TypeOK, Matching, NEW c \in Calls, NEW pc, Then(c, pc),
           \/ call[c].pc \in InClaim /\ pc \in InClaim
           \/ call[c].pc \in InComplete /\ pc \in InComplete \ AfterUpdate
           \/ call[c].pc \in InFail /\ pc \in InFail \ AfterUpdate,
           UNCHANGED <<wk, job>>
    PROVE Matching'
  <1> USE NoneAssumption DEF TypeOK, JobRow, Process, Call, Matching, CallMatches, WorkerMatches,
      RowMatches, OneAwaited, Awaits, AfterUpdate, InClaim, InComplete, InFail
  <1> QED BY DEF Then

\* A call that returns, with or without a worker that waits, leaves the rest matched.
LEMMA ReturnMatching ==
    ASSUME TypeOK, Matching, NEW c \in Calls, NEW at, NEW j, Return(c, at, j),
           call[c].pc # "free",
           \/ at = "idle" /\ j = None
           \/ at = "broken" /\ j = call[c].job /\ j # None,
           UNCHANGED job
    PROVE Matching'
  <1> DEFINE w == call[c].worker
  <1>0. /\ call'[c] = Free
        /\ \A d \in Calls : d # c => call'[d] = call[d]
        /\ call[c].waits /\ w \in Workers => wk'[w] = [at |-> at, job |-> j]
        /\ \A v \in Workers : ~(call[c].waits /\ v = w) => wk'[v] = wk[v]
    BY ReturnEffect
  <1> USE NoneAssumption DEF TypeOK, JobRow, Process, Call, Matching, CallMatches, WorkerMatches,
      RowMatches, OneAwaited, Awaits, AfterUpdate, InClaim, InComplete, InFail, Free
  <1>1. call[c].worker \in Workers
    OBVIOUS
  <1>6. ASSUME NEW d \in Calls, d # c
        PROVE  /\ call'[d] = call[d] /\ (call[d].waits => wk'[call[d].worker] = wk[call[d].worker])
               /\ call[d].waits => call[d].worker \in Workers
    BY <1>0, <1>1, <1>6
  <1>2. (\A d \in Calls : CallMatches(d))'
    <2>1. CallMatches(c)'
      BY <1>0
    <2>2. ASSUME NEW d \in Calls, d # c PROVE CallMatches(d)'
      BY <2>2, <1>6
    <2> QED BY <2>1, <2>2
  <1>3. OneAwaited'
    BY <1>0, <1>1
  <1>4. (\A v \in Workers : WorkerMatches(v))'
    <2> SUFFICES ASSUME NEW v \in Workers PROVE WorkerMatches(v)'
      OBVIOUS
    <2>1. CASE call[c].waits /\ v = w
      BY <1>0, <2>1
    <2>2. CASE ~(call[c].waits /\ v = w)
      <3>1. wk'[v] = wk[v]
        BY <1>0, <2>2
      <3>2. ASSUME NEW d \in Calls, call[d].waits, call[d].worker = v
            PROVE  call'[d].waits /\ call'[d].worker = v
        BY <1>0, <2>2, <3>2
      <3> QED BY <3>1, <3>2
    <2> QED BY <2>1, <2>2
  <1>5. (\A i \in Jobs : RowMatches(i))'
    OBVIOUS
  <1> QED BY <1>2, <1>3, <1>4, <1>5

\* A job that is taken, from nobody or from a worker that died, has a fresh claim.
LEMMA PickMatching ==
    ASSUME TypeOK, Matching, NEW c \in Calls, NEW j \in Claimable,
           call[c].pc = "pick",
           job' = [job EXCEPT ![j].holder = call[c].worker, ![j].stale = FALSE],
           Return(c, "working", j)
    PROVE Matching'
  <1> DEFINE w == call[c].worker
  <1>0. /\ call'[c] = Free
        /\ \A d \in Calls : d # c => call'[d] = call[d]
        /\ call[c].waits /\ w \in Workers => wk'[w] = [at |-> "working", job |-> j]
        /\ \A v \in Workers : ~(call[c].waits /\ v = w) => wk'[v] = wk[v]
    BY ReturnEffect
  <1> USE NoneAssumption DEF TypeOK, JobRow, Process, Call, Matching, CallMatches, WorkerMatches,
      RowMatches, OneAwaited, Awaits, AfterUpdate, InClaim, InComplete, InFail, Free
  <1>1. call[c].worker \in Workers /\ j \in Jobs /\ job[j].st = "uploading"
    BY DEF Claimable
  <1>2. job'[j].st = "uploading" /\ job'[j].holder = w /\ ~job'[j].stale
    BY <1>1
  <1>3. \A i \in Jobs : i # j => job'[i] = job[i]
    BY <1>1
  <1> HIDE DEF w
  <1>8. ASSUME NEW d \in Calls, d # c
        PROVE  /\ call'[d] = call[d] /\ (call[d].waits => wk'[call[d].worker] = wk[call[d].worker])
               /\ call[d].waits => call[d].worker \in Workers
    BY <1>0, <1>1, <1>8 DEF w
  <1>4. (\A d \in Calls : CallMatches(d))'
    <2>1. CallMatches(c)'
      BY <1>0
    <2>2. ASSUME NEW d \in Calls, d # c PROVE CallMatches(d)'
      <3>1. CallMatches(d) /\ call'[d] = call[d]
        BY <2>2, <1>8
      <3>2. call[d].job # None
              => job'[call[d].job] = job[call[d].job] \/ call[d].job = j
        BY <1>3
      <3>3. call[d].pc \in AfterUpdate => call[d].job # j
        BY <1>1, <3>1
      <3>4. call[d].waits => wk'[call[d].worker] = wk[call[d].worker]
        BY <2>2, <1>8
      <3>5. call[d].job # None => job'[call[d].job].st # "waiting"
        BY <1>2, <3>1, <3>2
      <3>6. call[d].pc \in AfterUpdate => job'[call[d].job].st # "uploading"
        BY <3>1, <3>2, <3>3
      <3> HIDE NoneAssumption DEF TypeOK, JobRow, Process, Call, Matching, AfterUpdate, InClaim, InComplete, InFail, Free
      <3> QED BY <3>1, <3>4, <3>5, <3>6
    <2> HIDE DEF CallMatches
    <2> QED BY <2>1, <2>2
  <1>5. OneAwaited'
    BY <1>0, <1>1
  <1>6. (\A v \in Workers : WorkerMatches(v))'
    <2> SUFFICES ASSUME NEW v \in Workers PROVE WorkerMatches(v)'
      OBVIOUS
    <2>1. CASE call[c].waits /\ v = w
      BY <1>0, <1>1, <1>2, <2>1
    <2>2. CASE ~(call[c].waits /\ v = w)
      <3>1. wk'[v] = wk[v]
        BY <1>0, <2>2
      <3>2. ASSUME NEW d \in Calls, call[d].waits, call[d].worker = v
            PROVE  call'[d].waits /\ call'[d].worker = v
        BY <1>0, <2>2, <3>2 DEF w
      <3> QED BY <3>1, <3>2, <1>2, <1>3, <1>1
    <2> QED BY <2>1, <2>2
  <1>7. (\A i \in Jobs : RowMatches(i))'
    <2>1. RowMatches(j)'
      BY <1>2
    <2>2. ASSUME NEW i \in Jobs, i # j PROVE RowMatches(i)'
      BY <1>3, <2>2
    <2> QED BY <2>1, <2>2
  <1> QED BY <1>4, <1>5, <1>6, <1>7

\* The steps of a claim keep the matching.
LEMMA ClaimMatching == ASSUME TypeOK, Matching, NEW c \in Calls, Claim(c) PROVE Matching'
  <1>1. CASE Increment(c)
    BY <1>1, ThenMatching, ReturnMatching DEF Increment, Serve, InClaim
  <1>2. CASE Pick(c)
    <2>1. CASE Claimable = {}
      BY <1>2, <2>1, ThenMatching DEF Pick, Serve, InClaim
    <2>2. CASE Claimable # {}
      BY <1>2, <2>2, PickMatching DEF Pick, Serve
    <2> QED BY <2>1, <2>2
  <1>3. CASE PickThrows(c)
    BY <1>3, ThenMatching DEF PickThrows, Serve, InClaim
  <1>4. CASE Undo(c)
    BY <1>4, ReturnMatching DEF Undo, Serve
  <1>5. CASE UndoThrows(c)
    BY <1>5, ReturnMatching DEF UndoThrows, Serve
  <1> QED BY <1>1, <1>2, <1>3, <1>4, <1>5 DEF Claim

\* What the UPDATE that ends a job does, whether it wins or loses.
LEMMA UpdateEffect ==
    ASSUME TypeOK, Matching, NEW c \in Calls, CompleteCas(c) \/ FailCas(c)
    PROVE  /\ UNCHANGED <<wk, count>>
           /\ call[c].job \in Jobs /\ call[c].job # None /\ call[c].worker \in Workers
           /\ job'[call[c].job].st \notin {"waiting", "uploading"}
           /\ job'[call[c].job].stale = job[call[c].job].stale
           /\ \A j \in Jobs : j # call[c].job => job'[j] = job[j]
           /\ \/ call[c].pc = "completeCas" /\ call'[c].pc = "completeDone"
              \/ call[c].pc = "failCas" /\ call'[c].pc = "failDone"
           /\ call'[c].job = call[c].job /\ call'[c].worker = call[c].worker
           /\ call'[c].waits = call[c].waits
           /\ \A d \in Calls : d # c => call'[d] = call[d]
  <1>1. /\ call[c].job \in Jobs /\ call[c].job # None /\ call[c].worker \in Workers
        /\ job[call[c].job].st # "waiting"
    BY DEF CompleteCas, FailCas, Serve, TypeOK, Call, Matching, CallMatches, InComplete, InFail
  <1>2. /\ job'[call[c].job].st \notin {"waiting", "uploading"}
        /\ job'[call[c].job].stale = job[call[c].job].stale
        /\ \A j \in Jobs : j # call[c].job => job'[j] = job[j]
    BY <1>1 DEF CompleteCas, FailCas, TypeOK, JobRow
  <1>3. /\ \/ call[c].pc = "completeCas" /\ call'[c].pc = "completeDone"
           \/ call[c].pc = "failCas" /\ call'[c].pc = "failDone"
        /\ call'[c].job = call[c].job /\ call'[c].worker = call[c].worker
        /\ call'[c].waits = call[c].waits
        /\ \A d \in Calls : d # c => call'[d] = call[d]
    BY DEF CompleteCas, FailCas, Serve, Then, TypeOK, Call
  <1>4. UNCHANGED <<wk, count>>
    BY DEF CompleteCas, FailCas
  <1> QED BY <1>1, <1>2, <1>3, <1>4

\* The UPDATE that ends a job keeps the matching, whether it wins or loses.
LEMMA UpdateMatching ==
    ASSUME TypeOK, Matching, NEW c \in Calls, CompleteCas(c) \/ FailCas(c)
    PROVE  Matching'
  <1> PICK j \in Jobs : j = call[c].job
    BY UpdateEffect
  <1>1. /\ wk' = wk
        /\ j # None /\ job'[j].st \notin {"waiting", "uploading"} /\ job'[j].stale = job[j].stale
        /\ \A i \in Jobs : i # j => job'[i] = job[i]
        /\ \/ call[c].pc = "completeCas" /\ call'[c].pc = "completeDone"
           \/ call[c].pc = "failCas" /\ call'[c].pc = "failDone"
        /\ call'[c].job = j /\ call'[c].worker = call[c].worker /\ call'[c].waits = call[c].waits
        /\ \A d \in Calls : d # c => call'[d] = call[d]
    BY UpdateEffect
  <1>2. ASSUME NEW d \in Calls PROVE CallMatches(d)'
    <2>1. CASE d = c
      BY <1>1, <2>1 DEF Matching, CallMatches, Awaits, InClaim, InComplete, InFail, AfterUpdate
    <2>2. CASE d # c
      <3>1. call'[d] = call[d] /\ CallMatches(d) /\ call[d].job \in Jobs \cup {None}
        BY <1>1, <2>2 DEF Matching, TypeOK, Call
      <3>2. call[d].job # None => job'[call[d].job] = job[call[d].job] \/ call[d].job = j
        BY <1>1, <3>1
      <3>3. wk'[call[d].worker] = wk[call[d].worker]
        BY <1>1
      <3>4. call[d].job # None => job'[call[d].job].st # "waiting"
        BY <1>1, <3>1, <3>2 DEF CallMatches
      <3>5. call[d].pc \in AfterUpdate => job'[call[d].job].st # "uploading"
        BY <1>1, <3>1, <3>2 DEF CallMatches, AfterUpdate, InComplete, InFail
      <3> QED BY <3>1, <3>3, <3>4, <3>5 DEF CallMatches, Awaits
    <2> QED BY <2>1, <2>2
  <1>3. \A d \in Calls : call'[d].waits = call[d].waits /\ call'[d].worker = call[d].worker
                         /\ call'[d].job = call[d].job
    BY <1>1
  <1>4. OneAwaited'
    BY <1>3 DEF Matching, OneAwaited
  <1>5. ASSUME NEW w \in Workers PROVE WorkerMatches(w)'
    <2>1. wk[w].job \in Jobs \cup {None} /\ WorkerMatches(w)
      BY DEF TypeOK, Process, Matching
    <2>2. wk[w].job # None => job'[wk[w].job].st # "waiting"
      BY <1>1, <2>1 DEF WorkerMatches
    <2> QED BY <1>1, <1>3, <2>1, <2>2 DEF WorkerMatches
  <1>6. ASSUME NEW i \in Jobs PROVE RowMatches(i)'
    <2>1. RowMatches(i) /\ job'[i].stale = job[i].stale
      BY <1>1 DEF Matching
    <2>2. job'[i].st = "waiting" => job'[i] = job[i]
      BY <1>1
    <2> QED BY <1>1, <1>3, <2>1, <2>2 DEF RowMatches
  <1> QED BY <1>2, <1>4, <1>5, <1>6 DEF Matching

\* The steps of a completion or a failure keep the matching.
LEMMA EndMatching == ASSUME TypeOK, Matching, NEW c \in Calls, End(c) PROVE Matching'
  <1>1. CASE CompleteRead(c)
    BY <1>1, ThenMatching DEF CompleteRead, Serve, InComplete, AfterUpdate
  <1>2. CASE CompleteRefused(c)
    BY <1>2, ReturnMatching DEF CompleteRefused, Serve, Matching, CallMatches, InComplete
  <1>3. CASE CompleteCas(c) \/ FailCas(c)
    BY <1>3, UpdateMatching
  <1>4. CASE CompleteDone(c) \/ FailDone(c)
    BY <1>4, ReturnMatching DEF CompleteDone, FailDone, Serve
  <1>5. CASE FailRead(c)
    BY <1>5, ThenMatching, ReturnMatching DEF FailRead, Serve, InFail, AfterUpdate
  <1>6. CASE EndThrows(c)
    BY <1>6, ReturnMatching DEF EndThrows, Serve, Matching, CallMatches, InComplete
  <1> QED BY <1>1, <1>2, <1>3, <1>4, <1>5, <1>6 DEF End

\* A lost connection leaves a call nobody waits for.
LEMMA ConnectionLostMatching ==
    ASSUME TypeOK, Matching, NEW c \in Calls, ConnectionLost(c) PROVE Matching'
  <1>1. PICK w \in Workers : w = call[c].worker
    BY DEF ConnectionLost, TypeOK, Call, Matching, CallMatches
  <1>2. /\ job' = job
        /\ call[c].waits /\ ~call'[c].waits
        /\ call'[c].pc = call[c].pc /\ call'[c].job = call[c].job /\ call'[c].worker = w
        /\ \A d \in Calls : d # c => call'[d] = call[d]
    BY <1>1 DEF ConnectionLost, TypeOK, Call
  <1>3. /\ \A v \in Workers : v # w => wk'[v] = wk[v]
        /\ wk[w].at = "completing" => wk'[w].at = "broken" /\ wk'[w].job = wk[w].job
        /\ wk[w].at # "completing" => wk'[w].at = "idle" /\ wk'[w].job = None
    BY <1>1 DEF ConnectionLost, TypeOK, Process, Resting
  <1>4. \A d \in Calls : d # c /\ call[d].waits => call[d].worker \in Workers \ {w}
    BY <1>1, <1>2 DEF Matching, OneAwaited, CallMatches, TypeOK, Call
  <1>5. ASSUME NEW d \in Calls PROVE CallMatches(d)'
    <2>1. CASE d = c
      BY <1>1, <1>2, <2>1 DEF Matching, CallMatches
    <2>2. CASE d # c
      BY <1>2, <1>3, <1>4, <2>2 DEF Matching, CallMatches, Awaits
    <2> QED BY <2>1, <2>2
  <1>6. OneAwaited'
    BY <1>2 DEF Matching, OneAwaited
  <1>7. ASSUME NEW v \in Workers PROVE WorkerMatches(v)'
    <2>1. CASE v = w
      BY <1>2, <1>3, <2>1 DEF Matching, WorkerMatches
    <2>2. CASE v # w
      <3>1. wk'[v] = wk[v] /\ WorkerMatches(v)
        BY <1>3, <2>2 DEF Matching
      <3>2. ASSUME NEW d \in Calls, call[d].waits, call[d].worker = v
            PROVE  call'[d].waits /\ call'[d].worker = v
        BY <1>1, <1>2, <2>2, <3>2
      <3> QED BY <1>2, <3>1, <3>2 DEF WorkerMatches
    <2> QED BY <2>1, <2>2
  <1>8. ASSUME NEW i \in Jobs PROVE RowMatches(i)'
    BY <1>2 DEF Matching, RowMatches
  <1> QED BY <1>5, <1>6, <1>7, <1>8 DEF Matching

\* Whatever befalls the pool, a worker waits for the call it made, has a job exactly
\* between its claim and its end, and a call that has updated its row left it ended.
THEOREM PoolMatching == Spec => []Matching
  <1>1. TypeOK /\ Matching /\ [Next]_vars => Matching'
    <2> SUFFICES ASSUME TypeOK, Matching, [Next]_vars PROVE Matching'
      OBVIOUS
    <2>1. CASE \E j \in Jobs : Job(j)
      BY <2>1, JobMatching
    <2>2. CASE \E w \in Workers : ClaimCall(w) \/ Work(w) \/ Crash(w)
      BY <2>2, WorkerMatching
    <2>3. CASE \E c \in Calls : Route(c) \/ ConnectionLost(c)
      BY <2>3, ClaimMatching, EndMatching, ConnectionLostMatching DEF Route
    <2>4. CASE UNCHANGED vars
      BY <2>4 DEF Matching, CallMatches, WorkerMatches, RowMatches, OneAwaited, Awaits, vars
    <2> QED
      BY <2>1, <2>2, <2>3, <2>4 DEF Next
  <1> QED
    BY PoolTyped, MatchingAtStart, <1>1, PTL DEF Spec

-----------------------------------------------------------------------------
(* A claim that is old has nobody at its job, if nobody was there when it   *)
(* grew old.                                                                *)

AtRest(j) == (\A c \in Calls : call[c].job # j) /\ \A w \in Workers : wk[w].job # j

OldAtRest(j) == job[j].stale => AtRest(j)

\* Nobody at hand: a job at rest.
LEMMA NobodyAtHand ==
    ASSUME TypeOK, Matching, NEW j \in Jobs, AtHand(j) = {} PROVE AtRest(j)
  <1>1. \A c \in Calls : call[c].job = j => call[c].worker \in Workers
    BY NoneAssumption DEF TypeOK, Call, Matching, CallMatches, InComplete, InFail
  <1> QED BY <1>1 DEF AtHand, AtRest

\* Nobody comes to a job at rest but by a claim, which is new.
LEMMA StaysAtRest ==
    ASSUME TypeOK, Matching, [Next]_vars, NEW j \in Jobs, AtRest(j), job'[j].stale
    PROVE  AtRest(j)'
  <1>n. j # None
    BY NoneAssumption
  <1>1. ASSUME NEW i \in Jobs, Job(i) PROVE AtRest(j)'
    BY <1>1 DEF Job, Dispatch, DispatchAgain, EndedByOthers, Age, AtRest
  <1>2. ASSUME NEW w \in Workers, NEW at, NEW pc, Start(w, at, pc) PROVE AtRest(j)'
    BY <1>2 DEF Start, AtRest, TypeOK, Process, Call
  <1>3. ASSUME NEW c \in Calls, NEW pc, Then(c, pc), UNCHANGED wk PROVE AtRest(j)'
    BY <1>3 DEF Then, AtRest, TypeOK, Call
  <1>4. ASSUME NEW c \in Calls, NEW at, NEW i, i # j, Return(c, at, i) PROVE AtRest(j)'
    <2>1. /\ call'[c] = Free
          /\ \A d \in Calls : d # c => call'[d] = call[d]
      BY <1>4, ReturnEffect
    <2>2. \A w \in Workers : wk'[w].job \in {i, wk[w].job}
      BY <1>4 DEF Return, TypeOK
    <2> QED BY <1>n, <1>4, <2>1, <2>2 DEF AtRest, Free
  <1>5. ASSUME NEW w \in Workers, ClaimCall(w) \/ Work(w) \/ Crash(w) PROVE AtRest(j)'
    <2>1. CASE ClaimCall(w) \/ CompleteCall(w) \/ FailCall(w)
      BY <1>2, <2>1 DEF ClaimCall, CompleteCall, FailCall
    <2>2. CASE UploadFails(w)
      BY <2>2 DEF UploadFails, AtRest, TypeOK, Process
    <2>3. CASE Crash(w)
      BY <1>n, <2>3 DEF Crash, AtRest, TypeOK, Process, Call, Resting
    <2> QED BY <1>5, <2>1, <2>2, <2>3 DEF Work
  <1>6. ASSUME NEW c \in Calls, Claim(c) PROVE AtRest(j)'
    <2>1. CASE Pick(c)
      <3>1. CASE Claimable = {}
        BY <1>3, <2>1, <3>1 DEF Pick
      <3>2. CASE Claimable # {}
        <4>1. PICK i \in Claimable :
                /\ job' = [job EXCEPT ![i].holder = call[c].worker, ![i].stale = FALSE]
                /\ Return(c, "working", i)
          BY <2>1, <3>2 DEF Pick
        <4>2. i # j
          BY <4>1 DEF TypeOK, JobRow
        <4> QED BY <1>4, <4>1, <4>2
      <3> QED BY <3>1, <3>2
    <2>2. CASE Increment(c)
      BY <1>3, <1>4, <1>n, <2>2 DEF Increment
    <2>3. CASE PickThrows(c)
      BY <1>3, <2>3 DEF PickThrows
    <2>4. CASE Undo(c) \/ UndoThrows(c)
      BY <1>4, <1>n, <2>4 DEF Undo, UndoThrows
    <2> QED BY <1>6, <2>1, <2>2, <2>3, <2>4 DEF Claim
  <1>7. ASSUME NEW c \in Calls, End(c) PROVE AtRest(j)'
    <2>1. call[c].job # j
      BY DEF AtRest
    <2>2. CASE CompleteRead(c) \/ CompleteCas(c) \/ FailCas(c) \/ (FailRead(c) /\ Holds(c))
      BY <1>3, <2>2 DEF CompleteRead, CompleteCas, FailCas, FailRead
    <2>3. CASE CompleteRefused(c) \/ CompleteDone(c) \/ FailDone(c) \/ EndThrows(c)
               \/ (FailRead(c) /\ ~Holds(c))
      BY <1>4, <1>n, <2>1, <2>3 DEF CompleteRefused, CompleteDone, FailDone, EndThrows, FailRead
    <2> QED BY <1>7, <2>2, <2>3 DEF End
  <1>8. ASSUME NEW c \in Calls, ConnectionLost(c) PROVE AtRest(j)'
    BY <1>8, <1>n DEF ConnectionLost, AtRest, TypeOK, Process, Call, Resting
  <1>9. CASE UNCHANGED vars
    BY <1>9 DEF AtRest, vars
  <1> QED BY <1>1, <1>5, <1>6, <1>7, <1>8, <1>9 DEF Next, Route

\* A claim grows old by growing old.
LEMMA GrowsOld ==
    ASSUME TypeOK, Matching, [Next]_vars, NEW j \in Jobs, job'[j].stale
    PROVE  job[j].stale \/ Age(j)
  <1>1. ASSUME NEW i \in Jobs, Job(i) PROVE job[j].stale \/ Age(j)
    BY <1>1 DEF Job, Dispatch, DispatchAgain, EndedByOthers, Age, TypeOK, JobRow
  <1>2. ASSUME NEW c \in Calls, Pick(c) PROVE job[j].stale
    <2>1. CASE Claimable = {}
      BY <1>2, <2>1 DEF Pick
    <2>2. CASE Claimable # {}
      <3>1. PICK i \in Claimable :
              job' = [job EXCEPT ![i].holder = call[c].worker, ![i].stale = FALSE]
        BY <1>2, <2>2 DEF Pick
      <3> QED BY <3>1 DEF TypeOK, JobRow
    <2> QED BY <2>1, <2>2
  <1>3. ASSUME NEW c \in Calls, CompleteCas(c) \/ FailCas(c) PROVE job[j].stale
    BY <1>3, UpdateEffect
  <1>4. CASE UNCHANGED job
    BY <1>4
  <1>5. ASSUME NEW w \in Workers, ClaimCall(w) \/ Work(w) \/ Crash(w) PROVE UNCHANGED job
    BY <1>5 DEF ClaimCall, Work, CompleteCall, UploadFails, FailCall, Crash
  <1>6. ASSUME NEW c \in Calls, Route(c) \/ ConnectionLost(c), ~Pick(c), ~CompleteCas(c), ~FailCas(c)
        PROVE  UNCHANGED job
    BY <1>6 DEF Route, Claim, Increment, PickThrows, Undo, UndoThrows, End, CompleteRead, CompleteRefused,
        CompleteDone, FailRead, FailDone, EndThrows, ConnectionLost
  <1> QED BY <1>1, <1>2, <1>3, <1>4, <1>5, <1>6 DEF Next, vars

\* So an old claim stays one that nobody is at.
LEMMA RestsWhenOld ==
    ASSUME TypeOK, Matching, [Next]_vars, NEW j \in Jobs, OldAtRest(j), Age(j) => AtHand(j) = {}
    PROVE  OldAtRest(j)'
  BY StaysAtRest, GrowsOld, NobodyAtHand DEF OldAtRest

-----------------------------------------------------------------------------
(* The places of a worker: one for each call that took or will give one     *)
(* back, one for the job it has at hand, and one for each job that a crash  *)
(* left in its name.  HeldIsCounted is not inductive by itself: a call that *)
(* is about to give a place back holds no job.                              *)

Using(w) == {c \in Calls : call[c].worker = w /\ call[c].pc # "increment"}

Owing(w) ==
    {j \in Jobs :
        \/ wk[w].job = j /\ wk[w].at \in {"working", "broken"}
        \/ /\ j \in Held(w)
           /\ wk[w].job # j
           /\ \A c \in Calls : call[c].job = j => call[c].worker # w}

Counted(w) == Cardinality(Owing(w)) + Cardinality(Using(w)) <= count[w]
PlacesCounted == \A w \in Workers : Counted(w)

-----------------------------------------------------------------------------
\* Jobs and calls can be counted.
LEMMA PlacesFinite ==
    ASSUME NEW S \in SUBSET Jobs, NEW U \in SUBSET Calls
    PROVE  /\ IsFiniteSet(S) /\ Cardinality(S) \in Nat
           /\ IsFiniteSet(U) /\ Cardinality(U) \in Nat
  BY FiniteAssumption, FS_Subset, FS_CardinalityType

LEMMA PlacesSmaller ==
    ASSUME NEW S \in SUBSET Jobs, NEW U \in SUBSET Calls, NEW T \in SUBSET S, NEW V \in SUBSET U
    PROVE  Cardinality(T) <= Cardinality(S) /\ Cardinality(V) <= Cardinality(U)
  BY PlacesFinite, FS_Subset

\* What a step may do to the places of one worker and its count: nothing or less,
\* a job's place becomes a call's, a call's becomes a job's, one of either is given
\* back, or one is taken.
LEMMA PlacesMove ==
    ASSUME NEW S \in SUBSET Jobs, NEW U \in SUBSET Calls, NEW T \in SUBSET Jobs, NEW V \in SUBSET Calls,
           NEW m \in Nat, NEW n \in Nat, Cardinality(S) + Cardinality(U) <= m,
           \/ T \subseteq S /\ V \subseteq U /\ n = m
           \/ \E j \in S, c \in Calls : T \subseteq S \ {j} /\ V \subseteq U \cup {c} /\ n = m
           \/ \E c \in U, j \in Jobs : T \subseteq S \cup {j} /\ V \subseteq U \ {c} /\ n = m
           \/ \E c \in U : T \subseteq S /\ V \subseteq U \ {c} /\ n = Less(m)
           \/ \E j \in S : T \subseteq S \ {j} /\ V \subseteq U /\ n = Less(m)
           \/ \E c \in Calls : T \subseteq S /\ V \subseteq U \cup {c} /\ n = m + 1
    PROVE  Cardinality(T) + Cardinality(V) <= n
  <1>1. /\ IsFiniteSet(S) /\ Cardinality(S) \in Nat /\ IsFiniteSet(U) /\ Cardinality(U) \in Nat
        /\ IsFiniteSet(T) /\ Cardinality(T) \in Nat /\ IsFiniteSet(V) /\ Cardinality(V) \in Nat
    BY PlacesFinite
  <1>2. ASSUME NEW X, NEW Y, IsFiniteSet(Y), X \subseteq Y PROVE Cardinality(X) <= Cardinality(Y)
    BY <1>2, FS_Subset
  <1>3. ASSUME NEW X, NEW Y, NEW e, IsFiniteSet(X), IsFiniteSet(Y), X \subseteq Y \cup {e}
        PROVE  Cardinality(X) <= Cardinality(Y) + 1
    <2>1. IsFiniteSet(Y \cup {e}) /\ Cardinality(Y \cup {e}) <= Cardinality(Y) + 1
      <3>1. Cardinality(Y) \in Nat
        BY <1>3, FS_CardinalityType
      <3>2. /\ IsFiniteSet(Y \cup {e})
            /\ Cardinality(Y \cup {e}) = IF e \in Y THEN Cardinality(Y) ELSE Cardinality(Y) + 1
        BY <1>3, FS_AddElement
      <3> QED BY <3>1, <3>2
    <2>2. Cardinality(X) <= Cardinality(Y \cup {e})
      BY <1>3, <2>1, <1>2
    <2> QED BY <1>3, <2>1, <2>2, FS_CardinalityType
  <1>4. ASSUME NEW X, NEW Y, NEW e \in Y, IsFiniteSet(X), IsFiniteSet(Y), X \subseteq Y \ {e}
        PROVE  Cardinality(X) + 1 <= Cardinality(Y)
    <2>1. IsFiniteSet(Y \ {e}) /\ Cardinality(Y \ {e}) = Cardinality(Y) - 1
      BY <1>4, FS_RemoveElement
    <2>2. Cardinality(X) <= Cardinality(Y \ {e})
      BY <1>4, <2>1, <1>2
    <2> QED BY <1>4, <2>1, <2>2, FS_CardinalityType
  <1>5. CASE T \subseteq S /\ V \subseteq U /\ n = m
    BY <1>1, <1>2, <1>5
  <1>6. CASE \E j \in S, c \in Calls : T \subseteq S \ {j} /\ V \subseteq U \cup {c} /\ n = m
    <2> PICK j \in S, c \in Calls : T \subseteq S \ {j} /\ V \subseteq U \cup {c} /\ n = m
      BY <1>6
    <2>1. Cardinality(T) + 1 <= Cardinality(S)
      BY <1>1, <1>4
    <2>2. Cardinality(V) <= Cardinality(U) + 1
      BY <1>1, <1>3
    <2> QED BY <1>1, <2>1, <2>2
  <1>7. CASE \E c \in U, j \in Jobs : T \subseteq S \cup {j} /\ V \subseteq U \ {c} /\ n = m
    <2> PICK c \in U, j \in Jobs : T \subseteq S \cup {j} /\ V \subseteq U \ {c} /\ n = m
      BY <1>7
    <2>1. Cardinality(T) <= Cardinality(S) + 1
      BY <1>1, <1>3
    <2>2. Cardinality(V) + 1 <= Cardinality(U)
      BY <1>1, <1>4
    <2> QED BY <1>1, <2>1, <2>2
  <1>8. CASE \E c \in U : T \subseteq S /\ V \subseteq U \ {c} /\ n = Less(m)
    <2> PICK c \in U : T \subseteq S /\ V \subseteq U \ {c} /\ n = Less(m)
      BY <1>8
    <2>1. Cardinality(T) <= Cardinality(S)
      BY <1>1, <1>2
    <2>2. Cardinality(V) + 1 <= Cardinality(U)
      BY <1>1, <1>4
    <2> QED BY <1>1, <2>1, <2>2 DEF Less
  <1>9. CASE \E j \in S : T \subseteq S \ {j} /\ V \subseteq U /\ n = Less(m)
    <2> PICK j \in S : T \subseteq S \ {j} /\ V \subseteq U /\ n = Less(m)
      BY <1>9
    <2>1. Cardinality(T) + 1 <= Cardinality(S)
      BY <1>1, <1>4
    <2>2. Cardinality(V) <= Cardinality(U)
      BY <1>1, <1>2
    <2> QED BY <1>1, <2>1, <2>2 DEF Less
  <1>10. CASE \E c \in Calls : T \subseteq S /\ V \subseteq U \cup {c} /\ n = m + 1
    <2> PICK c \in Calls : T \subseteq S /\ V \subseteq U \cup {c} /\ n = m + 1
      BY <1>10
    <2>1. Cardinality(T) <= Cardinality(S)
      BY <1>1, <1>2
    <2>2. Cardinality(V) <= Cardinality(U) + 1
      BY <1>1, <1>3
    <2> QED BY <1>1, <2>1, <2>2
  <1> QED BY <1>5, <1>6, <1>7, <1>8, <1>9, <1>10

\* Every job held is at hand, stranded, or the job of a call.
LEMMA HeldHasPlace ==
    ASSUME TypeOK, Matching, NEW w \in Workers, Counted(w)
    PROVE  Cardinality(Held(w)) <= count[w]
  <1> DEFINE C == {c \in Using(w) : call[c].job \in Jobs}
             J == {call[c].job : c \in C}
             f == [c \in C |-> call[c].job]
  <1>1. /\ Owing(w) \in SUBSET Jobs /\ Using(w) \in SUBSET Calls /\ C \in SUBSET Calls
        /\ Held(w) \in SUBSET Jobs /\ J \in SUBSET Jobs /\ count[w] \in Nat
    BY DEF Owing, Using, Held, TypeOK
  <1>2. Held(w) \subseteq Owing(w) \cup J
    <2> SUFFICES ASSUME NEW j \in Held(w), j \notin Owing(w) PROVE j \in J
      OBVIOUS
    <2>1. j \in Jobs /\ j # None
      BY NoneAssumption DEF Held
    <2>2. CASE wk[w].job = j
      <3>1. wk[w].at \in {"claiming", "completing", "failing"}
        BY <2>1, <2>2 DEF TypeOK, Process, Owing, Matching, WorkerMatches
      <3>2. PICK c \in Calls : call[c].waits /\ call[c].worker = w
        BY <3>1 DEF Matching, WorkerMatches
      <3>3. call[c].job = j /\ call[c].pc # "increment"
        BY <3>2, <2>1, <2>2 DEF Matching, CallMatches, Awaits, InComplete, InFail
      <3> QED BY <2>1, <3>2, <3>3 DEF Using
    <2>3. CASE wk[w].job # j
      <3>1. PICK c \in Calls : call[c].job = j /\ call[c].worker = w
        BY <2>1, <2>3 DEF Owing
      <3>2. call[c].pc # "increment"
        BY <3>1, <2>1 DEF Matching, CallMatches, InComplete, InFail
      <3> QED BY <2>1, <3>1, <3>2 DEF Using
    <2> QED BY <2>2, <2>3
  <1>3. IsFiniteSet(C) /\ IsFiniteSet(J) /\ IsFiniteSet(Owing(w)) /\ IsFiniteSet(Using(w))
    BY <1>1, PlacesFinite
  <1>4. Cardinality(J) <= Cardinality(C)
    <2>1. f \in Surjection(C, J)
      BY DEF Surjection
    <2> QED BY <2>1, <1>3, FS_Surjection
  <1>5. Cardinality(C) <= Cardinality(Using(w))
    BY <1>3, FS_Subset
  <1>6. /\ IsFiniteSet(Owing(w) \cup J)
        /\ Cardinality(Owing(w) \cup J) = Cardinality(Owing(w)) + Cardinality(J) - Cardinality(Owing(w) \cap J)
    BY <1>3, FS_Union
  <1>7. Cardinality(Held(w)) <= Cardinality(Owing(w) \cup J)
    BY <1>2, <1>6, FS_Subset
  <1>8. /\ Cardinality(Owing(w) \cap J) \in Nat /\ Cardinality(Owing(w)) \in Nat /\ Cardinality(J) \in Nat
        /\ Cardinality(Held(w)) \in Nat /\ Cardinality(C) \in Nat /\ Cardinality(Using(w)) \in Nat
    BY <1>1, PlacesFinite
  <1> HIDE DEF C, J, f
  <1> QED BY <1>1, <1>4, <1>5, <1>6, <1>7, <1>8 DEF Counted

\* A step of one of these shapes keeps the places of a worker within its count.
LEMMA CountedMoves ==
    ASSUME TypeOK, TypeOK', NEW v \in Workers, Counted(v),
           \/ /\ Owing(v)' \subseteq Owing(v) /\ Using(v)' \subseteq Using(v)
              /\ count'[v] = count[v]
           \/ \E j \in Owing(v), c \in Calls :
                /\ Owing(v)' \subseteq Owing(v) \ {j} /\ Using(v)' \subseteq Using(v) \cup {c}
                /\ count'[v] = count[v]
           \/ \E c \in Using(v), j \in Jobs :
                /\ Owing(v)' \subseteq Owing(v) \cup {j} /\ Using(v)' \subseteq Using(v) \ {c}
                /\ count'[v] = count[v]
           \/ \E c \in Using(v) :
                /\ Owing(v)' \subseteq Owing(v) /\ Using(v)' \subseteq Using(v) \ {c}
                /\ count'[v] = Less(count[v])
           \/ \E j \in Owing(v) :
                /\ Owing(v)' \subseteq Owing(v) \ {j} /\ Using(v)' \subseteq Using(v)
                /\ count'[v] = Less(count[v])
           \/ \E c \in Calls :
                /\ Owing(v)' \subseteq Owing(v) /\ Using(v)' \subseteq Using(v) \cup {c}
                /\ count'[v] = count[v] + 1
    PROVE  Counted(v)'
  <1> DEFINE S == Owing(v)
             U == Using(v)
             T == Owing(v)'
             V == Using(v)'
             m == count[v]
             n == count'[v]
  <1>1. S \in SUBSET Jobs /\ U \in SUBSET Calls
    BY DEF Owing, Using
  <1>2. T \in SUBSET Jobs /\ V \in SUBSET Calls
    BY DEF Owing, Using
  <1>3. m \in Nat /\ n \in Nat
    BY DEF TypeOK
  <1>4. Cardinality(S) + Cardinality(U) <= m
    BY DEF Counted
  <1>5. \/ T \subseteq S /\ V \subseteq U /\ n = m
        \/ \E j \in S, c \in Calls : T \subseteq S \ {j} /\ V \subseteq U \cup {c} /\ n = m
        \/ \E c \in U, j \in Jobs : T \subseteq S \cup {j} /\ V \subseteq U \ {c} /\ n = m
        \/ \E c \in U : T \subseteq S /\ V \subseteq U \ {c} /\ n = Less(m)
        \/ \E j \in S : T \subseteq S \ {j} /\ V \subseteq U /\ n = Less(m)
        \/ \E c \in Calls : T \subseteq S /\ V \subseteq U \cup {c} /\ n = m + 1
    OBVIOUS
  <1> HIDE DEF S, U, T, V, m, n
  <1>6. Cardinality(T) + Cardinality(V) <= n
    BY <1>1, <1>2, <1>3, <1>4, <1>5, PlacesMove
  <1> QED BY <1>6 DEF Counted, T, V, n

\* No place is lost or gained by what happens to a row.
LEMMA JobCounted ==
    ASSUME TypeOK, TypeOK', Matching, PlacesCounted, NEW j \in Jobs, Job(j)
    PROVE  PlacesCounted'
  <1> SUFFICES ASSUME NEW v \in Workers PROVE Counted(v)'
    BY DEF PlacesCounted
  <1>1. UNCHANGED <<count, wk, call>>
    BY DEF Job, Dispatch, DispatchAgain, EndedByOthers, Age
  <1>2. Held(v)' \subseteq Held(v)
    BY NoneAssumption DEF Job, Dispatch, DispatchAgain, EndedByOthers, Age, Held, TypeOK, JobRow, Matching, RowMatches
  <1>3. Owing(v)' \subseteq Owing(v)
    BY <1>1, <1>2 DEF Owing
  <1>4. Using(v)' = Using(v)
    BY <1>1 DEF Using
  <1> QED BY <1>1, <1>3, <1>4, CountedMoves DEF PlacesCounted

\* A call takes over the place of the job; a crash strands the job with its place.
LEMMA WorkerCounted ==
    ASSUME TypeOK, TypeOK', Matching, PlacesCounted, NEW w \in Workers,
           ClaimCall(w) \/ Work(w) \/ Crash(w)
    PROVE  PlacesCounted'
  <1> SUFFICES ASSUME NEW v \in Workers PROVE Counted(v)'
    BY DEF PlacesCounted
  <1>c. UNCHANGED <<job, count>>
    BY DEF ClaimCall, Work, Crash, CompleteCall, FailCall, UploadFails
  <1>h. Held(v)' = Held(v)
    BY <1>c DEF Held
  <1>1. CASE ClaimCall(w)
    <2>1. PICK c \in Calls :
            /\ call[c].pc = "free"
            /\ call' = [call EXCEPT ![c] = [pc |-> "increment", worker |-> w, job |-> wk[w].job,
                                            waits |-> TRUE]]
            /\ wk' = [wk EXCEPT ![w].at = "claiming"]
      BY <1>1 DEF ClaimCall, Start, Serve
    <2>2. wk[w].at = "idle" /\ wk[w].job = None
      BY <1>1 DEF ClaimCall, Matching, WorkerMatches
    <2>3. Owing(v)' \subseteq Owing(v)
      BY <1>h, <2>1, <2>2, NoneAssumption DEF Owing, TypeOK, Process, Call, Matching, CallMatches
    <2>4. Using(v)' \subseteq Using(v)
      BY <2>1 DEF Using, TypeOK, Call
    <2> QED BY <1>c, <2>3, <2>4, CountedMoves DEF PlacesCounted
  <1>2. CASE CompleteCall(w) \/ FailCall(w)
    <2>1. PICK c \in Calls, pc \in {"completeRead", "failRead"}, at \in {"completing", "failing"} :
            /\ call[c].pc = "free"
            /\ call' = [call EXCEPT ![c] = [pc |-> pc, worker |-> w, job |-> wk[w].job,
                                            waits |-> TRUE]]
            /\ wk' = [wk EXCEPT ![w].at = at]
      BY <1>2 DEF CompleteCall, FailCall, Start, Serve
    <2>2. wk[w].at \in {"working", "broken"} /\ wk[w].job \in Jobs
      BY <1>2 DEF CompleteCall, FailCall, TypeOK, Process, Matching, WorkerMatches
    <2>3. CASE v = w
      <3>1. wk[w].job \in Owing(v)
        BY <2>2, <2>3 DEF Owing
      <3>2. Owing(v)' \subseteq Owing(v) \ {wk[w].job}
        BY <1>h, <2>1, <2>2, <2>3, NoneAssumption DEF Owing, TypeOK, Process, Call, Matching, CallMatches
      <3>3. Using(v)' \subseteq Using(v) \cup {c}
        BY <2>1 DEF Using, TypeOK, Call
      <3> QED BY <1>c, <3>1, <3>2, <3>3, CountedMoves DEF PlacesCounted
    <2>4. CASE v # w
      <3>1. Owing(v)' \subseteq Owing(v)
        BY <1>h, <2>1, <2>4, NoneAssumption DEF Owing, TypeOK, Process, Call, Matching, CallMatches
      <3>2. Using(v)' \subseteq Using(v)
        BY <2>1, <2>4 DEF Using, TypeOK, Call
      <3> QED BY <1>c, <3>1, <3>2, CountedMoves DEF PlacesCounted
    <2> QED BY <2>3, <2>4
  <1>3. CASE UploadFails(w)
    <2>1. Owing(v)' \subseteq Owing(v)
      BY <1>3, <1>h DEF Owing, UploadFails, TypeOK, Process
    <2>2. Using(v)' = Using(v)
      BY <1>3 DEF Using, UploadFails
    <2> QED BY <1>c, <2>1, <2>2, CountedMoves DEF PlacesCounted
  <1>4. CASE Crash(w)
    <2>1. Using(v)' \subseteq Using(v)
      BY <1>4 DEF Using, Crash, TypeOK, Call
    <2>2. Owing(v)' \subseteq Owing(v)
      <3> SUFFICES ASSUME NEW j \in Jobs, j \in Owing(v)' PROVE j \in Owing(v)
        BY DEF Owing
      <3>1. j # None
        BY NoneAssumption
      <3>2. \A c \in Calls : call'[c].job = call[c].job /\ call'[c].worker = call[c].worker
        BY <1>4 DEF Crash, TypeOK, Call
      <3>3. CASE v # w
        BY <1>4, <1>h, <3>2, <3>3 DEF Crash, Owing, TypeOK
      <3>4. CASE v = w
        <4>1. j \in Held(w) /\ \A c \in Calls : call[c].job = j => call[c].worker # w
          BY <1>4, <1>h, <3>1, <3>2, <3>4 DEF Owing, Crash, TypeOK, Resting
        <4>2. ASSUME wk[w].job = j, wk[w].at \notin {"working", "broken"} PROVE FALSE
          <5>1. wk[w].at \in {"completing", "failing"}
            BY <3>1, <4>2 DEF TypeOK, Process, Matching, WorkerMatches
          <5>2. PICK c \in Calls : call[c].waits /\ call[c].worker = w
            BY <5>1 DEF Matching, WorkerMatches
          <5>3. call[c].job = j
            BY <4>2, <5>2 DEF Matching, CallMatches, Awaits
          <5> QED BY <4>1, <5>2, <5>3
        <4> QED BY <3>4, <4>1, <4>2 DEF Owing
      <3> QED BY <3>3, <3>4
    <2> QED BY <1>c, <2>1, <2>2, CountedMoves DEF PlacesCounted
  <1> QED BY <1>1, <1>2, <1>3, <1>4 DEF Work

\* The returning call gives up its place; its job may need one of its own.
LEMMA ReturnPlaces ==
    ASSUME TypeOK, Matching, NEW c \in Calls, NEW at, NEW j, Return(c, at, j),
           call[c].pc \notin {"free", "increment"},
           \/ at = "idle" /\ j = None
           \/ at = "broken" /\ j = call[c].job /\ j # None,
           UNCHANGED job, NEW v \in Workers
    PROVE  /\ Using(v)' = Using(v) \ {c}
           /\ v = call[c].worker => c \in Using(v)
           /\ v # call[c].worker => Owing(v)' \subseteq Owing(v)
           /\ call[c].job \in Jobs => Owing(v)' \subseteq Owing(v) \cup {call[c].job}
           /\ j = None /\ (call[c].job = None \/ ~Holds(c)) => Owing(v)' \subseteq Owing(v)
  <1>1. /\ call'[c] = Free
        /\ \A d \in Calls : d # c => call'[d] = call[d]
        /\ call[c].waits /\ call[c].worker \in Workers
             => wk'[call[c].worker] = [at |-> at, job |-> j]
        /\ \A w \in Workers : ~(call[c].waits /\ w = call[c].worker) => wk'[w] = wk[w]
    BY ReturnEffect
  <1>2. call[c].worker \in Workers
    BY DEF TypeOK, Call, Matching, CallMatches
  <1>3. Using(v)' = Using(v) \ {c} /\ (v = call[c].worker => c \in Using(v))
    BY <1>1, <1>2, NoneAssumption DEF Using, Free
  <1>4. Held(v)' = Held(v)
    BY DEF Held
  <1>5. ASSUME v # call[c].worker PROVE Owing(v)' \subseteq Owing(v)
    BY <1>1, <1>2, <1>4, <1>5 DEF Owing
  <1>6. ASSUME v = call[c].worker, NEW i \in Jobs, i \in Owing(v)', i \notin Owing(v)
        PROVE  i = call[c].job /\ (i = j \/ i \in Held(v))
    <2>1. i # None
      BY NoneAssumption
    <2>2. CASE call[c].waits
      <3>1. wk'[v] = [at |-> at, job |-> j] /\ wk[v].job = call[c].job
        BY <1>1, <1>2, <1>6, <2>2 DEF Matching, CallMatches, Awaits
      <3>2. CASE i = j
        BY <2>1, <3>2
      <3>3. CASE i # j
        <4>1. i \in Held(v) /\ \A d \in Calls : call'[d].job = i => call'[d].worker # v
          BY <1>4, <1>6, <3>1, <3>3 DEF Owing
        <4>2. wk[v].job = i \/ call[c].job = i
          BY <1>1, <1>6, <4>1 DEF Owing
        <4> QED BY <3>1, <4>1, <4>2
      <3> QED BY <3>2, <3>3
    <2>3. CASE ~call[c].waits
      <3>1. wk'[v] = wk[v]
        BY <1>1, <2>3
      <3>2. i \in Held(v) /\ \A d \in Calls : call'[d].job = i => call'[d].worker # v
        BY <1>4, <1>6, <3>1 DEF Owing
      <3>3. wk[v].job # i
        BY <1>4, <1>6, <3>1, <3>2 DEF Owing
      <3>4. call[c].job = i
        BY <1>1, <1>6, <3>2, <3>3 DEF Owing
      <3> QED BY <3>2, <3>4
    <2> QED BY <2>2, <2>3
  <1>7. ASSUME call[c].job \in Jobs PROVE Owing(v)' \subseteq Owing(v) \cup {call[c].job}
    BY <1>5, <1>6 DEF Owing
  <1>8. ASSUME j = None, call[c].job = None \/ ~Holds(c) PROVE Owing(v)' \subseteq Owing(v)
    <2> SUFFICES ASSUME v = call[c].worker, NEW i \in Jobs, i \in Owing(v)', i \notin Owing(v) PROVE FALSE
      BY <1>5 DEF Owing
    <2>1. i = call[c].job /\ (i = j \/ i \in Held(v))
      BY <1>6
    <2> QED BY <1>8, <2>1, NoneAssumption DEF Held, Holds
  <1> QED BY <1>3, <1>5, <1>7, <1>8

\* A call that moves on keeps its place; one that has incremented the count gets one.
LEMMA ThenPlaces ==
    ASSUME TypeOK, NEW c \in Calls, NEW pc, Then(c, pc), UNCHANGED wk, NEW v \in Workers,
           Held(v)' \subseteq Held(v)
    PROVE  /\ Owing(v)' \subseteq Owing(v)
           /\ pc # "increment" => Using(v)' \subseteq Using(v) \cup {c}
           /\ call[c].pc # "increment" \/ call[c].worker # v => Using(v)' \subseteq Using(v)
  BY DEF Then, Owing, Using, TypeOK, Call

\* Claim c takes job j.
Takes(c, j) ==
    /\ job' = [job EXCEPT ![j].holder = call[c].worker, ![j].stale = FALSE]
    /\ Return(c, "working", j)

\* A job taken over is stranded: its place is the one taken off the old holder's count.
LEMMA PickPlaces ==
    ASSUME TypeOK, Matching, NEW c \in Calls, NEW j \in Claimable, OldAtRest(j),
           call[c].pc = "pick", Takes(c, j), NEW v \in Workers
    PROVE  /\ Using(v)' = Using(v) \ {c}
           /\ v = call[c].worker => c \in Using(v) /\ Owing(v)' \subseteq Owing(v) \cup {j}
           /\ v # call[c].worker => Owing(v)' \subseteq Owing(v)
           /\ v # call[c].worker /\ v = job[j].holder
                => j \in Owing(v) /\ Owing(v)' \subseteq Owing(v) \ {j}
  <1>1. /\ call'[c] = Free
        /\ \A d \in Calls : d # c => call'[d] = call[d]
        /\ call[c].waits /\ call[c].worker \in Workers
             => wk'[call[c].worker] = [at |-> "working", job |-> j]
        /\ \A w \in Workers : ~(call[c].waits /\ w = call[c].worker) => wk'[w] = wk[w]
    BY ReturnEffect DEF Takes
  <1>2. /\ call[c].worker \in Workers /\ call[c].job = None
        /\ j \in Jobs /\ j # None /\ job[j].st = "uploading"
        /\ job[j].holder = None \/ job[j].stale
    BY NoneAssumption DEF TypeOK, Call, Matching, CallMatches, InComplete, InFail, Claimable
  <1>3. Using(v)' = Using(v) \ {c} /\ (v = call[c].worker => c \in Using(v))
    BY <1>1, <1>2, NoneAssumption DEF Using, Free
  <1>4. \A i \in Jobs : i # j => (i \in Held(v)' <=> i \in Held(v))
    BY <1>2 DEF Takes, Held, TypeOK
  <1>5. v # call[c].worker => j \notin Held(v)'
    BY <1>2 DEF Takes, Held, TypeOK, JobRow
  <1>6. ASSUME v = call[c].worker, NEW i \in Jobs, i \in Owing(v)', i # j PROVE i \in Owing(v)
    <2>1. CASE call[c].waits
      <3>1. wk'[v] = [at |-> "working", job |-> j] /\ wk[v].job = None
        BY <1>1, <1>2, <1>6, <2>1 DEF Matching, CallMatches, Awaits
      <3>2. i \in Held(v)
        BY <1>4, <1>6, <3>1 DEF Owing
      <3>3. \A d \in Calls : call[d].job = i => call[d].worker # v
        BY <1>1, <1>2, <1>6, <3>1, NoneAssumption DEF Owing
      <3> QED BY <3>1, <3>2, <3>3, NoneAssumption DEF Owing
    <2>2. CASE ~call[c].waits
      BY <1>1, <1>2, <1>4, <1>6, <2>2, NoneAssumption DEF Owing
    <2> QED BY <2>1, <2>2
  <1>7. ASSUME v # call[c].worker, NEW i \in Jobs, i \in Owing(v)' PROVE i \in Owing(v)
    <2>1. wk'[v] = wk[v]
      BY <1>1, <1>7
    <2>2. CASE i = j
      BY <1>5, <1>7, <2>1, <2>2 DEF Owing
    <2>3. CASE i # j
      BY <1>1, <1>2, <1>4, <1>7, <2>1, <2>3, NoneAssumption DEF Owing
    <2> QED BY <2>2, <2>3
  <1>8. ASSUME v # call[c].worker, v = job[j].holder PROVE j \in Owing(v) /\ j \notin Owing(v)'
    <2>1. job[j].stale /\ j \in Held(v)
      BY <1>2, <1>8, NoneAssumption DEF Held
    <2>2. wk[v].job # j /\ wk'[v] = wk[v]
      BY <1>1, <1>2, <1>8, <2>1 DEF OldAtRest, AtRest
    <2>3. j \in Owing(v)
      BY <1>2, <2>1, <2>2 DEF OldAtRest, AtRest, Owing
    <2>4. j \notin Owing(v)'
      BY <1>5, <1>8, <2>2 DEF Owing
    <2> QED BY <2>3, <2>4
  <1> QED BY <1>3, <1>6, <1>7, <1>8 DEF Owing

\* The steps of a claim keep the places within the counts.
LEMMA ClaimCounted ==
    ASSUME TypeOK, TypeOK', Matching, PlacesCounted, \A j \in Jobs : OldAtRest(j),
           NEW c \in Calls, Claim(c)
    PROVE  PlacesCounted'
  <1> SUFFICES ASSUME NEW v \in Workers PROVE Counted(v)'
    BY DEF PlacesCounted
  <1>c. Counted(v) /\ count \in [Workers -> 0..Max]
    BY DEF PlacesCounted, TypeOK
  <1>w. call[c].pc # "free" => call[c].worker \in Workers
    BY DEF TypeOK, Call, Matching, CallMatches
  <1>n. call[c].pc \in InClaim => call[c].job = None
    BY DEF Matching, CallMatches, InClaim, InComplete, InFail
  <1>1. CASE Increment(c)
    <2>1. call[c].pc = "increment" /\ job' = job
      BY <1>1 DEF Increment, Serve
    <2>2. Held(v)' = Held(v)
      BY <2>1 DEF Held
    <2>3. CASE count[call[c].worker] < Max
      <3>1. Then(c, "pick") /\ wk' = wk /\ count' = [count EXCEPT ![call[c].worker] = @ + 1]
        BY <1>1, <2>3 DEF Increment
      <3>2. Owing(v)' \subseteq Owing(v)
        BY <2>2, <3>1, ThenPlaces
      <3>3. CASE v = call[c].worker
        <4>1. Using(v)' \subseteq Using(v) \cup {c} /\ count'[v] = count[v] + 1
          BY <1>c, <2>2, <3>1, <3>3, ThenPlaces
        <4> QED BY <1>c, <3>2, <4>1, CountedMoves
      <3>4. CASE v # call[c].worker
        <4>1. Using(v)' \subseteq Using(v) /\ count'[v] = count[v]
          BY <1>c, <2>2, <3>1, <3>4, ThenPlaces
        <4> QED BY <1>c, <3>2, <4>1, CountedMoves
      <3> QED BY <3>3, <3>4
    <2>4. CASE ~(count[call[c].worker] < Max)
      <3>1. Return(c, "idle", None) /\ count' = count
        BY <1>1, <2>4 DEF Increment
      <3>2. Using(v)' \subseteq Using(v)
        <4>1. call'[c] = Free /\ \A d \in Calls : d # c => call'[d] = call[d]
          BY <3>1, ReturnEffect
        <4> QED BY <4>1, NoneAssumption DEF Using, Free
      <3>3. Owing(v)' \subseteq Owing(v)
        <4>1. /\ call'[c] = Free
              /\ \A d \in Calls : d # c => call'[d] = call[d]
              /\ call[c].waits => wk'[call[c].worker] = Resting
              /\ \A w \in Workers : ~(call[c].waits /\ w = call[c].worker) => wk'[w] = wk[w]
          BY <1>w, <2>1, <3>1, ReturnEffect DEF Resting
        <4>2. call[c].job = None
          BY <1>n, <2>1 DEF InClaim
        <4>3. \A d \in Calls : call[d].job # None => call'[d] = call[d]
          BY <4>1, <4>2
        <4>4. CASE call[c].waits /\ v = call[c].worker
          <5>1. wk'[v] = Resting /\ wk[v].job = None
            BY <4>1, <4>2, <4>4 DEF Matching, CallMatches, Awaits
          <5> QED BY <2>2, <4>3, <5>1, NoneAssumption DEF Owing, Resting
        <4>5. CASE ~(call[c].waits /\ v = call[c].worker)
          <5>1. wk'[v] = wk[v]
            BY <4>1, <4>5
          <5> QED BY <2>2, <4>3, <5>1, NoneAssumption DEF Owing
        <4> QED BY <4>4, <4>5
      <3> QED BY <1>c, <3>1, <3>2, <3>3, CountedMoves
    <2> QED BY <2>3, <2>4
  <1>2. CASE Pick(c)
    <2>0. call[c].pc = "pick"
      BY <1>2 DEF Pick, Serve
    <2>1. CASE Claimable = {}
      <3>1. Then(c, "undo") /\ UNCHANGED <<job, count, wk>>
        BY <1>2, <2>1 DEF Pick
      <3>2. Held(v)' = Held(v)
        BY <3>1 DEF Held
      <3>3. Owing(v)' \subseteq Owing(v) /\ Using(v)' \subseteq Using(v)
        BY <2>0, <3>1, <3>2, ThenPlaces
      <3> QED BY <1>c, <3>1, <3>3, CountedMoves
    <2>2. CASE Claimable # {}
      <3>1. PICK j \in Claimable :
              /\ count' = [w \in Workers |-> IF w = job[j].holder /\ w # call[c].worker
                                             THEN Less(count[w]) ELSE count[w]]
              /\ job' = [job EXCEPT ![j].holder = call[c].worker, ![j].stale = FALSE]
              /\ Return(c, "working", j)
        BY <1>2, <2>2 DEF Pick
      <3>6. Takes(c, j)
        BY <3>1 DEF Takes
      <3>2. j \in Jobs
        BY DEF Claimable
      <3>7. OldAtRest(j)
        BY <3>2
      <3>3. CASE v = call[c].worker
        <4>1. /\ Using(v)' = Using(v) \ {c} /\ c \in Using(v)
              /\ Owing(v)' \subseteq Owing(v) \cup {j}
          BY <2>0, <3>6, <3>7, <3>3, PickPlaces
        <4>2. count'[v] = count[v]
          BY <3>1, <3>3
        <4> QED BY <1>c, <3>2, <4>1, <4>2, CountedMoves
      <3>4. CASE v # call[c].worker /\ v = job[j].holder
        <4>1. /\ Using(v)' \subseteq Using(v) /\ j \in Owing(v)
              /\ Owing(v)' \subseteq Owing(v) \ {j}
          BY <2>0, <3>6, <3>7, <3>4, PickPlaces
        <4>2. count'[v] = Less(count[v])
          BY <3>1, <3>4
        <4> QED BY <1>c, <4>1, <4>2, CountedMoves
      <3>5. CASE v # call[c].worker /\ v # job[j].holder
        <4>1. /\ Using(v)' \subseteq Using(v)
              /\ Owing(v)' \subseteq Owing(v)
          BY <2>0, <3>6, <3>7, <3>5, PickPlaces
        <4>2. count'[v] = count[v]
          BY <3>1, <3>5
        <4> QED BY <1>c, <4>1, <4>2, CountedMoves
      <3> QED BY <3>3, <3>4, <3>5
    <2> QED BY <2>1, <2>2
  <1>3. CASE PickThrows(c)
    <2>1. Then(c, "undo") /\ UNCHANGED <<job, count, wk>> /\ call[c].pc = "pick"
      BY <1>3 DEF PickThrows, Serve
    <2>2. Held(v)' = Held(v)
      BY <2>1 DEF Held
    <2>3. Owing(v)' \subseteq Owing(v) /\ Using(v)' \subseteq Using(v)
      BY <2>1, <2>2, ThenPlaces
    <2> QED BY <1>c, <2>1, <2>3, CountedMoves
  <1>4. CASE Undo(c)
    <2>1. /\ Return(c, "idle", None) /\ call[c].pc = "undo" /\ job' = job
          /\ count' = [count EXCEPT ![call[c].worker] = Less(@)]
      BY <1>4 DEF Undo, Serve
    <2>2. call[c].job = None
      BY <1>n, <2>1 DEF InClaim
    <2>3. /\ Using(v)' = Using(v) \ {c} /\ (v = call[c].worker => c \in Using(v))
          /\ Owing(v)' \subseteq Owing(v)
      BY <2>1, <2>2, ReturnPlaces
    <2>4. count'[v] = IF v = call[c].worker THEN Less(count[v]) ELSE count[v]
      BY <1>c, <2>1
    <2> QED BY <1>c, <2>3, <2>4, CountedMoves
  <1>5. CASE UndoThrows(c)
    <2>1. Return(c, "idle", None) /\ call[c].pc = "undo" /\ UNCHANGED <<job, count>>
      BY <1>5 DEF UndoThrows, Serve
    <2>2. call[c].job = None
      BY <1>n, <2>1 DEF InClaim
    <2>3. Using(v)' \subseteq Using(v) /\ Owing(v)' \subseteq Owing(v)
      BY <2>1, <2>2, ReturnPlaces
    <2> QED BY <1>c, <2>1, <2>3, CountedMoves
  <1> QED BY <1>1, <1>2, <1>3, <1>4, <1>5 DEF Claim

\* The steps of a completion or a failure keep the places within the counts.
LEMMA EndCounted ==
    ASSUME TypeOK, TypeOK', Matching, PlacesCounted, NEW c \in Calls, End(c)
    PROVE  PlacesCounted'
  <1> SUFFICES ASSUME NEW v \in Workers PROVE Counted(v)'
    BY DEF PlacesCounted
  <1>c. Counted(v) /\ count \in [Workers -> 0..Max]
    BY DEF PlacesCounted, TypeOK
  <1>j. call[c].pc \in InComplete \cup InFail => call[c].job \in Jobs /\ call[c].job # None
    BY DEF TypeOK, Call, Matching, CallMatches
  <1>1. CASE CompleteRead(c) \/ CompleteCas(c) \/ FailCas(c) \/ (FailRead(c) /\ Holds(c))
    <2>1. PICK pc : Then(c, pc) /\ call[c].pc # "increment" /\ UNCHANGED <<count, wk>>
      BY <1>1 DEF CompleteRead, CompleteCas, FailCas, FailRead, Serve
    <2>2. Held(v)' \subseteq Held(v)
      BY <1>1, <1>j DEF CompleteRead, CompleteCas, FailCas, FailRead, Held, TypeOK, JobRow, Serve, InComplete, InFail
    <2>3. Owing(v)' \subseteq Owing(v) /\ Using(v)' \subseteq Using(v)
      BY <2>1, <2>2, ThenPlaces
    <2> QED BY <1>c, <2>1, <2>3, CountedMoves
  <1>2. CASE CompleteRefused(c) \/ (EndThrows(c) /\ call[c].pc = "completeDone")
    <2>1. /\ Return(c, "broken", call[c].job) /\ UNCHANGED <<job, count>>
          /\ call[c].pc \in InComplete /\ call[c].job \in Jobs
      BY <1>2, <1>j DEF CompleteRefused, EndThrows, Serve, InComplete
    <2>2. /\ Using(v)' = Using(v) \ {c} /\ (v = call[c].worker => c \in Using(v))
          /\ v # call[c].worker => Owing(v)' \subseteq Owing(v)
          /\ Owing(v)' \subseteq Owing(v) \cup {call[c].job}
      BY <1>j, <2>1, ReturnPlaces DEF InComplete
    <2>3. CASE v = call[c].worker
      <3>1. c \in Using(v) /\ count'[v] = count[v]
        BY <2>1, <2>2, <2>3
      <3> QED BY <1>c, <2>1, <2>2, <3>1, CountedMoves
    <2>4. CASE v # call[c].worker
      <3>1. /\ Owing(v)' \subseteq Owing(v) /\ Using(v)' \subseteq Using(v) /\ count'[v] = count[v]
        BY <2>1, <2>2, <2>4
      <3> QED BY <1>c, <3>1, CountedMoves
    <2> QED BY <2>3, <2>4
  <1>3. CASE CompleteDone(c) \/ FailDone(c) \/ (FailRead(c) /\ ~Holds(c))
             \/ (EndThrows(c) /\ call[c].pc # "completeDone")
    <2>1. /\ Return(c, "idle", None) /\ UNCHANGED job
          /\ call[c].pc \in {"completeDone", "failDone", "failRead"} /\ ~Holds(c)
      BY <1>3 DEF CompleteDone, FailDone, FailRead, EndThrows, Serve, Matching, CallMatches, AfterUpdate, Holds
    <2>2. /\ Using(v)' = Using(v) \ {c} /\ (v = call[c].worker => c \in Using(v))
          /\ Owing(v)' \subseteq Owing(v)
      BY <2>1, ReturnPlaces
    <2>3. count'[v] = count[v] \/ (v = call[c].worker /\ count'[v] = Less(count[v]))
      BY <1>c, <1>3 DEF CompleteDone, FailDone, FailRead, EndThrows
    <2> QED BY <1>c, <2>2, <2>3, CountedMoves
  <1> QED BY <1>1, <1>2, <1>3 DEF End

\* Every job a worker holds has its place in activeJobCount, through crashes,
\* failing statements, takeovers, second dispatches and endings by others, if no
\* connection is lost and uploads are shorter than the claim timeout.
THEOREM HeldJobsAreCounted ==
    ASSUME "lost" \notin FaultKinds, "slow" \notin FaultKinds
    PROVE  Spec => []HeldIsCounted
  <1>1. Init => PlacesCounted
    <2> SUFFICES ASSUME Init, NEW w \in Workers PROVE Counted(w)
      BY DEF PlacesCounted
    <2>1. Owing(w) = {} /\ Using(w) = {}
      BY NoneAssumption DEF Init, Owing, Using, Held, Resting, Free
    <2>2. Cardinality({}) = 0
      BY FS_EmptySet
    <2> QED BY <2>1, <2>2 DEF Counted, Init
  <1> DEFINE Rested == \A j \in Jobs : OldAtRest(j)
  <1>4. Init => Rested
    BY DEF Init, OldAtRest
  <1>5. TypeOK /\ Matching /\ Rested /\ [Next]_vars => Rested'
    BY RestsWhenOld DEF Age, Fault
  <1>2. TypeOK /\ TypeOK' /\ Matching /\ Rested /\ PlacesCounted /\ [Next]_vars => PlacesCounted'
    <2> SUFFICES ASSUME TypeOK, TypeOK', Matching, Rested, PlacesCounted, [Next]_vars PROVE PlacesCounted'
      OBVIOUS
    <2>1. CASE \E j \in Jobs : Job(j)
      BY <2>1, JobCounted
    <2>2. CASE \E w \in Workers : ClaimCall(w) \/ Work(w) \/ Crash(w)
      BY <2>2, WorkerCounted
    <2>3. CASE \E c \in Calls : Route(c) \/ ConnectionLost(c)
      BY <2>3, ClaimCounted, EndCounted DEF Route, ConnectionLost, Fault
    <2>4. CASE UNCHANGED vars
      BY <2>4 DEF PlacesCounted, Counted, Owing, Using, Held, vars
    <2> QED BY <2>1, <2>2, <2>3, <2>4 DEF Next
  <1>3. TypeOK /\ Matching /\ PlacesCounted => HeldIsCounted
    BY HeldHasPlace DEF PlacesCounted, HeldIsCounted
  <1> QED BY PoolTyped, PoolMatching, <1>1, <1>2, <1>3, <1>4, <1>5, PTL DEF Spec

-----------------------------------------------------------------------------
\* Whoever is at job j holds it.
Own(j) ==
    /\ \A c \in Calls : call[c].job = j => job[j].holder = call[c].worker
    /\ \A w \in Workers : wk[w].job = j => job[j].holder = w

\* A call that is started is about the job its worker holds.
LEMMA StartOwn ==
    ASSUME TypeOK, NEW j \in Jobs, Own(j), NEW w \in Workers, NEW at, NEW pc, Start(w, at, pc),
           UNCHANGED job
    PROVE  Own(j)'
  BY DEF TypeOK, Own, Start, Process, Call

\* A call that moves on keeps its job.
LEMMA ThenOwn ==
    ASSUME TypeOK, NEW j \in Jobs, Own(j), NEW c \in Calls, NEW pc, Then(c, pc), UNCHANGED wk,
           job'[j].holder = job[j].holder
    PROVE  Own(j)'
  BY DEF TypeOK, Own, Then, Call

\* A call that returns gives its worker back the job it had.
LEMMA ReturnOwn ==
    ASSUME TypeOK, Matching, NEW j \in Jobs, Own(j), NEW c \in Calls, NEW at, NEW i, Return(c, at, i),
           call[c].pc # "free", i \in {None, call[c].job}, UNCHANGED job
    PROVE  Own(j)'
  <1>1. /\ call'[c] = Free
        /\ \A d \in Calls : d # c => call'[d] = call[d]
        /\ call[c].waits /\ call[c].worker \in Workers
             => wk'[call[c].worker] = [at |-> at, job |-> i]
        /\ \A w \in Workers : ~(call[c].waits /\ w = call[c].worker) => wk'[w] = wk[w]
    BY ReturnEffect
  <1> QED BY <1>1, NoneAssumption DEF Own, Free, Matching, CallMatches

\* Nobody is at a job that can be claimed.
LEMMA TakesOwn ==
    ASSUME TypeOK, Matching, NEW j \in Jobs, Own(j), OldAtRest(j), NEW c \in Calls,
           NEW i \in Claimable, Takes(c, i), call[c].pc = "pick"
    PROVE  Own(j)'
  <1>1. /\ call'[c] = Free
        /\ \A d \in Calls : d # c => call'[d] = call[d]
        /\ call[c].waits /\ call[c].worker \in Workers
             => wk'[call[c].worker] = [at |-> "working", job |-> i]
        /\ \A w \in Workers : ~(call[c].waits /\ w = call[c].worker) => wk'[w] = wk[w]
    BY ReturnEffect DEF Takes
  <1>2. i \in Jobs /\ call[c].worker \in Workers /\ j # None
    BY NoneAssumption DEF Claimable, TypeOK, Call, Matching, CallMatches
  <1>3. job'[i].holder = call[c].worker /\ \A k \in Jobs : k # i => job'[k] = job[k]
    BY <1>2 DEF Takes, TypeOK, JobRow
  <1>4. CASE i # j
    BY <1>1, <1>2, <1>3, <1>4 DEF Own, Free
  <1>5. CASE i = j
    <2>1. AtRest(j)
      <3>1. CASE job[j].stale
        BY <3>1 DEF OldAtRest
      <3>2. CASE job[j].holder = None
        BY <1>2, <3>2, NoneAssumption DEF Own, AtRest, Matching, CallMatches, InComplete, InFail
      <3> QED BY <1>5, <3>1, <3>2 DEF Claimable
    <2> QED BY <1>1, <1>2, <1>3, <1>5, <2>1 DEF AtRest, Own, Free
  <1> QED BY <1>4, <1>5

\* The UPDATE of a completion writes the holder that the row has.
LEMMA UpdateOwn ==
    ASSUME TypeOK, Matching, NEW j \in Jobs, Own(j), NEW c \in Calls, CompleteCas(c) \/ FailCas(c)
    PROVE  Own(j)'
  <1>1. /\ call[c].job \in Jobs /\ wk' = wk
        /\ \A i \in Jobs : i # call[c].job => job'[i] = job[i]
        /\ \A d \in Calls : call'[d].job = call[d].job /\ call'[d].worker = call[d].worker
    BY UpdateEffect
  <1>2. job'[j].holder = job[j].holder
    <2>1. CASE j # call[c].job
      BY <1>1, <2>1
    <2>2. CASE j = call[c].job
      <3>1. job[j].holder = call[c].worker
        BY <2>2 DEF Own
      <3> QED BY <1>1, <2>2, <3>1 DEF CompleteCas, FailCas, TypeOK, JobRow
    <2> QED BY <2>1, <2>2
  <1> QED BY <1>1, <1>2 DEF Own

\* Every step leaves what is at hand with its holder, if no second dispatch takes it.
LEMMA NextOwn ==
    ASSUME TypeOK, Matching, NEW j \in Jobs, Own(j), OldAtRest(j), [Next]_vars,
           DispatchAgain(j) => AtHand(j) = {}
    PROVE  Own(j)'
  <1>n. j # None
    BY NoneAssumption
  <1>1. ASSUME NEW i \in Jobs, Job(i) PROVE Own(j)'
    <2>1. UNCHANGED <<call, wk>>
      BY <1>1 DEF Job, Dispatch, DispatchAgain, EndedByOthers, Age
    <2>2. CASE DispatchAgain(i) /\ i = j
      BY <2>1, <2>2, NobodyAtHand DEF Own, AtRest
    <2>3. CASE ~(DispatchAgain(i) /\ i = j)
      <3>1. job'[j].holder = job[j].holder
        BY <1>1, <2>3 DEF Job, Dispatch, DispatchAgain, EndedByOthers, Age, TypeOK, JobRow
      <3> QED BY <2>1, <3>1 DEF Own
    <2> QED BY <2>2, <2>3
  <1>2. ASSUME NEW w \in Workers, ClaimCall(w) \/ Work(w) PROVE Own(j)'
    <2>1. CASE UploadFails(w)
      BY <2>1 DEF UploadFails, Own, TypeOK, Process
    <2> QED BY <1>2, <2>1, StartOwn DEF ClaimCall, Work, CompleteCall, FailCall
  <1>3. ASSUME NEW w \in Workers, Crash(w) PROVE Own(j)'
    BY <1>3, <1>n DEF Crash, Own, TypeOK, Process, Call, Resting
  <1>4. ASSUME NEW c \in Calls, Claim(c) PROVE Own(j)'
    <2>1. CASE Pick(c)
      <3>1. CASE Claimable = {}
        BY <2>1, <3>1, ThenOwn DEF Pick
      <3>2. CASE Claimable # {}
        <4>1. PICK i \in Claimable : Takes(c, i)
          BY <2>1, <3>2 DEF Pick, Takes
        <4> QED BY <2>1, <4>1, TakesOwn DEF Pick, Serve
      <3> QED BY <3>1, <3>2
    <2>2. CASE Increment(c)
      BY <2>2, ThenOwn, ReturnOwn DEF Increment, Serve
    <2>3. CASE PickThrows(c)
      BY <2>3, ThenOwn DEF PickThrows
    <2>4. CASE Undo(c) \/ UndoThrows(c)
      BY <2>4, ReturnOwn DEF Undo, UndoThrows, Serve
    <2> QED BY <1>4, <2>1, <2>2, <2>3, <2>4 DEF Claim
  <1>5. ASSUME NEW c \in Calls, End(c) PROVE Own(j)'
    <2>1. CASE CompleteRead(c)
      BY <2>1, ThenOwn DEF CompleteRead
    <2>2. CASE CompleteRefused(c) \/ CompleteDone(c) \/ FailDone(c) \/ EndThrows(c)
      BY <2>2, ReturnOwn DEF CompleteRefused, CompleteDone, FailDone, EndThrows, Serve
    <2>3. CASE CompleteCas(c) \/ FailCas(c)
      BY <2>3, UpdateOwn
    <2>4. CASE FailRead(c)
      BY <2>4, ThenOwn, ReturnOwn DEF FailRead, Serve
    <2> QED BY <1>5, <2>1, <2>2, <2>3, <2>4 DEF End
  <1>6. ASSUME NEW c \in Calls, ConnectionLost(c) PROVE Own(j)'
    BY <1>6, <1>n DEF ConnectionLost, Own, TypeOK, Process, Call, Resting
  <1>7. CASE UNCHANGED vars
    BY <1>7 DEF Own, vars
  <1> QED BY <1>1, <1>2, <1>3, <1>4, <1>5, <1>6, <1>7 DEF Next, Route

\* A job that was never loosened is with its holder alone, and its claim grew old at rest.
FastAreOwn == \A j \in Jobs \ loose : Own(j) /\ OldAtRest(j)

\* A job grows loose only once, and by its second dispatch or its age.
LEMMA LooseGrows ==
    ASSUME [Next]_vars, NEW j \in Jobs, j \notin loose'
    PROVE  /\ j \notin loose
           /\ DispatchAgain(j) \/ Age(j) => AtHand(j) = {}
  <1>1. ASSUME DispatchAgain(j) \/ Age(j) PROVE AtHand(j) = {}
    BY <1>1 DEF DispatchAgain, Age, Loosened
  <1>2. loose \subseteq loose'
    BY DEF Next, Job, Dispatch, DispatchAgain, EndedByOthers, Age, Loosened, ClaimCall, Work, CompleteCall,
        UploadFails, FailCall, Crash, Route, Claim, Increment, Pick, PickThrows, Undo, UndoThrows, End,
        CompleteRead, CompleteRefused, CompleteCas, CompleteDone, FailRead, FailCas, FailDone, EndThrows,
        ConnectionLost, vars
  <1> QED BY <1>1, <1>2

\* Whatever crashes, throws, is lost, comes late or ends a job from outside, two workers
\* upload the same job only if its second dispatch, or the claim timeout, put it up for
\* claiming while somebody was at it.
THEOREM UploadersAreAlone == Spec => []OneUploader
  <1>1. Init => FastAreOwn
    BY NoneAssumption DEF Init, FastAreOwn, Own, OldAtRest, Resting, Free
  <1>2. TypeOK /\ Matching /\ FastAreOwn /\ [Next]_vars => FastAreOwn'
    BY NextOwn, RestsWhenOld, LooseGrows DEF FastAreOwn
  <1>3. TypeOK /\ Matching /\ FastAreOwn => OneUploader
    <2> SUFFICES ASSUME TypeOK, Matching, FastAreOwn, NEW v \in Workers, NEW w \in Workers,
                        wk[v].at = "working", wk[w] = wk[v], wk[v].job \notin loose
                 PROVE  v = w
      BY DEF OneUploader
    <2>1. wk[v].job \in Jobs /\ wk[w].job = wk[v].job
      BY DEF TypeOK, Process, Matching, WorkerMatches
    <2> QED BY <2>1 DEF FastAreOwn, Own
  <1> QED BY PoolTyped, PoolMatching, <1>1, <1>2, <1>3, PTL DEF Spec

-----------------------------------------------------------------------------
\* A call of a worker that nothing has befallen is waited for, and its only place is
\* the one of its job or of its claim.
CallExact(c) ==
    call[c].pc # "free" /\ call[c].worker \notin hit =>
        /\ call[c].waits
        /\ count[call[c].worker] = IF call[c].pc = "increment" THEN 0 ELSE 1
        /\ call[c].pc \in (InComplete \cup InFail) \ AfterUpdate
             => call[c].job \in Held(call[c].worker)

\* A worker that nothing has befallen holds the job it has at hand and no other, by a
\* claim that is not old; at rest it has no place.
WorkerExact(w) ==
    w \notin hit =>
        /\ \A j \in Held(w) : wk[w].job = j /\ ~job[j].stale
        /\ wk[w].at \in {"working", "broken"} => wk[w].job \in Held(w) /\ count[w] = 1
        /\ wk[w].at = "idle" => count[w] = 0

Exact == (\A c \in Calls : CallExact(c)) /\ \A w \in Workers : WorkerExact(w)

\* A step with one actor w, or none: it leaves every other worker that it does not
\* strike as it was, with the same jobs held by the same claims.
Spares(w) ==
    /\ hit \subseteq hit'
    /\ \A v \in Workers : v # w /\ v \notin hit' =>
           /\ wk'[v] = wk[v] /\ count'[v] = count[v]
           /\ \A j \in Jobs : /\ j \in Held(v)' <=> j \in Held(v)
                              /\ j \in Held(v) => job'[j].stale = job[j].stale
    /\ \A c \in Calls : call'[c].worker \notin hit' \cup {w} => call'[c] = call[c] \/ call'[c].pc = "free"

LEMMA SparesExact ==
    ASSUME TypeOK, Matching, Exact, TypeOK', Matching', NEW w, Spares(w),
           w \in Workers /\ w \notin hit'
             => WorkerExact(w)' /\ \A c \in Calls : call'[c].worker = w => CallExact(c)'
    PROVE  Exact'
  <1>1. ASSUME NEW v \in Workers PROVE WorkerExact(v)'
    <2>1. CASE v = w \/ v \in hit'
      BY <2>1 DEF WorkerExact
    <2>2. CASE v # w /\ v \notin hit'
      <3>1. /\ v \notin hit /\ wk'[v] = wk[v] /\ count'[v] = count[v]
            /\ \A j \in Jobs : /\ j \in Held(v)' <=> j \in Held(v)
                               /\ j \in Held(v) => job'[j].stale = job[j].stale
        BY <2>2 DEF Spares
      <3>2. WorkerExact(v) /\ Held(v) \subseteq Jobs /\ Held(v)' \subseteq Jobs
        BY DEF Exact, Held
      <3>3. wk[v].job \in Held(v) => wk[v].job \in Held(v)'
        BY <3>1, <3>2
      <3>4. \A j \in Held(v)' : wk[v].job = j /\ ~job'[j].stale
        BY <3>1, <3>2 DEF WorkerExact
      <3> HIDE DEF Held
      <3> QED BY <3>1, <3>2, <3>3, <3>4 DEF WorkerExact
    <2> QED BY <2>1, <2>2
  <1>2. ASSUME NEW c \in Calls PROVE CallExact(c)'
    <2>1. CASE call'[c].pc = "free" \/ call'[c].worker \in hit' \cup {w}
      <3>1. call'[c].pc # "free" => call'[c].worker \in Workers
        BY DEF TypeOK, Call, Matching, CallMatches
      <3> QED BY <2>1, <3>1 DEF CallExact
    <2>2. CASE call'[c].pc # "free" /\ call'[c].worker \notin hit' \cup {w}
      <3>1. call'[c] = call[c] /\ call[c].pc # "free"
        BY <2>2 DEF Spares
      <3>2. PICK v \in Workers : v = call[c].worker
        BY <3>1 DEF TypeOK, Call, Matching, CallMatches
      <3>3. /\ v \notin hit /\ count'[v] = count[v]
            /\ \A j \in Jobs : j \in Held(v) => j \in Held(v)'
        BY <2>2, <3>1, <3>2 DEF Spares
      <3>4. CallExact(c) /\ Held(v) \subseteq Jobs
        BY DEF Exact, Held
      <3> QED BY <3>1, <3>2, <3>3, <3>4 DEF CallExact
    <2> QED BY <2>1, <2>2
  <1> QED BY <1>1, <1>2 DEF Exact

\* What happens to a row strikes the workers whose counts it puts wrong.
LEMMA JobExact ==
    ASSUME TypeOK, Matching, Exact, TypeOK', Matching', NEW j \in Jobs, Job(j) PROVE Exact'
  <1>1. UNCHANGED <<count, wk, call>> /\ hit \subseteq hit'
    BY DEF Job, Dispatch, DispatchAgain, EndedByOthers, Age, Strikes
  <1>2. \A i \in Jobs : i # j => job'[i] = job[i]
    BY DEF Job, Dispatch, DispatchAgain, EndedByOthers, Age, TypeOK
  <1>3. ASSUME NEW v \in Workers, v \notin hit'
        PROVE  /\ j \in Held(v)' <=> j \in Held(v)
               /\ j \in Held(v) => job'[j].stale = job[j].stale
    <2>1. CASE Dispatch(j)
      BY <2>1, NoneAssumption DEF Dispatch, Held, TypeOK, JobRow, Matching, RowMatches
    <2>2. CASE DispatchAgain(j) \/ EndedByOthers(j)
      <3>1. job[j].holder # v
        BY <1>3, <2>2 DEF DispatchAgain, EndedByOthers, Strikes, Concerned
      <3> QED BY <2>2, <3>1, NoneAssumption DEF DispatchAgain, EndedByOthers, Held, TypeOK, JobRow
    <2>3. CASE Age(j)
      <3>1. wk[v].job # j /\ v \notin hit
        BY <1>3, <2>3 DEF Age, Strikes, AtHand
      <3>2. j \notin Held(v)
        BY <3>1 DEF Exact, WorkerExact
      <3> QED BY <2>3, <3>2 DEF Age, Held, TypeOK, JobRow
    <2> QED BY <2>1, <2>2, <2>3 DEF Job
  <1>4. Spares(None)
    <2>1. ASSUME NEW v \in Workers, v \notin hit', NEW i \in Jobs
          PROVE  /\ i \in Held(v)' <=> i \in Held(v)
                 /\ i \in Held(v) => job'[i].stale = job[i].stale
      BY <1>2, <1>3, <2>1 DEF Held
    <2> QED BY <1>1, <2>1 DEF Spares
  <1> QED BY <1>4, SparesExact, NoneAssumption

\* The call of a worker that nothing has befallen is its only one.
LEMMA OnlyCall ==
    ASSUME TypeOK, Matching, Exact, NEW c \in Calls, call[c].pc # "free", call[c].worker \notin hit
    PROVE  LET w == call[c].worker IN
           /\ w \in Workers /\ call[c].waits /\ wk[w].job = call[c].job
           /\ wk[w].at \in {"claiming", "completing", "failing"}
           /\ count[w] = IF call[c].pc = "increment" THEN 0 ELSE 1
           /\ \A d \in Calls : d # c => call[d].worker # w
           /\ \A j \in Held(w) : j = call[c].job
           /\ call[c].pc \in (InComplete \cup InFail) \ AfterUpdate => call[c].job \in Held(w)
           /\ call[c].pc \notin (InComplete \cup InFail) \ AfterUpdate => Held(w) = {}
  <1>1. PICK w \in Workers : w = call[c].worker
    BY DEF TypeOK, Call, Matching, CallMatches
  <1>2. /\ call[c].waits /\ count[w] = IF call[c].pc = "increment" THEN 0 ELSE 1
        /\ call[c].pc \in (InComplete \cup InFail) \ AfterUpdate => call[c].job \in Held(w)
    BY <1>1 DEF Exact, CallExact
  <1>3. wk[w].job = call[c].job /\ wk[w].at \in {"claiming", "completing", "failing"}
    BY <1>1, <1>2 DEF Matching, CallMatches, Awaits
  <1>4. ASSUME NEW d \in Calls, d # c, call[d].worker = w PROVE FALSE
    <2>1. call[d].pc # "free" /\ call[d].worker \notin hit
      BY <1>1, <1>4, NoneAssumption DEF Matching, CallMatches
    <2>2. call[d].waits
      BY <2>1 DEF Exact, CallExact
    <2> QED BY <1>1, <1>2, <1>4, <2>2 DEF Matching, OneAwaited
  <1>5. \A j \in Held(w) : j = call[c].job
    BY <1>1, <1>3 DEF Exact, WorkerExact
  <1>6. ASSUME call[c].pc \notin (InComplete \cup InFail) \ AfterUpdate PROVE Held(w) = {}
    <2>1. call[c].job = None \/ job[call[c].job].st # "uploading"
      BY <1>6 DEF Matching, CallMatches
    <2> QED BY <1>5, <2>1, NoneAssumption DEF Held
  <1> QED BY <1>1, <1>2, <1>3, <1>4, <1>5, <1>6

\* A call that starts takes over the place of its worker.
LEMMA StartExact ==
    ASSUME TypeOK, Matching, Exact, TypeOK', Matching', NEW w \in Workers,
           ClaimCall(w) \/ CompleteCall(w) \/ FailCall(w)
    PROVE  Exact'
  <1>1. PICK c \in Calls, pc \in {"increment", "completeRead", "failRead"},
          at \in {"claiming", "completing", "failing"} :
          /\ \/ wk[w].at = "idle" /\ at = "claiming" /\ pc = "increment"
             \/ /\ wk[w].at \in {"working", "broken"} /\ at \in {"completing", "failing"}
                /\ pc \in {"completeRead", "failRead"}
          /\ call[c].pc = "free"
          /\ call' = [call EXCEPT ![c] = [pc |-> pc, worker |-> w, job |-> wk[w].job,
                                          waits |-> TRUE]]
          /\ wk' = [wk EXCEPT ![w].at = at]
          /\ UNCHANGED <<job, count, hit>>
    BY DEF ClaimCall, CompleteCall, FailCall, Start, Serve
  <1>2. /\ call'[c] = [pc |-> pc, worker |-> w, job |-> wk[w].job, waits |-> TRUE]
        /\ \A d \in Calls : d # c => call'[d] = call[d]
        /\ wk'[w] = [wk[w] EXCEPT !.at = at] /\ \A v \in Workers : v # w => wk'[v] = wk[v]
    BY <1>1 DEF TypeOK
  <1>h. \A v \in Workers : Held(v)' = Held(v)
    BY <1>1 DEF Held
  <1>3. Spares(w)
    BY <1>1, <1>2, <1>h DEF Spares
  <1>4. ASSUME w \notin hit PROVE WorkerExact(w)' /\ \A d \in Calls : call'[d].worker = w => CallExact(d)'
    <2>1. /\ \A j \in Held(w) : wk[w].job = j /\ ~job[j].stale
          /\ pc = "increment" => count[w] = 0
          /\ pc # "increment" => count[w] = 1 /\ wk[w].job \in Held(w)
      BY <1>1, <1>4 DEF Exact, WorkerExact
    <2>2. wk'[w].job = wk[w].job /\ wk'[w].at = at
      BY <1>2 DEF TypeOK, Process
    <2>3. WorkerExact(w)'
      BY <1>1, <1>h, <2>1, <2>2 DEF WorkerExact
    <2>4. CallExact(c)'
      BY <1>1, <1>2, <1>h, <2>1 DEF CallExact, InComplete, InFail
    <2>5. ASSUME NEW d \in Calls, d # c PROVE call'[d].worker # w
      <3>1. CASE call[d].pc = "free"
        BY <1>2, <2>5, <3>1, NoneAssumption DEF Matching, CallMatches
      <3>2. CASE call[d].pc # "free" /\ call[d].worker = w
        <4>1. wk[w].at \in {"claiming", "completing", "failing"}
          BY <1>4, <3>2, OnlyCall
        <4> QED BY <1>1, <4>1
      <3> QED BY <1>2, <2>5, <3>1, <3>2
    <2> QED BY <2>3, <2>4, <2>5
  <1> QED BY <1>1, <1>3, <1>4, SparesExact

\* A worker that dies or loses its connection is struck.
LEMMA StruckExact ==
    ASSUME TypeOK, Matching, Exact, TypeOK', Matching', NEW w \in Workers, w \in hit', hit \subseteq hit',
           UNCHANGED <<job, count>>, \A v \in Workers : v # w => wk'[v] = wk[v],
           \A c \in Calls : call[c].worker # w => call'[c] = call[c] \/ call'[c].pc = "free",
           \A c \in Calls : call'[c].worker = call[c].worker \/ call'[c].pc = "free"
    PROVE  Exact'
  <1>1. \A v \in Workers : Held(v)' = Held(v)
    BY DEF Held
  <1>2. Spares(w)
    BY <1>1 DEF Spares
  <1> QED BY <1>2, SparesExact

\* A call that moves on keeps its place, or has just got it.
LEMMA ThenExact ==
    ASSUME TypeOK, Matching, Exact, TypeOK', Matching', NEW c \in Calls, NEW pc, Then(c, pc),
           call[c].pc # "free", pc \notin {"free", "increment"}, UNCHANGED <<wk, job, hit>>,
           \A v \in Workers : v # call[c].worker => count'[v] = count[v],
           call[c].worker \notin hit => count'[call[c].worker] = 1,
           pc \in (InComplete \cup InFail) \ AfterUpdate
             => call[c].pc \in (InComplete \cup InFail) \ AfterUpdate
    PROVE  Exact'
  <1>1. PICK w \in Workers : w = call[c].worker
    BY DEF TypeOK, Call, Matching, CallMatches
  <1>2. /\ call'[c].pc = pc /\ call'[c].worker = w /\ call'[c].job = call[c].job
        /\ call'[c].waits = call[c].waits
        /\ \A d \in Calls : d # c => call'[d] = call[d]
    BY <1>1 DEF Then, TypeOK, Call
  <1>h. \A v \in Workers : Held(v)' = Held(v)
    BY DEF Held
  <1>3. Spares(w)
    BY <1>1, <1>2, <1>h DEF Spares
  <1>4. ASSUME w \notin hit PROVE WorkerExact(w)' /\ \A d \in Calls : call'[d].worker = w => CallExact(d)'
    <2>1. /\ call[c].waits /\ wk[w].at \in {"claiming", "completing", "failing"}
          /\ \A d \in Calls : d # c => call[d].worker # w
          /\ call[c].pc \in (InComplete \cup InFail) \ AfterUpdate => call[c].job \in Held(w)
      BY <1>1, <1>4, OnlyCall
    <2>2. WorkerExact(w)'
      BY <1>4, <1>h, <2>1 DEF Exact, WorkerExact
    <2>3. CallExact(c)'
      BY <1>1, <1>2, <1>4, <1>h, <2>1 DEF CallExact
    <2> QED BY <1>2, <2>1, <2>2, <2>3
  <1> QED BY <1>1, <1>3, <1>4, SparesExact

\* A call that returns has given its place back, or leaves it to the job.
LEMMA ReturnExact ==
    ASSUME TypeOK, Matching, Exact, TypeOK', Matching', NEW c \in Calls, NEW at, NEW i,
           Return(c, at, i), call[c].pc # "free", UNCHANGED job, hit \subseteq hit',
           \A v \in Workers : v # call[c].worker => count'[v] = count[v],
           call[c].worker \notin hit' =>
             \/ at = "idle" /\ Held(call[c].worker) = {} /\ count'[call[c].worker] = 0
             \/ /\ at = "broken" /\ i = call[c].job /\ i \in Held(call[c].worker)
                /\ count'[call[c].worker] = 1
    PROVE  Exact'
  <1>1. PICK w \in Workers : w = call[c].worker
    BY DEF TypeOK, Call, Matching, CallMatches
  <1>2. /\ call'[c] = Free
        /\ \A d \in Calls : d # c => call'[d] = call[d]
        /\ call[c].waits => wk'[w] = [at |-> at, job |-> i]
        /\ \A v \in Workers : v # w => wk'[v] = wk[v]
    BY <1>1, ReturnEffect
  <1>h. \A v \in Workers : Held(v)' = Held(v)
    BY DEF Held
  <1>3. Spares(w)
    BY <1>1, <1>2, <1>h DEF Spares, Free
  <1>4. ASSUME w \notin hit' PROVE WorkerExact(w)' /\ \A d \in Calls : call'[d].worker # w
    <2>1. /\ call[c].waits /\ wk[w].job = call[c].job
          /\ \A d \in Calls : d # c => call[d].worker # w
      BY <1>1, <1>4, OnlyCall
    <2>2. \A d \in Calls : call'[d].worker # w
      BY <1>2, <2>1, NoneAssumption DEF Free
    <2>3. wk'[w].at = at /\ wk'[w].job = i
      BY <1>2, <2>1
    <2>4. CASE at = "idle" /\ Held(w) = {} /\ count'[w] = 0
      BY <1>h, <2>2, <2>3, <2>4 DEF WorkerExact
    <2>5. CASE at = "broken" /\ i = call[c].job /\ i \in Held(w) /\ count'[w] = 1
      BY <1>4, <1>h, <2>1, <2>2, <2>3, <2>5 DEF Exact, WorkerExact
    <2> QED BY <1>1, <1>4, <2>2, <2>4, <2>5
  <1> QED BY <1>1, <1>3, <1>4, SparesExact

\* A claim takes the one place it made; a job taken over is one of a struck worker.
LEMMA TakesExact ==
    ASSUME TypeOK, Matching, Exact, TypeOK', Matching', NEW c \in Calls, NEW j \in Claimable,
           Takes(c, j), call[c].pc = "pick", UNCHANGED hit,
           \A v \in Workers : v # job[j].holder => count'[v] = count[v],
           count'[call[c].worker] = count[call[c].worker]
    PROVE  Exact'
  <1>1. PICK w \in Workers : w = call[c].worker
    BY DEF TypeOK, Call, Matching, CallMatches
  <1>2. /\ call'[c] = Free
        /\ \A d \in Calls : d # c => call'[d] = call[d]
        /\ call[c].waits => wk'[w] = [at |-> "working", job |-> j]
        /\ \A v \in Workers : v # w => wk'[v] = wk[v]
    BY <1>1, ReturnEffect DEF Takes
  <1>3. /\ j \in Jobs /\ job[j].st = "uploading"
        /\ job[j].holder = None \/ job[j].stale
    BY DEF Claimable
  <1>4. /\ job'[j].holder = w /\ job'[j].st = "uploading" /\ ~job'[j].stale
        /\ \A i \in Jobs : i # j => job'[i] = job[i]
    BY <1>1, <1>3 DEF Takes, TypeOK, JobRow
  <1>5. \A v \in Workers \ hit : j \notin Held(v)
    BY <1>3, NoneAssumption DEF Exact, WorkerExact, Held
  <1>6. \A v \in Workers \ hit : count'[v] = count[v]
    BY <1>3, <1>5 DEF Held
  <1>7. Spares(w)
    <2>1. ASSUME NEW v \in Workers, v # w, v \notin hit
          PROVE  j \notin Held(v)' /\ j \notin Held(v)
      BY <1>4, <1>5, <2>1 DEF Held
    <2>2. \A v \in Workers, i \in Jobs : i # j => (i \in Held(v)' <=> i \in Held(v))
      BY <1>4 DEF Held
    <2>3. ASSUME NEW v \in Workers, v # w, v \notin hit, NEW i \in Jobs
          PROVE  /\ i \in Held(v)' <=> i \in Held(v)
                 /\ i \in Held(v) => job'[i].stale = job[i].stale
      BY <1>4, <2>1, <2>2, <2>3
    <2> QED BY <1>2, <1>6, <2>3 DEF Spares, Free
  <1>8. ASSUME w \notin hit PROVE WorkerExact(w)' /\ \A d \in Calls : call'[d].worker # w
    <2>1. /\ call[c].waits /\ count[w] = 1 /\ Held(w) = {}
          /\ \A d \in Calls : d # c => call[d].worker # w
      BY <1>1, <1>8, OnlyCall DEF InComplete, InFail
    <2>2. \A d \in Calls : call'[d].worker # w
      BY <1>2, <2>1, NoneAssumption DEF Free
    <2>3. Held(w)' = {j}
      BY <1>3, <1>4, <2>1 DEF Held
    <2> QED BY <1>1, <1>2, <1>4, <2>1, <2>2, <2>3 DEF WorkerExact
  <1> QED BY <1>7, <1>8, SparesExact

\* The UPDATE that ends a job takes it from the worker that waits for the call, and
\* strikes the others that are concerned.
LEMMA UpdateExact ==
    ASSUME TypeOK, Matching, Exact, TypeOK', Matching', NEW c \in Calls, CompleteCas(c) \/ FailCas(c)
    PROVE  Exact'
  <1>1. PICK j \in Jobs, w \in Workers : j = call[c].job /\ w = call[c].worker
    BY UpdateEffect
  <1>2. /\ UNCHANGED <<wk, count>>
        /\ call'[c].pc \in AfterUpdate /\ call[c].pc \notin {"free", "increment"}
        /\ call'[c].worker = w /\ call'[c].waits = call[c].waits
        /\ \A d \in Calls : d # c => call'[d] = call[d]
    BY <1>1, UpdateEffect DEF AfterUpdate
  <1>3. job'[j].st # "uploading" /\ \A i \in Jobs : i # j => job'[i] = job[i]
    BY <1>1, UpdateEffect
  <1>4. /\ hit \subseteq hit'
        /\ \A v \in Workers : v # w /\ v \notin hit' => j \notin Held(v)
    BY <1>1 DEF CompleteCas, FailCas, Strikes, Concerned, Held
  <1>5. Spares(w)
    <2>1. \A v \in Workers : j \notin Held(v)'
      BY <1>3 DEF Held
    <2>2. \A v \in Workers, i \in Jobs : i # j => (i \in Held(v)' <=> i \in Held(v))
      BY <1>3 DEF Held
    <2> QED BY <1>2, <1>3, <1>4, <2>1, <2>2 DEF Spares
  <1>6. ASSUME w \notin hit PROVE WorkerExact(w)' /\ \A d \in Calls : call'[d].worker = w => CallExact(d)'
    <2>1. /\ call[c].waits /\ wk[w].at \in {"claiming", "completing", "failing"} /\ count[w] = 1
          /\ \A d \in Calls : d # c => call[d].worker # w
          /\ \A i \in Held(w) : i = j
      BY <1>1, <1>2, <1>6, OnlyCall
    <2>2. Held(w)' = {}
      BY <1>3, <2>1 DEF Held
    <2>3. WorkerExact(w)'
      BY <1>2, <2>1, <2>2 DEF WorkerExact
    <2>4. CallExact(c)'
      BY <1>2, <2>1 DEF CallExact, AfterUpdate
    <2> QED BY <1>2, <2>1, <2>3, <2>4
  <1> QED BY <1>4, <1>5, <1>6, SparesExact

\* Every step keeps the counts of the workers that nothing has befallen exact.
LEMMA NextExact ==
    ASSUME TypeOK, Matching, Exact, TypeOK', Matching', [Next]_vars PROVE Exact'
  <1>1. ASSUME NEW j \in Jobs, Job(j) PROVE Exact'
    BY <1>1, JobExact
  <1>2. ASSUME NEW w \in Workers, ClaimCall(w) \/ Work(w) PROVE Exact'
    <2>1. CASE UploadFails(w)
      <3>1. /\ wk'[w] = [wk[w] EXCEPT !.at = "broken"] /\ wk[w].at = "working"
            /\ \A v \in Workers : v # w => wk'[v] = wk[v]
            /\ UNCHANGED <<job, count, call, hit>>
        BY <2>1 DEF UploadFails, TypeOK
      <3>2. \A v \in Workers : Held(v)' = Held(v)
        BY <3>1 DEF Held
      <3>3. Spares(w)
        BY <3>1, <3>2 DEF Spares
      <3>4. ASSUME w \notin hit PROVE WorkerExact(w)' /\ \A c \in Calls : call[c].worker # w
        <4>1. wk'[w].at = "broken" /\ wk'[w].job = wk[w].job
          BY <3>1 DEF TypeOK, Process
        <4>2. WorkerExact(w)'
          BY <3>1, <3>2, <3>4, <4>1 DEF Exact, WorkerExact
        <4>3. ASSUME NEW c \in Calls, call[c].worker = w PROVE FALSE
          <5>1. call[c].pc # "free"
            BY <4>3, NoneAssumption DEF Matching, CallMatches
          <5> QED BY <3>1, <3>4, <4>3, <5>1, OnlyCall
        <4> QED BY <4>2, <4>3
      <3> QED BY <3>1, <3>3, <3>4, SparesExact
    <2> QED BY <1>2, <2>1, StartExact DEF Work
  <1>3. ASSUME NEW w \in Workers, Crash(w) PROVE Exact'
    <2>1. /\ w \in hit' /\ hit \subseteq hit' /\ UNCHANGED <<job, count>>
          /\ \A v \in Workers : v # w => wk'[v] = wk[v]
      BY <1>3 DEF Crash, Strikes, TypeOK
    <2>2. \A c \in Calls : /\ call[c].worker # w => call'[c] = call[c]
                           /\ call'[c].worker = call[c].worker
      BY <1>3 DEF Crash, TypeOK, Call
    <2> QED BY <2>1, <2>2, StruckExact
  <1>4. ASSUME NEW c \in Calls, ConnectionLost(c) PROVE Exact'
    <2>1. PICK w \in Workers : w = call[c].worker
      BY <1>4 DEF ConnectionLost, TypeOK, Call, Matching, CallMatches
    <2>2. /\ w \in hit' /\ hit \subseteq hit' /\ UNCHANGED <<job, count>>
          /\ \A v \in Workers : v # w => wk'[v] = wk[v]
      BY <1>4, <2>1 DEF ConnectionLost, Strikes, TypeOK
    <2>3. \A d \in Calls : /\ call[d].worker # w => call'[d] = call[d]
                           /\ call'[d].worker = call[d].worker
      BY <1>4, <2>1 DEF ConnectionLost, TypeOK, Call
    <2> QED BY <2>2, <2>3, StruckExact
  <1>5. ASSUME NEW c \in Calls, Claim(c) PROVE Exact'
    <2>0. /\ call[c].pc \in InClaim => call[c].job = None
          /\ call[c].pc # "free" => call[c].worker \in Workers
      BY DEF TypeOK, Call, Matching, CallMatches, InClaim, InComplete, InFail
    <2>1. CASE Pick(c)
      <3>1. CASE Claimable = {}
        <4>1. Then(c, "undo") /\ UNCHANGED <<job, count, wk, hit>> /\ call[c].pc = "pick"
          BY <2>1, <3>1 DEF Pick, Serve
        <4>2. call[c].worker \notin hit => count[call[c].worker] = 1
          BY <4>1, OnlyCall
        <4> QED BY <4>1, <4>2, ThenExact DEF InComplete, InFail
      <3>2. CASE Claimable # {}
        <4>1. PICK j \in Claimable :
                /\ count' = [w \in Workers |-> IF w = job[j].holder /\ w # call[c].worker
                                               THEN Less(count[w]) ELSE count[w]]
                /\ Takes(c, j)
          BY <2>1, <3>2 DEF Pick, Takes
        <4>2. call[c].pc = "pick" /\ UNCHANGED hit
          BY <2>1 DEF Pick, Serve
        <4>3. /\ \A w \in Workers : w # job[j].holder => count'[w] = count[w]
              /\ count'[call[c].worker] = count[call[c].worker]
          BY <2>0, <4>1, <4>2
        <4> QED BY <4>1, <4>2, <4>3, TakesExact
      <3> QED BY <3>1, <3>2
    <2>2. CASE Increment(c)
      <3>0. /\ call[c].pc = "increment" /\ UNCHANGED <<job, hit>>
            /\ call[c].worker \notin hit => count[call[c].worker] = 0
        BY <2>2, OnlyCall DEF Increment, Serve
      <3>1. CASE count[call[c].worker] < Max
        <4>1. /\ Then(c, "pick") /\ UNCHANGED wk
              /\ count' = [count EXCEPT ![call[c].worker] = @ + 1]
          BY <2>2, <3>1 DEF Increment
        <4>2. /\ \A v \in Workers : v # call[c].worker => count'[v] = count[v]
              /\ call[c].worker \notin hit => count'[call[c].worker] = 1
          BY <2>0, <3>0, <4>1 DEF TypeOK
        <4> QED BY <3>0, <4>1, <4>2, ThenExact DEF InComplete, InFail
      <3>2. CASE ~(count[call[c].worker] < Max)
        <4>1. Return(c, "idle", None) /\ UNCHANGED count
          BY <2>2, <3>2 DEF Increment
        <4>2. call[c].worker \in hit
          BY <3>0, <3>2, MaxAssumption
        <4> QED BY <3>0, <4>1, <4>2, ReturnExact
      <3> QED BY <3>1, <3>2
    <2>3. CASE PickThrows(c)
      <3>1. Then(c, "undo") /\ UNCHANGED <<job, count, wk, hit>> /\ call[c].pc = "pick"
        BY <2>3 DEF PickThrows, Serve
      <3>2. call[c].worker \notin hit => count[call[c].worker] = 1
        BY <3>1, OnlyCall
      <3> QED BY <3>1, <3>2, ThenExact DEF InComplete, InFail
    <2>4. CASE Undo(c)
      <3>1. /\ Return(c, "idle", None) /\ UNCHANGED <<job, hit>> /\ call[c].pc = "undo"
            /\ count' = [count EXCEPT ![call[c].worker] = Less(@)]
        BY <2>4 DEF Undo, Serve
      <3>2. call[c].worker \notin hit
              => count[call[c].worker] = 1 /\ Held(call[c].worker) = {}
        BY <3>1, OnlyCall DEF InComplete, InFail
      <3>3. /\ \A v \in Workers : v # call[c].worker => count'[v] = count[v]
            /\ call[c].worker \notin hit => count'[call[c].worker] = 0
        BY <2>0, <3>1, <3>2 DEF TypeOK, Less
      <3> QED BY <3>1, <3>2, <3>3, ReturnExact
    <2>5. CASE UndoThrows(c)
      BY <2>0, <2>5, ReturnExact DEF UndoThrows, Serve, Strikes
    <2> QED BY <1>5, <2>1, <2>2, <2>3, <2>4, <2>5 DEF Claim
  <1>6. ASSUME NEW c \in Calls, End(c) PROVE Exact'
    <2>0. call[c].pc # "free" => call[c].worker \in Workers
      BY DEF TypeOK, Call, Matching, CallMatches
    <2>1. CASE CompleteRead(c) \/ (FailRead(c) /\ Holds(c))
      <3>1. PICK pc : /\ Then(c, pc) /\ UNCHANGED <<job, count, wk, hit>>
                      /\ call[c].pc \in {"completeRead", "failRead"}
                      /\ pc \in {"completeCas", "failCas"}
        BY <2>1 DEF CompleteRead, FailRead, Serve
      <3>2. call[c].worker \notin hit => count[call[c].worker] = 1
        BY <3>1, OnlyCall
      <3> QED BY <3>1, <3>2, ThenExact DEF InComplete, InFail, AfterUpdate
    <2>2. CASE CompleteRefused(c)
      <3>1. /\ Return(c, "broken", call[c].job) /\ UNCHANGED <<job, count, hit>>
            /\ call[c].pc = "completeRead"
        BY <2>2 DEF CompleteRefused, Serve
      <3>2. call[c].worker \notin hit
              => count[call[c].worker] = 1 /\ call[c].job \in Held(call[c].worker)
        BY <3>1, OnlyCall DEF InComplete, AfterUpdate
      <3> QED BY <3>1, <3>2, ReturnExact
    <2>3. CASE CompleteCas(c) \/ FailCas(c)
      BY <2>3, UpdateExact
    <2>4. CASE CompleteDone(c) \/ FailDone(c)
      <3>1. /\ Return(c, "idle", None) /\ UNCHANGED <<job, hit>> /\ call[c].pc \in AfterUpdate
            /\ count' = [count EXCEPT ![call[c].worker] = Less(@)]
        BY <2>4 DEF CompleteDone, FailDone, Serve, AfterUpdate
      <3>2. call[c].worker \notin hit
              => count[call[c].worker] = 1 /\ Held(call[c].worker) = {}
        BY <3>1, OnlyCall DEF AfterUpdate
      <3>3. /\ \A v \in Workers : v # call[c].worker => count'[v] = count[v]
            /\ call[c].worker \notin hit => count'[call[c].worker] = 0
        BY <2>0, <3>1, <3>2 DEF TypeOK, Less, AfterUpdate
      <3> QED BY <3>1, <3>2, <3>3, ReturnExact DEF AfterUpdate
    <2>5. CASE FailRead(c) /\ ~Holds(c)
      <3>1. Return(c, "idle", None) /\ UNCHANGED <<job, count, hit>> /\ call[c].pc = "failRead"
        BY <2>5 DEF FailRead, Serve
      <3>2. ASSUME call[c].worker \notin hit PROVE FALSE
        <4>1. call[c].job \in Held(call[c].worker)
          BY <3>1, <3>2, OnlyCall DEF InFail, AfterUpdate
        <4> QED BY <2>5, <4>1 DEF Held, Holds
      <3> QED BY <3>1, <3>2, ReturnExact
    <2>6. CASE EndThrows(c)
      <3>1. PICK at, i : Return(c, at, i)
        BY <2>6 DEF EndThrows
      <3> QED BY <2>0, <2>6, <3>1, ReturnExact DEF EndThrows, Serve, Strikes
    <2> QED BY <1>6, <2>1, <2>2, <2>3, <2>4, <2>5, <2>6 DEF End
  <1>7. CASE UNCHANGED vars
    BY <1>7 DEF vars, Exact, CallExact, WorkerExact, Held
  <1> QED BY <1>1, <1>2, <1>3, <1>4, <1>5, <1>6, <1>7 DEF Next, Route

\* The count of a worker between its calls is the number of its jobs, whatever befalls
\* the others, until it crashes, loses a connection, has a decrement thrown away, or has
\* its job dispatched again, grown old under it or ended by others.
THEOREM CountsAreExact == Spec => []CountIsExact
  <1>1. Init => Exact
    BY NoneAssumption DEF Init, Exact, CallExact, WorkerExact, Held, Resting, Free
  <1>2. TypeOK /\ TypeOK' /\ Matching /\ Matching' /\ Exact /\ [Next]_vars => Exact'
    BY NextExact
  <1>3. TypeOK /\ Matching /\ Exact => CountIsExact
    <2> SUFFICES ASSUME TypeOK, Matching, Exact, NEW w \in Workers \ hit,
                        wk[w].at \in {"idle", "working", "broken"}
                 PROVE  count[w] = Cardinality(Held(w))
      BY DEF CountIsExact
    <2>1. WorkerExact(w)
      BY DEF Exact
    <2>2. CASE wk[w].at = "idle"
      <3>1. wk[w].job = None
        BY <2>2 DEF Matching, WorkerMatches
      <3>2. Held(w) = {} /\ count[w] = 0
        BY <2>1, <2>2, <3>1, NoneAssumption DEF WorkerExact, Held
      <3> QED BY <3>2, FS_EmptySet
    <2>3. CASE wk[w].at \in {"working", "broken"}
      <3>1. Held(w) = {wk[w].job} /\ count[w] = 1
        BY <2>1, <2>3 DEF WorkerExact
      <3> QED BY <3>1, FS_Singleton
    <2> QED BY <2>2, <2>3
  <1> QED BY PoolTyped, PoolMatching, <1>1, <1>2, <1>3, PTL DEF Spec
=============================================================================
