------------------------- MODULE PersistWorkerPool -------------------------
(***************************************************************************)
(* The persist workers and the API routes they call: which worker holds    *)
(* which dispatched job, and the activeJobCount that limits how many it    *)
(* may claim.  A worker is one loop (claim, upload, complete, or fail when *)
(* anything throws); a call it makes runs in the API, one database         *)
(* statement or transaction a step, and goes on when the worker has died   *)
(* or lost the connection.                                                 *)
(***************************************************************************)
EXTENDS Naturals, FiniteSets

CONSTANTS
    Jobs, Workers,
    Calls,          \* slots for calls running in the API
    Max,            \* maxConcurrentJobs of every worker
    MaxFaults,      \* bound: how many faults may happen
    FaultKinds      \* which: "crash", "lost" connection, "throw"ing database call (it
                    \* has had no effect), "slow" upload, dispatched "again"

None == "none"

ASSUME MaxAssumption == Max \in Nat \ {0}
ASSUME FaultAssumption == MaxFaults \in Nat
ASSUME NoneAssumption == None \notin Jobs \cup Workers
ASSUME FiniteAssumption == IsFiniteSet(Jobs) /\ IsFiniteSet(Calls)

VARIABLES
    job,      \* the row as the pool sees it: [st, holder, stale]
    count,    \* activeJobCount of each worker
    wk,       \* the worker process: [at, job]
    call,     \* calls running in the API: [pc, worker, job, waits]
    faults,   \* faults so far
    loose,    \* jobs that were put up for claiming again while somebody was at them
    hit       \* workers a fault, or the end of their job by others, has befallen

vars == <<job, count, wk, call, faults, loose, hit>>

-----------------------------------------------------------------------------
\* `stale`: the claim, or else the dispatch, is 15 minutes old.
JobRow == [st : {"waiting", "uploading", "succeeded", "failed", "gone"},
           holder : Workers \cup {None}, stale : BOOLEAN]

Process == [at : {"idle", "claiming", "working", "completing", "broken", "failing"},
            job : Jobs \cup {None}]

\* `waits`: the worker is still waiting for the answer.
Call == [pc : {"free", "increment", "pick", "undo", "completeRead", "completeCas",
               "completeDone", "failRead", "failCas", "failDone"},
         worker : Workers \cup {None}, job : Jobs \cup {None}, waits : BOOLEAN]

Resting == [at |-> "idle", job |-> None]
Free == [pc |-> "free", worker |-> None, job |-> None, waits |-> FALSE]

TypeOK ==
    /\ job \in [Jobs -> JobRow]
    /\ count \in [Workers -> 0..Max]
    /\ wk \in [Workers -> Process]
    /\ call \in [Calls -> Call]
    /\ faults \in 0..MaxFaults
    /\ loose \subseteq Jobs
    /\ hit \subseteq Workers

Init ==
    /\ job = [j \in Jobs |-> [st |-> "waiting", holder |-> None, stale |-> FALSE]]
    /\ count = [w \in Workers |-> 0]
    /\ wk = [w \in Workers |-> Resting]
    /\ call = [c \in Calls |-> Free]
    /\ faults = 0
    /\ loose = {}
    /\ hit = {}

-----------------------------------------------------------------------------
(* What the routes are made of.                                            *)

Less(n) == IF n = 0 THEN 0 ELSE n - 1

Serve(c, pc) == call[c].pc = pc
Then(c, pc) == call' = [call EXCEPT ![c].pc = pc]

\* The call returns; the worker takes the answer if it still waits for it.
Return(c, at, j) ==
    /\ call' = [call EXCEPT ![c] = Free]
    /\ wk' = IF call[c].waits
             THEN [wk EXCEPT ![call[c].worker] = [at |-> at, job |-> j]] ELSE wk

Start(w, at, pc) ==
    \E c \in Calls :
        /\ Serve(c, "free")
        /\ call' = [call EXCEPT ![c] = [pc |-> pc, worker |-> w, job |-> wk[w].job,
                                        waits |-> TRUE]]
        /\ wk' = [wk EXCEPT ![w].at = at]

Fault(kind) == kind \in FaultKinds /\ faults < MaxFaults /\ faults' = faults + 1

Strikes(W) == hit' = hit \cup (W \cap Workers)

\* The workers at job j, in their process or in a call, and with its holder.
AtHand(j) == {w \in Workers : \/ wk[w].job = j
                              \/ \E c \in Calls : call[c].job = j /\ call[c].worker = w}
Concerned(j) == AtHand(j) \cup {job[j].holder}

-----------------------------------------------------------------------------
(* The jobs: dispatched by the server, which may happen a second time from *)
(* a row read before the first, and ended by others.                       *)

Dispatch(j) ==
    /\ job[j].st = "waiting"
    /\ job' = [job EXCEPT ![j].st = "uploading"]
    /\ UNCHANGED <<count, wk, call, faults, loose, hit>>

Loosened(j) == loose' = IF AtHand(j) = {} THEN loose ELSE loose \cup {j}

DispatchAgain(j) ==
    /\ job[j].st = "uploading"
    /\ Fault("again")
    /\ job' = [job EXCEPT ![j].holder = None, ![j].stale = FALSE]
    /\ Loosened(j)
    /\ Strikes(Concerned(j))
    /\ UNCHANGED <<count, wk, call>>

EndedByOthers(j) ==
    /\ job[j].st = "uploading"
    /\ job' = [job EXCEPT ![j].st = "gone"]
    /\ Strikes(Concerned(j))
    /\ UNCHANGED <<count, wk, call, faults, loose>>

\* Fifteen minutes pass; an upload that is still under way is a slow one.
Age(j) ==
    /\ job[j].st = "uploading"
    /\ ~job[j].stale
    /\ IF AtHand(j) = {} THEN UNCHANGED faults ELSE Fault("slow")
    /\ job' = [job EXCEPT ![j].stale = TRUE]
    /\ Loosened(j)
    /\ Strikes(AtHand(j))
    /\ UNCHANGED <<count, wk, call>>

Job(j) == Dispatch(j) \/ DispatchAgain(j) \/ EndedByOthers(j) \/ Age(j)

-----------------------------------------------------------------------------
(* POST /claim.                                                            *)

ClaimCall(w) ==
    /\ wk[w].at = "idle"
    /\ Start(w, "claiming", "increment")
    /\ UNCHANGED <<job, count, faults, loose, hit>>

\* With a bug: the limit is not looked at.
IncrementAlways(c) ==
    /\ Serve(c, "increment")
    /\ count' = [count EXCEPT ![call[c].worker] = @ + 1]
    /\ Then(c, "pick")
    /\ UNCHANGED <<job, wk, faults, loose, hit>>

Increment(c) ==
    /\ Serve(c, "increment")
    /\ IF count[call[c].worker] < Max
       THEN /\ count' = [count EXCEPT ![call[c].worker] = @ + 1]
            /\ Then(c, "pick")
            /\ UNCHANGED wk
       ELSE Return(c, "idle", None) /\ UNCHANGED count
    /\ UNCHANGED <<job, faults, loose, hit>>

\* With a bug: a job is offered to every worker until it is no longer uploading.
ClaimableByAll == {j \in Jobs : job[j].st = "uploading"}

Claimable == {j \in Jobs : job[j].st = "uploading" /\ (job[j].holder = None \/ job[j].stale)}

\* One transaction; the oldest claimable job is taken, here any of them.
Pick(c) ==
    /\ Serve(c, "pick")
    /\ IF Claimable = {}
       THEN Then(c, "undo") /\ UNCHANGED <<job, count, wk>>
       ELSE \E j \in Claimable :
              /\ count' = [w \in Workers |-> IF w = job[j].holder /\ w # call[c].worker
                                             THEN Less(count[w]) ELSE count[w]]
              /\ job' = [job EXCEPT ![j].holder = call[c].worker, ![j].stale = FALSE]
              /\ Return(c, "working", j)
    /\ UNCHANGED <<faults, loose, hit>>

PickThrows(c) ==
    /\ Serve(c, "pick")
    /\ Fault("throw")
    /\ Then(c, "undo")
    /\ UNCHANGED <<job, count, wk, loose, hit>>

\* With a bug: a claim that found nothing keeps its place.
UndoForgets(c) ==
    /\ Serve(c, "undo")
    /\ Return(c, "idle", None)
    /\ UNCHANGED <<job, count, faults, loose, hit>>

\* With a bug: the branch that gives the place back is run again by the catch.
UndoTwice(c) ==
    /\ Serve(c, "undo")
    /\ count' = [count EXCEPT ![call[c].worker] = Less(Less(@))]
    /\ Return(c, "idle", None)
    /\ UNCHANGED <<job, faults, loose, hit>>

Undo(c) ==
    /\ Serve(c, "undo")
    /\ count' = [count EXCEPT ![call[c].worker] = Less(@)]
    /\ Return(c, "idle", None)
    /\ UNCHANGED <<job, faults, loose, hit>>

\* Giving the place back throws in the catch too.
UndoThrows(c) ==
    /\ Serve(c, "undo")
    /\ Fault("throw")
    /\ Strikes({call[c].worker})
    /\ Return(c, "idle", None)
    /\ UNCHANGED <<job, count, loose>>

Claim(c) == Increment(c) \/ Pick(c) \/ PickThrows(c) \/ Undo(c) \/ UndoThrows(c)

-----------------------------------------------------------------------------
(* POST /jobs/:jobId/complete and /fail.  Both look at the row, update it  *)
(* while it is uploading, and take one off the count even if the update    *)
(* found it changed.                                                       *)

Holds(c) == job[call[c].job].st = "uploading" /\ job[call[c].job].holder = call[c].worker

CompleteCall(w) ==
    /\ wk[w].at = "working"
    /\ Start(w, "completing", "completeRead")
    /\ UNCHANGED <<job, count, faults, loose, hit>>

CompleteRead(c) ==
    /\ Serve(c, "completeRead")
    /\ Holds(c)
    /\ Then(c, "completeCas")
    /\ UNCHANGED <<job, count, wk, faults, loose, hit>>

\* The job is not the worker's any more, or its media is not acceptable.
CompleteRefused(c) ==
    /\ Serve(c, "completeRead")
    /\ Return(c, "broken", call[c].job)
    /\ UNCHANGED <<job, count, faults, loose, hit>>

CompleteCas(c) ==
    /\ Serve(c, "completeCas")
    /\ LET j == call[c].job IN
       job' = IF job[j].st = "uploading"
              THEN [job EXCEPT ![j].st = "succeeded", ![j].holder = call[c].worker] ELSE job
    /\ Then(c, "completeDone")
    /\ Strikes(Concerned(call[c].job) \ {call[c].worker})
    /\ UNCHANGED <<count, wk, faults, loose>>

CompleteDone(c) ==
    /\ Serve(c, "completeDone")
    /\ count' = [count EXCEPT ![call[c].worker] = Less(@)]
    /\ Return(c, "idle", None)
    /\ UNCHANGED <<job, faults, loose, hit>>

UploadFails(w) ==
    /\ wk[w].at = "working"
    /\ wk' = [wk EXCEPT ![w].at = "broken"]
    /\ UNCHANGED <<job, count, call, faults, loose, hit>>

FailCall(w) ==
    /\ wk[w].at = "broken"
    /\ Start(w, "failing", "failRead")
    /\ UNCHANGED <<job, count, faults, loose, hit>>

FailRead(c) ==
    /\ Serve(c, "failRead")
    /\ IF Holds(c) THEN Then(c, "failCas") /\ UNCHANGED wk ELSE Return(c, "idle", None)
    /\ UNCHANGED <<job, count, faults, loose, hit>>

FailCas(c) ==
    /\ Serve(c, "failCas")
    /\ LET j == call[c].job IN
       job' = IF job[j].st = "uploading" THEN [job EXCEPT ![j].st = "failed"] ELSE job
    /\ Then(c, "failDone")
    /\ Strikes(Concerned(call[c].job) \ {call[c].worker})
    /\ UNCHANGED <<count, wk, faults, loose>>

FailDone(c) ==
    /\ Serve(c, "failDone")
    /\ count' = [count EXCEPT ![call[c].worker] = Less(@)]
    /\ Return(c, "idle", None)
    /\ UNCHANGED <<job, faults, loose, hit>>

\* The catalog or the node cannot be written, and the count stays as it was.
EndThrows(c) ==
    /\ Fault("throw")
    /\ \/ Serve(c, "completeDone") /\ Return(c, "broken", call[c].job)
       \/ Serve(c, "failDone") /\ Return(c, "idle", None)
    /\ Strikes({call[c].worker})
    /\ UNCHANGED <<job, count, loose>>

End(c) == \/ CompleteRead(c) \/ CompleteRefused(c) \/ CompleteCas(c) \/ CompleteDone(c)
          \/ FailRead(c) \/ FailCas(c) \/ FailDone(c) \/ EndThrows(c)

-----------------------------------------------------------------------------
(* The worker process dies and is started again, or a connection is lost   *)
(* while the API goes on with the call.                                    *)

Crash(w) ==
    /\ wk[w].at # "idle"
    /\ Fault("crash")
    /\ wk' = [wk EXCEPT ![w] = Resting]
    /\ call' = [c \in Calls |-> IF call[c].worker = w
                                THEN [call[c] EXCEPT !.waits = FALSE] ELSE call[c]]
    /\ Strikes({w})
    /\ UNCHANGED <<job, count, loose>>

ConnectionLost(c) ==
    /\ call[c].waits
    /\ Fault("lost")
    /\ LET w == call[c].worker IN
       wk' = IF wk[w].at = "completing"
             THEN [wk EXCEPT ![w].at = "broken"] ELSE [wk EXCEPT ![w] = Resting]
    /\ call' = [call EXCEPT ![c].waits = FALSE]
    /\ Strikes({call[c].worker})
    /\ UNCHANGED <<job, count, loose>>

Work(w) == CompleteCall(w) \/ UploadFails(w) \/ FailCall(w)
Route(c) == Claim(c) \/ End(c)

Next ==
    \/ \E j \in Jobs : Job(j)
    \/ \E w \in Workers : ClaimCall(w) \/ Work(w) \/ Crash(w)
    \/ \E c \in Calls : Route(c) \/ ConnectionLost(c)

Spec == Init /\ [][Next]_vars

-----------------------------------------------------------------------------
(* What should be true of the pool.                                        *)

Held(w) == {j \in Jobs : job[j].st = "uploading" /\ job[j].holder = w}

\* Every job a worker holds has its place in the count, so that the limit on the
\* count limits the jobs, through crashes, failing calls, takeovers and second
\* dispatches.  (A lost connection or a slow upload can break this: see README.md.)
HeldIsCounted == \A w \in Workers : Cardinality(Held(w)) <= count[w]

\* Between its calls the count of a worker is the number of its jobs, however claims,
\* undone claims, takeovers and endings overlap and whatever befalls the other
\* workers.  A worker that has crashed, lost a connection or had a decrement thrown
\* away, or whose job was dispatched again, grew old under it or was ended by others,
\* is the exception: its count may drift.
CountIsExact ==
    \A w \in Workers \ hit :
        wk[w].at \in {"idle", "working", "broken"} => count[w] = Cardinality(Held(w))

\* Two workers upload the same job only if it was put up for claiming again while
\* somebody was at it, by a second dispatch or by the claim timeout: no crash, lost
\* connection, failing statement, late call or ending by others leads there.
OneUploader ==
    \A v, w \in Workers :
        /\ wk[v].at = "working"
        /\ wk[w] = wk[v]
        => v = w \/ wk[v].job \in loose

-----------------------------------------------------------------------------
\* Calls run to their end, processes go on, claims grow old.
Fairness ==
    /\ \A c \in Calls : WF_vars(Route(c))
    /\ \A w \in Workers : WF_vars(ClaimCall(w)) /\ WF_vars(Work(w))
    /\ \A j \in Jobs : WF_vars(Age(j))

FairSpec == Spec /\ Fairness

\* Every dispatched job ends although a worker crashes or a call is lost, if the
\* workers have a place to spare.
EveryUploadEnds == \A j \in Jobs : job[j].st = "uploading" ~> job[j].st # "uploading"
=============================================================================
