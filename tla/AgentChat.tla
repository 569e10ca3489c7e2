----------------------------- MODULE AgentChat -----------------------------
(***************************************************************************)
(* Generation of an agent's answers: the live job the API keeps for each   *)
(* invocation, the row that outlives it, and the browser tabs that ask for *)
(* the steps of a run, read their streams, resume them when they break and *)
(* stop them.                                                              *)
(*                                                                         *)
(* What an answer says is the sequence of its tokens.  A resumption finds  *)
(* the live job and subscribes in one synchronous step; when there is no   *)
(* live job the row no longer changes, so reading it is one step as well.  *)
(***************************************************************************)
EXTENDS Integers, Sequences

CONSTANTS
    Tabs,           \* tabs that have the conversation open
    MaxInvocations, \* bound: the agent asks this often
    MaxTokens,      \* bound: deltas of one invocation
    MaxSteps,       \* rounds of a run with tools (AGENT_CHAT_MAX_..._STEPS)
    MaxAttempts,    \* readings of one request (6 in consumeWithResume)
    MaxTroubles,    \* bound: lost connections, refusals, restarts, reloads
    MaxStops        \* bound: times the user stops a run

ASSUME BoundsAssumption ==
    /\ {MaxInvocations, MaxTokens, MaxSteps, MaxTroubles, MaxStops} \subseteq Nat
    /\ MaxAttempts \in Nat \ {0}

Invocations == 1 .. MaxInvocations
NoInv == 0

VARIABLES
    job,       \* live job of each invocation
    row,       \* its row in ai_model_invocations
    tab,       \* what each tab is doing
    stopping,  \* the invocation whose stop a tab waits to have answered
    saved,     \* activeInvocationId of the conversation in the local store
    told,      \* ghost: endings that were sent for each invocation
    spoiled,   \* ghost: invocations whose ending did not reach the row
    answers,   \* ghost: answers to stops that found the job running
    troubles, stops

vars == <<job, row, tab, stopping, saved, told, spoiled, answers, troubles, stops>>

-----------------------------------------------------------------------------
Endings == {"done", "stopped", "error"}
Event(type, text) == [type |-> type, text |-> text, tools |-> FALSE]
Done(text, tools) == [type |-> "done", text |-> text, tools |-> tools]
Delta(token) == Event("delta", <<token>>)
Cut == Event("cut", <<>>)            \* the stream ends without an ending
Refused == Event("refused", <<>>)    \* an HTTP error instead of a stream

NewJob == [live |-> "none", status |-> "running", text |-> <<>>,
           tools |-> FALSE, aborted |-> FALSE]
NewTab == [pc |-> "idle", ref |-> NoInv, own |-> NoInv, from |-> NoInv,
           started |-> FALSE, resumed |-> FALSE, attempt |-> 0, steps |-> 0,
           halted |-> FALSE, on |-> FALSE, queue |-> <<>>, view |-> <<>>]

Running(i) == i # NoInv /\ job[i].live = "running"
InMap(i) == job[i].live \in {"running", "finishing", "telling", "kept"}

\* The event that ends a stream whose job, or whose row, has this status.
Ending(status, text, tools) ==
    CASE status = "done" -> Done(text, tools)
      [] status = "stopped" -> Event("stopped", text)
      [] OTHER -> Event("error", <<>>)

RowStatus(status) ==
    CASE status = "done" -> "completed"
      [] status = "stopped" -> "cancelled"
      [] OTHER -> "failed"

\* With a bug: everything but a completed row is replayed as an error.
ReplayStatusTwoWay(st) == IF st = "completed" THEN "done" ELSE "error"

ReplayStatus(st) ==
    CASE st = "completed" -> "done"
      [] st = "cancelled" -> "stopped"
      [] OTHER -> "error"

Opening(text) == <<Event("started", <<>>), Event("snapshot", text)>>

\* With a bug: a subscriber is sent no snapshot of what came before.
SubscribedNoSnapshot(i) ==
    IF job[i].status = "running" THEN Opening(<<>>)
    ELSE Append(Opening(<<>>),
                Ending(job[i].status, job[i].text, job[i].tools))

\* With a bug: a job that has ended is not ended for a new subscriber.
SubscribedSilently(i) == Opening(job[i].text)

\* What a subscriber of the live job is sent at once.
Subscribed(i) ==
    IF job[i].status = "running" THEN Opening(job[i].text)
    ELSE Append(Opening(job[i].text),
                Ending(job[i].status, job[i].text, job[i].tools))

\* What is sent for an invocation that has only its row left.
Replayed(i) ==
    Append(Opening(row[i].text),
           Ending(ReplayStatus(row[i].st), row[i].text, FALSE))

Heard(events) == {e.type : e \in {events[n] : n \in 1 .. Len(events)}}
                     \cap Endings

Listeners(i) == {t \in Tabs : tab[t].on /\ tab[t].from = i}

Trouble == troubles < MaxTroubles /\ troubles' = troubles + 1

Init ==
    /\ job = [i \in Invocations |-> NewJob]
    /\ row = [i \in Invocations |-> [st |-> "none", text |-> <<>>]]
    /\ tab = [t \in Tabs |-> NewTab]
    /\ stopping = [t \in Tabs |-> NoInv]
    /\ saved = NoInv
    /\ told = [i \in Invocations |-> {}]
    /\ spoiled = {}
    /\ answers = {}
    /\ troubles = 0
    /\ stops = 0

-----------------------------------------------------------------------------
(* The server *)

\* The model was prepared: the job starts, and its first reader is the tab
\* whose request made it, if that still waits.
StartJob(i) ==
    LET waiting == {t \in Tabs : /\ tab[t].pc = "reading"
                                 /\ tab[t].from = i
                                 /\ tab[t].queue = <<>>}
    IN
    /\ job[i].live = "prepare"
    /\ job' = [job EXCEPT ![i].live = "running"]
    /\ tab' = [t \in Tabs |->
                 IF t \in waiting
                 THEN [tab[t] EXCEPT !.on = TRUE, !.queue = Opening(<<>>)]
                 ELSE tab[t]]
    /\ UNCHANGED <<row, stopping, saved, told, spoiled, answers, troubles,
                   stops>>

\* No interface can serve the request, and the row fails: the answer is 502.
\* Or preparing it, or writing that, throws: 500, and the row is left pending.
PrepareFails(i) ==
    /\ job[i].live = "prepare"
    /\ Trouble
    /\ job' = [job EXCEPT ![i].live = "gone", ![i].status = "error"]
    /\ \/ row' = [row EXCEPT ![i].st = "failed"] /\ UNCHANGED spoiled
       \/ spoiled' = spoiled \cup {i} /\ UNCHANGED row
    /\ tab' = [t \in Tabs |->
                 IF /\ tab[t].pc = "reading" /\ tab[t].from = i
                    /\ tab[t].queue = <<>>
                 THEN [tab[t] EXCEPT !.queue = <<Refused>>]
                 ELSE tab[t]]
    /\ UNCHANGED <<stopping, saved, told, answers, stops>>

Broadcast(i, event) ==
    tab' = [t \in Tabs |-> IF t \in Listeners(i)
                           THEN [tab[t] EXCEPT !.queue = Append(@, event)]
                           ELSE tab[t]]

StreamDelta(i) ==
    LET token == Len(job[i].text) + 1 IN
    /\ job[i].live = "running"
    /\ ~job[i].aborted
    /\ token <= MaxTokens
    /\ job' = [job EXCEPT ![i].text = Append(@, token)]
    /\ Broadcast(i, Delta(token))
    /\ UNCHANGED <<row, stopping, saved, told, spoiled, answers, troubles,
                   stops>>

\* With a bug: what comes after an abort is taken as it is.
StreamOutcomesLate(i) == {"done", "error"} \cup
    (IF job[i].text = <<>> THEN {"stopped"} ELSE {})

\* The ways the stream of a job can end.  After an abort whatever comes next is
\* "stopped"; a stream that throws "connection reset" before its first token
\* counts as stopped too, though nobody stopped it.
StreamOutcomes(i) ==
    IF job[i].aborted THEN {"stopped"}
    ELSE {"done", "error"} \cup
         (IF job[i].text = <<>> THEN {"stopped"} ELSE {})

\* The status changes at once; the row is written while others already see it.
StreamEnds(i) ==
    /\ job[i].live = "running"
    /\ \E status \in StreamOutcomes(i), tools \in BOOLEAN :
         /\ tools => status = "done"
         /\ job' = [job EXCEPT ![i].live = "finishing", ![i].status = status,
                               ![i].tools = tools]
    /\ UNCHANGED <<row, tab, stopping, saved, told, spoiled, answers, troubles,
                   stops>>

\* onFinish writes the row, or fails, which is swallowed.
SaveOutcome(i) ==
    /\ job[i].live = "finishing"
    /\ job' = [job EXCEPT ![i].live = "telling"]
    /\ \/ /\ row' = [row EXCEPT ![i] = [st |-> RowStatus(job[i].status),
                                        text |-> job[i].text]]
          /\ UNCHANGED <<spoiled, troubles>>
       \/ /\ Trouble
          /\ spoiled' = spoiled \cup {i}
          /\ UNCHANGED row
    /\ UNCHANGED <<tab, stopping, saved, told, answers, stops>>

\* Then the listeners are told and dropped, and the job is kept for ten minutes.
FinishJob(i) ==
    LET end == Ending(job[i].status, job[i].text, job[i].tools) IN
    /\ job[i].live = "telling"
    /\ job' = [job EXCEPT ![i].live = "kept"]
    /\ tab' = [t \in Tabs |->
                 IF t \in Listeners(i)
                 THEN [tab[t] EXCEPT !.queue = Append(@, end), !.on = FALSE]
                 ELSE tab[t]]
    /\ told' = IF Listeners(i) = {} THEN told
               ELSE [told EXCEPT ![i] = @ \cup {job[i].status}]
    /\ UNCHANGED <<row, stopping, saved, spoiled, answers, troubles, stops>>

\* The clean-up timer drops the job from the map.
CleanUp(i) ==
    /\ job[i].live = "kept"
    /\ job' = [job EXCEPT ![i].live = "gone"]
    /\ UNCHANGED <<row, tab, stopping, saved, told, spoiled, answers, troubles,
                   stops>>

\* The process dies with its live jobs and connections; a request whose stop
\* it was answering fails, which the tab ignores.
Restart ==
    /\ Trouble
    /\ job' = [i \in Invocations |-> IF job[i].live = "none" THEN job[i]
                                     ELSE [job[i] EXCEPT !.live = "gone"]]
    /\ spoiled' = spoiled \cup {i \in Invocations :
                     job[i].live \in {"prepare", "running", "finishing"}}
    /\ tab' = [t \in Tabs |->
                 IF tab[t].pc = "reading"
                 THEN [tab[t] EXCEPT !.queue = Append(@, Cut), !.on = FALSE]
                 ELSE [tab[t] EXCEPT !.on = FALSE]]
    /\ UNCHANGED <<row, stopping, saved, told, answers, stops>>

-----------------------------------------------------------------------------
(* A tab *)

\* A new random id: any that has no row.
Fresh == CHOOSE i \in Invocations : row[i].st = "none"
AnyFresh == \E i \in Invocations : row[i].st = "none"

\* The run ends: its abort controller drops the connection, and the
\* conversation is saved without an active invocation.
EndRun(t) ==
    /\ tab' = [tab EXCEPT ![t] = NewTab]
    /\ saved' = NoInv

\* The user sends a message.
Ask(t) ==
    /\ tab[t].pc = "idle"
    /\ saved = NoInv
    /\ AnyFresh
    /\ tab' = [tab EXCEPT ![t].pc = "asking"]
    /\ UNCHANGED <<job, row, stopping, saved, told, spoiled, answers, troubles,
                   stops>>

\* POST generate-stream: the row is created before the model is prepared.
Request(t) ==
    /\ tab[t].pc = "asking" /\ ~tab[t].halted
    /\ AnyFresh
    /\ row' = [row EXCEPT ![Fresh].st = "pending"]
    /\ job' = [job EXCEPT ![Fresh].live = "prepare"]
    /\ tab' = [tab EXCEPT ![t].pc = "reading", ![t].own = Fresh,
                          ![t].from = Fresh, ![t].started = FALSE,
                          ![t].attempt = 0, ![t].view = <<>>]
    /\ UNCHANGED <<stopping, saved, told, spoiled, answers, troubles, stops>>

\* The request fails before it has made a row.
RequestRefused(t) ==
    /\ tab[t].pc = "asking" /\ ~tab[t].halted
    /\ IF AnyFresh THEN Trouble ELSE UNCHANGED troubles
    /\ tab' = [tab EXCEPT ![t].pc = "reading", ![t].own = NoInv,
                          ![t].from = NoInv, ![t].started = FALSE,
                          ![t].attempt = 0, ![t].view = <<>>,
                          ![t].queue = <<Refused>>]
    /\ UNCHANGED <<job, row, stopping, saved, told, spoiled, answers, stops>>

\* GET generate-stream/:id, for the id in invocationIdRef.
Resume(t) ==
    LET i == tab[t].ref
        sent == IF InMap(i) THEN Subscribed(i) ELSE Replayed(i)
    IN
    /\ tab[t].pc = "waiting" /\ ~tab[t].halted
    /\ tab' = [tab EXCEPT ![t].pc = "reading", ![t].from = i, ![t].view = <<>>,
                          ![t].on = InMap(i) /\ job[i].status = "running",
                          ![t].queue = sent]
    /\ told' = [told EXCEPT ![i] = @ \cup Heard(sent)]
    /\ UNCHANGED <<job, row, stopping, saved, spoiled, answers, troubles,
                   stops>>

\* The connection breaks; what was under way is lost.
Disconnect(t) ==
    /\ tab[t].pc = "reading"
    /\ Trouble
    /\ tab' = [tab EXCEPT ![t].queue = <<Cut>>, ![t].on = FALSE]
    /\ UNCHANGED <<job, row, stopping, saved, told, spoiled, answers, stops>>

Rest(t) == [tab[t] EXCEPT !.queue = Tail(@)]

\* The next request of a run: what the last one had is forgotten but its id.
NextRequest(t) ==
    [NewTab EXCEPT !.pc = "asking", !.ref = tab[t].ref, !.steps = tab[t].steps]

\* With a bug: a run keeps the first id it was given.
IdKnownFirst(t) == IF tab[t].ref = NoInv THEN tab[t].from ELSE tab[t].ref

\* The id the tab keeps in invocationIdRef when a stream opens.
IdKnown(t) == tab[t].from

\* started and snapshot both give the id, which is also saved.
ReceiveOpening(t, e) ==
    LET known == [Rest(t) EXCEPT !.ref = IdKnown(t),
                    !.started = @ \/ tab[t].attempt = 0]
    IN
    /\ e.type \in {"started", "snapshot"}
    /\ tab' = [tab EXCEPT ![t] = IF e.type = "started" THEN known
                                 ELSE [known EXCEPT !.view = e.text]]
    /\ saved' = IdKnown(t)

ReceiveDelta(t, e) ==
    /\ e.type = "delta"
    /\ tab' = [tab EXCEPT ![t] = [Rest(t) EXCEPT !.view = @ \o e.text]]
    /\ UNCHANGED saved

\* Tool calls are run and their results sent with the next step.  A resumed
\* answer starts a run of its own for that; if another client has taken the
\* conversation meanwhile, or no model is left, that run returns at once and
\* nothing takes back that the tab is streaming.
ReceiveDone(t, e) ==
    LET more == /\ e.tools /\ ~tab[t].halted
                /\ tab[t].resumed \/ tab[t].steps < MaxSteps
        ready == [Rest(t) EXCEPT !.pc = "tools", !.view = <<>>, !.on = FALSE]
    IN
    /\ e.type = "done"
    /\ \/ ~more /\ EndRun(t)
       \/ /\ more /\ ~tab[t].resumed
          /\ tab' = [tab EXCEPT ![t] = [ready EXCEPT !.steps = @ + 1]]
          /\ UNCHANGED saved
       \/ /\ more /\ tab[t].resumed
          /\ tab' = [tab EXCEPT ![t] = [ready EXCEPT !.steps = 0,
                                          !.ref = NoInv, !.resumed = FALSE]]
          /\ saved' = NoInv
       \/ /\ more /\ tab[t].resumed
          /\ tab' = [tab EXCEPT ![t] = [NewTab EXCEPT !.pc = "left"]]
          /\ saved' = NoInv

\* With a bug: it is retried whether or not there is an id to resume.
RetriesBlindly(t) == tab[t].attempt + 1 < MaxAttempts

Retries(t) == tab[t].ref # NoInv /\ tab[t].attempt + 1 < MaxAttempts

\* Any failure is retried with the id the tab knows of; without one, or after
\* the last attempt, a request that never started goes to another model.  Once
\* the user has stopped the run, neither.
ReceiveFailure(t, e) ==
    /\ e.type \in {"error", "cut", "refused"}
    /\ \/ /\ Retries(t) /\ ~tab[t].halted
          /\ tab' = [tab EXCEPT ![t].pc = "waiting", ![t].attempt = @ + 1,
                                ![t].on = FALSE, ![t].queue = <<>>, ![t].view = <<>>]
          /\ UNCHANGED saved
       \/ /\ ~Retries(t) /\ ~tab[t].started /\ ~tab[t].resumed
          /\ AnyFresh /\ ~tab[t].halted
          /\ tab' = [tab EXCEPT ![t] = NextRequest(t)]
          /\ UNCHANGED saved
       \/ /\ ~Retries(t) \/ tab[t].halted
          /\ EndRun(t)

Receive(t) ==
    /\ tab[t].pc = "reading"
    /\ tab[t].queue # <<>>
    /\ LET e == tab[t].queue[1] IN
         \/ ReceiveOpening(t, e)
         \/ ReceiveDelta(t, e)
         \/ ReceiveDone(t, e)
         \/ e.type = "stopped" /\ EndRun(t)
         \/ ReceiveFailure(t, e)
    /\ UNCHANGED <<job, row, stopping, told, spoiled, answers, troubles, stops>>

\* The tools have run; invocationIdRef still holds the step that called them.
\* One that waits for the user, a question or a confirmation, ends the run.
RunTools(t) ==
    /\ tab[t].pc = "tools" /\ ~tab[t].halted
    /\ \/ /\ tab' = [tab EXCEPT ![t] = NextRequest(t)]
          /\ UNCHANGED saved
       \/ EndRun(t)
    /\ UNCHANGED <<job, row, stopping, told, spoiled, answers, troubles, stops>>

\* The user stops the run.  A running job is aborted, and until that is
\* answered the tab goes on listening.  Otherwise there is nothing to abort, and
\* the run just ends.
Stop(t) ==
    LET i == tab[t].ref IN
    /\ tab[t].pc \in {"asking", "reading", "waiting", "tools", "left"}
    /\ stopping[t] = NoInv
    /\ stops < MaxStops
    /\ stops' = stops + 1
    /\ \/ /\ Running(i)
          /\ job' = [job EXCEPT ![i].aborted = TRUE]
          /\ tab' = [tab EXCEPT ![t].halted = TRUE]
          /\ stopping' = [stopping EXCEPT ![t] = i]
          /\ UNCHANGED saved
       \/ /\ ~Running(i)
          /\ EndRun(t)
          /\ UNCHANGED <<job, stopping>>
    /\ UNCHANGED <<row, told, spoiled, answers, troubles>>

\* A stopped run makes no other request.
GiveUp(t) ==
    /\ tab[t].pc \in {"asking", "waiting", "tools"} /\ tab[t].halted
    /\ EndRun(t)
    /\ UNCHANGED <<job, row, stopping, told, spoiled, answers, troubles, stops>>

\* The stop is answered with the text the job ended with, or fails with the
\* process.  Whatever the tab does by then is aborted.
StopReturns(t) ==
    LET i == stopping[t] IN
    /\ i # NoInv
    /\ job[i].live \in {"kept", "gone"}
    /\ stopping' = [stopping EXCEPT ![t] = NoInv]
    /\ answers' = IF job[i].live = "kept"
                  THEN answers \cup {[inv |-> i, text |-> job[i].text]}
                  ELSE answers
    /\ EndRun(t)
    /\ UNCHANGED <<job, row, told, spoiled, troubles, stops>>

\* The tab is closed; the server sees its connection go.
CloseTab(t) ==
    /\ tab[t].pc # "idle"
    /\ Trouble
    /\ tab' = [tab EXCEPT ![t] = NewTab]
    /\ stopping' = [stopping EXCEPT ![t] = NoInv]
    /\ UNCHANGED <<job, row, saved, told, spoiled, answers, stops>>

\* A tab that opens the conversation resumes the invocation it has active.
ResumeExisting(t) ==
    /\ tab[t].pc = "idle"
    /\ saved # NoInv
    /\ tab' = [tab EXCEPT ![t] = [NewTab EXCEPT !.pc = "waiting", !.ref = saved,
                                    !.own = saved, !.resumed = TRUE]]
    /\ UNCHANGED <<job, row, stopping, saved, told, spoiled, answers, troubles,
                   stops>>

-----------------------------------------------------------------------------
ServerStep(i) == StartJob(i) \/ StreamEnds(i) \/ SaveOutcome(i) \/ FinishJob(i)
TabStep(t) == \/ Request(t) \/ RequestRefused(t) \/ Receive(t) \/ Resume(t)
              \/ RunTools(t) \/ GiveUp(t) \/ StopReturns(t)

Next ==
    \/ \E i \in Invocations : \/ ServerStep(i)
                              \/ PrepareFails(i) \/ StreamDelta(i) \/ CleanUp(i)
    \/ \E t \in Tabs : \/ TabStep(t)
                       \/ Ask(t) \/ Disconnect(t) \/ Stop(t) \/ CloseTab(t)
                       \/ ResumeExisting(t)
    \/ Restart

Spec == Init /\ [][Next]_vars

\* The server's own steps happen: an upstream request is aborted after ten
\* minutes, so a stream ends.  A tab that is open goes on reading and asking;
\* the user need not stop it, nor the clean-up timer ever be in time.
FairSpec == /\ Spec
            /\ \A i \in Invocations : WF_vars(ServerStep(i))
            /\ \A t \in Tabs : WF_vars(TabStep(t))

-----------------------------------------------------------------------------
Text == Seq(Nat)
EventSet == [type : Endings \cup {"started", "snapshot", "delta", "cut", "refused"},
             text : Text, tools : BOOLEAN]
Inv0 == Invocations \cup {NoInv}

JobSet == [live : {"none", "prepare", "running", "finishing", "telling", "kept",
                   "gone"},
           status : Endings \cup {"running"}, text : Text, tools : BOOLEAN,
           aborted : BOOLEAN]
RowSet == [st : {"none", "pending", "completed", "cancelled", "failed"},
           text : Text]
TabSet == [pc : {"idle", "asking", "reading", "waiting", "tools", "left"},
           ref : Inv0, own : Inv0, from : Inv0, started : BOOLEAN,
           resumed : BOOLEAN, attempt : Nat, steps : Nat, halted : BOOLEAN,
           on : BOOLEAN, queue : Seq(EventSet), view : Text]

\* Types; a tab that waits or listens has an invocation to do it with.
TypeOK ==
    /\ job \in [Invocations -> JobSet]
    /\ row \in [Invocations -> RowSet]
    /\ tab \in [Tabs -> TabSet]
    /\ \A t \in Tabs :
         /\ tab[t].pc = "waiting" => tab[t].ref # NoInv
         /\ tab[t].on => tab[t].pc = "reading" /\ tab[t].from # NoInv
    /\ stopping \in [Tabs -> Inv0]
    /\ saved \in Inv0
    /\ told \in [Invocations -> SUBSET Endings]
    /\ spoiled \subseteq Invocations
    /\ answers \subseteq [inv : Invocations, text : Text]
    /\ troubles \in Nat /\ stops \in Nat

\* What an event makes of the text a tab shows.
Shown(view, e) ==
    CASE e.type = "delta" -> view \o e.text
      [] e.type \in {"snapshot", "done", "stopped"} -> e.text
      [] OTHER -> view

\* What it shows once it has taken the events under way.
Shows(view, queue) ==
    LET after[n \in 0 .. Len(queue)] ==
          IF n = 0 THEN view ELSE Shown(after[n - 1], queue[n])
    IN after[Len(queue)]

\* A tab that joins a generation at any moment, after any number of broken
\* connections, misses no token and gets none twice: with the events under way
\* it shows the job's text, and an ending brings it the text the job ended with.
ViewFollows ==
    \A t \in Tabs :
        \/ tab[t].on
        \/ tab[t].pc = "reading" /\ Heard(tab[t].queue) \cap {"done", "stopped"} # {}
        => Shows(tab[t].view, tab[t].queue) = job[tab[t].from].text

\* Whoever reads the ending of a generation, early from the live job, later from
\* the kept one or last from the row, is told the same ending, and the row has
\* it with the whole text.  Not so if the process died first, preparing the model
\* threw, or the row could not be written: onFinish's failure is swallowed.
OneOutcome ==
    \A i \in Invocations \ spoiled :
        /\ told[i] \subseteq {job[i].status}
        /\ job[i].live \in {"telling", "kept", "gone"} =>
              /\ row[i].st = RowStatus(job[i].status)
              /\ row[i].text = job[i].text

\* A stop that found the job running is answered with the text that stays: the
\* job has ended as stopped, nothing was added, and unless the row could not be
\* written it is cancelled with that text.
StopStands ==
    \A a \in answers :
        /\ job[a.inv].status = "stopped" /\ job[a.inv].text = a.text
        /\ a.inv \notin spoiled => row[a.inv] = [st |-> "cancelled", text |-> a.text]

\* The tools a step runs are those its own request asked for, once that request
\* has started: a resumption never brings a step the answer of another.  (A
\* request that fails before it starts is resumed with the id of the step
\* before, and that step's tools are run again.)
AnswerIsOwn ==
    \A t \in Tabs : tab[t].pc = "tools" /\ tab[t].started => tab[t].from = tab[t].own

\* A run comes to an end, whatever breaks on the way: it is not left waiting for
\* a stream nobody writes or a stop nobody answers.  (A tab that ReceiveDone has
\* left streaming has no run; only its user can stop that.)
RunEnds ==
    \A t \in Tabs :
        tab[t].pc \notin {"idle", "left"} \/ stopping[t] # NoInv
            ~> tab[t].pc \in {"idle", "left"} /\ stopping[t] = NoInv

=============================================================================
