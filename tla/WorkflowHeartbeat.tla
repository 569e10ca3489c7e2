------------------------- MODULE WorkflowHeartbeat -------------------------
(***************************************************************************)
(* The heartbeat that runs a workflow on the Node server: ticks that match *)
(* events to parked nodes, time them out, poll providers and start the     *)
(* nodes whose inputs have settled, and the waits between the ticks.       *)
(*                                                                         *)
(* The run gives way only where it waits for I/O: between the events of a  *)
(* tick, for polls, for the nodes it started, and between ticks.  Events   *)
(* arrive and time passes there.  All results of a batch of nodes are      *)
(* applied at once, as the code does after Promise.all.                    *)
(***************************************************************************)
EXTENDS Integers, Sequences

CONSTANTS
    Nodes,      \* nodes of the workflow, numbered
    Outputs,    \* named outputs a node may fill
    Graphs,     \* workflows: sets of edges
    Targets,    \* sets of nodes that one event can be for
    Deadline,   \* bound: every parked node times out by then
    MaxEvents   \* bound: events sent to the execution

EdgeSet == {e \in [from : Nodes, to : Nodes, out : Outputs] : e.from < e.to}

ASSUME NodesAssumption == Nodes \subseteq Nat
ASSUME GraphsAssumption == Graphs \subseteq SUBSET EdgeSet
ASSUME TargetsAssumption == Targets \subseteq SUBSET Nodes
ASSUME BoundsAssumption == Deadline \in Nat /\ MaxEvents \in Nat

VARIABLES
    edges,      \* the workflow of this run
    exec,       \* ExecutionState: nodes executed, skipped, in error; outputs
    started, settled, conts,    \* HeartbeatState
    applied,    \* how many results each node has been given
    pc,         \* where the run is
    now,        \* the time a tick works with
    batch,      \* drained events still to be matched
    matched,    \* whether the first of them has been given to a node
    unmatched,  \* drained events to push back
    due,        \* polls this tick has still to make
    until,      \* end of the current wait or sleep
    inbox,      \* events that wait for the run
    sent,       \* events so far
    clock,
    status      \* of the record that is saved

hb == <<started, settled, conts, applied>>
vars == <<edges, exec, hb, pc, now, batch, matched, unmatched, due, until, inbox,
          sent, clock, status>>

-----------------------------------------------------------------------------
NoCont == [kind |-> "none", at |-> 0, until |-> 0]
Cont == [kind : {"none", "event", "poll"}, at : Nat, until : Nat]

Completed(o) == [status |-> "completed", outs |-> o, cont |-> NoCont]
Failed == [status |-> "error", outs |-> {}, cont |-> NoCont]
Skipped == [status |-> "skipped", outs |-> {}, cont |-> NoCont]
Pending(kind, at, end) == [status |-> "pending", outs |-> {},
                           cont |-> [kind |-> kind, at |-> at, until |-> end]]

\* An event is for the nodes whose event type and id it names, and carries what
\* settles them; `early` are those not yet started when it was sent.
Payload == {Failed} \cup {Completed(o) : o \in SUBSET Outputs}
Event == [to : Targets, payload : Payload, early : SUBSET Nodes]

Phases == {"test", "first", "poll", "invoke", "second", "wait", "sleep", "done"}

TypeOK ==
    /\ edges \in Graphs
    /\ exec \in [executed : SUBSET Nodes, skipped : SUBSET Nodes, errors : SUBSET Nodes,
                 outs : [Nodes -> SUBSET Outputs]]
    /\ started \subseteq Nodes /\ settled \subseteq started
    /\ conts \in [Nodes -> Cont]
    /\ applied \in [Nodes -> 0..1]
    /\ pc \in Phases
    /\ now \in Nat /\ until \in Nat /\ clock \in Nat
    /\ batch \in Seq(Event) /\ unmatched \in Seq(Event) /\ inbox \in Seq(Event)
    /\ matched \in BOOLEAN
    /\ due \subseteq Nodes
    /\ sent \in 0..MaxEvents
    /\ status \in {"executing", "completed", "error"}

Init ==
    /\ edges \in Graphs
    /\ exec = [executed |-> {}, skipped |-> {}, errors |-> {},
               outs |-> [n \in Nodes |-> {}]]
    /\ started = {} /\ settled = {}
    /\ conts = [n \in Nodes |-> NoCont]
    /\ applied = [n \in Nodes |-> 0]
    /\ pc = "test"
    /\ now = 0 /\ until = 0 /\ clock = 0
    /\ batch = <<>> /\ unmatched = <<>> /\ inbox = <<>>
    /\ matched = FALSE
    /\ due = {}
    /\ sent = 0
    /\ status = "executing"

-----------------------------------------------------------------------------
(* Results of nodes, and what the graph makes of them.                     *)

\* applyInvokeResult of the results r of the nodes S.
ApplyResults(S, r) ==
    LET With(s) == {n \in S : r[n].status = s} IN
    /\ exec' = [executed |-> exec.executed \cup With("completed"),
                skipped |-> exec.skipped \cup With("skipped"),
                errors |-> exec.errors \cup With("error"),
                outs |-> [n \in Nodes |-> IF n \in With("completed") THEN r[n].outs
                                                                     ELSE exec.outs[n]]]
    /\ settled' = settled \cup (S \ With("pending"))
    /\ conts' = [n \in Nodes |-> IF n \in S THEN r[n].cont ELSE conts[n]]
    /\ applied' = [n \in Nodes |-> IF n \in S \ With("pending") THEN applied[n] + 1
                                                                ELSE applied[n]]

Inbound(n) == {e \in edges : e.to = n}

Unavailable(e) ==
    \/ e.from \in exec.errors \cup exec.skipped
    \/ e.from \in exec.executed /\ e.out \notin exec.outs[e.from]

\* With a bug: no input at all counts as no input available.
SkipsSources(n) == \A e \in Inbound(n) : Unavailable(e)

\* checkSkipCondition
Skips(n) ==
    \/ n \in exec.skipped \cup exec.errors
    \/ Inbound(n) # {} /\ \A e \in Inbound(n) : Unavailable(e)

\* inferSkipReason; "unknown" is the case the code has no blocker for.
SkipReason[n \in Nodes] ==
    LET Failing(e) == \/ e.from \in exec.errors
                      \/ e.from \in exec.skipped /\ SkipReason[e.from] # "conditional_branch"
    IN  IF \E e \in Inbound(n) : Failing(e) THEN "upstream_failure"
        ELSE IF \E e \in Inbound(n) : Unavailable(e) THEN "conditional_branch" ELSE "unknown"

\* getExecutionStatus
ExecutionStatus ==
    IF Nodes \ (exec.executed \cup exec.skipped \cup exec.errors) # {} THEN "executing"
    ELSE IF \/ exec.errors # {}
            \/ \E n \in exec.skipped : SkipReason[n] # "conditional_branch"
         THEN "error" ELSE "completed"

\* With a bug: one settled input is enough.
NodeReadyEarly(n) ==
    n \notin started /\ (Inbound(n) = {} \/ \E e \in Inbound(n) : e.from \in settled)

NodeReady(n) == n \notin started /\ \A e \in Inbound(n) : e.from \in settled
Ready == {n \in Nodes : NodeReady(n)}

Parked(kind) == {n \in Nodes : conts[n].kind = kind}
Continued == Parked("event") \cup Parked("poll")

-----------------------------------------------------------------------------
(* runHeartbeatTick                                                        *)

\* With a bug: a run in which a node failed is not taken for ended.
TerminalIfCompleted == Continued = {} /\ ExecutionStatus = "completed"

Terminal == Continued = {} /\ ExecutionStatus # "executing"

StartTick ==
    /\ pc = "test"
    /\ IF Terminal
       THEN /\ pc' = "done" /\ status' = ExecutionStatus
            /\ UNCHANGED <<now, batch, inbox>>
       ELSE /\ pc' = "first" /\ now' = clock
            /\ batch' = inbox /\ inbox' = <<>>
            /\ UNCHANGED status
    /\ UNCHANGED <<edges, exec, hb, matched, unmatched, due, until, sent, clock>>

\* With a bug: the node an event is for need not be parked any more.
MatchesAnyStarted(e) == e.to \cap started

Matches(e) == e.to \cap Parked("event")

\* The first event of the batch, in either pass over the inbox: it is given to
\* the nodes parked for it one at a time, and when there is none left the pass
\* goes on to the next event.
MatchEvent ==
    /\ pc \in {"first", "second"} /\ batch # <<>>
    /\ LET e == Head(batch) IN
       \/ /\ \E n \in Matches(e) : ApplyResults({n}, [m \in {n} |-> e.payload])
          /\ matched' = TRUE
          /\ UNCHANGED <<batch, unmatched>>
       \/ /\ Matches(e) = {}
          /\ unmatched' = IF matched THEN unmatched ELSE Append(unmatched, e)
          /\ batch' = Tail(batch) /\ matched' = FALSE
          /\ UNCHANGED <<exec, hb>>
    /\ UNCHANGED <<edges, started, pc, now, due, until, inbox, sent, clock, status>>

\* Events that matched nothing go back behind those that came meanwhile.
PushBack ==
    /\ batch = <<>>
    /\ inbox' = inbox \o unmatched
    /\ unmatched' = <<>>

\* With a bug: whether a node is parked is not looked at.
LateUnparked == {n \in Nodes : conts[n].until <= now}

Late == {n \in Parked("event") : conts[n].until <= now}
DuePolls(t) == {n \in Parked("poll") : conts[n].at <= t}

TimeOutEvents ==
    /\ pc = "first" /\ PushBack
    /\ ApplyResults(Late, [n \in Late |-> Failed])
    /\ due' = DuePolls(now)
    /\ pc' = "poll"
    /\ UNCHANGED <<edges, started, now, batch, matched, until, sent, clock,
                   status>>

PollAnswers(n) ==
    IF conts[n].until <= now THEN {Failed}
    ELSE {Pending("poll", clock + 1, conts[n].until)} \cup Payload

Poll(n) ==
    /\ pc = "poll" /\ n \in due
    /\ \E a \in PollAnswers(n) : ApplyResults({n}, [m \in {n} |-> a])
    /\ due' = due \ {n}
    /\ UNCHANGED <<edges, started, pc, now, batch, matched, unmatched, until,
                   inbox, sent, clock, status>>

Ends == {conts[n].until : n \in Parked("event")} \cup {clock}

\* computeHeartbeatWake.  A parked node that waits for an event makes the run
\* wait until the last such deadline, whatever is to be polled meanwhile.
Wake ==
    IF Ready # {} \/ Continued = {} \/ DuePolls(clock) # {}
    THEN pc' = "test" /\ until' = 0
    ELSE IF Parked("event") # {}
    THEN /\ pc' = "wait"
         /\ until' \in Ends /\ \A t \in Ends : t <= until'
    ELSE /\ pc' = "sleep"
         /\ \E n \in Parked("poll") : until' = conts[n].at
         /\ \A n \in Parked("poll") : until' <= conts[n].at

StartNodes ==
    /\ pc = "poll" /\ due = {}
    /\ IF Ready # {} THEN pc' = "invoke" /\ UNCHANGED until ELSE Wake
    /\ now' = 0
    /\ UNCHANGED <<edges, exec, hb, batch, matched, unmatched, due, inbox, sent,
                   clock, status>>

Answers(n) ==
    IF Skips(n) THEN {Skipped}
    ELSE Payload
         \cup {Pending("event", 0, t) : t \in (clock + 1)..Deadline}
         \cup {Pending("poll", clock, t) : t \in (clock + 1)..Deadline}

\* With a bug: events that came while the nodes ran wait for the next tick.
NodesAnswerOnly ==
    /\ pc = "invoke"
    /\ \E r \in [Ready -> UNION {Answers(n) : n \in Ready}] :
          /\ \A n \in Ready : r[n] \in Answers(n)
          /\ ApplyResults(Ready, r)
    /\ started' = started \cup Ready
    /\ batch' = <<>>
    /\ pc' = "second"
    /\ UNCHANGED <<edges, now, matched, unmatched, due, until, inbox, sent,
                   clock, status>>

NodesAnswer ==
    /\ pc = "invoke"
    /\ \E r \in [Ready -> UNION {Answers(n) : n \in Ready}] :
          /\ \A n \in Ready : r[n] \in Answers(n)
          /\ ApplyResults(Ready, r)
    /\ started' = started \cup Ready
    /\ batch' = inbox /\ inbox' = <<>>
    /\ pc' = "second"
    /\ UNCHANGED <<edges, now, matched, unmatched, due, until, sent, clock,
                   status>>

EndTick ==
    /\ pc = "second" /\ PushBack /\ Wake
    /\ UNCHANGED <<edges, exec, hb, now, batch, matched, due, sent, clock,
                   status>>

-----------------------------------------------------------------------------
(* Between and around the ticks.                                           *)

SleepEnds ==
    /\ pc = "sleep" /\ clock >= until
    /\ pc' = "test" /\ until' = 0
    /\ UNCHANGED <<edges, exec, hb, now, batch, matched, unmatched, due, inbox,
                   sent, clock, status>>

\* A wait that times out, an event, a poll or an input that cannot be read: the
\* run is reported failed, whatever its nodes were doing.
Abort ==
    \/ pc = "wait" /\ clock >= until
    \/ /\ pc \in {"first", "second"} /\ batch # <<>>
       /\ Matches(Head(batch)) # {} /\ Head(batch).payload # Failed
    \/ pc = "poll" /\ \E n \in due : conts[n].until > now
    \/ pc = "invoke" /\ \E n \in Ready : ~Skips(n)

Fail ==
    /\ Abort
    /\ pc' = "done" /\ status' = "error"
    /\ UNCHANGED <<edges, exec, hb, now, batch, matched, unmatched, due, until,
                   inbox, sent, clock>>

\* sendEvent of the hub: a wait takes the event, else the inbox keeps it.
Send(to, payload) ==
    /\ pc # "done" /\ sent < MaxEvents
    /\ sent' = sent + 1
    /\ inbox' = Append(inbox, [to |-> to, payload |-> payload, early |-> to \ started])
    /\ IF pc = "wait" THEN pc' = "test" /\ until' = 0 ELSE UNCHANGED <<pc, until>>
    /\ UNCHANGED <<edges, exec, hb, now, batch, matched, unmatched, due, clock,
                   status>>

TimePasses ==
    /\ clock < (IF pc = "sleep" THEN until ELSE Deadline)
    /\ clock' = clock + 1
    /\ UNCHANGED <<edges, exec, hb, pc, now, batch, matched, unmatched, due,
                   until, inbox, sent, status>>

Terminated == pc = "done" /\ UNCHANGED vars

Run == StartTick \/ MatchEvent \/ TimeOutEvents \/ (\E n \in Nodes : Poll(n)) \/ StartNodes
       \/ NodesAnswer \/ EndTick \/ SleepEnds

WaitTimesOut == pc = "wait" /\ Fail

Next == Run \/ Fail \/ (\E to \in Targets, p \in Payload : Send(to, p)) \/ TimePasses \/ Terminated

Spec == Init /\ [][Next]_vars
Fairness == WF_vars(Run) /\ WF_vars(WaitTimesOut) /\ WF_vars(TimePasses)
FairSpec == Spec /\ Fairness

-----------------------------------------------------------------------------
(* What a run may be relied on for.                                        *)

NodePhase ==
    [n \in Nodes |-> IF n \in exec.executed THEN "executed"
                     ELSE IF n \in exec.skipped THEN "skipped"
                     ELSE IF n \in exec.errors THEN "failed"
                     ELSE IF n \in Continued THEN "running" ELSE "waiting"]

Flow == INSTANCE Dataflow WITH phase <- NodePhase, outs <- exec.outs, verdict <- status

\* The run does what the dataflow of its workflow prescribes: whatever events,
\* timeouts and polls race, a node starts after its inputs, settles once and
\* keeps its outputs, and a run reported completed has no failed node.
ImplementsDataflow == Flow!Spec

\* A result is applied once to a node and makes it settled; until then, once
\* started, it has a continuation that will bring the result.
SettledOnce ==
    /\ exec.executed \cap exec.skipped = {}
    /\ exec.errors \cap (exec.executed \cup exec.skipped) = {}
    /\ settled = exec.executed \cup exec.skipped \cup exec.errors
    /\ \A n \in Nodes : applied[n] = IF n \in settled THEN 1 ELSE 0
    /\ Continued = started \ settled

\* An event that was sent before the node it is for had been started is not
\* left in the inbox when the run waits for events of that node.
EarlyEventsMatched ==
    pc = "wait" =>
        \A i \in DOMAIN inbox : inbox[i].early \cap Parked("event") = {}

\* The case inferSkipReason has no blocker for does not occur, so a run whose
\* every node settled without an error is reported completed.
SkipsHaveReasons ==
    /\ \A n \in exec.skipped : SkipReason[n] # "unknown"
    /\ exec.errors = {} => ExecutionStatus # "error"

\* Every run ends: no schedule of events, polls and timeouts leaves it
\* spinning, asleep or waiting for ever.
RunEnds == <>(pc = "done")
=============================================================================
