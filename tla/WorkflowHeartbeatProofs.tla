---------------------- MODULE WorkflowHeartbeatProofs ----------------------
(***************************************************************************)
(* For every set of workflows, every bound and every order of events,      *)
(* polls and timeouts: the type invariant, that each node is settled once, *)
(* that events sent early are matched, that a run does what Dataflow       *)
(* prescribes, and that every skipped node has a reason.                   *)
(***************************************************************************)
EXTENDS WorkflowHeartbeat, WellFoundedInduction, TLAPS

Execution == [executed : SUBSET Nodes, skipped : SUBSET Nodes, errors : SUBSET Nodes,
              outs : [Nodes -> SUBSET Outputs]]

Statuses == {"completed", "error", "skipped", "pending"}

\* What a node can be given: a continuation exactly if the result is pending.
Result == {x \in [status : Statuses, outs : SUBSET Outputs, cont : Cont] :
              x.status = "pending" <=> x.cont.kind # "none"}

\* Polls still to be made are of parked nodes, which nothing else settles meanwhile.
DueArePolls == due \subseteq Parked("poll") /\ (due # {} => pc \in {"poll", "done"})

RunningIsExecuting == status = "executing" <=> pc # "done"

\* No event that was sent early waits for a node parked on it, in the inbox or
\* among the events to push back; those are pushed back within the pass.
EarlyNames(q) == \A i \in DOMAIN q : q[i].early \subseteq q[i].to
NoneEarly(q) == \A i \in DOMAIN q : q[i].early \cap Parked("event") = {}

EventsKept ==
    /\ EarlyNames(batch) /\ EarlyNames(unmatched) /\ EarlyNames(inbox)
    /\ NoneEarly(unmatched) /\ NoneEarly(inbox)
    /\ unmatched # <<>> => pc \in {"first", "second", "done"}

HeartbeatInvariant ==
    TypeOK /\ SettledOnce /\ DueArePolls /\ RunningIsExecuting /\ EventsKept

-----------------------------------------------------------------------------
(* Results.                                                                *)

LEMMA PayloadIsResult == Payload \subseteq Result
  BY DEF Payload, Result, Statuses, Failed, Completed, NoCont, Cont

LEMMA PendingIsResult ==
  ASSUME NEW kind \in {"event", "poll"}, NEW at \in Nat, NEW end \in Nat
  PROVE  Pending(kind, at, end) \in Result
  BY DEF Pending, Result, Statuses, Cont

LEMMA SkippedIsResult == Skipped \in Result
  BY DEF Skipped, Result, Statuses, NoCont, Cont

\* Results for nodes that have not been settled keep the types and settle once.
LEMMA ResultsApplied ==
  ASSUME TypeOK, SettledOnce,
         NEW S \in SUBSET Nodes, NEW r \in [S -> Result],
         ApplyResults(S, r), S \cap settled = {}, started' = started \cup S
  PROVE  /\ exec' \in Execution
         /\ started' \subseteq Nodes /\ settled' \subseteq started'
         /\ conts' \in [Nodes -> Cont]
         /\ applied' \in [Nodes -> 0..1]
         /\ SettledOnce'
PROOF
  <1> DEFINE With(s) == {n \in S : r[n].status = s}
  <1> USE DEF TypeOK
  <1>1. \A n \in S : /\ r[n].status \in Statuses /\ r[n].outs \in SUBSET Outputs
                     /\ r[n].cont \in Cont
                     /\ r[n].status = "pending" <=> r[n].cont.kind # "none"
    BY DEF Result
  <1>2. /\ exec'.executed = exec.executed \cup With("completed")
        /\ exec'.skipped = exec.skipped \cup With("skipped")
        /\ exec'.errors = exec.errors \cup With("error")
        /\ exec'.outs = [n \in Nodes |-> IF n \in With("completed") THEN r[n].outs
                                                                    ELSE exec.outs[n]]
        /\ exec' = [executed |-> exec'.executed, skipped |-> exec'.skipped,
                    errors |-> exec'.errors, outs |-> exec'.outs]
    BY DEF ApplyResults
  <1>3. exec'.outs \in [Nodes -> SUBSET Outputs]
    BY <1>1, <1>2
  <1>4. exec' \in Execution
    BY <1>2, <1>3 DEF Execution
  <1>5. settled' = settled \cup (S \ With("pending"))
    BY DEF ApplyResults
  <1>6. S = With("completed") \cup With("skipped") \cup With("error") \cup With("pending")
    BY <1>1 DEF Statuses
  <1>7. conts' = [n \in Nodes |-> IF n \in S THEN r[n].cont ELSE conts[n]]
    BY DEF ApplyResults
  <1>8. conts' \in [Nodes -> Cont]
    BY <1>1, <1>7
  <1>9. \A n \in Nodes : applied'[n] = IF n \in settled' THEN 1 ELSE 0
    BY <1>5 DEF ApplyResults, SettledOnce
  <1>10. applied' \in [Nodes -> 0..1]
    <2>1. DOMAIN applied' = Nodes /\ applied' = [n \in Nodes |-> applied'[n]]
      BY DEF ApplyResults
    <2> QED BY <2>1, <1>9
  <1>11. settled' = exec'.executed \cup exec'.skipped \cup exec'.errors
    BY <1>2, <1>5, <1>6 DEF SettledOnce
  <1>12. /\ exec'.executed \cap exec'.skipped = {}
         /\ exec'.errors \cap (exec'.executed \cup exec'.skipped) = {}
    BY <1>2 DEF SettledOnce
  <1>13. Continued' = started' \ settled'
    <2>1. \A n \in Nodes : n \in Continued <=> conts[n].kind # "none"
      BY DEF Continued, Parked, Cont
    <2>2. \A n \in Nodes : n \in Continued' <=> conts'[n].kind # "none"
      BY <1>8 DEF Continued, Parked, Cont
    <2>3. Continued' \subseteq Nodes
      BY DEF Continued, Parked
    <2>4. \A n \in Nodes : conts'[n].kind # "none" <=> n \in started' \ settled'
      BY <1>1, <1>5, <1>7, <2>1 DEF SettledOnce
    <2> QED BY <2>2, <2>3, <2>4
  <1> QED BY <1>4, <1>5, <1>8, <1>9, <1>10, <1>11, <1>12, <1>13 DEF SettledOnce

-----------------------------------------------------------------------------
(* Events.                                                                 *)

\* Dropping the first event keeps what holds of all of them.
LEMMA TailNames ==
  ASSUME NEW q \in Seq(Event), q # <<>>, EarlyNames(q)
  PROVE  Tail(q) \in Seq(Event) /\ EarlyNames(Tail(q)) /\ Head(q) \in Event
         /\ Head(q).early \subseteq Head(q).to
PROOF
  <1>1. Tail(q) \in Seq(Event) /\ Head(q) \in Event /\ Len(q) \in Nat \ {0}
    OBVIOUS
  <1>2. Head(q) = q[1] /\ 1 \in DOMAIN q
    BY <1>1
  <1>3. \A i \in DOMAIN Tail(q) : Tail(q)[i] = q[i + 1] /\ i + 1 \in DOMAIN q
    BY <1>1
  <1> QED BY <1>1, <1>2, <1>3 DEF EarlyNames

\* So does appending one.
LEMMA AppendNames ==
  ASSUME NEW q \in Seq(Event), NEW e \in Event, EarlyNames(q), e.early \subseteq e.to
  PROVE  Append(q, e) \in Seq(Event) /\ EarlyNames(Append(q, e))
PROOF
  <1>1. /\ Append(q, e) \in Seq(Event)
        /\ \A i \in DOMAIN Append(q, e) :
              (i \in DOMAIN q /\ Append(q, e)[i] = q[i]) \/ Append(q, e)[i] = e
    OBVIOUS
  <1> QED BY <1>1 DEF EarlyNames

LEMMA AppendEarly ==
  ASSUME NEW q \in Seq(Event), NEW e \in Event, NEW N \in SUBSET Nodes,
         \A i \in DOMAIN q : q[i].early \cap N = {}, e.early \cap N = {}
  PROVE  \A i \in DOMAIN Append(q, e) : Append(q, e)[i].early \cap N = {}
PROOF
  <1>1. \A i \in DOMAIN Append(q, e) :
              (i \in DOMAIN q /\ Append(q, e)[i] = q[i]) \/ Append(q, e)[i] = e
    OBVIOUS
  <1> QED BY <1>1

\* And joining two queues.
LEMMA JoinEvents ==
  ASSUME NEW p \in Seq(Event), NEW q \in Seq(Event)
  PROVE  /\ p \o q \in Seq(Event)
         /\ \A i \in DOMAIN (p \o q) : \/ i \in DOMAIN p /\ (p \o q)[i] = p[i]
                                       \/ i - Len(p) \in DOMAIN q
                                          /\ (p \o q)[i] = q[i - Len(p)]
  OBVIOUS

\* Events that are pushed back behind the inbox keep their invariant.
LEMMA PushedBack ==
  ASSUME TypeOK, EventsKept, PushBack, Parked("event")' \subseteq Parked("event")
  PROVE  /\ inbox' \in Seq(Event) /\ unmatched' \in Seq(Event)
         /\ EarlyNames(inbox') /\ EarlyNames(unmatched')
         /\ NoneEarly(inbox)' /\ NoneEarly(unmatched)' /\ unmatched' = <<>>
PROOF
  <1> USE DEF TypeOK, EventsKept
  <1>1. inbox' = inbox \o unmatched /\ unmatched' = <<>>
    BY DEF PushBack
  <1>2. /\ inbox' \in Seq(Event)
        /\ \A i \in DOMAIN inbox' : \/ i \in DOMAIN inbox /\ inbox'[i] = inbox[i]
                                    \/ i - Len(inbox) \in DOMAIN unmatched
                                       /\ inbox'[i] = unmatched[i - Len(inbox)]
    BY <1>1, JoinEvents
  <1>3. EarlyNames(inbox')
    BY <1>2 DEF EarlyNames
  <1>4. NoneEarly(inbox)'
    BY <1>2 DEF NoneEarly
  <1>5. unmatched' \in Seq(Event) /\ EarlyNames(unmatched') /\ NoneEarly(unmatched)'
    BY <1>1 DEF EarlyNames, NoneEarly
  <1> QED BY <1>1, <1>2, <1>3, <1>4, <1>5

\* A drained inbox, as the batch of a pass.
LEMMA SetsOfEvents ==
  ASSUME TypeOK, EventsKept, batch' = inbox, inbox' = <<>>
  PROVE  /\ batch' \in Seq(Event) /\ inbox' \in Seq(Event)
         /\ EarlyNames(batch') /\ EarlyNames(inbox') /\ NoneEarly(inbox)'
  BY DEF TypeOK, EventsKept, EarlyNames, NoneEarly

-----------------------------------------------------------------------------
(* The invariant.                                                          *)

LEMMA HeartbeatInit == Init => HeartbeatInvariant
PROOF
  <1> SUFFICES ASSUME Init PROVE HeartbeatInvariant
    OBVIOUS
  <1>1. matched \in BOOLEAN
    BY DEF Init
  <1>2. TypeOK
    BY <1>1, BoundsAssumption DEF Init, TypeOK, NoCont, Cont, Phases
  <1> QED
    BY <1>2 DEF Init, HeartbeatInvariant, SettledOnce, DueArePolls, RunningIsExecuting,
                EventsKept, EarlyNames, NoneEarly, Continued, Parked, NoCont

\* The wake plan sets only where and until when the run waits.
LEMMA WakeTypes ==
  ASSUME TypeOK, Wake
  PROVE  pc' \in {"test", "wait", "sleep"} /\ until' \in Nat
PROOF
  <1> USE DEF TypeOK
  <1>1. Ends \subseteq Nat
    BY DEF Ends, Cont, Parked
  <1>2. \A n \in Parked("poll") : conts[n].at \in Nat
    BY DEF Cont, Parked
  <1>3. CASE Ready # {} \/ Continued = {} \/ DuePolls(clock) # {}
    BY <1>3 DEF Wake
  <1>4. CASE ~(Ready # {} \/ Continued = {} \/ DuePolls(clock) # {}) /\ Parked("event") # {}
    BY <1>1, <1>4 DEF Wake
  <1>5. CASE ~(Ready # {} \/ Continued = {} \/ DuePolls(clock) # {}) /\ Parked("event") = {}
    BY <1>2, <1>5 DEF Wake
  <1> QED BY <1>3, <1>4, <1>5

\* What only moves the run and the clock keeps what is known of the nodes.
LEMMA NodesUntouched ==
  ASSUME HeartbeatInvariant, UNCHANGED <<exec, started, settled, conts, applied>>
  PROVE  SettledOnce' /\ Parked("event")' = Parked("event") /\ Parked("poll")' = Parked("poll")
  BY DEF HeartbeatInvariant, SettledOnce, Continued, Parked

\* The invariant after a step that leaves the nodes and the queues alone.
LEMMA OnlyTheRunMoves ==
  ASSUME HeartbeatInvariant,
         UNCHANGED <<edges, exec, started, settled, conts, applied, batch, matched, unmatched,
                     due, inbox>>,
         pc' \in Phases, now' \in Nat, until' \in Nat, clock' \in Nat, sent' \in 0..MaxEvents,
         status' \in {"executing", "completed", "error"},
         status' = "executing" <=> pc' # "done",
         due # {} => pc' \in {"poll", "done"},
         unmatched # <<>> => pc' \in {"first", "second", "done"}
  PROVE  HeartbeatInvariant'
PROOF
  <1> USE DEF HeartbeatInvariant
  <1>1. SettledOnce' /\ Parked("event")' = Parked("event") /\ Parked("poll")' = Parked("poll")
    BY NodesUntouched
  <1>2. TypeOK'
    BY DEF TypeOK
  <1>3. DueArePolls'
    BY <1>1 DEF DueArePolls
  <1>4. RunningIsExecuting'
    BY DEF RunningIsExecuting
  <1>5. EventsKept'
    BY <1>1 DEF EventsKept, EarlyNames, NoneEarly
  <1> QED BY <1>1, <1>2, <1>3, <1>4, <1>5

LEMMA StartTickKeeps == HeartbeatInvariant /\ StartTick => HeartbeatInvariant'
PROOF
  <1> SUFFICES ASSUME HeartbeatInvariant, StartTick PROVE HeartbeatInvariant'
    OBVIOUS
  <1> USE DEF HeartbeatInvariant
  <1>1. ExecutionStatus \in {"executing", "completed", "error"}
    BY DEF ExecutionStatus
  <1>2. CASE Terminal
    <2>1. pc = "test" /\ pc' = "done" /\ status' \in {"completed", "error"}
          /\ UNCHANGED <<now, batch, inbox>>
      BY <1>1, <1>2 DEF StartTick, Terminal
    <2> QED BY <2>1, OnlyTheRunMoves
            DEF StartTick, hb, TypeOK, DueArePolls, RunningIsExecuting, EventsKept, Phases
  <1>3. CASE ~Terminal
    <2>1. /\ pc = "test" /\ pc' = "first" /\ now' = clock /\ status' = status
          /\ batch' = inbox /\ inbox' = <<>>
          /\ UNCHANGED <<edges, exec, started, settled, conts, applied, matched, unmatched, due,
                         until, sent, clock>>
      BY <1>3 DEF StartTick, hb
    <2>2. SettledOnce' /\ Parked("event")' = Parked("event") /\ Parked("poll")' = Parked("poll")
      BY <2>1, NodesUntouched
    <2>3. /\ batch' \in Seq(Event) /\ inbox' \in Seq(Event)
          /\ EarlyNames(batch') /\ EarlyNames(inbox') /\ NoneEarly(inbox)'
      BY <2>1, SetsOfEvents
    <2>4. TypeOK'
      BY <2>1, <2>3 DEF TypeOK, Phases
    <2>5. DueArePolls' /\ RunningIsExecuting'
      BY <2>1, <2>2 DEF DueArePolls, RunningIsExecuting
    <2>6. EventsKept'
      BY <2>1, <2>2, <2>3 DEF EventsKept, EarlyNames, NoneEarly
    <2> QED BY <2>2, <2>4, <2>5, <2>6
  <1> QED BY <1>2, <1>3

\* An event is given to one of the nodes parked for it.
LEMMA GivenKeeps ==
  ASSUME HeartbeatInvariant, MatchEvent, Matches(Head(batch)) # {} PROVE HeartbeatInvariant'
PROOF
  <1> USE DEF HeartbeatInvariant
  <1> DEFINE e == Head(batch)
  <1>1. PICK n \in Matches(e) : ApplyResults({n}, [m \in {n} |-> e.payload])
    BY DEF MatchEvent
  <1> DEFINE S == {n}
             r == [m \in S |-> e.payload]
  <1>2. /\ pc \in {"first", "second"} /\ batch # <<>> /\ matched' = TRUE
        /\ UNCHANGED <<edges, started, pc, now, batch, unmatched, due, until, inbox, sent,
                       clock, status>>
    BY DEF MatchEvent
  <1>3. S \subseteq Parked("event") /\ S \in SUBSET Nodes
    BY <1>1 DEF Matches, Parked
  <1>4. S \cap settled = {} /\ S \subseteq started
    BY <1>3 DEF SettledOnce, Continued
  <1>5. e.payload \in Payload
    BY <1>2, TailNames DEF TypeOK, EventsKept, Event
  <1>6. r \in [S -> Result]
    BY <1>5, PayloadIsResult
  <1>7. started' = started \cup S
    BY <1>2, <1>4
  <1>8. /\ exec' \in Execution /\ settled' \subseteq started' /\ conts' \in [Nodes -> Cont]
        /\ applied' \in [Nodes -> 0..1] /\ SettledOnce'
    BY <1>1, <1>3, <1>4, <1>6, <1>7, ResultsApplied
  <1>9. /\ Parked("event")' \subseteq Parked("event") /\ Parked("poll")' = Parked("poll")
    <2>1. \A m \in S : r[m].cont.kind = "none"
      <3>1. \A p \in Payload : p.cont.kind = "none"
        BY DEF Payload, Failed, Completed, NoCont
      <3>2. e.payload.cont.kind = "none"
        BY <1>5, <3>1
      <3> HIDE DEF e, S
      <3> QED BY <3>2
    <2>2. conts' = [m \in Nodes |-> IF m \in S THEN r[m].cont ELSE conts[m]]
      BY <1>1 DEF ApplyResults
    <2>3. \A m \in S : conts[m].kind = "event"
      BY <1>3 DEF Parked
    <2> HIDE DEF r, S
    <2> QED BY <2>1, <2>2, <2>3 DEF Parked
  <1>10. TypeOK'
    BY <1>2, <1>8 DEF TypeOK, Execution
  <1>11. DueArePolls' /\ RunningIsExecuting'
    BY <1>2, <1>9 DEF DueArePolls, RunningIsExecuting
  <1>12. EventsKept'
    BY <1>2, <1>9 DEF EventsKept, NoneEarly
  <1> QED BY <1>8, <1>10, <1>11, <1>12

\* An event is done with, or matched nothing and is to be pushed back.
LEMMA PassedKeeps ==
  ASSUME HeartbeatInvariant, MatchEvent, Matches(Head(batch)) = {} PROVE HeartbeatInvariant'
PROOF
  <1> USE DEF HeartbeatInvariant
  <1> DEFINE e == Head(batch)
  <1>1. /\ pc \in {"first", "second"} /\ batch # <<>>
        /\ unmatched' = IF matched THEN unmatched ELSE Append(unmatched, e)
        /\ batch' = Tail(batch) /\ matched' = FALSE
        /\ UNCHANGED <<edges, exec, started, settled, conts, applied, pc, now, due, until,
                       inbox, sent, clock, status>>
    BY DEF MatchEvent, hb
  <1>2. batch' \in Seq(Event) /\ EarlyNames(batch') /\ e \in Event /\ e.early \subseteq e.to
    BY <1>1, TailNames DEF TypeOK, EventsKept
  <1>3. SettledOnce' /\ Parked("event")' = Parked("event") /\ Parked("poll")' = Parked("poll")
    BY <1>1, NodesUntouched
  <1>4. unmatched' \in Seq(Event) /\ EarlyNames(unmatched') /\ NoneEarly(unmatched)'
    <2>1. CASE ~matched
      <3>1. unmatched' = Append(unmatched, e)
        BY <1>1, <2>1
      <3>2. e.early \cap Parked("event")' = {}
        BY <1>2, <1>3 DEF Matches
      <3>3. Parked("event")' \in SUBSET Nodes
        BY DEF Parked
      <3>4. \A i \in DOMAIN unmatched : unmatched[i].early \cap Parked("event")' = {}
        BY <1>3 DEF EventsKept, NoneEarly
      <3>5. unmatched \in Seq(Event) /\ EarlyNames(unmatched)
        BY DEF TypeOK, EventsKept
      <3>6. unmatched' \in Seq(Event) /\ EarlyNames(unmatched')
        BY <1>2, <3>1, <3>5, AppendNames
      <3>7. \A i \in DOMAIN Append(unmatched, e) :
                Append(unmatched, e)[i].early \cap Parked("event")' = {}
        BY <1>2, <3>2, <3>3, <3>4, <3>5, AppendEarly
      <3> QED BY <3>1, <3>6, <3>7 DEF NoneEarly
    <2>2. CASE matched
      BY <1>1, <1>3, <2>2 DEF TypeOK, EventsKept, NoneEarly
    <2> QED BY <2>1, <2>2
  <1>5. NoneEarly(inbox)'
    BY <1>1, <1>3 DEF EventsKept, NoneEarly
  <1>6. TypeOK'
    BY <1>1, <1>2, <1>4 DEF TypeOK
  <1>7. DueArePolls' /\ RunningIsExecuting'
    BY <1>1, <1>3 DEF DueArePolls, RunningIsExecuting
  <1>8. EventsKept'
    BY <1>1, <1>2, <1>4, <1>5 DEF EventsKept
  <1> QED BY <1>3, <1>6, <1>7, <1>8

LEMMA MatchEventKeeps == HeartbeatInvariant /\ MatchEvent => HeartbeatInvariant'
  BY GivenKeeps, PassedKeeps

LEMMA TimeOutEventsKeeps == HeartbeatInvariant /\ TimeOutEvents => HeartbeatInvariant'
PROOF
  <1> SUFFICES ASSUME HeartbeatInvariant, TimeOutEvents PROVE HeartbeatInvariant'
    OBVIOUS
  <1> USE DEF HeartbeatInvariant
  <1> DEFINE r == [n \in Late |-> Failed]
  <1>1. /\ pc = "first" /\ pc' = "poll" /\ PushBack /\ ApplyResults(Late, r)
        /\ due' = DuePolls(now) /\ batch = <<>>
        /\ UNCHANGED <<edges, started, now, batch, matched, until, sent, clock, status>>
    BY DEF TimeOutEvents, PushBack
  <1>2. Late \subseteq Parked("event") /\ Late \in SUBSET Nodes
    BY DEF Late, Parked
  <1>3. Late \cap settled = {} /\ started' = started \cup Late
    BY <1>1, <1>2 DEF SettledOnce, Continued
  <1>4. r \in [Late -> Result]
    BY PayloadIsResult DEF Payload
  <1>5. /\ exec' \in Execution /\ settled' \subseteq started' /\ conts' \in [Nodes -> Cont]
        /\ applied' \in [Nodes -> 0..1] /\ SettledOnce'
    BY <1>1, <1>2, <1>3, <1>4, ResultsApplied
  <1>6. Parked("event")' \subseteq Parked("event") /\ Parked("poll")' = Parked("poll")
    <2>1. \A n \in Late : r[n].cont.kind = "none"
      BY DEF Failed, NoCont
    <2>2. conts' = [n \in Nodes |-> IF n \in Late THEN r[n].cont ELSE conts[n]]
      BY <1>1 DEF ApplyResults
    <2>3. \A n \in Late : conts[n].kind = "event"
      BY <1>2 DEF Parked
    <2> HIDE DEF r
    <2> QED BY <2>1, <2>2, <2>3 DEF Parked
  <1>7. /\ inbox' \in Seq(Event) /\ unmatched' \in Seq(Event)
        /\ EarlyNames(inbox') /\ EarlyNames(unmatched')
        /\ NoneEarly(inbox)' /\ NoneEarly(unmatched)' /\ unmatched' = <<>>
    BY <1>1, <1>6, PushedBack
  <1>8. due' \subseteq Parked("poll")'
    BY <1>1, <1>6 DEF DuePolls
  <1>9. TypeOK'
    BY <1>1, <1>5, <1>7, <1>8 DEF TypeOK, Execution, Phases, Parked
  <1>10. DueArePolls' /\ RunningIsExecuting'
    BY <1>1, <1>8 DEF DueArePolls, RunningIsExecuting
  <1>11. EventsKept'
    BY <1>1, <1>7 DEF EventsKept
  <1> QED BY <1>5, <1>9, <1>10, <1>11

LEMMA PollKeeps ==
  ASSUME HeartbeatInvariant, NEW n \in Nodes, Poll(n)
  PROVE  HeartbeatInvariant'
PROOF
  <1> USE DEF HeartbeatInvariant
  <1>1. PICK a \in PollAnswers(n) : ApplyResults({n}, [m \in {n} |-> a])
    BY DEF Poll
  <1>2. /\ pc = "poll" /\ n \in due /\ due' = due \ {n}
        /\ UNCHANGED <<edges, started, pc, now, batch, matched, unmatched, until, inbox, sent, clock,
                       status>>
    BY DEF Poll
  <1> DEFINE r == [m \in {n} |-> a]
  <1>3. conts[n].kind = "poll" /\ n \in Continued
    BY <1>2 DEF DueArePolls, Parked, Continued
  <1>4. {n} \cap settled = {} /\ started' = started \cup {n}
    BY <1>2, <1>3 DEF SettledOnce
  <1>5. a \in Result /\ a.cont.kind \in {"none", "poll"}
    <2>1. conts[n].until \in Nat /\ clock + 1 \in Nat
      BY DEF TypeOK, Cont
    <2>2. a = Pending("poll", clock + 1, conts[n].until) \/ a \in Payload
      BY <1>1 DEF PollAnswers, Payload
    <2>3. CASE a = Pending("poll", clock + 1, conts[n].until)
      BY <2>1, <2>3, PendingIsResult DEF Pending
    <2>4. CASE a \in Payload
      BY <2>4, PayloadIsResult DEF Payload, Failed, Completed, NoCont
    <2> QED BY <2>2, <2>3, <2>4
  <1>6. r \in [{n} -> Result] /\ {n} \in SUBSET Nodes
    BY <1>5
  <1>7. /\ exec' \in Execution /\ settled' \subseteq started' /\ conts' \in [Nodes -> Cont]
        /\ applied' \in [Nodes -> 0..1] /\ SettledOnce'
    BY <1>1, <1>4, <1>6, ResultsApplied
  <1>9. \A m \in Nodes : conts'[m] = IF m = n THEN a.cont ELSE conts[m]
    BY <1>1 DEF ApplyResults
  <1>10. Parked("event")' = Parked("event") /\ Parked("poll") \ {n} \subseteq Parked("poll")'
    BY <1>3, <1>5, <1>9 DEF Parked
  <1>11. TypeOK'
    BY <1>2, <1>7 DEF TypeOK, Execution
  <1>12. DueArePolls' /\ RunningIsExecuting'
    BY <1>2, <1>10 DEF DueArePolls, RunningIsExecuting
  <1>13. EventsKept'
    BY <1>2, <1>10 DEF EventsKept, EarlyNames, NoneEarly
  <1> QED BY <1>7, <1>11, <1>12, <1>13

LEMMA StartNodesKeeps == HeartbeatInvariant /\ StartNodes => HeartbeatInvariant'
PROOF
  <1> SUFFICES ASSUME HeartbeatInvariant, StartNodes PROVE HeartbeatInvariant'
    OBVIOUS
  <1> USE DEF HeartbeatInvariant
  <1>1. /\ pc = "poll" /\ due = {} /\ now' = 0
        /\ UNCHANGED <<edges, exec, started, settled, conts, applied, batch, matched, unmatched, due,
                       inbox, sent, clock, status>>
    BY DEF StartNodes, hb
  <1>2. pc' \in {"invoke", "test", "wait", "sleep"} /\ until' \in Nat
    <2>1. CASE Ready # {}
      BY <2>1 DEF StartNodes, TypeOK
    <2>2. CASE Ready = {}
      BY <2>2, WakeTypes DEF StartNodes
    <2> QED BY <2>1, <2>2
  <1>3. unmatched = <<>>
    BY <1>1 DEF EventsKept
  <1> QED BY <1>1, <1>2, <1>3, OnlyTheRunMoves DEF TypeOK, RunningIsExecuting, Phases

LEMMA NodesAnswerKeeps == HeartbeatInvariant /\ NodesAnswer => HeartbeatInvariant'
PROOF
  <1> SUFFICES ASSUME HeartbeatInvariant, NodesAnswer PROVE HeartbeatInvariant'
    OBVIOUS
  <1> USE DEF HeartbeatInvariant
  <1>1. PICK r \in [Ready -> UNION {Answers(n) : n \in Ready}] :
            /\ \A n \in Ready : r[n] \in Answers(n)
            /\ ApplyResults(Ready, r)
    BY DEF NodesAnswer
  <1>2. /\ pc = "invoke" /\ pc' = "second" /\ started' = started \cup Ready
        /\ batch' = inbox /\ inbox' = <<>>
        /\ UNCHANGED <<edges, now, matched, unmatched, due, until, sent, clock, status>>
    BY DEF NodesAnswer
  <1>3. Ready \in SUBSET Nodes /\ Ready \cap settled = {}
    BY DEF Ready, NodeReady, TypeOK
  <1>4. \A n \in Ready : Answers(n) \subseteq Result
    <2>1. \A t \in (clock + 1)..Deadline : t \in Nat
      BY BoundsAssumption DEF TypeOK
    <2>2. clock \in Nat
      BY DEF TypeOK
    <2> QED BY <2>1, <2>2, PayloadIsResult, SkippedIsResult, PendingIsResult DEF Answers
  <1>5. r \in [Ready -> Result]
    BY <1>1, <1>4
  <1>6. /\ exec' \in Execution /\ started' \subseteq Nodes /\ settled' \subseteq started'
        /\ conts' \in [Nodes -> Cont] /\ applied' \in [Nodes -> 0..1] /\ SettledOnce'
    BY <1>1, <1>2, <1>3, <1>5, ResultsApplied
  <1>7. due = {} /\ unmatched = <<>>
    BY <1>2 DEF DueArePolls, EventsKept
  <1>8. /\ batch' \in Seq(Event) /\ inbox' \in Seq(Event)
        /\ EarlyNames(batch') /\ EarlyNames(inbox') /\ NoneEarly(inbox)'
    BY <1>2 DEF TypeOK, EventsKept, EarlyNames, NoneEarly
  <1>9. TypeOK'
    BY <1>2, <1>6, <1>8 DEF TypeOK, Execution, Phases
  <1>10. DueArePolls' /\ RunningIsExecuting'
    BY <1>2, <1>7 DEF DueArePolls, RunningIsExecuting
  <1>11. EventsKept'
    BY <1>2, <1>7, <1>8 DEF EventsKept, EarlyNames, NoneEarly
  <1> QED BY <1>6, <1>9, <1>10, <1>11

LEMMA EndTickKeeps == HeartbeatInvariant /\ EndTick => HeartbeatInvariant'
PROOF
  <1> SUFFICES ASSUME HeartbeatInvariant, EndTick PROVE HeartbeatInvariant'
    OBVIOUS
  <1> USE DEF HeartbeatInvariant
  <1>1. /\ pc = "second" /\ PushBack /\ Wake
        /\ UNCHANGED <<edges, exec, started, settled, conts, applied, now, batch, matched, due, sent,
                       clock, status>>
    BY DEF EndTick, hb
  <1>2. SettledOnce' /\ Parked("event")' = Parked("event") /\ Parked("poll")' = Parked("poll")
    BY <1>1, NodesUntouched
  <1>3. /\ inbox' \in Seq(Event) /\ unmatched' \in Seq(Event)
        /\ EarlyNames(inbox') /\ EarlyNames(unmatched')
        /\ NoneEarly(inbox)' /\ NoneEarly(unmatched)' /\ unmatched' = <<>>
    BY <1>1, <1>2, PushedBack
  <1>4. pc' \in {"test", "wait", "sleep"} /\ until' \in Nat
    BY <1>1, WakeTypes
  <1>5. TypeOK'
    BY <1>1, <1>3, <1>4 DEF TypeOK, Phases
  <1>6. DueArePolls' /\ RunningIsExecuting'
    BY <1>1, <1>2, <1>4 DEF DueArePolls, RunningIsExecuting
  <1>7. EventsKept'
    BY <1>1, <1>3 DEF EventsKept
  <1> QED BY <1>2, <1>5, <1>6, <1>7

LEMMA SendKeeps ==
  ASSUME HeartbeatInvariant, NEW to \in Targets, NEW p \in Payload, Send(to, p)
  PROVE  HeartbeatInvariant'
PROOF
  <1> USE DEF HeartbeatInvariant
  <1> DEFINE e == [to |-> to, payload |-> p, early |-> to \ started]
  <1>1. /\ pc # "done" /\ sent < MaxEvents /\ sent' = sent + 1
        /\ inbox' = Append(inbox, e)
        /\ UNCHANGED <<edges, exec, started, settled, conts, applied, now, batch, matched, unmatched,
                       due, clock, status>>
    BY DEF Send, hb
  <1>2. \/ pc = "wait" /\ pc' = "test" /\ until' = 0
        \/ pc # "wait" /\ pc' = pc /\ until' = until
    BY DEF Send
  <1>3. e \in Event /\ e.early \subseteq e.to
    BY TargetsAssumption DEF Event
  <1>4. e.early \cap Parked("event") = {} /\ Parked("event") \in SUBSET Nodes
    BY DEF SettledOnce, Continued, Parked
  <1>5. SettledOnce' /\ Parked("event")' = Parked("event") /\ Parked("poll")' = Parked("poll")
    BY <1>1, NodesUntouched
  <1>6. inbox' \in Seq(Event) /\ EarlyNames(inbox')
    BY <1>1, <1>3, AppendNames DEF TypeOK, EventsKept
  <1>7. NoneEarly(inbox)'
    <2>1. \A i \in DOMAIN Append(inbox, e) :
              Append(inbox, e)[i].early \cap Parked("event") = {}
      BY <1>3, <1>4, AppendEarly DEF TypeOK, EventsKept, NoneEarly
    <2> QED BY <1>1, <1>5, <2>1 DEF NoneEarly
  <1>8. sent' \in 0..MaxEvents
    BY <1>1, BoundsAssumption DEF TypeOK
  <1>9. TypeOK'
    BY <1>1, <1>2, <1>6, <1>8 DEF TypeOK, Phases
  <1>10. DueArePolls' /\ RunningIsExecuting'
    BY <1>1, <1>2, <1>5 DEF DueArePolls, RunningIsExecuting
  <1>11. EventsKept'
    BY <1>1, <1>2, <1>5, <1>6, <1>7 DEF EventsKept, EarlyNames, NoneEarly
  <1> QED BY <1>5, <1>9, <1>10, <1>11

LEMMA SmallStepsKeep ==
  HeartbeatInvariant /\ (SleepEnds \/ Fail \/ TimePasses \/ UNCHANGED vars) => HeartbeatInvariant'
PROOF
  <1> SUFFICES ASSUME HeartbeatInvariant,
                      SleepEnds \/ Fail \/ TimePasses \/ UNCHANGED vars
               PROVE  HeartbeatInvariant'
    OBVIOUS
  <1> USE DEF HeartbeatInvariant
  <1>1. CASE SleepEnds
    BY <1>1, OnlyTheRunMoves
    DEF SleepEnds, hb, TypeOK, DueArePolls, RunningIsExecuting, EventsKept, Phases
  <1>2. CASE Fail
    <2>1. pc # "done"
      BY <1>2 DEF Fail, Abort
    <2> QED BY <1>2, <2>1, OnlyTheRunMoves
            DEF Fail, hb, TypeOK, DueArePolls, RunningIsExecuting, EventsKept, Phases
  <1>3. CASE TimePasses
    BY <1>3, OnlyTheRunMoves
    DEF TimePasses, hb, TypeOK, DueArePolls, RunningIsExecuting, EventsKept, Phases
  <1>4. CASE UNCHANGED vars
    BY <1>4, OnlyTheRunMoves
    DEF vars, hb, TypeOK, DueArePolls, RunningIsExecuting, EventsKept, Phases
  <1> QED BY <1>1, <1>2, <1>3, <1>4

LEMMA HeartbeatStep == HeartbeatInvariant /\ [Next]_vars => HeartbeatInvariant'
PROOF
  <1> SUFFICES ASSUME HeartbeatInvariant, [Next]_vars PROVE HeartbeatInvariant'
    OBVIOUS
  <1>1. CASE StartTick
    BY <1>1, StartTickKeeps
  <1>2. CASE MatchEvent
    BY <1>2, MatchEventKeeps
  <1>3. CASE TimeOutEvents
    BY <1>3, TimeOutEventsKeeps
  <1>4. ASSUME NEW n \in Nodes, Poll(n) PROVE HeartbeatInvariant'
    BY <1>4, PollKeeps
  <1>5. CASE StartNodes
    BY <1>5, StartNodesKeeps
  <1>6. CASE NodesAnswer
    BY <1>6, NodesAnswerKeeps
  <1>7. CASE EndTick
    BY <1>7, EndTickKeeps
  <1>8. ASSUME NEW to \in Targets, NEW p \in Payload, Send(to, p) PROVE HeartbeatInvariant'
    BY <1>8, SendKeeps
  <1>9. CASE SleepEnds \/ Fail \/ TimePasses \/ Terminated \/ UNCHANGED vars
    BY <1>9, SmallStepsKeep DEF Terminated
  <1> QED BY <1>1, <1>2, <1>3, <1>4, <1>5, <1>6, <1>7, <1>8, <1>9 DEF Next, Run

LEMMA HeartbeatAlways == Spec => []HeartbeatInvariant
PROOF
  <1>1. Init => HeartbeatInvariant
    BY HeartbeatInit
  <1>2. HeartbeatInvariant /\ [Next]_vars => HeartbeatInvariant'
    BY HeartbeatStep
  <1> QED BY <1>1, <1>2, PTL DEF Spec

-----------------------------------------------------------------------------
\* The state of a run keeps its types (createHeartbeatState and what the ticks
\* make of it).
THEOREM HeartbeatTypes == Spec => []TypeOK
PROOF
  <1>1. HeartbeatInvariant => TypeOK
    BY DEF HeartbeatInvariant
  <1> QED BY <1>1, HeartbeatAlways, PTL

\* Whatever events, timeouts and polls race, a node is given one result, and
\* has a continuation exactly from its start to that result.
THEOREM NodesSettleOnce == Spec => []SettledOnce
PROOF
  <1>1. HeartbeatInvariant => SettledOnce
    BY DEF HeartbeatInvariant
  <1> QED BY <1>1, HeartbeatAlways, PTL

\* No event that was sent before its node had been started is left in the inbox
\* when the run waits: the second pass of runHeartbeatTick finds it.
THEOREM EarlyEventsAreMatched == Spec => []EarlyEventsMatched
PROOF
  <1>1. HeartbeatInvariant => EarlyEventsMatched
    BY DEF HeartbeatInvariant, EventsKept, NoneEarly, EarlyEventsMatched
  <1> QED BY <1>1, HeartbeatAlways, PTL

-----------------------------------------------------------------------------
(* The run does what the dataflow prescribes.                              *)

LEMMA PhasesOfNodes ==
  ASSUME HeartbeatInvariant, NEW n \in Nodes
  PROVE  /\ NodePhase[n] = "executed" <=> n \in exec.executed
         /\ NodePhase[n] = "skipped" <=> n \in exec.skipped
         /\ NodePhase[n] = "failed" <=> n \in exec.errors
         /\ NodePhase[n] = "running" <=> n \in Continued
         /\ NodePhase[n] = "waiting" <=> n \notin started
         /\ NodePhase[n] \in Flow!Ended <=> n \in settled
         /\ NodePhase[n] \in Flow!Ended \cup {"waiting", "running"}
  BY DEF HeartbeatInvariant, TypeOK, SettledOnce, NodePhase, Flow!Ended

\* The phases after results are applied to unsettled nodes.
LEMMA PhasesAfterResults ==
  ASSUME HeartbeatInvariant, HeartbeatInvariant',
         NEW S \in SUBSET Nodes, NEW r \in [S -> Result],
         ApplyResults(S, r), S \cap settled = {}, started' = started \cup S,
         NEW n \in Nodes
  PROVE  /\ n \notin S => NodePhase'[n] = NodePhase[n] /\ exec'.outs[n] = exec.outs[n]
         /\ n \in S => /\ NodePhase'[n] = CASE r[n].status = "completed" -> "executed"
                                           [] r[n].status = "skipped" -> "skipped"
                                           [] r[n].status = "error" -> "failed"
                                           [] OTHER -> "running"
                       /\ exec'.outs[n] # exec.outs[n] => r[n].status = "completed"
PROOF
  <1> USE DEF HeartbeatInvariant
  <1> DEFINE With(s) == {m \in S : r[m].status = s}
  <1>1. /\ exec'.executed = exec.executed \cup With("completed")
        /\ exec'.skipped = exec.skipped \cup With("skipped")
        /\ exec'.errors = exec.errors \cup With("error")
        /\ exec'.outs = [m \in Nodes |-> IF m \in With("completed") THEN r[m].outs
                                                                    ELSE exec.outs[m]]
    BY DEF ApplyResults
  <1>2. settled' = settled \cup (S \ With("pending"))
    BY DEF ApplyResults
  <1>3. Continued' = started' \ settled' /\ Continued = started \ settled
        /\ settled = exec.executed \cup exec.skipped \cup exec.errors
    BY DEF SettledOnce
  <1>4. NodePhase'[n] = IF n \in exec'.executed THEN "executed"
                       ELSE IF n \in exec'.skipped THEN "skipped"
                       ELSE IF n \in exec'.errors THEN "failed"
                       ELSE IF n \in Continued' THEN "running" ELSE "waiting"
    BY DEF NodePhase
  <1>5. CASE n \notin S
    BY <1>1, <1>2, <1>3, <1>4, <1>5 DEF NodePhase
  <1>6. CASE n \in S
    <2>1. r[n].status \in Statuses
      BY <1>6 DEF Result
    <2>2. n \notin exec.executed \cup exec.skipped \cup exec.errors
      BY <1>3, <1>6
    <2>3. CASE r[n].status = "completed"
      BY <1>1, <1>4, <1>6, <2>2, <2>3
    <2>4. CASE r[n].status = "skipped"
      BY <1>1, <1>4, <1>6, <2>2, <2>4
    <2>5. CASE r[n].status = "error"
      BY <1>1, <1>4, <1>6, <2>2, <2>5
    <2>6. CASE r[n].status = "pending"
      <3>1. n \in Continued'
        BY <1>2, <1>3, <1>6, <2>6
      <3>2. n \notin exec'.executed \cup exec'.skipped \cup exec'.errors
        BY <1>1, <1>6, <2>2, <2>6
      <3>3. exec'.outs[n] = exec.outs[n]
        BY <1>1, <2>6
      <3> QED BY <1>4, <1>6, <2>6, <3>1, <3>2, <3>3
    <2> QED BY <2>1, <2>3, <2>4, <2>5, <2>6 DEF Statuses
  <1> QED BY <1>5, <1>6

\* Results of parked nodes, or of nodes whose inputs have settled, are a step of
\* the dataflow.
LEMMA ResultsAreASteps ==
  ASSUME HeartbeatInvariant, HeartbeatInvariant',
         NEW S \in SUBSET Nodes, NEW r \in [S -> Result],
         ApplyResults(S, r), S \cap settled = {}, started' = started \cup S,
         status = "executing", UNCHANGED <<edges, status>>,
         \A n \in S :
            \/ n \in Continued /\ r[n].status # "skipped"
            \/ /\ n \notin started /\ \A e \in Inbound(n) : e.from \in settled
               /\ r[n].status = "skipped" <=> Skips(n)
  PROVE  Flow!Next
PROOF
  <1>1. \A n \in Nodes : NodePhase'[n] \in Flow!Ended \cup {"waiting", "running"}
    BY PhasesOfNodes DEF NodePhase, Flow!Ended
  <1>2. NodePhase' \in [Nodes -> Flow!Ended \cup {"waiting", "running"}]
    <2>1. NodePhase' = [n \in Nodes |-> NodePhase'[n]]
      BY DEF NodePhase
    <2> QED BY <1>1, <2>1
  <1>3. exec'.outs \in [Nodes -> SUBSET Outputs]
    BY DEF HeartbeatInvariant, TypeOK
  <1>4. ASSUME NEW n \in Nodes, NodePhase'[n] # NodePhase[n] PROVE Flow!Moves(n)
    <2>1. n \in S
      BY <1>4, PhasesAfterResults
    <2>2. NodePhase'[n] = CASE r[n].status = "completed" -> "executed"
                            [] r[n].status = "skipped" -> "skipped"
                            [] r[n].status = "error" -> "failed"
                            [] OTHER -> "running"
      BY <2>1, PhasesAfterResults
    <2>3. r[n].status \in Statuses
      BY <2>1 DEF Result
    <2>4. CASE n \in Continued /\ r[n].status # "skipped"
      <3>1. NodePhase[n] = "running"
        BY <2>4, PhasesOfNodes
      <3>2. NodePhase'[n] \in {"executed", "failed"}
        BY <1>4, <2>2, <2>3, <2>4, <3>1 DEF Statuses
      <3> QED BY <3>1, <3>2 DEF Flow!Moves
    <2>5. CASE /\ n \notin started /\ \A e \in Inbound(n) : e.from \in settled
               /\ r[n].status = "skipped" <=> Skips(n)
      <3>1. NodePhase[n] = "waiting"
        BY <2>5, PhasesOfNodes
      <3>2. \A e \in Inbound(n) : e.from \in Nodes
        BY GraphsAssumption DEF HeartbeatInvariant, TypeOK, Inbound, EdgeSet
      <3>3. Flow!Inbound(n) = Inbound(n)
        BY DEF Flow!Inbound, Inbound
      <3>4. \A e \in Inbound(n) : NodePhase[e.from] \in Flow!Ended
        BY <2>5, <3>2, PhasesOfNodes
      <3>5. \A e \in Inbound(n) : Flow!Carries(e) <=> ~Unavailable(e)
        BY <2>5, <3>2, PhasesOfNodes
        DEF Flow!Carries, Unavailable, HeartbeatInvariant, SettledOnce
      <3>6. n \notin exec.skipped \cup exec.errors
        BY <2>5 DEF HeartbeatInvariant, SettledOnce, TypeOK
      <3>7. Flow!Cut(n) <=> Skips(n)
        BY <3>3, <3>5, <3>6 DEF Flow!Cut, Skips
      <3>8. IF Flow!Cut(n) THEN NodePhase'[n] = "skipped"
                           ELSE NodePhase'[n] \in {"running", "executed", "failed"}
        BY <2>2, <2>3, <2>5, <3>7 DEF Statuses
      <3> QED BY <3>1, <3>3, <3>4, <3>8 DEF Flow!Moves
    <2> QED BY <2>1, <2>4, <2>5
  <1>5. ASSUME NEW n \in Nodes, exec'.outs[n] # exec.outs[n]
        PROVE  NodePhase[n] # "executed" /\ NodePhase'[n] = "executed"
    <2>1. n \in S /\ r[n].status = "completed" /\ NodePhase'[n] = "executed"
      BY <1>5, PhasesAfterResults
    <2>2. NodePhase[n] # "executed"
      BY <2>1, PhasesOfNodes DEF HeartbeatInvariant, SettledOnce
    <2> QED BY <2>1, <2>2
  <1>6. Flow!Step
    BY <1>2, <1>3, <1>4, <1>5 DEF Flow!Step
  <1> QED BY <1>6 DEF Flow!Next

\* A record that is saved is an end of the dataflow.
LEMMA RecordsAreEnds ==
  ASSUME HeartbeatInvariant, status = "executing", status' \in {"completed", "error"},
         status' = "completed" => ExecutionStatus = "completed",
         UNCHANGED <<edges, exec, started, settled, conts, applied>>
  PROVE  Flow!Next
PROOF
  <1>1. NodePhase' = NodePhase
    BY DEF NodePhase, Continued, Parked
  <1>2. ExecutionStatus = "completed" =>
          \A n \in Nodes : NodePhase[n] \in {"executed", "skipped"}
    BY DEF ExecutionStatus, NodePhase
  <1>3. Flow!End
    BY <1>1, <1>2 DEF Flow!End
  <1> QED BY <1>3 DEF Flow!Next

LEMMA StepsRefine ==
  ASSUME HeartbeatInvariant, HeartbeatInvariant', [Next]_vars
  PROVE  [Flow!Next]_<<edges, NodePhase, exec.outs, status>>
PROOF
  <1> USE DEF HeartbeatInvariant
  <1>1. ASSUME UNCHANGED <<edges, exec, conts, status>>
        PROVE  UNCHANGED <<edges, NodePhase, exec.outs, status>>
    BY <1>1 DEF NodePhase, Continued, Parked
  <1>2. CASE StartTick
    <2>1. CASE Terminal
      <3>1. pc # "done" /\ status' = ExecutionStatus /\ ExecutionStatus \in {"completed", "error"}
        BY <1>2, <2>1 DEF StartTick, Terminal, ExecutionStatus
      <3> QED BY <1>2, <3>1, RecordsAreEnds DEF StartTick, RunningIsExecuting, hb
    <2>2. CASE ~Terminal
      BY <1>1, <1>2, <2>2 DEF StartTick, hb
    <2> QED BY <2>1, <2>2
  <1>3. CASE MatchEvent
    <2>1. CASE Matches(Head(batch)) = {}
      BY <1>1, <1>3, <2>1 DEF MatchEvent, hb
    <2>2. CASE Matches(Head(batch)) # {}
      <3>1. PICK n \in Matches(Head(batch)) :
                ApplyResults({n}, [m \in {n} |-> Head(batch).payload])
        BY <1>3, <2>2 DEF MatchEvent
      <3> DEFINE S == {n}
                 r == [m \in S |-> Head(batch).payload]
      <3>2. pc # "done" /\ batch # <<>> /\ UNCHANGED <<edges, started, status>>
        BY <1>3 DEF MatchEvent
      <3>3. Head(batch).payload \in Payload
        BY <3>2, TailNames DEF TypeOK, EventsKept, Event
      <3>4. Head(batch).payload \in Result /\ Head(batch).payload.status # "skipped"
        <4>1. \A p \in Payload : p.status # "skipped"
          BY DEF Payload, Failed, Completed
        <4> QED BY <3>3, <4>1, PayloadIsResult
      <3>5. S \in SUBSET Nodes /\ S \subseteq Continued
        BY <3>1 DEF Matches, Parked, Continued
      <3>6. S \cap settled = {} /\ started' = started \cup S
        BY <3>2, <3>5 DEF SettledOnce
      <3>7. r \in [S -> Result] /\ \A m \in S : r[m].status # "skipped"
        BY <3>4
      <3>8. status = "executing"
        BY <3>2 DEF RunningIsExecuting
      <3> HIDE DEF r, S
      <3> QED BY <3>1, <3>2, <3>5, <3>6, <3>7, <3>8, ResultsAreASteps DEF r, S
    <2> QED BY <2>1, <2>2
  <1>4. CASE TimeOutEvents
    <2> DEFINE r == [n \in Late |-> Failed]
    <2>1. ApplyResults(Late, r) /\ pc # "done" /\ UNCHANGED <<edges, started, status>>
      BY <1>4 DEF TimeOutEvents
    <2>2. Late \in SUBSET Nodes /\ Late \subseteq Continued
      BY DEF Late, Parked, Continued
    <2>3. Late \cap settled = {} /\ started' = started \cup Late
      BY <2>1, <2>2 DEF SettledOnce
    <2>4. r \in [Late -> Result] /\ \A n \in Late : r[n].status # "skipped"
      BY PayloadIsResult DEF Payload, Failed
    <2>5. status = "executing"
      BY <2>1 DEF RunningIsExecuting
    <2> HIDE DEF r
    <2> QED BY <2>1, <2>2, <2>3, <2>4, <2>5, ResultsAreASteps
  <1>5. ASSUME NEW n \in Nodes, Poll(n) PROVE Flow!Next
    <2>1. PICK a \in PollAnswers(n) : ApplyResults({n}, [m \in {n} |-> a])
      BY <1>5 DEF Poll
    <2>2. pc # "done" /\ n \in Continued /\ UNCHANGED <<edges, started, status>>
      BY <1>5 DEF Poll, DueArePolls, Continued
    <2>3. a \in Result /\ a.status # "skipped"
      <3>1. conts[n].until \in Nat /\ clock + 1 \in Nat
        BY DEF TypeOK, Cont
      <3>2. a = Pending("poll", clock + 1, conts[n].until) \/ a \in Payload
        BY <2>1 DEF PollAnswers, Payload
      <3>3. CASE a = Pending("poll", clock + 1, conts[n].until)
        BY <3>1, <3>3, PendingIsResult DEF Pending
      <3>4. CASE a \in Payload
        BY <3>4, PayloadIsResult DEF Payload, Failed, Completed
      <3> QED BY <3>2, <3>3, <3>4
    <2>4. {n} \cap settled = {} /\ started' = started \cup {n}
      BY <2>2 DEF SettledOnce
    <2> DEFINE r == [m \in {n} |-> a]
    <2>5. r \in [{n} -> Result] /\ \A m \in {n} : r[m].status # "skipped"
      BY <2>3
    <2>6. status = "executing"
      BY <2>2 DEF RunningIsExecuting
    <2>7. ApplyResults({n}, r)
      BY <2>1
    <2> HIDE DEF r
    <2> QED BY <2>2, <2>4, <2>5, <2>6, <2>7, ResultsAreASteps
  <1>6. CASE NodesAnswer
    <2>1. PICK r \in [Ready -> UNION {Answers(n) : n \in Ready}] :
              /\ \A n \in Ready : r[n] \in Answers(n)
              /\ ApplyResults(Ready, r)
      BY <1>6 DEF NodesAnswer
    <2>2. pc # "done" /\ started' = started \cup Ready /\ UNCHANGED <<edges, status>>
      BY <1>6 DEF NodesAnswer
    <2>3. /\ Ready \in SUBSET Nodes /\ Ready \cap settled = {}
          /\ \A n \in Ready : n \notin started /\ \A e \in Inbound(n) : e.from \in settled
      BY DEF Ready, NodeReady, TypeOK
    <2>4. \A n \in Ready : /\ Answers(n) \subseteq Result
                           /\ \A a \in Answers(n) : a.status = "skipped" <=> Skips(n)
      <3>1. \A t \in (clock + 1)..Deadline : t \in Nat
        BY BoundsAssumption DEF TypeOK
      <3>2. clock \in Nat
        BY DEF TypeOK
      <3>3. \A p \in Payload : p.status # "skipped"
        BY DEF Payload, Failed, Completed
      <3>4. Skipped.status = "skipped"
            /\ \A kind, at, end : Pending(kind, at, end).status # "skipped"
        BY DEF Skipped, Pending
      <3>5. \A n \in Ready : Answers(n) \subseteq Result
        BY <3>1, <3>2, PayloadIsResult, SkippedIsResult, PendingIsResult DEF Answers
      <3>6. ASSUME NEW n \in Ready, NEW a \in Answers(n)
            PROVE  a.status = "skipped" <=> Skips(n)
        BY <3>3, <3>4, <3>6 DEF Answers
      <3> QED BY <3>5, <3>6
    <2>5. r \in [Ready -> Result] /\ \A n \in Ready : r[n].status = "skipped" <=> Skips(n)
      BY <2>1, <2>4
    <2>6. status = "executing"
      BY <2>2 DEF RunningIsExecuting
    <2> QED BY <2>1, <2>2, <2>3, <2>5, <2>6, ResultsAreASteps
  <1>7. CASE Fail
    <2>1. pc # "done" /\ status' = "error"
      BY <1>7 DEF Fail, Abort
    <2> QED BY <1>7, <2>1, RecordsAreEnds DEF Fail, RunningIsExecuting, hb
  <1>8. CASE StartNodes \/ EndTick \/ SleepEnds \/ TimePasses \/ Terminated \/ UNCHANGED vars
    <2>1. UNCHANGED <<edges, exec, conts, status>>
      BY <1>8 DEF StartNodes, EndTick, SleepEnds, TimePasses, Terminated, vars, hb
    <2> QED BY <1>1, <2>1
  <1>9. ASSUME NEW to \in Targets, NEW p \in Payload, Send(to, p)
        PROVE  UNCHANGED <<edges, exec, conts, status>>
    BY <1>9 DEF Send, hb
  <1> QED BY <1>1, <1>2, <1>3, <1>4, <1>5, <1>6, <1>7, <1>8, <1>9 DEF Next, Run

LEMMA InitRefines == Init => Flow!Init
PROOF
  <1> SUFFICES ASSUME Init PROVE Flow!Init
    OBVIOUS
  <1>1. \A n \in Nodes : conts[n].kind = "none"
    BY DEF Init, NoCont
  <1>2. NodePhase = [n \in Nodes |-> "waiting"]
    BY <1>1 DEF Init, NodePhase, Continued, Parked
  <1>3. exec.outs = [n \in Nodes |-> {}]
    BY DEF Init
  <1> QED BY <1>2, <1>3 DEF Init, Flow!Init

\* A run of the heartbeat is a run of the dataflow: starts after the inputs have
\* settled, one end for each node, skips exactly where no input carries a value.
THEOREM HeartbeatImplementsDataflow == Spec => ImplementsDataflow
PROOF
  <1>1. Init => Flow!Init
    BY InitRefines
  <1>2. HeartbeatInvariant /\ HeartbeatInvariant' /\ [Next]_vars
          => [Flow!Next]_<<edges, NodePhase, exec.outs, status>>
    BY StepsRefine
  <1> QED BY <1>1, <1>2, HeartbeatAlways, PTL DEF Spec, ImplementsDataflow, Flow!Spec

-----------------------------------------------------------------------------
(* Why nodes are skipped.  The reason of a node is defined from those of   *)
(* the nodes before it; that the definition has a solution is shown first, *)
(* by the well-foundedness of < on the naturals.                           *)

ReasonSet == {"upstream_failure", "conditional_branch", "unknown"}

\* inferSkipReason, with the reasons of other nodes taken from f.
ReasonFrom(f, n) ==
    IF \E e \in Inbound(n) : \/ e.from \in exec.errors
                             \/ e.from \in exec.skipped /\ f[e.from] # "conditional_branch"
    THEN "upstream_failure"
    ELSE IF \E e \in Inbound(n) : Unavailable(e) THEN "conditional_branch" ELSE "unknown"

\* f gives the reasons of the nodes below k.
ReasonsBelow(f, k) == \A n \in Nodes : n < k => f[n] = ReasonFrom(f, n)

\* Every nonempty set of numbers has a least element.
LEMMA LeastNumber ==
  ASSUME NEW T \in SUBSET Nat, T # {}
  PROVE  \E x \in T : \A y \in T : ~(y < x)
PROOF
  <1>1. \E x \in T : \A y \in T : <<y, x>> \notin OpToRel(<, Nat)
    BY NatLessThanWellFounded, WFMin
  <1> QED BY <1>1 DEF OpToRel

\* A reason depends on nothing but the reasons of the nodes before.
LEMMA ReasonIsLocal ==
  ASSUME TypeOK, NEW n \in Nodes, NEW f, NEW g, \A m \in Nodes : m < n => f[m] = g[m]
  PROVE  ReasonFrom(f, n) = ReasonFrom(g, n)
PROOF
  <1>1. \A e \in Inbound(n) : e.from \in Nodes /\ e.from < n
    BY GraphsAssumption DEF TypeOK, Inbound, EdgeSet
  <1> QED BY <1>1 DEF ReasonFrom

\* Reasons can be given up to any node.
LEMMA ReasonsExist ==
  ASSUME TypeOK, NEW k \in Nat
  PROVE  \E f \in [Nodes -> ReasonSet] : ReasonsBelow(f, k)
PROOF
  <1> DEFINE T == {j \in Nat : ~ \E f \in [Nodes -> ReasonSet] : ReasonsBelow(f, j)}
  <1>1. SUFFICES ASSUME T # {} PROVE FALSE
    OBVIOUS
  <1>2. PICK j \in T : \A i \in T : ~(i < j)
    BY <1>1, LeastNumber
  <1>3. j # 0
    <2>1. ReasonsBelow([n \in Nodes |-> "unknown"], 0)
      BY NodesAssumption DEF ReasonsBelow
    <2>2. [n \in Nodes |-> "unknown"] \in [Nodes -> ReasonSet]
      BY DEF ReasonSet
    <2> QED BY <2>1, <2>2
  <1>4. j - 1 \in Nat /\ j - 1 \notin T
    BY <1>2, <1>3
  <1>5. PICK f \in [Nodes -> ReasonSet] : ReasonsBelow(f, j - 1)
    BY <1>4
  <1>6. ReasonFrom(f, j - 1) \in ReasonSet
    BY DEF ReasonFrom, ReasonSet
  <1>7. PICK g \in [Nodes -> ReasonSet] : g = [f EXCEPT ![j - 1] = ReasonFrom(f, j - 1)]
    BY <1>6
  <1>8. \A n \in Nodes : n < j - 1 => g[n] = f[n]
    BY <1>4, <1>7, NodesAssumption
  <1>9. ASSUME NEW n \in Nodes, n < j PROVE g[n] = ReasonFrom(g, n)
    <2>1. n < j - 1 \/ n = j - 1
      BY <1>4, <1>9, NodesAssumption
    <2>2. \A m \in Nodes : m < n => g[m] = f[m]
      BY <1>4, <1>8, <2>1, NodesAssumption
    <2>3. ReasonFrom(f, n) = ReasonFrom(g, n)
      BY <2>2, ReasonIsLocal
    <2>4. CASE n < j - 1
      BY <1>5, <1>8, <2>3, <2>4 DEF ReasonsBelow
    <2>5. CASE n = j - 1
      BY <1>7, <2>3, <2>5
    <2> QED BY <2>1, <2>4, <2>5
  <1>10. ReasonsBelow(g, j)
    BY <1>9 DEF ReasonsBelow
  <1> QED BY <1>2, <1>10

\* And in one way only.
LEMMA ReasonsAgree ==
  ASSUME TypeOK, NEW k \in Nat, NEW f, NEW g, ReasonsBelow(f, k), ReasonsBelow(g, k)
  PROVE  \A n \in Nodes : n < k => f[n] = g[n]
PROOF
  <1> DEFINE T == {n \in Nodes : n < k /\ f[n] # g[n]}
  <1>1. SUFFICES ASSUME T # {} PROVE FALSE
    OBVIOUS
  <1>2. T \in SUBSET Nat
    BY NodesAssumption
  <1>3. PICK n \in T : \A m \in T : ~(m < n)
    BY <1>1, <1>2, LeastNumber
  <1>4. \A m \in Nodes : m < n => f[m] = g[m]
    BY <1>3, NodesAssumption
  <1>5. ReasonFrom(f, n) = ReasonFrom(g, n)
    BY <1>3, <1>4, ReasonIsLocal
  <1> QED BY <1>3, <1>5 DEF ReasonsBelow

\* So the recursive definition means what it says.
LEMMA SkipReasonIs ==
  ASSUME TypeOK
  PROVE  \A n \in Nodes : SkipReason[n] = ReasonFrom(SkipReason, n)
PROOF
  <1> DEFINE Upto(n) == CHOOSE f \in [Nodes -> ReasonSet] : ReasonsBelow(f, n + 1)
  <1>1. ASSUME NEW n \in Nodes
        PROVE  Upto(n) \in [Nodes -> ReasonSet] /\ ReasonsBelow(Upto(n), n + 1)
    <2>1. n + 1 \in Nat
      BY NodesAssumption
    <2> QED BY <2>1, ReasonsExist
  <1> HIDE DEF Upto
  <1> DEFINE h == [n \in Nodes |-> Upto(n)[n]]
  <1>2. ASSUME NEW n \in Nodes PROVE h[n] = ReasonFrom(h, n)
    <2>1. ASSUME NEW m \in Nodes, m < n PROVE h[m] = Upto(n)[m]
      <3>1. ReasonsBelow(Upto(n), m + 1)
        BY <1>1, <2>1, NodesAssumption DEF ReasonsBelow
      <3>2. m + 1 \in Nat /\ m < m + 1
        BY NodesAssumption
      <3>3. Upto(m)[m] = Upto(n)[m]
        BY <1>1, <3>1, <3>2, ReasonsAgree
      <3> QED BY <3>3
    <2>2. ReasonFrom(Upto(n), n) = ReasonFrom(h, n)
      <3> HIDE DEF h
      <3> QED BY <2>1, ReasonIsLocal
    <2>3. Upto(n)[n] = ReasonFrom(Upto(n), n)
      BY <1>1, NodesAssumption DEF ReasonsBelow
    <2>4. h[n] = Upto(n)[n]
      OBVIOUS
    <2> QED BY <2>2, <2>3, <2>4
  <1>3. h = [n \in Nodes |-> ReasonFrom(h, n)]
    BY <1>2
  <1> HIDE DEF h
  <1>4. \E f : f = [n \in Nodes |-> ReasonFrom(f, n)]
    BY <1>3
  <1>5. SkipReason = CHOOSE f : f = [n \in Nodes |-> ReasonFrom(f, n)]
    BY DEF SkipReason, ReasonFrom
  <1>6. SkipReason = [n \in Nodes |-> ReasonFrom(SkipReason, n)]
    BY <1>4, <1>5
  <1> QED BY <1>6

\* A node that was skipped has inputs, they have settled, and none has a value.
\* It stays so: settled nodes and their outputs do not change.
SkippedIsCut ==
    \A n \in exec.skipped :
        /\ Inbound(n) # {}
        /\ \A e \in Inbound(n) : e.from \in settled /\ Unavailable(e)

\* Whatever the dataflow allows keeps it: a node becomes skipped when it is cut.
LEMMA SkippedIsCutStep ==
  ASSUME HeartbeatInvariant, HeartbeatInvariant', SkippedIsCut, [Next]_vars
  PROVE  SkippedIsCut'
PROOF
  <1>1. [Flow!Next]_<<edges, NodePhase, exec.outs, status>>
    BY StepsRefine
  <1>2. /\ edges' = edges /\ NodePhase' = NodePhase /\ exec'.outs = exec.outs
        \/ Flow!Step
    BY <1>1 DEF Flow!Next, Flow!End
  <1> DEFINE E == Flow!Ended
  <1>3. /\ edges' = edges
        /\ \A n \in Nodes : NodePhase'[n] # NodePhase[n] => Flow!Moves(n)
        /\ \A n \in Nodes : exec'.outs[n] # exec.outs[n] => NodePhase[n] # "executed"
                               /\ NodePhase'[n] = "executed"
    BY <1>2 DEF Flow!Step
  <1>4. ASSUME NEW n \in Nodes, NodePhase[n] \in E
        PROVE  NodePhase'[n] = NodePhase[n] /\ exec'.outs[n] = exec.outs[n]
    BY <1>3, <1>4 DEF Flow!Moves, Flow!Ended
  <1>5. \A n \in Nodes : /\ NodePhase[n] = "skipped" <=> n \in exec.skipped
                         /\ NodePhase[n] \in E <=> n \in settled
                         /\ NodePhase[n] = "executed" <=> n \in exec.executed
                         /\ NodePhase[n] = "failed" <=> n \in exec.errors
    BY PhasesOfNodes
  <1>6. \A n \in Nodes : /\ NodePhase'[n] = "skipped" <=> n \in exec'.skipped
                         /\ NodePhase'[n] \in E <=> n \in settled'
                         /\ NodePhase'[n] = "executed" <=> n \in exec'.executed
                         /\ NodePhase'[n] = "failed" <=> n \in exec'.errors
    BY PhasesOfNodes DEF Flow!Ended, HeartbeatInvariant, TypeOK, SettledOnce, NodePhase
  <1>7. \A e \in edges : e.from \in Nodes
    BY GraphsAssumption DEF HeartbeatInvariant, TypeOK, EdgeSet
  <1>8. /\ exec.skipped \subseteq Nodes /\ exec'.skipped \subseteq Nodes
        /\ \A n \in Nodes : Inbound(n)' = Inbound(n) /\ Flow!Inbound(n) = Inbound(n)
                            /\ Inbound(n) \subseteq edges
    BY <1>3 DEF HeartbeatInvariant, TypeOK, Inbound, Flow!Inbound
  <1>9. ASSUME NEW e \in edges, e.from \in settled
        PROVE  /\ e.from \in settled'
               /\ Unavailable(e)' <=> Unavailable(e)
               /\ Unavailable(e) <=> ~Flow!Carries(e)
    BY <1>4, <1>5, <1>6, <1>7, <1>9 DEF Unavailable, Flow!Carries, Flow!Ended
  <1>10. ASSUME NEW n \in exec'.skipped
         PROVE  Inbound(n) # {} /\ \A e \in Inbound(n) : e.from \in settled /\ Unavailable(e)
    <2>1. CASE n \in exec.skipped
      BY <2>1 DEF SkippedIsCut
    <2>2. CASE n \notin exec.skipped
      <3>1. n \in Nodes /\ NodePhase'[n] = "skipped" /\ NodePhase[n] # "skipped"
        BY <1>5, <1>6, <1>8, <1>10, <2>2
      <3>2. Flow!Cut(n) /\ \A e \in Flow!Inbound(n) : NodePhase[e.from] \in E
        BY <1>3, <3>1 DEF Flow!Moves
      <3> QED BY <1>5, <1>7, <1>8, <1>9, <3>1, <3>2 DEF Flow!Cut
    <2> QED BY <2>1, <2>2
  <1> QED BY <1>8, <1>9, <1>10 DEF SkippedIsCut

\* The least node that is skipped for another reason than a branch would have an
\* input that failed.
LEMMA SkipsHaveReasonsThen ==
  ASSUME TypeOK, SkippedIsCut
  PROVE  SkipsHaveReasons
PROOF
  <1>1. \A n \in exec.skipped : n \in Nodes /\ \E e \in Inbound(n) : Unavailable(e)
    BY DEF SkippedIsCut, TypeOK
  <1>2. ASSUME NEW n \in exec.skipped PROVE SkipReason[n] # "unknown"
    BY <1>1, SkipReasonIs DEF ReasonFrom
  <1>3. ASSUME exec.errors = {}
        PROVE  \A n \in exec.skipped : SkipReason[n] = "conditional_branch"
    <2> DEFINE T == {n \in exec.skipped : SkipReason[n] # "conditional_branch"}
    <2>1. SUFFICES ASSUME T # {} PROVE FALSE
      OBVIOUS
    <2>2. T \in SUBSET Nat
      BY NodesAssumption DEF TypeOK
    <2>3. PICK n \in T : \A m \in T : ~(m < n)
      BY <2>1, <2>2, LeastNumber
    <2>4. \A e \in Inbound(n) : e.from < n
      BY GraphsAssumption DEF TypeOK, Inbound, EdgeSet
    <2>5. \A e \in Inbound(n) : e.from \in exec.skipped => SkipReason[e.from] = "conditional_branch"
      BY <2>3, <2>4
    <2>6. SkipReason[n] = ReasonFrom(SkipReason, n)
      BY <1>1, SkipReasonIs
    <2> QED BY <1>1, <1>3, <2>3, <2>5, <2>6 DEF ReasonFrom
  <1> QED BY <1>2, <1>3 DEF SkipsHaveReasons, ExecutionStatus

\* A skipped node has a reason, whatever mixture of failures and branches its
\* inputs are, and a run in which nothing failed is not reported failed.
THEOREM SkipsAreExplained == Spec => []SkipsHaveReasons
PROOF
  <1>1. Init => SkippedIsCut
    <2>1. Init => exec.skipped = {}
      BY DEF Init
    <2> QED BY <2>1 DEF SkippedIsCut
  <1>2. HeartbeatInvariant /\ HeartbeatInvariant' /\ SkippedIsCut /\ [Next]_vars => SkippedIsCut'
    BY SkippedIsCutStep
  <1>3. HeartbeatInvariant /\ SkippedIsCut => SkipsHaveReasons
    BY SkipsHaveReasonsThen DEF HeartbeatInvariant
  <1> QED BY <1>1, <1>2, <1>3, HeartbeatAlways, PTL DEF Spec
=============================================================================
