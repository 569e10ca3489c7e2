-------------------------- MODULE AgentChatProofs --------------------------
(***************************************************************************)
(* For any number of tabs, invocations, tokens and troubles: the type      *)
(* invariant, that every reader is told one ending, that a stop stands,    *)
(* that a step gets its own answer, and that a tab that watches a job has  *)
(* its text with the events under way.                                     *)
(***************************************************************************)
EXTENDS AgentChat, WellFoundedInduction, TLAPS

Alive(i) == job[i].live \notin {"none", "prepare"}
Opens(q) == \E n \in 1 .. Len(q) : q[n].type \in {"started", "snapshot"}

\* A job has its final status from the moment it is no longer running, nothing is
\* told before, and an abort decides what it is.
JobFine(i) ==
    /\ job[i].live \in {"none", "prepare", "running"} =>
          job[i].status = "running" /\ told[i] = {}
    /\ job[i].live \in {"none", "prepare"} =>
          job[i].text = <<>> /\ row[i].text = <<>>
    /\ row[i].st = "none" => job[i].live = "none"
    /\ job[i].live \in {"finishing", "telling", "kept"} =>
          /\ job[i].status # "running"
          /\ job[i].aborted => job[i].status = "stopped"
    /\ job[i].live = "gone" /\ i \notin spoiled => job[i].status # "running"

JobsFine == \A i \in Invocations : JobFine(i)

AliveIds == {i \in Invocations : Alive(i)}
AbortedIds == {i \in Invocations : job[i].aborted}

\* A tab waits for the answer to the stop of a job that was aborted.
StopsFine == \A t \in Tabs : stopping[t] # NoInv => stopping[t] \in AbortedIds

\* Which invocation a tab reads, and which its request made.
IdsFine(r) ==
    /\ r.pc = "reading" => r.from = IF r.attempt = 0 THEN r.own ELSE r.ref
    /\ r.pc = "waiting" /\ r.attempt = 0 => r.ref = r.own
    /\ r.pc \in {"reading", "waiting"} /\ (r.started \/ r.resumed) => r.ref = r.own
    /\ r.pc = "tools" /\ r.started => r.from = r.own
    /\ r.pc \in {"idle", "asking", "tools"} => ~r.resumed

\* The ids that a tab knows are those of jobs that have started.
RecFine(r, alive) ==
    /\ r.ref # NoInv => r.ref \in alive
    /\ r.pc = "reading" /\ Opens(r.queue) => r.from \in alive
    /\ r.pc \in {"idle", "asking"} => r.queue = <<>>
    /\ IdsFine(r)

TabFine(t) == RecFine(tab[t], AliveIds)
TabsFine == \A t \in Tabs : TabFine(t)
SavedFine == saved # NoInv => saved \in AliveIds
AnswersKept == \A a \in answers : job[a.inv].live \in {"telling", "kept", "gone"}

ChatInvariant == /\ TypeOK /\ JobsFine /\ TabsFine /\ SavedFine /\ StopsFine
                 /\ AnswersKept /\ OneOutcome /\ StopStands

-----------------------------------------------------------------------------
(* Events, queues and records.                                             *)

LEMMA Constants == /\ Inv0 \subseteq Nat /\ NoInv \notin Invocations
                   /\ <<>> \in Text /\ MaxAttempts \in Nat
  BY BoundsAssumption DEF Inv0, Invocations, NoInv, Text

LEMMA NewTabIsTab == NewTab \in TabSet /\ NewTab.on = FALSE
  BY Constants DEF NewTab, TabSet, Inv0

LEMMA EventIsEvent ==
  ASSUME NEW type \in {"started", "snapshot", "delta", "cut", "refused", "stopped", "error"},
         NEW text \in Text
  PROVE  Event(type, text) \in EventSet /\ Event(type, text).type = type
  BY DEF Event, EventSet, Endings

LEMMA EndingIsEvent ==
  ASSUME NEW status \in Endings \cup {"running"}, NEW text \in Text, NEW tools \in BOOLEAN
  PROVE  /\ Ending(status, text, tools) \in EventSet
         /\ Ending(status, text, tools).type \in Endings
         /\ status # "running" => Ending(status, text, tools).type = status
PROOF
  <1>1. CASE status = "done"
    <2>1. Ending(status, text, tools) = Done(text, tools)
      BY <1>1 DEF Ending
    <2> QED BY <1>1, <2>1 DEF Done, EventSet, Endings
  <1>2. CASE status = "stopped"
    <2>1. Ending(status, text, tools) = Event("stopped", text)
      BY <1>2 DEF Ending
    <2> QED BY <1>2, <2>1, EventIsEvent DEF Endings
  <1>3. CASE status \in {"error", "running"}
    <2>1. Ending(status, text, tools) = Event("error", <<>>)
      BY <1>3 DEF Ending
    <2> QED BY <1>3, <2>1, Constants DEF Event, EventSet, Endings
  <1> QED BY <1>1, <1>2, <1>3 DEF Endings

LEMMA OpeningIsQueue ==
  ASSUME NEW text \in Text
  PROVE  /\ Opening(text) \in Seq(EventSet)
         /\ Len(Opening(text)) = 2
         /\ Opening(text)[1].type = "started" /\ Opening(text)[2].type = "snapshot"
         /\ Heard(Opening(text)) = {}
PROOF
  <1>1. Event("started", <<>>) \in EventSet /\ Event("snapshot", text) \in EventSet
    BY EventIsEvent, Constants
  <1>2. /\ Opening(text) \in Seq(EventSet) /\ Len(Opening(text)) = 2
        /\ Opening(text)[1].type = "started" /\ Opening(text)[2].type = "snapshot"
    BY <1>1, EventIsEvent, Constants DEF Opening
  <1>3. Heard(Opening(text)) = {}
    BY <1>2 DEF Heard, Endings
  <1> QED BY <1>2, <1>3

LEMMA Appended ==
  ASSUME NEW q \in Seq(EventSet), NEW e \in EventSet
  PROVE  /\ Append(q, e) \in Seq(EventSet) /\ Len(Append(q, e)) = Len(q) + 1 /\ Len(q) \in Nat
         /\ \A n \in 1 .. Len(q) : Append(q, e)[n] = q[n]
         /\ Append(q, e)[Len(q) + 1] = e
  OBVIOUS

LEMMA EndedQueue ==
  ASSUME NEW text \in Text, NEW e \in EventSet, e.type \in Endings
  PROVE  /\ Append(Opening(text), e) \in Seq(EventSet)
         /\ Heard(Append(Opening(text), e)) = {e.type}
PROOF
  <1> DEFINE q == Append(Opening(text), e)
  <1>1. /\ q \in Seq(EventSet) /\ Len(q) = 3 /\ q[3] = e
        /\ q[1].type = "started" /\ q[2].type = "snapshot"
    <2>1. PICK o \in Seq(EventSet) : o = Opening(text)
      BY OpeningIsQueue
    <2>2. Len(o) = 2 /\ o[1].type = "started" /\ o[2].type = "snapshot"
      BY <2>1, OpeningIsQueue
    <2>3. /\ Append(o, e) \in Seq(EventSet) /\ Len(Append(o, e)) = 3 /\ Append(o, e)[3] = e
          /\ Append(o, e)[1] = o[1] /\ Append(o, e)[2] = o[2]
      <3>1. /\ Append(o, e) \in Seq(EventSet) /\ Len(Append(o, e)) = Len(o) + 1
            /\ \A n \in 1 .. Len(o) : Append(o, e)[n] = o[n]
            /\ Append(o, e)[Len(o) + 1] = e
        BY Appended
      <3> HIDE DEF q
      <3> QED BY <2>2, <3>1
    <2> QED BY <2>1, <2>2, <2>3
  <1> HIDE DEF q
  <1>2. Heard(q) = {e.type}
    BY <1>1 DEF Heard, Endings
  <1> QED BY <1>1, <1>2 DEF q

LEMMA SubscribedIsQueue ==
  ASSUME TypeOK, NEW i \in Invocations
  PROVE  /\ Subscribed(i) \in Seq(EventSet)
         /\ Heard(Subscribed(i)) = IF job[i].status = "running" THEN {} ELSE {job[i].status}
PROOF
  <1>1. /\ job[i].text \in Text /\ job[i].tools \in BOOLEAN
        /\ job[i].status \in Endings \cup {"running"}
    BY DEF TypeOK, JobSet
  <1> DEFINE e == Ending(job[i].status, job[i].text, job[i].tools)
  <1>2. CASE job[i].status = "running"
    BY <1>1, <1>2, OpeningIsQueue DEF Subscribed
  <1>3. CASE job[i].status # "running"
    <2>1. e \in EventSet /\ e.type \in Endings /\ e.type = job[i].status
      BY <1>1, <1>3, EndingIsEvent
    <2>2. Subscribed(i) = Append(Opening(job[i].text), e)
      BY <1>3 DEF Subscribed
    <2> HIDE DEF e
    <2> QED BY <1>1, <1>3, <2>1, <2>2, EndedQueue
  <1> QED BY <1>2, <1>3

LEMMA ReplayedIsQueue ==
  ASSUME TypeOK, NEW i \in Invocations
  PROVE  /\ Replayed(i) \in Seq(EventSet)
         /\ Heard(Replayed(i)) = {ReplayStatus(row[i].st)}
PROOF
  <1>1. row[i].text \in Text
    BY DEF TypeOK, RowSet
  <1>2. ReplayStatus(row[i].st) \in Endings
    BY DEF ReplayStatus, Endings
  <1> DEFINE e == Ending(ReplayStatus(row[i].st), row[i].text, FALSE)
  <1>3. e \in EventSet /\ e.type \in Endings /\ e.type = ReplayStatus(row[i].st)
    BY <1>1, <1>2, EndingIsEvent DEF Endings
  <1>4. Replayed(i) = Append(Opening(row[i].text), e)
    BY DEF Replayed
  <1> HIDE DEF e
  <1> QED BY <1>1, <1>3, <1>4, EndedQueue

LEMMA TailIsQueue ==
  ASSUME NEW q \in Seq(EventSet), q # <<>>
  PROVE  /\ q[1] \in EventSet /\ Tail(q) \in Seq(EventSet)
         /\ Opens(Tail(q)) => Opens(q)
         /\ q[1].type \in {"started", "snapshot"} => Opens(q)
PROOF
  <1>1. /\ q[1] \in EventSet /\ Tail(q) \in Seq(EventSet) /\ Len(q) \in Nat
        /\ 1 \in 1 .. Len(q) /\ Len(Tail(q)) = Len(q) - 1
    OBVIOUS
  <1>2. ASSUME NEW n \in 1 .. Len(Tail(q))
        PROVE  n + 1 \in 1 .. Len(q) /\ Tail(q)[n] = q[n + 1]
    BY <1>1
  <1>3. Opens(Tail(q)) => Opens(q)
    BY <1>2 DEF Opens
  <1> QED BY <1>1, <1>3 DEF Opens

LEMMA AppendIsQueue ==
  ASSUME NEW q \in Seq(EventSet), NEW e \in EventSet
  PROVE  /\ Append(q, e) \in Seq(EventSet)
         /\ e.type \notin {"started", "snapshot"} /\ Opens(Append(q, e)) => Opens(q)
PROOF
  <1>2. ASSUME NEW n \in 1 .. Len(Append(q, e)), Append(q, e)[n] # e
        PROVE  n \in 1 .. Len(q)
    BY <1>2, Appended
  <1> QED BY <1>2, Appended DEF Opens

LEMMA OneEventQueue ==
  ASSUME NEW e \in EventSet, e.type \notin {"started", "snapshot"}
  PROVE  <<e>> \in Seq(EventSet) /\ ~Opens(<<e>>)
  BY DEF Opens

LEMMA FailuresAreEvents == /\ Cut \in EventSet /\ Cut.type = "cut"
                           /\ Refused \in EventSet /\ Refused.type = "refused"
  BY EventIsEvent, Constants DEF Cut, Refused

LEMMA FreshHasNoRow ==
  ASSUME AnyFresh
  PROVE  Fresh \in Invocations /\ row[Fresh].st = "none"
  BY DEF AnyFresh, Fresh

-----------------------------------------------------------------------------
(* Types.                                                                  *)

\* What TypeOK says of one tab.
TabTyped(r) ==
    /\ r \in TabSet
    /\ r.pc = "waiting" => r.ref # NoInv
    /\ r.on => r.pc = "reading" /\ r.from # NoInv

LEMMA TabTypes ==
  ASSUME TypeOK, NEW t \in Tabs
  PROVE  TabTyped(tab[t])
  BY DEF TypeOK, TabTyped

LEMMA TabsTyped ==
  ASSUME TypeOK, NEW f, tab' = [t \in Tabs |-> f[t]],
         \A t \in Tabs : TabTyped(f[t])
  PROVE  /\ tab' \in [Tabs -> TabSet]
         /\ \A t \in Tabs : TabTyped(tab'[t])
  BY DEF TabTyped

\* A tab is given another event, and may be dropped from the listeners.
LEMMA QueueTyped ==
  ASSUME TypeOK, NEW t \in Tabs, NEW q \in Seq(EventSet), NEW on \in BOOLEAN,
         on => tab[t].pc = "reading" /\ tab[t].from # NoInv
  PROVE  /\ TabTyped([tab[t] EXCEPT !.queue = q])
         /\ TabTyped([tab[t] EXCEPT !.on = on])
         /\ TabTyped([tab[t] EXCEPT !.queue = q, !.on = on])
         /\ TabTyped([tab[t] EXCEPT !.on = on, !.queue = q])
  BY TabTypes DEF TabTyped, TabSet

LEMMA OneTabTyped ==
  ASSUME TypeOK, NEW t \in Tabs, NEW r, TabTyped(r), tab' = [tab EXCEPT ![t] = r]
  PROVE  /\ tab' \in [Tabs -> TabSet]
         /\ \A u \in Tabs : TabTyped(tab'[u])
         /\ \A u \in Tabs : tab'[u] = IF u = t THEN r ELSE tab[u]
  BY TabTypes DEF TypeOK, TabTyped

LEMMA NewTabTyped == TabTyped(NewTab)
  BY NewTabIsTab DEF TabTyped, NewTab

\* TypeOK after a step that has typed tabs.
LEMMA RestTyped ==
  ASSUME tab' \in [Tabs -> TabSet], \A t \in Tabs : TabTyped(tab'[t]),
         job' \in [Invocations -> JobSet], row' \in [Invocations -> RowSet],
         stopping' \in [Tabs -> Inv0], saved' \in Inv0, told' \in [Invocations -> SUBSET Endings],
         spoiled' \subseteq Invocations,
         answers' \subseteq [inv : Invocations, text : Text],
         troubles' \in Nat, stops' \in Nat
  PROVE  TypeOK'
  BY DEF TypeOK, TabTyped

LEMMA OneJobTyped ==
  ASSUME TypeOK, NEW i \in Invocations,
         NEW live \in {"prepare", "running", "finishing", "telling", "kept", "gone"},
         NEW status \in Endings \cup {"running"}, NEW tools \in BOOLEAN
  PROVE  /\ [job EXCEPT ![i].live = live] \in [Invocations -> JobSet]
         /\ [job EXCEPT ![i].live = live, ![i].status = status] \in [Invocations -> JobSet]
         /\ [job EXCEPT ![i].live = live, ![i].status = status, ![i].tools = tools]
               \in [Invocations -> JobSet]
PROOF
  <1> DEFINE a == [job[i] EXCEPT !.live = live]
             b == [a EXCEPT !.status = status]
             c == [b EXCEPT !.tools = tools]
  <1>1. job \in [Invocations -> JobSet]
    BY DEF TypeOK
  <1>2. a \in JobSet
    BY <1>1 DEF JobSet
  <1>3. b \in JobSet
    BY <1>2 DEF JobSet
  <1>4. c \in JobSet
    BY <1>3 DEF JobSet
  <1> QED BY <1>1, <1>2, <1>3, <1>4

LEMMA TroublesTyped ==
  ASSUME TypeOK, Trouble \/ UNCHANGED troubles
  PROVE  troubles' \in Nat
PROOF
  <1>1. troubles \in Nat
    BY DEF TypeOK
  <1> QED BY <1>1 DEF Trouble

LEMMA InitTypes == Init => TypeOK
PROOF
  <1> SUFFICES ASSUME Init PROVE TypeOK
    OBVIOUS
  <1>1. NewJob \in JobSet
    BY Constants DEF NewJob, JobSet
  <1>2. [st |-> "none", text |-> <<>>] \in RowSet
    BY Constants DEF RowSet
  <1>3. \A t \in Tabs : tab[t] = NewTab
    BY DEF Init
  <1> QED BY <1>1, <1>2, <1>3, NewTabTyped DEF Init, TypeOK, TabTyped, Inv0, Endings

\* The steps of the server.
LEMMA ServerTypes ==
  ASSUME TypeOK, JobsFine, NEW i \in Invocations,
         \/ ServerStep(i) \/ PrepareFails(i) \/ StreamDelta(i) \/ CleanUp(i)
  PROVE  TypeOK'
PROOF
  <1> USE DEF TypeOK, JobSet, RowSet
  <1>0. /\ \A t \in Tabs : TabTyped(tab[t])
        /\ \A t \in Tabs : tab[t].queue \in Seq(EventSet)
        /\ tab \in [Tabs -> TabSet]
    BY TabTypes DEF TabSet
  <1>1. CASE StartJob(i)
    <2> DEFINE r(t) == [tab[t] EXCEPT !.on = TRUE, !.queue = Opening(<<>>)]
    <2>1. \A t \in Tabs : tab[t].pc = "reading" /\ tab[t].from = i => TabTyped(r(t))
      BY QueueTyped, OpeningIsQueue, Constants
    <2>2. tab' \in [Tabs -> TabSet] /\ \A t \in Tabs : TabTyped(tab'[t])
      BY <1>0, <1>1, <2>1 DEF StartJob, TabTyped
    <2> QED BY ZenonT(30), <1>1, <2>2, RestTyped DEF StartJob
  <1>2. CASE PrepareFails(i)
    <2>1. \A t \in Tabs : tab[t].pc = "reading" => TabTyped([tab[t] EXCEPT !.queue = <<Refused>>])
      BY QueueTyped, OneEventQueue, FailuresAreEvents
    <2>2. tab' \in [Tabs -> TabSet] /\ \A t \in Tabs : TabTyped(tab'[t])
      BY <1>0, <1>2, <2>1 DEF PrepareFails, TabTyped
    <2>3. job' \in [Invocations -> JobSet]
      BY <1>2, OneJobTyped DEF PrepareFails, Endings
    <2>4. row' \in [Invocations -> RowSet]
      <3>1. row' = row \/ row' = [row EXCEPT ![i].st = "failed"]
        BY <1>2 DEF PrepareFails
      <3> QED BY <3>1
    <2>5. troubles' \in Nat
      BY <1>2 DEF PrepareFails, Trouble
    <2>6. spoiled' \subseteq Invocations
      <3>1. spoiled' = spoiled \/ spoiled' = spoiled \cup {i}
        BY <1>2 DEF PrepareFails
      <3> QED BY <3>1
    <2> QED BY <1>2, <2>2, <2>3, <2>4, <2>5, <2>6, RestTyped DEF PrepareFails
  <1>3. CASE StreamDelta(i)
    <2> DEFINE d == Delta(Len(job[i].text) + 1)
    <2>1. job[i].text \in Seq(Nat) /\ Len(job[i].text) + 1 \in Nat
      BY DEF Text
    <2>2. d \in EventSet
      BY <2>1 DEF Delta, Event, EventSet, Text
    <2>3. \A t \in Tabs : TabTyped([tab[t] EXCEPT !.queue = Append(@, d)])
      BY <1>0, <2>2, QueueTyped, Appended
    <2>4. tab' \in [Tabs -> TabSet] /\ \A t \in Tabs : TabTyped(tab'[t])
      BY <1>0, <1>3, <2>3 DEF StreamDelta, Broadcast, TabTyped
    <2>5. Append(job[i].text, Len(job[i].text) + 1) \in Text
      BY <2>1 DEF Text
    <2>6. job' \in [Invocations -> JobSet]
      BY ZenonT(30), <1>3, <2>5 DEF StreamDelta
    <2> QED BY <1>3, <2>4, <2>6, RestTyped DEF StreamDelta
  <1>4. CASE StreamEnds(i)
    <2>1. StreamOutcomes(i) \subseteq Endings
      BY DEF StreamOutcomes, Endings
    <2>3. PICK status \in StreamOutcomes(i), tools \in BOOLEAN :
            job' = [job EXCEPT ![i].live = "finishing", ![i].status = status,
                               ![i].tools = tools]
      BY <1>4 DEF StreamEnds
    <2>2. job' \in [Invocations -> JobSet]
      BY ZenonT(30), <2>1, <2>3, OneJobTyped
    <2> QED BY <1>0, <1>4, <2>2, RestTyped DEF StreamEnds
  <1>5. CASE SaveOutcome(i)
    <2>1. RowStatus(job[i].status) \in {"completed", "cancelled", "failed"}
      BY DEF RowStatus
    <2>2. [st |-> RowStatus(job[i].status), text |-> job[i].text] \in RowSet
      BY <2>1
    <2>3. row' \in [Invocations -> RowSet]
      BY <1>5, <2>2 DEF SaveOutcome
    <2>4. job' \in [Invocations -> JobSet]
      BY <1>5, OneJobTyped DEF SaveOutcome
    <2>5. spoiled' \subseteq Invocations
      <3>1. spoiled' = spoiled \/ spoiled' = spoiled \cup {i}
        BY <1>5 DEF SaveOutcome
      <3> QED BY <3>1
    <2>6. troubles' \in Nat
      <3>1. Trouble \/ UNCHANGED troubles
        BY <1>5 DEF SaveOutcome
      <3> QED BY <3>1, TroublesTyped
    <2> QED BY <1>0, <1>5, <2>3, <2>4, <2>5, <2>6, RestTyped DEF SaveOutcome
  <1>7. CASE FinishJob(i)
    <2> DEFINE e == Ending(job[i].status, job[i].text, job[i].tools)
    <2>1. e \in EventSet
      BY ZenonT(30), EndingIsEvent
    <2> HIDE DEF e
    <2>2. \A t \in Tabs : TabTyped([tab[t] EXCEPT !.queue = Append(@, e), !.on = FALSE])
      BY <1>0, <2>1, QueueTyped, Appended
    <2>3. tab' \in [Tabs -> TabSet] /\ \A t \in Tabs : TabTyped(tab'[t])
      BY <1>0, <1>7, <2>2 DEF FinishJob, TabTyped, e
    <2>4. job' \in [Invocations -> JobSet]
      BY <1>7, OneJobTyped DEF FinishJob
    <2>5. told' \in [Invocations -> SUBSET Endings]
      <3>1. Listeners(i) # {} => job[i].status \in Endings
        BY <1>7 DEF FinishJob, JobsFine, JobFine
      <3> QED BY <1>7, <3>1 DEF FinishJob
    <2> QED BY <1>7, <2>3, <2>4, <2>5, RestTyped DEF FinishJob
  <1>6. CASE CleanUp(i)
    <2>1. job' \in [Invocations -> JobSet]
      BY <1>6, OneJobTyped DEF CleanUp
    <2> QED BY <1>0, <1>6, <2>1, RestTyped DEF CleanUp
  <1> QED BY <1>1, <1>2, <1>3, <1>4, <1>5, <1>6, <1>7 DEF ServerStep

LEMMA RestartTypes ==
  ASSUME TypeOK, Restart
  PROVE  TypeOK'
PROOF
  <1> USE DEF TypeOK, JobSet, RowSet
  <1>1. \A t \in Tabs : /\ TabTyped([tab[t] EXCEPT !.queue = Append(@, Cut), !.on = FALSE])
                       /\ TabTyped([tab[t] EXCEPT !.on = FALSE])
    BY QueueTyped, Appended, FailuresAreEvents DEF TabSet
  <1>2. tab' \in [Tabs -> TabSet] /\ \A t \in Tabs : TabTyped(tab'[t])
    BY <1>1 DEF Restart, TabTyped
  <1>3. job' \in [Invocations -> JobSet]
    BY ZenonT(30) DEF Restart
  <1>4. spoiled' \subseteq Invocations
    BY DEF Restart
  <1>5. troubles' \in Nat
    BY TroublesTyped DEF Restart
  <1> QED BY <1>2, <1>3, <1>4, <1>5, RestTyped DEF Restart

\* The steps of a tab change its own record only.  What the record becomes:
AskTab(t) == [tab[t] EXCEPT !.pc = "asking"]
RequestTab(t) == [tab[t] EXCEPT !.pc = "reading", !.own = Fresh, !.from = Fresh,
                    !.started = FALSE, !.attempt = 0, !.view = <<>>]
RefusedTab(t) == [tab[t] EXCEPT !.pc = "reading", !.own = NoInv, !.from = NoInv,
                    !.started = FALSE, !.attempt = 0, !.view = <<>>,
                    !.queue = <<Refused>>]
ResumeTab(t) ==
    LET i == tab[t].ref IN
    [tab[t] EXCEPT !.pc = "reading", !.from = i, !.view = <<>>,
        !.on = InMap(i) /\ job[i].status = "running",
        !.queue = IF InMap(i) THEN Subscribed(i) ELSE Replayed(i)]
CutTab(t) == [tab[t] EXCEPT !.queue = <<Cut>>, !.on = FALSE]
HaltTab(t) == [tab[t] EXCEPT !.halted = TRUE]
ResumedTab(t) == [NewTab EXCEPT !.pc = "waiting", !.ref = saved, !.own = saved,
                    !.resumed = TRUE]
KnownTab(t) == [Rest(t) EXCEPT !.ref = IdKnown(t),
                  !.started = @ \/ tab[t].attempt = 0]
DeltaTab(t) == [Rest(t) EXCEPT !.view = @ \o tab[t].queue[1].text]
ReadyTab(t) == [Rest(t) EXCEPT !.pc = "tools", !.view = <<>>, !.on = FALSE]
NextTab(t) == [ReadyTab(t) EXCEPT !.steps = @ + 1]
AnewTab(t) == [ReadyTab(t) EXCEPT !.steps = 0, !.ref = NoInv, !.resumed = FALSE]
LeftTab == [NewTab EXCEPT !.pc = "left"]
RetryTab(t) == [tab[t] EXCEPT !.pc = "waiting", !.attempt = @ + 1, !.on = FALSE,
                              !.queue = <<>>, !.view = <<>>]

Becomes(t, r) == tab' = [tab EXCEPT ![t] = r]

LEMMA TabFacts ==
  ASSUME TypeOK, NEW t \in Tabs
  PROVE  /\ tab \in [Tabs -> TabSet] /\ tab[t] \in TabSet
         /\ tab[t].queue \in Seq(EventSet) /\ tab[t].view \in Text
         /\ tab[t].ref \in Inv0 /\ tab[t].own \in Inv0 /\ tab[t].from \in Inv0
         /\ tab[t].attempt \in Nat /\ tab[t].steps \in Nat
         /\ tab[t].started \in BOOLEAN /\ tab[t].resumed \in BOOLEAN
  BY DEF TypeOK, TabSet

LEMMA FirstEvent ==
  ASSUME TypeOK, NEW t \in Tabs, tab[t].queue # <<>>
  PROVE  /\ tab[t].queue[1] \in EventSet /\ tab[t].queue[1].text \in Text
         /\ Rest(t) \in TabSet
PROOF
  <1>1. tab[t].queue[1] \in EventSet /\ Tail(tab[t].queue) \in Seq(EventSet)
    BY TabFacts, TailIsQueue
  <1>2. tab[t].queue[1].text \in Text
    BY <1>1 DEF EventSet
  <1>3. Rest(t) \in TabSet
    BY <1>1, TabFacts DEF Rest, TabSet
  <1> QED BY <1>1, <1>2, <1>3

\* A run that goes on starts its next request with its last id.
LEMMA NextRequestIs ==
  ASSUME TypeOK, NEW t \in Tabs
  PROVE  /\ TabTyped(NextRequest(t)) /\ NextRequest(t).pc = "asking"
         /\ NextRequest(t).ref = tab[t].ref /\ NextRequest(t).queue = <<>>
         /\ NextRequest(t).resumed = FALSE /\ NextRequest(t).on = FALSE
PROOF
  <1>1. NewTab \in TabSet /\ NewTab.on = FALSE /\ NewTab.queue = <<>> /\ NewTab.resumed = FALSE
    BY NewTabIsTab DEF NewTab
  <1>2. tab[t].ref \in Inv0 /\ tab[t].steps \in Nat
    BY TabFacts
  <1>3. PICK r : r = NewTab
    OBVIOUS
  <1>4. NextRequest(t) = [r EXCEPT !.pc = "asking", !.ref = tab[t].ref, !.steps = tab[t].steps]
    BY <1>3 DEF NextRequest
  <1> QED BY <1>1, <1>2, <1>3, <1>4 DEF TabTyped, TabSet

LEMMA LeftTabIs == TabTyped(LeftTab) /\ LeftTab.on = FALSE
PROOF
  <1>1. PICK r \in TabSet : r = NewTab /\ r.on = FALSE
    BY NewTabIsTab
  <1>2. LeftTab = [r EXCEPT !.pc = "left"]
    BY <1>1 DEF LeftTab
  <1> QED BY <1>1, <1>2 DEF TabTyped, TabSet

LEMMA ReceivedTyped ==
  ASSUME TypeOK, NEW t \in Tabs, tab[t].queue # <<>>, tab[t].pc = "reading"
  PROVE  /\ TabTyped(KnownTab(t))
         /\ tab[t].queue[1].type # "delta" => TabTyped([KnownTab(t) EXCEPT !.view = tab[t].queue[1].text])
         /\ TabTyped(DeltaTab(t)) /\ TabTyped(NextTab(t)) /\ TabTyped(AnewTab(t))
         /\ Retries(t) => TabTyped(RetryTab(t))
PROOF
  <1> DEFINE r == Rest(t)
  <1>1. /\ r \in TabSet /\ r.pc = "reading" /\ r.ref = tab[t].ref /\ r.from = tab[t].from
        /\ r.on => tab[t].on
        /\ r.on = tab[t].on /\ r.attempt = tab[t].attempt
    BY FirstEvent, TabFacts DEF Rest, TabSet
  <1>2. r.on => r.from # NoInv
    BY <1>1 DEF TypeOK
  <1>3. tab[t].queue[1].text \in Text /\ tab[t].view \in Text
    BY FirstEvent, TabFacts
  <1>4. r.view \o tab[t].queue[1].text \in Text
    <2>1. r.view \in Text
      BY <1>1 DEF TabSet
    <2> QED BY <1>3, <2>1 DEF Text
  <1>5. IdKnown(t) \in Inv0
    BY TabFacts DEF IdKnown
  <1>6. NoInv \in Inv0
    BY DEF Inv0
  <1>7. <<>> \in Seq(EventSet)
    OBVIOUS
  <1>8. r.attempt + 1 \in Nat /\ r.steps + 1 \in Nat
    BY <1>1 DEF TabSet
  <1>9. Retries(t) => r.ref # NoInv
    BY <1>1 DEF Retries
  <1> HIDE DEF r
  <1>10. KnownTab(t) = [r EXCEPT !.ref = IdKnown(t), !.started = @ \/ tab[t].attempt = 0]
    BY DEF KnownTab, r
  <1>11. TabTyped(KnownTab(t)) /\ TabTyped([KnownTab(t) EXCEPT !.view = tab[t].queue[1].text])
    BY <1>1, <1>2, <1>3, <1>5, <1>10 DEF TabTyped, TabSet
  <1>12. TabTyped(DeltaTab(t))
    <2>1. DeltaTab(t) = [r EXCEPT !.view = @ \o tab[t].queue[1].text]
      BY DEF DeltaTab, r
    <2>2. PICK v \in Text : v = r.view \o tab[t].queue[1].text
      BY <1>4
    <2>3. DeltaTab(t) = [r EXCEPT !.view = v]
      BY <2>1, <2>2, <1>1 DEF TabSet
    <2> QED BY <1>1, <1>2, <2>2, <2>3 DEF TabTyped, TabSet
  <1>13. TabTyped(NextTab(t)) /\ TabTyped(AnewTab(t))
    BY <1>1, <1>3, <1>6, <1>8, Constants DEF NextTab, AnewTab, ReadyTab, r, TabTyped, TabSet
  <1>14. Retries(t) => TabTyped(RetryTab(t))
    <2>1. tab[t] \in TabSet /\ tab[t].attempt + 1 \in Nat
      BY TabFacts
    <2> QED BY <1>7, <2>1, Constants DEF Retries, RetryTab, TabTyped, TabSet
  <1> QED BY <1>11, <1>12, <1>13, <1>14

LEMMA SentTyped ==
  ASSUME TypeOK, NEW t \in Tabs
  PROVE  /\ TabTyped(AskTab(t)) \/ tab[t].pc # "idle"
         /\ AnyFresh /\ tab[t].pc = "asking" => TabTyped(RequestTab(t))
         /\ tab[t].pc = "asking" => TabTyped(RefusedTab(t))
         /\ tab[t].pc = "waiting" => TabTyped(ResumeTab(t))
         /\ tab[t].pc = "reading" => TabTyped(CutTab(t))
         /\ TabTyped(HaltTab(t))
         /\ saved # NoInv => TabTyped(ResumedTab(t))
PROOF
  <1>1. tab[t] \in TabSet /\ (tab[t].on => tab[t].pc = "reading")
    BY TabFacts DEF TypeOK
  <1>2. NewTab \in TabSet /\ NewTab.on = FALSE /\ NoInv \in Inv0 /\ <<>> \in Text
        /\ saved \in Inv0 /\ <<>> \in Seq(EventSet)
    BY NewTabIsTab, Constants DEF Inv0, TypeOK
  <1>3. <<Cut>> \in Seq(EventSet) /\ <<Refused>> \in Seq(EventSet)
    BY OneEventQueue, FailuresAreEvents
  <1>4. TabTyped(AskTab(t)) \/ tab[t].pc # "idle"
    BY <1>1 DEF AskTab, TabTyped, TabSet
  <1>5. AnyFresh /\ tab[t].pc = "asking" => TabTyped(RequestTab(t))
    <2>1. AnyFresh => Fresh \in Inv0
      BY FreshHasNoRow DEF Inv0
    <2> QED BY <1>1, <1>2, <2>1 DEF RequestTab, TabTyped, TabSet
  <1>6. tab[t].pc = "asking" => TabTyped(RefusedTab(t))
    BY <1>1, <1>2, <1>3 DEF RefusedTab, TabTyped, TabSet
  <1>7. tab[t].pc = "waiting" => TabTyped(ResumeTab(t))
    <2> SUFFICES ASSUME tab[t].pc = "waiting" PROVE TabTyped(ResumeTab(t))
      OBVIOUS
    <2>1. tab[t].ref \in Invocations /\ tab[t].ref # NoInv
      BY TabFacts DEF TypeOK, Inv0
    <2>2. PICK q \in Seq(EventSet) :
            q = IF InMap(tab[t].ref) THEN Subscribed(tab[t].ref) ELSE Replayed(tab[t].ref)
      BY <2>1, SubscribedIsQueue, ReplayedIsQueue
    <2>3. PICK on \in BOOLEAN :
            on = (InMap(tab[t].ref) /\ job[tab[t].ref].status = "running")
      OBVIOUS
    <2>4. ResumeTab(t) = [tab[t] EXCEPT !.pc = "reading", !.from = tab[t].ref,
                            !.view = <<>>, !.on = on, !.queue = q]
      BY <2>2, <2>3 DEF ResumeTab
    <2> QED BY ZenonT(30), <1>1, <1>2, <2>1, <2>4 DEF TabTyped, TabSet, Inv0
  <1>8. tab[t].pc = "reading" => TabTyped(CutTab(t))
    BY <1>1, <1>3 DEF CutTab, TabTyped, TabSet
  <1>9. TabTyped(HaltTab(t))
    BY <1>1, TabTypes DEF HaltTab, TabTyped, TabSet
  <1>11. saved # NoInv => TabTyped(ResumedTab(t))
    BY <1>2 DEF ResumedTab, TabTyped, TabSet
  <1> QED BY <1>4, <1>5, <1>6, <1>7, <1>8, <1>9, <1>11

\* Everything a tab can do, as the record it gets and what else changes.
ReceiveCase(t) ==
    LET e == tab[t].queue[1] IN
    /\ tab[t].pc = "reading" /\ tab[t].queue # <<>>
    /\ \/ e.type = "started" /\ Becomes(t, KnownTab(t)) /\ saved' = IdKnown(t)
       \/ /\ e.type = "snapshot" /\ saved' = IdKnown(t)
          /\ Becomes(t, [KnownTab(t) EXCEPT !.view = e.text])
       \/ e.type = "delta" /\ Becomes(t, DeltaTab(t)) /\ saved' = saved
       \/ EndRun(t)
       \/ ~tab[t].resumed /\ Becomes(t, NextTab(t)) /\ saved' = saved
       \/ Becomes(t, AnewTab(t)) /\ saved' = NoInv
       \/ Becomes(t, LeftTab) /\ saved' = NoInv
       \/ Retries(t) /\ Becomes(t, RetryTab(t)) /\ saved' = saved
       \/ Becomes(t, NextRequest(t)) /\ saved' = saved

LEMMA ReceiveCases ==
  ASSUME TypeOK, NEW t \in Tabs, Receive(t)
  PROVE  ReceiveCase(t)
PROOF
  <1> DEFINE e == tab[t].queue[1]
  <1>1. tab[t].pc = "reading" /\ tab[t].queue # <<>>
    BY DEF Receive
  <1>2. CASE ReceiveOpening(t, e)
    BY <1>1, <1>2 DEF ReceiveOpening, ReceiveCase, KnownTab, Becomes
  <1>3. CASE ReceiveDelta(t, e)
    BY <1>1, <1>3 DEF ReceiveDelta, ReceiveCase, DeltaTab, Becomes
  <1>4. CASE ReceiveDone(t, e)
    BY <1>1, <1>4 DEF ReceiveDone, ReceiveCase, NextTab, AnewTab, ReadyTab, LeftTab, Becomes
  <1>5. CASE EndRun(t)
    BY <1>1, <1>5 DEF ReceiveCase
  <1>6. CASE ReceiveFailure(t, e)
    BY <1>1, <1>6 DEF ReceiveFailure, ReceiveCase, RetryTab, Becomes
  <1> QED BY <1>1, <1>2, <1>3, <1>4, <1>5, <1>6 DEF Receive

LEMMA BecomesTyped ==
  ASSUME TypeOK, NEW t \in Tabs, NEW r, TabTyped(r), Becomes(t, r)
  PROVE  /\ tab' \in [Tabs -> TabSet]
         /\ \A u \in Tabs : TabTyped(tab'[u])
         /\ \A u \in Tabs : tab'[u] = IF u = t THEN r ELSE tab[u]
  BY OneTabTyped DEF Becomes

LEMMA ReceiveTypes ==
  ASSUME TypeOK, NEW t \in Tabs, Receive(t)
  PROVE  TypeOK'
PROOF
  <1>1. ReceiveCase(t)
    BY ReceiveCases
  <1>2. tab[t].pc = "reading" /\ tab[t].queue # <<>>
    BY <1>1 DEF ReceiveCase
  <1>3. tab' \in [Tabs -> TabSet] /\ \A u \in Tabs : TabTyped(tab'[u])
    BY <1>1, <1>2, ReceivedTyped, NextRequestIs, LeftTabIs, BecomesTyped, NewTabTyped
       DEF ReceiveCase, EndRun, Becomes
  <1>4. saved' \in Inv0
    BY <1>1, TabFacts DEF ReceiveCase, EndRun, IdKnown, TypeOK, Inv0
  <1> QED BY <1>3, <1>4, RestTyped DEF Receive, TypeOK

OtherTabStep(t) == \/ Ask(t) \/ Request(t) \/ RequestRefused(t) \/ Resume(t)
                   \/ Disconnect(t) \/ RunTools(t) \/ Stop(t) \/ StopReturns(t)
                   \/ GiveUp(t) \/ CloseTab(t) \/ ResumeExisting(t)

LEMMA TabStepTypes ==
  ASSUME TypeOK, NEW t \in Tabs, OtherTabStep(t)
  PROVE  TypeOK'
PROOF
  <1>0. /\ job \in [Invocations -> JobSet] /\ row \in [Invocations -> RowSet]
        /\ tab \in [Tabs -> TabSet]
        /\ stopping \in [Tabs -> Inv0] /\ saved \in Inv0
        /\ told \in [Invocations -> SUBSET Endings] /\ spoiled \subseteq Invocations
        /\ answers \subseteq [inv : Invocations, text : Text]
        /\ troubles \in Nat /\ stops \in Nat /\ NoInv \in Inv0
    BY DEF TypeOK, Inv0
  <1>1. CASE Ask(t)
    <2>1. Becomes(t, AskTab(t)) /\ tab[t].pc = "idle"
      BY <1>1 DEF Ask, Becomes, AskTab
    <2> QED BY <1>0, <1>1, <2>1, SentTyped, BecomesTyped, RestTyped DEF Ask
  <1>2. CASE Request(t)
    <2>1. Becomes(t, RequestTab(t)) /\ tab[t].pc = "asking" /\ AnyFresh
      BY <1>2 DEF Request, Becomes, RequestTab
    <2>2. job' \in [Invocations -> JobSet]
      BY <1>2, <2>1, FreshHasNoRow, OneJobTyped DEF Request
    <2>3. row' \in [Invocations -> RowSet]
      BY <1>0, <1>2, <2>1, FreshHasNoRow DEF Request, RowSet
    <2> QED BY <1>0, <1>2, <2>1, <2>2, <2>3, SentTyped, BecomesTyped, RestTyped DEF Request
  <1>3. CASE RequestRefused(t)
    <2>1. Becomes(t, RefusedTab(t)) /\ tab[t].pc = "asking"
      BY <1>3 DEF RequestRefused, Becomes, RefusedTab
    <2>2. troubles' \in Nat
      BY <1>3, TroublesTyped DEF RequestRefused
    <2> QED BY <1>0, <1>3, <2>1, <2>2, SentTyped, BecomesTyped, RestTyped DEF RequestRefused
  <1>4. CASE Resume(t)
    <2>1. Becomes(t, ResumeTab(t)) /\ tab[t].pc = "waiting"
      BY <1>4 DEF Resume, Becomes, ResumeTab
    <2>2. told' \in [Invocations -> SUBSET Endings]
      BY <1>0, <1>4 DEF Resume, Heard
    <2> QED BY <1>0, <1>4, <2>1, <2>2, SentTyped, BecomesTyped, RestTyped DEF Resume
  <1>5. CASE Disconnect(t)
    <2>1. Becomes(t, CutTab(t)) /\ tab[t].pc = "reading"
      BY <1>5 DEF Disconnect, Becomes, CutTab
    <2>2. troubles' \in Nat
      BY <1>5, TroublesTyped DEF Disconnect
    <2> QED BY <1>0, <1>5, <2>1, <2>2, SentTyped, BecomesTyped, RestTyped DEF Disconnect
  <1>6. CASE RunTools(t)
    <2>1. \/ Becomes(t, NextRequest(t)) /\ saved' = saved
          \/ Becomes(t, NewTab) /\ saved' = NoInv
      BY <1>6 DEF RunTools, EndRun, Becomes
    <2>2. tab' \in [Tabs -> TabSet] /\ \A u \in Tabs : TabTyped(tab'[u])
      BY <2>1, NextRequestIs, NewTabTyped, BecomesTyped
    <2> QED BY <1>0, <1>6, <2>1, <2>2, RestTyped DEF RunTools
  <1>7. CASE Stop(t)
    <2>1. \/ Becomes(t, HaltTab(t)) /\ saved' = saved
          \/ Becomes(t, NewTab) /\ saved' = NoInv
      BY <1>7 DEF Stop, EndRun, Becomes, HaltTab
    <2>2. \/ Running(tab[t].ref) /\ job' = [job EXCEPT ![tab[t].ref].aborted = TRUE]
          \/ job' = job
      BY <1>7 DEF Stop
    <2>6. Running(tab[t].ref) => tab[t].ref \in Invocations
      BY TabFacts DEF Running, Inv0
    <2>3. job' \in [Invocations -> JobSet]
      <3>1. \A i \in Invocations : [job[i] EXCEPT !.aborted = TRUE] \in JobSet
        BY <1>0 DEF JobSet
      <3> QED BY <1>0, <2>2, <2>6, <3>1
    <2>4. stops' \in Nat
      BY <1>0, <1>7 DEF Stop
    <2>5. tab' \in [Tabs -> TabSet] /\ \A u \in Tabs : TabTyped(tab'[u])
      BY <2>1, SentTyped, NewTabTyped, BecomesTyped
    <2>7. stopping' \in [Tabs -> Inv0]
      <3>1. tab[t].ref \in Inv0
        BY TabFacts
      <3> QED BY <1>0, <1>7, <3>1 DEF Stop
    <2> QED BY <1>0, <1>7, <2>1, <2>3, <2>4, <2>5, <2>7, RestTyped DEF Stop
  <1>8. CASE StopReturns(t)
    <2>1. Becomes(t, NewTab) /\ saved' = NoInv
      BY <1>8 DEF StopReturns, EndRun, Becomes
    <2>2. stopping[t] \in Invocations
      BY <1>0, <1>8 DEF StopReturns, Inv0
    <2>3. job[stopping[t]].text \in Text
      BY <1>0, <2>2 DEF JobSet
    <2>4. answers' = answers \/ answers' = answers \cup {[inv |-> stopping[t], text |-> job[stopping[t]].text]}
      BY <1>8 DEF StopReturns
    <2>5. answers' \subseteq [inv : Invocations, text : Text]
      BY <1>0, <2>2, <2>3, <2>4
    <2>6. stopping' \in [Tabs -> Inv0]
      BY <1>0, <1>8 DEF StopReturns
    <2> QED BY <1>0, <1>8, <2>1, <2>5, <2>6, NewTabTyped, BecomesTyped, RestTyped DEF StopReturns
  <1>9. CASE CloseTab(t)
    <2>1. Becomes(t, NewTab)
      BY <1>9 DEF CloseTab, Becomes
    <2>2. troubles' \in Nat
      BY <1>9, TroublesTyped DEF CloseTab
    <2>3. stopping' \in [Tabs -> Inv0]
      BY <1>0, <1>9 DEF CloseTab
    <2> QED BY <1>0, <1>9, <2>1, <2>2, <2>3, NewTabTyped, BecomesTyped, RestTyped DEF CloseTab
  <1>11. CASE GiveUp(t)
    <2>1. Becomes(t, NewTab) /\ saved' = NoInv
      BY <1>11 DEF GiveUp, EndRun, Becomes
    <2> QED BY <1>0, <1>11, <2>1, NewTabTyped, BecomesTyped, RestTyped DEF GiveUp
  <1>10. CASE ResumeExisting(t)
    <2>1. Becomes(t, ResumedTab(t)) /\ saved # NoInv
      BY <1>10 DEF ResumeExisting, Becomes, ResumedTab
    <2> QED BY <1>0, <1>10, <2>1, SentTyped, BecomesTyped, RestTyped DEF ResumeExisting
  <1> QED BY <1>1, <1>2, <1>3, <1>4, <1>5, <1>6, <1>7, <1>8, <1>9, <1>10, <1>11 DEF OtherTabStep

LEMMA NextCases ==
  ASSUME [Next]_vars
  PROVE  \/ \E i \in Invocations : \/ ServerStep(i) \/ PrepareFails(i)
                                   \/ StreamDelta(i) \/ CleanUp(i)
         \/ \E t \in Tabs : Receive(t) \/ OtherTabStep(t)
         \/ Restart
         \/ UNCHANGED vars
  BY DEF Next, TabStep, OtherTabStep

LEMMA TypesKept ==
  ASSUME TypeOK, JobsFine, [Next]_vars
  PROVE  TypeOK'
PROOF
  <1>1. CASE UNCHANGED vars
    BY <1>1 DEF TypeOK, vars
  <1> QED BY <1>1, NextCases, ServerTypes, ReceiveTypes, TabStepTypes, RestartTypes

-----------------------------------------------------------------------------
(* Jobs and what is told of them.                                          *)

\* What OneOutcome says of one invocation.
OutcomeFine(i) ==
    i \notin spoiled =>
        /\ told[i] \subseteq {job[i].status}
        /\ job[i].live \in {"telling", "kept", "gone"} =>
              /\ row[i].st = RowStatus(job[i].status)
              /\ row[i].text = job[i].text

InvocationFine(i) == JobFine(i) /\ OutcomeFine(i)

LEMMA InvocationsFine ==
  ASSUME JobsFine, OneOutcome, NEW i \in Invocations
  PROVE  InvocationFine(i)
  BY DEF JobsFine, OneOutcome, InvocationFine, OutcomeFine

LEMMA Untouched ==
  ASSUME NEW i \in Invocations, InvocationFine(i), job'[i] = job[i], row'[i] = row[i],
         told'[i] = told[i], i \in spoiled => i \in spoiled'
  PROVE  InvocationFine(i)'
  BY DEF InvocationFine, JobFine, OutcomeFine

LEMMA ServerKeepsJobs ==
  ASSUME TypeOK, JobsFine, OneOutcome, NEW i \in Invocations,
         \/ ServerStep(i) \/ PrepareFails(i) \/ StreamDelta(i) \/ CleanUp(i),
         NEW k \in Invocations
  PROVE  InvocationFine(k)'
PROOF
  <1>0. /\ job \in [Invocations -> JobSet] /\ row \in [Invocations -> RowSet]
        /\ told \in [Invocations -> SUBSET Endings] /\ InvocationFine(i) /\ InvocationFine(k)
        /\ job[i] \in JobSet /\ row[i] \in RowSet
    BY InvocationsFine DEF TypeOK
  <1>1. CASE k # i
    <2>1. /\ job'[k] = job[k] /\ row'[k] = row[k] /\ told'[k] = told[k]
          /\ k \in spoiled => k \in spoiled'
      BY <1>0, <1>1 DEF ServerStep, StartJob, StreamEnds, SaveOutcome, FinishJob, PrepareFails,
                        StreamDelta, CleanUp
    <2> QED BY <1>0, <2>1, Untouched
  <1> USE DEF InvocationFine, JobFine, OutcomeFine
  <1>2. CASE StartJob(i)
    <2>1. job'[i] = [job[i] EXCEPT !.live = "running"]
      BY <1>0, <1>2 DEF StartJob
    <2> QED BY <1>0, <1>1, <1>2, <2>1 DEF StartJob, JobSet
  <1>3. CASE PrepareFails(i)
    <2>1. /\ job'[i].live = "gone" /\ job'[i].status = "error" /\ job'[i].text = job[i].text
          /\ told' = told /\ (i \in spoiled => i \in spoiled')
          /\ job[i].live = "prepare"
      BY <1>0, <1>3 DEF PrepareFails, JobSet
    <2>2. RowStatus("error") = "failed"
      BY DEF RowStatus
    <2>3. \/ row'[i].st = "failed" /\ row'[i].text = row[i].text
          \/ i \in spoiled' /\ row'[i] = row[i]
      BY <1>0, <1>3 DEF PrepareFails, RowSet
    <2> QED BY <1>0, <1>1, <2>1, <2>2, <2>3
  <1>4. CASE StreamDelta(i)
    <2>1. /\ job'[i].live = "running" /\ job'[i].status = job[i].status
          /\ job'[i].aborted = job[i].aborted
      BY <1>0, <1>4 DEF StreamDelta, JobSet
    <2> QED BY <1>0, <1>1, <1>4, <2>1 DEF StreamDelta
  <1>5. CASE StreamEnds(i)
    <2>1. PICK status \in StreamOutcomes(i), tools \in BOOLEAN :
            job' = [job EXCEPT ![i].live = "finishing", ![i].status = status,
                               ![i].tools = tools]
      BY <1>5 DEF StreamEnds
    <2>2. /\ job'[i].live = "finishing" /\ job'[i].status = status
          /\ job'[i].aborted = job[i].aborted
      BY <1>0, <2>1 DEF JobSet
    <2>3. status # "running" /\ (job[i].aborted => status = "stopped")
      BY DEF StreamOutcomes
    <2> QED BY <1>0, <1>1, <1>5, <2>2, <2>3 DEF StreamEnds
  <1>6. CASE SaveOutcome(i)
    <2>1. /\ job'[i].live = "telling" /\ job'[i].status = job[i].status
          /\ job'[i].text = job[i].text /\ job'[i].aborted = job[i].aborted
          /\ job[i].live = "finishing" /\ told' = told
      BY <1>0, <1>6 DEF SaveOutcome, JobSet
    <2>2. \/ row'[i] = [st |-> RowStatus(job[i].status), text |-> job[i].text] /\ spoiled' = spoiled
          \/ row'[i] = row[i] /\ i \in spoiled'
      BY <1>0, <1>6 DEF SaveOutcome
    <2>4. RowStatus(job[i].status) # "none"
      BY DEF RowStatus
    <2>6. JobFine(i)'
      BY <1>0, <2>1, <2>2, <2>4
    <2>7. OutcomeFine(i)'
      <3>1. CASE row'[i] = [st |-> RowStatus(job[i].status), text |-> job[i].text] /\ spoiled' = spoiled
        BY <1>0, <2>1, <3>1
      <3>2. CASE i \in spoiled'
        BY <3>2
      <3> QED BY <2>2, <3>1, <3>2
    <2> QED BY <1>1, <2>6, <2>7
  <1>8. CASE FinishJob(i)
    <2>1. /\ job'[i].live = "kept" /\ job'[i].status = job[i].status
          /\ job'[i].text = job[i].text /\ job'[i].aborted = job[i].aborted
          /\ job[i].live = "telling" /\ row' = row /\ spoiled' = spoiled
      BY <1>0, <1>8 DEF FinishJob, JobSet
    <2>2. told'[i] \subseteq told[i] \cup {job[i].status}
      BY <1>0, <1>8 DEF FinishJob
    <2> QED BY <1>0, <1>1, <2>1, <2>2
  <1>7. CASE CleanUp(i)
    <2>1. /\ job'[i].live = "gone" /\ job'[i].status = job[i].status
          /\ job'[i].text = job[i].text
      BY <1>0, <1>7 DEF CleanUp, JobSet
    <2> QED BY <1>0, <1>1, <1>7, <2>1 DEF CleanUp
  <1> QED BY <1>2, <1>3, <1>4, <1>5, <1>6, <1>7, <1>8 DEF ServerStep

LEMMA RestartKeepsJobs ==
  ASSUME TypeOK, JobsFine, OneOutcome, Restart, NEW k \in Invocations
  PROVE  InvocationFine(k)'
PROOF
  <1>0. /\ job \in [Invocations -> JobSet] /\ InvocationFine(k) /\ job[k] \in JobSet
    BY InvocationsFine DEF TypeOK
  <1>1. CASE job[k].live = "none"
    <2>1. job'[k] = job[k] /\ row'[k] = row[k] /\ told'[k] = told[k]
          /\ (k \in spoiled => k \in spoiled')
      BY <1>1 DEF Restart
    <2> QED BY <1>0, <2>1, Untouched
  <1>2. CASE job[k].live # "none"
    <2>1. /\ job'[k].live = "gone" /\ job'[k].status = job[k].status
          /\ job'[k].text = job[k].text /\ row'[k] = row[k] /\ told'[k] = told[k]
      BY <1>0, <1>2 DEF Restart, JobSet
    <2>2. k \notin spoiled' => k \notin spoiled /\ job[k].live \in {"telling", "kept", "gone"}
      BY <1>0, <1>2 DEF Restart, JobSet
    <2>3. JobFine(k)'
      BY <1>0, <1>2, <2>1, <2>2 DEF InvocationFine, JobFine
    <2>4. OutcomeFine(k)'
      BY <1>0, <2>1, <2>2 DEF InvocationFine, OutcomeFine
    <2> QED BY <2>3, <2>4 DEF InvocationFine
  <1> QED BY <1>1, <1>2

\* A tab that resumes asks for a job that has started.
LEMMA ResumedKnows ==
  ASSUME TypeOK, TabsFine, NEW t \in Tabs, Resume(t)
  PROVE  tab[t].ref \in Invocations /\ Alive(tab[t].ref)
PROOF
  <1>1. tab[t].pc = "waiting"
    BY DEF Resume
  <1>2. tab[t].ref \in Inv0 /\ tab[t].ref # NoInv
    BY <1>1, TabFacts DEF TypeOK
  <1> QED BY <1>2 DEF TabsFine, TabFine, RecFine, AliveIds

LEMMA TabStepsKeepJobs ==
  ASSUME TypeOK, JobsFine, OneOutcome, TabsFine, NEW t \in Tabs,
         Receive(t) \/ OtherTabStep(t), NEW k \in Invocations
  PROVE  InvocationFine(k)'
PROOF
  <1>0. /\ job \in [Invocations -> JobSet] /\ row \in [Invocations -> RowSet]
        /\ told \in [Invocations -> SUBSET Endings] /\ InvocationFine(k)
        /\ job[k] \in JobSet /\ row[k] \in RowSet
    BY InvocationsFine DEF TypeOK
  <1>1. CASE UNCHANGED <<job, row, told, spoiled>>
    BY <1>0, <1>1, Untouched
  <1>2. CASE Request(t)
    <2>1. Fresh \in Invocations /\ row[Fresh].st = "none"
      BY <1>2, FreshHasNoRow DEF Request
    <2>2. CASE k # Fresh
      <3>1. job'[k] = job[k] /\ row'[k] = row[k] /\ told'[k] = told[k] /\ spoiled' = spoiled
        BY <1>2, <2>2 DEF Request
      <3> QED BY <1>0, <3>1, Untouched
    <2>3. CASE k = Fresh
      <3>1. /\ job'[k].live = "prepare" /\ job'[k].status = job[k].status
            /\ job'[k].text = job[k].text /\ row'[k].st = "pending"
            /\ row'[k].text = row[k].text /\ told'[k] = told[k] /\ spoiled' = spoiled
        BY <1>0, <1>2, <2>3 DEF Request, JobSet, RowSet
      <3>2. job[k].live = "none"
        BY <1>0, <2>1, <2>3 DEF InvocationFine, JobFine
      <3> QED BY <1>0, <3>1, <3>2 DEF InvocationFine, JobFine, OutcomeFine
    <2> QED BY <2>2, <2>3
  <1>3. CASE Resume(t)
    <2> DEFINE i == tab[t].ref
    <2>1. i \in Invocations /\ Alive(i)
      BY <1>3, ResumedKnows
    <2>2. job' = job /\ row' = row /\ spoiled' = spoiled
      BY <1>3 DEF Resume
    <2>3. CASE k # i
      <3>1. told'[k] = told[k]
        BY <1>0, <1>3, <2>3 DEF Resume
      <3> QED BY <1>0, <2>2, <3>1, Untouched
    <2>4. CASE k = i
      <3>1. told'[k] = told[k] \cup Heard(IF InMap(k) THEN Subscribed(k) ELSE Replayed(k))
        BY <1>0, <1>3, <2>4 DEF Resume
      <3>2. CASE InMap(k)
        <4>1. told'[k] = told[k] \cup IF job[k].status = "running" THEN {} ELSE {job[k].status}
          BY <3>1, <3>2, SubscribedIsQueue
        <4> QED BY <1>0, <2>2, <4>1 DEF InvocationFine, JobFine, OutcomeFine
      <3>3. CASE ~InMap(k)
        <4>1. told'[k] = told[k] \cup {ReplayStatus(row[k].st)}
          BY <3>1, <3>3, ReplayedIsQueue
        <4>2. job[k].live = "gone"
          BY <1>0, <2>1, <2>4, <3>3 DEF InMap, Alive, JobSet
        <4>3. k \notin spoiled => ReplayStatus(row[k].st) = job[k].status
          BY <1>0, <4>2 DEF InvocationFine, JobFine, OutcomeFine, RowStatus, ReplayStatus,
                            JobSet, Endings
        <4> QED BY <1>0, <2>2, <4>1, <4>2, <4>3 DEF InvocationFine, JobFine, OutcomeFine
      <3> QED BY <3>2, <3>3
    <2> QED BY <2>3, <2>4
  <1>4. CASE Stop(t)
    <2>1. row' = row /\ told' = told /\ spoiled' = spoiled
      BY <1>4 DEF Stop
    <2>2. \/ job' = job
          \/ Running(tab[t].ref) /\ job' = [job EXCEPT ![tab[t].ref].aborted = TRUE]
      BY <1>4 DEF Stop
    <2>3. CASE job'[k] = job[k]
      BY <1>0, <2>1, <2>3, Untouched
    <2>4. CASE /\ k = tab[t].ref /\ job[k].live = "running"
               /\ job' = [job EXCEPT ![k].aborted = TRUE]
      <3>1. /\ job'[k].live = "running" /\ job'[k].status = job[k].status
        BY <1>0, <2>4 DEF JobSet
      <3> QED BY <1>0, <2>1, <2>4, <3>1 DEF InvocationFine, JobFine, OutcomeFine
    <2> QED BY <1>0, <2>2, <2>3, <2>4 DEF Running
  <1> QED BY <1>1, <1>2, <1>3, <1>4
          DEF OtherTabStep, Ask, RequestRefused, Disconnect, RunTools, StopReturns, GiveUp, CloseTab,
              ResumeExisting, Receive

LEMMA JobsKept ==
  ASSUME TypeOK, JobsFine, OneOutcome, TabsFine, [Next]_vars
  PROVE  JobsFine' /\ OneOutcome'
PROOF
  <1>1. ASSUME NEW k \in Invocations PROVE InvocationFine(k)'
    <2>1. CASE UNCHANGED vars
      <3>1. InvocationFine(k) /\ UNCHANGED <<job, row, told, spoiled>>
        BY <2>1, InvocationsFine DEF vars
      <3> QED BY <3>1, Untouched
    <2> QED BY <2>1, NextCases, ServerKeepsJobs, TabStepsKeepJobs, RestartKeepsJobs
  <1> QED BY <1>1 DEF JobsFine, OneOutcome, InvocationFine, OutcomeFine

-----------------------------------------------------------------------------
(* Tabs, the saved id, and answers to stops.                               *)

JobsGrow == \A i \in Invocations :
    /\ Alive(i) => Alive(i)'
    /\ job[i].aborted => job'[i].aborted
    /\ job[i].live \in {"telling", "kept", "gone"} =>
          /\ job'[i].live \in {"telling", "kept", "gone"}
          /\ job'[i].status = job[i].status /\ job'[i].text = job[i].text

LEMMA JobsOnlyGrow ==
  ASSUME TypeOK, JobsFine, [Next]_vars
  PROVE  JobsGrow
PROOF
  <1>0. job \in [Invocations -> JobSet]
    BY DEF TypeOK
  <1> SUFFICES ASSUME NEW k \in Invocations
               PROVE  /\ Alive(k) => Alive(k)'
                      /\ job[k].aborted => job'[k].aborted
                      /\ job[k].live \in {"telling", "kept", "gone"} =>
                            /\ job'[k].live \in {"telling", "kept", "gone"}
                            /\ job'[k].status = job[k].status /\ job'[k].text = job[k].text
    BY DEF JobsGrow
  <1> USE DEF Alive, JobSet
  <1>1. CASE job'[k] = job[k]
    BY <1>1
  <1>2. ASSUME NEW i \in Invocations,
               \/ ServerStep(i) \/ PrepareFails(i) \/ StreamDelta(i) \/ CleanUp(i), k = i
        PROVE  /\ job'[k].live \notin {"none", "prepare"}
               /\ job'[k].aborted = job[k].aborted
               /\ job[k].live \in {"telling", "kept", "gone"} =>
                     /\ job'[k].live \in {"kept", "gone"} /\ job'[k].status = job[k].status
                     /\ job'[k].text = job[k].text
    <2>1. CASE StartJob(i)
      BY <1>0, <1>2, <2>1 DEF StartJob
    <2>2. CASE PrepareFails(i)
      BY <1>0, <1>2, <2>2 DEF PrepareFails
    <2>3. CASE StreamDelta(i)
      BY <1>0, <1>2, <2>3 DEF StreamDelta
    <2>4. CASE StreamEnds(i)
      BY <1>0, <1>2, <2>4 DEF StreamEnds
    <2>5. CASE FinishJob(i)
      BY <1>0, <1>2, <2>5 DEF FinishJob
    <2>6. CASE CleanUp(i)
      BY <1>0, <1>2, <2>6 DEF CleanUp
    <2>7. CASE SaveOutcome(i)
      BY <1>0, <1>2, <2>7 DEF SaveOutcome
    <2> QED BY <1>2, <2>1, <2>2, <2>3, <2>4, <2>5, <2>6, <2>7 DEF ServerStep
  <1>3. ASSUME NEW i \in Invocations,
               \/ ServerStep(i) \/ PrepareFails(i) \/ StreamDelta(i) \/ CleanUp(i), k # i
        PROVE  job'[k] = job[k]
    BY <1>0, <1>3 DEF ServerStep, StartJob, StreamEnds, SaveOutcome, FinishJob, PrepareFails,
                StreamDelta, CleanUp
  <1>4. CASE Restart
    BY <1>0, <1>4 DEF Restart
  <1>5. ASSUME NEW t \in Tabs, Receive(t) \/ OtherTabStep(t)
        PROVE  \/ job'[k] = job[k]
               \/ job[k].live = "none"
               \/ job[k].live = "running" /\ job'[k].live = "running" /\ job'[k].aborted
    <2>1. CASE Request(t)
      <3>1. Fresh \in Invocations /\ job[Fresh].live = "none"
        BY <2>1, FreshHasNoRow DEF Request, JobsFine, JobFine
      <3> QED BY <1>0, <2>1, <3>1 DEF Request
    <2>2. CASE Stop(t)
      BY <1>0, <2>2 DEF Stop, Running
    <2>3. CASE job' = job
      BY <2>3
    <2> QED BY <1>5, <2>1, <2>2, <2>3
            DEF OtherTabStep, Ask, RequestRefused, Resume, Disconnect, RunTools, StopReturns, GiveUp,
                CloseTab, ResumeExisting, Receive
  <1>6. ASSUME job[k].live = "none" PROVE ~job[k].aborted \/ job'[k].aborted
    <2>1. CASE UNCHANGED vars
      BY <2>1 DEF vars
    <2>2. ASSUME NEW t \in Tabs, Request(t) PROVE job'[k].aborted = job[k].aborted
      BY <1>0, <2>2 DEF Request
    <2>3. ASSUME NEW t \in Tabs, Stop(t) PROVE ~job[k].aborted \/ job'[k].aborted
      BY <1>0, <2>3 DEF Stop
    <2>4. ASSUME NEW t \in Tabs, Receive(t) \/ OtherTabStep(t)
          PROVE  ~job[k].aborted \/ job'[k].aborted
      BY <2>2, <2>3, <2>4
         DEF OtherTabStep, Ask, RequestRefused, Resume, Disconnect, RunTools, StopReturns, GiveUp,
             CloseTab, ResumeExisting, Receive
    <2> QED BY <1>2, <1>3, <1>4, <2>1, <2>4, NextCases
  <1>7. CASE UNCHANGED vars
    BY <1>7 DEF vars
  <1> QED BY <1>1, <1>2, <1>3, <1>4, <1>5, <1>6, <1>7, NextCases

LEMMA IdsGrow ==
  ASSUME JobsGrow
  PROVE  AliveIds \subseteq AliveIds' /\ AbortedIds \subseteq AbortedIds'
  BY DEF JobsGrow, AliveIds, AbortedIds

\* A record is fine with the jobs there are after the step.
Later(r) == RecFine(r, AliveIds')

LEMMA RecGrows ==
  ASSUME JobsGrow, TabsFine, NEW t \in Tabs
  PROVE  Later(tab[t])
PROOF
  <1>1. RecFine(tab[t], AliveIds)
    BY DEF TabsFine, TabFine
  <1> QED BY <1>1, IdsGrow DEF Later, RecFine

LEMMA TabsLater ==
  ASSUME \A t \in Tabs : Later(tab'[t])
  PROVE  TabsFine'
  BY DEF TabsFine, TabFine, Later

\* A tab that got an event which opens no stream, or that of its own invocation.
LEMMA OtherQueue ==
  ASSUME NEW r \in TabSet, Later(r),
         r.pc = "reading", NEW q \in Seq(EventSet), NEW on \in BOOLEAN,
         Opens(q) => Opens(r.queue) \/ r.from \in AliveIds'
  PROVE  /\ Later([r EXCEPT !.queue = q])
         /\ Later([r EXCEPT !.queue = q, !.on = on])
         /\ Later([r EXCEPT !.on = on, !.queue = q])
  BY DEF Later, RecFine, IdsFine, TabSet

LEMMA OtherOn ==
  ASSUME NEW r \in TabSet, Later(r),
         NEW on \in BOOLEAN
  PROVE  Later([r EXCEPT !.on = on])
  BY DEF Later, RecFine, IdsFine, TabSet

LEMMA NewTabFine ==
  Later(NewTab)
  BY DEF NewTab, Later, RecFine, IdsFine

LEMMA ServerKeepsTabs ==
  ASSUME TypeOK, JobsGrow, TabsFine, NEW i \in Invocations,
         \/ ServerStep(i) \/ PrepareFails(i) \/ StreamDelta(i) \/ CleanUp(i)
  PROVE  TabsFine'
PROOF
  <1>0. /\ job \in [Invocations -> JobSet]
        /\ \A t \in Tabs : tab[t] \in TabSet /\ tab[t].queue \in Seq(EventSet)
        /\ \A t \in Tabs : Later(tab[t])
        /\ \A t \in Tabs : tab[t].on => tab[t].pc = "reading"
    BY TabFacts, RecGrows DEF TypeOK
  <1> SUFFICES ASSUME NEW t \in Tabs PROVE Later(tab'[t])
    BY TabsLater
  <1>7. /\ tab[t] \in TabSet /\ tab[t].queue \in Seq(EventSet)
        /\ Later(tab[t]) /\ (tab[t].on => tab[t].pc = "reading")
    BY <1>0
  <1>1. CASE tab'[t] = tab[t]
    BY <1>7, <1>1
  <1>2. CASE StartJob(i)
    <2>1. i \in AliveIds'
      BY <1>0, <1>2 DEF StartJob, AliveIds, Alive, JobSet
    <2>2. Opening(<<>>) \in Seq(EventSet)
      BY OpeningIsQueue, Constants
    <2>3. \/ tab'[t] = tab[t]
          \/ /\ tab[t].pc = "reading" /\ tab[t].from = i
             /\ tab'[t] = [tab[t] EXCEPT !.on = TRUE, !.queue = Opening(<<>>)]
      BY <1>2 DEF StartJob
    <2> QED BY <1>7, <1>1, <2>1, <2>2, <2>3, OtherQueue
  <1>3. CASE PrepareFails(i)
    <2>1. \/ tab'[t] = tab[t]
          \/ tab[t].pc = "reading" /\ tab'[t] = [tab[t] EXCEPT !.queue = <<Refused>>]
      BY <1>3 DEF PrepareFails
    <2>2. <<Refused>> \in Seq(EventSet) /\ ~Opens(<<Refused>>)
      BY OneEventQueue, FailuresAreEvents
    <2> QED BY <1>7, <1>1, <2>1, <2>2, OtherQueue
  <1>4. CASE StreamDelta(i)
    <2> DEFINE d == Delta(Len(job[i].text) + 1)
    <2>1. d \in EventSet /\ d.type = "delta"
      <3>1. job[i].text \in Seq(Nat)
        BY <1>0 DEF JobSet, Text
      <3> QED BY <3>1 DEF Delta, Event, EventSet, Text
    <2>2. \/ tab'[t] = tab[t]
          \/ tab[t].on /\ tab'[t] = [tab[t] EXCEPT !.queue = Append(@, d)]
      BY <1>4 DEF StreamDelta, Broadcast, Listeners
    <2> HIDE DEF d
    <2>3. /\ Append(tab[t].queue, d) \in Seq(EventSet)
          /\ Opens(Append(tab[t].queue, d)) => Opens(tab[t].queue)
      BY <1>7, <2>1, AppendIsQueue
    <2> QED BY <1>7, <1>1, <2>2, <2>3, OtherQueue
  <1>5. CASE FinishJob(i)
    <2> DEFINE e == Ending(job[i].status, job[i].text, job[i].tools)
    <2>1. e \in EventSet /\ e.type \notin {"started", "snapshot"}
      BY <1>0, EndingIsEvent DEF JobSet, Endings
    <2>2. \/ tab'[t] = tab[t]
          \/ tab[t].on /\ tab'[t] = [tab[t] EXCEPT !.queue = Append(@, e), !.on = FALSE]
      BY <1>5 DEF FinishJob, Listeners
    <2> HIDE DEF e
    <2>3. /\ Append(tab[t].queue, e) \in Seq(EventSet)
          /\ Opens(Append(tab[t].queue, e)) => Opens(tab[t].queue)
      BY <1>7, <2>1, AppendIsQueue
    <2> QED BY <1>7, <1>1, <2>2, <2>3, OtherQueue
  <1> QED BY <1>1, <1>2, <1>3, <1>4, <1>5 DEF ServerStep, StreamEnds, SaveOutcome, CleanUp

LEMMA RestartKeepsTabs ==
  ASSUME TypeOK, JobsGrow, TabsFine, Restart
  PROVE  TabsFine'
PROOF
  <1> SUFFICES ASSUME NEW t \in Tabs PROVE Later(tab'[t])
    BY TabsLater
  <1>1. /\ tab[t] \in TabSet /\ tab[t].queue \in Seq(EventSet)
        /\ Later(tab[t])
    BY TabFacts, RecGrows
  <1>2. /\ Append(tab[t].queue, Cut) \in Seq(EventSet)
        /\ Opens(Append(tab[t].queue, Cut)) => Opens(tab[t].queue)
    BY <1>1, AppendIsQueue, FailuresAreEvents
  <1>3. \/ /\ tab[t].pc = "reading"
           /\ tab'[t] = [tab[t] EXCEPT !.queue = Append(@, Cut), !.on = FALSE]
        \/ tab'[t] = [tab[t] EXCEPT !.on = FALSE]
    BY DEF Restart
  <1> QED BY <1>1, <1>2, <1>3, OtherQueue, OtherOn

\* What a tab that reads becomes when it takes an event.
LEMMA ReceivedFine ==
  ASSUME TypeOK, NEW t \in Tabs, Later(tab[t]), tab[t].pc = "reading", tab[t].queue # <<>>
  PROVE  /\ tab[t].queue[1].type \in {"started", "snapshot"} =>
               /\ IdKnown(t) \in AliveIds' /\ Later(KnownTab(t))
               /\ Later([KnownTab(t) EXCEPT !.view = tab[t].queue[1].text])
         /\ Later(DeltaTab(t))
         /\ ~tab[t].resumed => Later(NextTab(t))
         /\ Later(AnewTab(t))
         /\ Retries(t) => Later(RetryTab(t))
         /\ Later(NextRequest(t)) /\ Later(LeftTab)
PROOF
  <1> DEFINE r == Rest(t)
  <1>1. /\ r \in TabSet /\ r.pc = "reading" /\ r.ref = tab[t].ref /\ r.from = tab[t].from
        /\ r.own = tab[t].own /\ r.started = tab[t].started /\ r.resumed = tab[t].resumed
        /\ r.attempt = tab[t].attempt /\ r.attempt \in Nat
        /\ Opens(r.queue) => Opens(tab[t].queue)
    <2>1. r \in TabSet /\ r = [tab[t] EXCEPT !.queue = Tail(tab[t].queue)]
      BY FirstEvent DEF Rest
    <2>2. Opens(Tail(tab[t].queue)) => Opens(tab[t].queue)
      BY TabFacts, TailIsQueue
    <2> HIDE DEF r
    <2> QED BY <2>1, <2>2, TabFacts DEF TabSet
  <1>2. Later(r)
    BY <1>1 DEF Later, RecFine, IdsFine
  <1>3. tab[t].queue[1].type \in {"started", "snapshot"} => r.from \in AliveIds'
    BY <1>1, TabFacts, TailIsQueue DEF Later, RecFine
  <1>4. IdKnown(t) = r.from
    BY <1>1 DEF IdKnown
  <1>5. KnownTab(t) = [r EXCEPT !.ref = r.from, !.started = @ \/ r.attempt = 0]
    BY <1>1, <1>4 DEF KnownTab
  <1>6. /\ DeltaTab(t) = [r EXCEPT !.view = @ \o tab[t].queue[1].text]
        /\ NextTab(t) = [[r EXCEPT !.pc = "tools", !.view = <<>>, !.on = FALSE]
                            EXCEPT !.steps = @ + 1]
        /\ AnewTab(t) = [[r EXCEPT !.pc = "tools", !.view = <<>>, !.on = FALSE]
                            EXCEPT !.steps = 0, !.ref = NoInv, !.resumed = FALSE]
    BY DEF DeltaTab, NextTab, AnewTab, ReadyTab
  <1> HIDE DEF r
  <1>7. ASSUME tab[t].queue[1].type \in {"started", "snapshot"}
        PROVE  /\ Later(KnownTab(t))
               /\ Later([KnownTab(t) EXCEPT !.view = tab[t].queue[1].text])
    <2>1. r.from \in AliveIds'
      BY <1>3, <1>7
    <2> DEFINE k == [r EXCEPT !.ref = r.from, !.started = @ \/ r.attempt = 0]
               v == [k EXCEPT !.view = tab[t].queue[1].text]
    <2>2. /\ k.pc = "reading" /\ k.ref = r.from /\ k.from = r.from /\ k.own = r.own
          /\ k.started = (r.started \/ r.attempt = 0) /\ k.resumed = r.resumed
          /\ k.attempt = r.attempt /\ k.queue = r.queue
          /\ v.pc = "reading" /\ v.ref = r.from /\ v.from = r.from /\ v.own = r.own
          /\ v.started = (r.started \/ r.attempt = 0) /\ v.resumed = r.resumed
          /\ v.attempt = r.attempt /\ v.queue = r.queue
      BY <1>1 DEF TabSet
    <2>3. r.started \/ r.resumed \/ r.attempt = 0 => r.from = r.own
      BY <1>1, <1>2 DEF Later, RecFine, IdsFine
    <2> HIDE DEF k, v
    <2>4. Later(k) /\ Later(v)
      BY <1>1, <1>2, <2>1, <2>2, <2>3 DEF Later, RecFine, IdsFine
    <2> QED BY <1>5, <2>4 DEF k, v
  <1>8. Later(DeltaTab(t))
    <2>1. PICK d : d = DeltaTab(t)
      OBVIOUS
    <2>2. /\ d.pc = "reading" /\ d.ref = r.ref /\ d.from = r.from /\ d.own = r.own
          /\ d.started = r.started /\ d.resumed = r.resumed
          /\ d.attempt = r.attempt /\ d.queue = r.queue
      BY SMTT(20), <1>1, <1>6, <2>1 DEF TabSet
    <2>3. Later(d)
      BY <1>1, <1>2, <2>2 DEF Later, RecFine, IdsFine
    <2> QED BY <2>1, <2>3
  <1>9. (~r.resumed => Later(NextTab(t))) /\ Later(AnewTab(t))
    <2>1. r.started => r.from = r.own
      BY <1>1, <1>2 DEF Later, RecFine, IdsFine
    <2> QED BY SMTT(20), <1>1, <1>2, <1>6, <2>1 DEF Later, RecFine, IdsFine, TabSet
  <1>10. Retries(t) => Later(RetryTab(t))
    <2>1. PICK u : u = RetryTab(t)
      OBVIOUS
    <2>2. /\ u.pc = "waiting" /\ u.ref = tab[t].ref /\ u.own = tab[t].own
          /\ u.started = tab[t].started /\ u.resumed = tab[t].resumed
          /\ u.attempt = tab[t].attempt + 1 /\ tab[t].attempt \in Nat
      BY TabFacts, <2>1 DEF RetryTab, TabSet
    <2>3. Later(u)
      BY <2>2 DEF Later, RecFine, IdsFine
    <2> QED BY <2>1, <2>3
  <1>11. Later(NextRequest(t))
    BY NextRequestIs DEF Later, RecFine, IdsFine
  <1>12. Later(LeftTab)
    BY DEF LeftTab, NewTab, Later, RecFine, IdsFine
  <1> QED BY <1>1, <1>3, <1>4, <1>7, <1>8, <1>9, <1>10, <1>11, <1>12

\* The saved id after a step.
SavedLater == saved' # NoInv => saved' \in AliveIds'

LEMMA ReceiveKeepsTabs ==
  ASSUME TypeOK, JobsGrow, TabsFine, SavedFine, NEW t \in Tabs, Receive(t)
  PROVE  TabsFine' /\ SavedLater
PROOF
  <1>1. ReceiveCase(t) /\ tab[t].pc = "reading" /\ tab[t].queue # <<>>
    BY ReceiveCases DEF ReceiveCase
  <1>2. Later(tab[t]) /\ Later(NewTab)
    BY RecGrows, NewTabFine
  <1>3. PICK r : Becomes(t, r) /\ Later(r) /\ TabTyped(r) /\ SavedLater
    BY <1>1, <1>2, ReceivedFine, ReceivedTyped, NewTabTyped, NextRequestIs, LeftTabIs, IdsGrow
       DEF ReceiveCase, EndRun, Becomes, SavedLater, SavedFine
  <1>4. \A u \in Tabs : tab'[u] = IF u = t THEN r ELSE tab[u]
    BY <1>3, BecomesTyped
  <1>5. \A u \in Tabs : Later(tab'[u])
    BY <1>3, <1>4, RecGrows
  <1> QED BY <1>3, <1>5, TabsLater

LEMMA SentFine ==
  ASSUME TypeOK, NEW t \in Tabs, Later(tab[t])
  PROVE  /\ tab[t].pc = "idle" => Later(AskTab(t))
         /\ tab[t].pc = "asking" => Later(RequestTab(t)) /\ Later(RefusedTab(t))
         /\ tab[t].pc = "waiting" => Later(ResumeTab(t))
         /\ tab[t].pc = "reading" => Later(CutTab(t))
         /\ Later(NextRequest(t)) /\ Later(HaltTab(t))
         /\ saved \in AliveIds' => Later(ResumedTab(t))
PROOF
  <1> USE DEF Later, RecFine, IdsFine
  <1>1. tab[t] \in TabSet /\ (tab[t].pc = "waiting" => tab[t].ref # NoInv)
    BY TabFacts DEF TypeOK
  <1>2. ~Opens(<<>>) /\ ~Opens(<<Refused>>) /\ ~Opens(<<Cut>>)
    BY OneEventQueue, FailuresAreEvents DEF Opens
  <1>3. tab[t].pc = "idle" => Later(AskTab(t))
    BY <1>1 DEF AskTab, TabSet
  <1>4. tab[t].pc = "asking" => Later(RequestTab(t))
    BY <1>1, <1>2 DEF RequestTab, TabSet
  <1>5. tab[t].pc = "asking" => Later(RefusedTab(t))
    BY <1>1, <1>2 DEF RefusedTab, TabSet
  <1>6. tab[t].pc = "waiting" => Later(ResumeTab(t))
    BY <1>1 DEF ResumeTab, TabSet
  <1>7. tab[t].pc = "reading" => Later(CutTab(t))
    BY <1>1, <1>2 DEF CutTab, TabSet
  <1>8. Later(NextRequest(t))
    BY NextRequestIs
  <1>9. Later(HaltTab(t))
    BY <1>1 DEF HaltTab, TabSet
  <1>10. saved \in AliveIds' => Later(ResumedTab(t))
    BY DEF ResumedTab, NewTab
  <1> QED BY <1>3, <1>4, <1>5, <1>6, <1>7, <1>8, <1>9, <1>10

\* A step that gives one tab a fine record.
LEMMA OneTabFine ==
  ASSUME TypeOK, JobsGrow, TabsFine, SavedFine, NEW t \in Tabs, NEW r,
         TabTyped(r), Later(r), Becomes(t, r), saved' = saved \/ saved' = NoInv
  PROVE  TabsFine' /\ SavedLater
PROOF
  <1>1. \A u \in Tabs : tab'[u] = IF u = t THEN r ELSE tab[u]
    BY BecomesTyped
  <1>2. \A u \in Tabs : Later(tab'[u])
    BY <1>1, RecGrows
  <1>3. SavedLater
    BY IdsGrow DEF SavedFine, SavedLater
  <1> QED BY <1>2, <1>3, TabsLater

LEMMA TabStepsKeepTabs ==
  ASSUME TypeOK, JobsGrow, TabsFine, SavedFine, NEW t \in Tabs, OtherTabStep(t)
  PROVE  TabsFine' /\ SavedLater
PROOF
  <1>0. Later(tab[t]) /\ Later(NewTab) /\ TabTyped(NewTab)
    BY RecGrows, NewTabFine, NewTabTyped
  <1>1. CASE Ask(t)
    <2>1. Becomes(t, AskTab(t)) /\ tab[t].pc = "idle" /\ saved' = saved
      BY <1>1 DEF Ask, Becomes, AskTab
    <2> QED BY <1>0, <2>1, SentTyped, SentFine, OneTabFine
  <1>2. CASE Request(t)
    <2>1. Becomes(t, RequestTab(t)) /\ tab[t].pc = "asking" /\ AnyFresh /\ saved' = saved
      BY <1>2 DEF Request, Becomes, RequestTab
    <2> QED BY <1>0, <2>1, SentTyped, SentFine, OneTabFine
  <1>3. CASE RequestRefused(t)
    <2>1. Becomes(t, RefusedTab(t)) /\ tab[t].pc = "asking" /\ saved' = saved
      BY <1>3 DEF RequestRefused, Becomes, RefusedTab
    <2> QED BY <1>0, <2>1, SentTyped, SentFine, OneTabFine
  <1>4. CASE Resume(t)
    <2>1. Becomes(t, ResumeTab(t)) /\ tab[t].pc = "waiting" /\ saved' = saved
      BY <1>4 DEF Resume, Becomes, ResumeTab
    <2> QED BY <1>0, <2>1, SentTyped, SentFine, OneTabFine
  <1>5. CASE Disconnect(t)
    <2>1. Becomes(t, CutTab(t)) /\ tab[t].pc = "reading" /\ saved' = saved
      BY <1>5 DEF Disconnect, Becomes, CutTab
    <2> QED BY <1>0, <2>1, SentTyped, SentFine, OneTabFine
  <1>6. CASE RunTools(t)
    <2>1. \/ Becomes(t, NextRequest(t)) /\ saved' = saved
          \/ Becomes(t, NewTab) /\ saved' = NoInv
      BY <1>6 DEF RunTools, EndRun, Becomes
    <2>2. CASE Becomes(t, NewTab) /\ saved' = NoInv
      BY <1>0, <2>2, OneTabFine
    <2>3. CASE Becomes(t, NextRequest(t)) /\ saved' = saved
      BY <1>0, <2>3, NextRequestIs, SentFine, OneTabFine
    <2> QED BY <2>1, <2>2, <2>3
  <1>7. CASE Stop(t)
    <2>1. \/ Becomes(t, HaltTab(t)) /\ saved' = saved
          \/ Becomes(t, NewTab) /\ saved' = NoInv
      BY <1>7 DEF Stop, EndRun, Becomes, HaltTab
    <2>2. CASE Becomes(t, NewTab) /\ saved' = NoInv
      BY <1>0, <2>2, OneTabFine
    <2>3. CASE Becomes(t, HaltTab(t)) /\ saved' = saved
      BY <1>0, <2>3, SentTyped, SentFine, OneTabFine
    <2> QED BY <2>1, <2>2, <2>3
  <1>8. CASE StopReturns(t)
    <2>1. Becomes(t, NewTab) /\ saved' = NoInv
      BY <1>8 DEF StopReturns, EndRun, Becomes
    <2> QED BY <1>0, <2>1, OneTabFine
  <1>9. CASE CloseTab(t)
    <2>1. Becomes(t, NewTab) /\ saved' = saved
      BY <1>9 DEF CloseTab, Becomes
    <2> QED BY <1>0, <2>1, OneTabFine
  <1>10. CASE ResumeExisting(t)
    <2>1. Becomes(t, ResumedTab(t)) /\ saved # NoInv /\ saved' = saved
      BY <1>10 DEF ResumeExisting, Becomes, ResumedTab
    <2>2. saved \in AliveIds'
      BY <2>1, IdsGrow DEF SavedFine
    <2> QED BY <1>0, <2>1, <2>2, SentTyped, SentFine, OneTabFine
  <1>11. CASE GiveUp(t)
    <2>1. Becomes(t, NewTab) /\ saved' = NoInv
      BY <1>11 DEF GiveUp, EndRun, Becomes
    <2> QED BY <1>0, <2>1, OneTabFine
  <1> QED BY <1>1, <1>2, <1>3, <1>4, <1>5, <1>6, <1>7, <1>8, <1>9, <1>10, <1>11 DEF OtherTabStep

LEMMA TabsKept ==
  ASSUME TypeOK, JobsFine, TabsFine, SavedFine, [Next]_vars
  PROVE  TabsFine' /\ SavedFine'
PROOF
  <1>0. JobsGrow
    BY JobsOnlyGrow
  <1>1. CASE UNCHANGED vars
    <2>1. \A t \in Tabs : Later(tab'[t])
      BY <1>0, <1>1, RecGrows DEF vars
    <2> QED BY <1>0, <1>1, <2>1, TabsLater, IdsGrow DEF SavedFine, vars
  <1>2. ASSUME NEW i \in Invocations,
               ServerStep(i) \/ PrepareFails(i) \/ StreamDelta(i) \/ CleanUp(i)
        PROVE  TabsFine' /\ SavedFine'
    <2>1. saved' = saved
      BY <1>2 DEF ServerStep, StartJob, StreamEnds, SaveOutcome, FinishJob, PrepareFails,
                StreamDelta, CleanUp
    <2> QED BY <1>0, <1>2, <2>1, ServerKeepsTabs, IdsGrow DEF SavedFine
  <1>3. CASE Restart
    <2>1. saved' = saved
      BY <1>3 DEF Restart
    <2> QED BY <1>0, <1>3, <2>1, RestartKeepsTabs, IdsGrow DEF SavedFine
  <1>4. ASSUME NEW t \in Tabs, Receive(t) \/ OtherTabStep(t)
        PROVE  TabsFine' /\ SavedFine'
    <2>1. TabsFine' /\ SavedLater
      BY <1>0, <1>4, ReceiveKeepsTabs, TabStepsKeepTabs
    <2> QED BY <2>1 DEF SavedFine, SavedLater
  <1> QED BY <1>1, <1>2, <1>3, <1>4, NextCases

\* A tab waits for a stop once it has aborted the job, and aborts stay.
LEMMA StopsKept ==
  ASSUME TypeOK, JobsFine, StopsFine, [Next]_vars
  PROVE  StopsFine'
PROOF
  <1>0. JobsGrow /\ stopping \in [Tabs -> Inv0] /\ job \in [Invocations -> JobSet]
    BY JobsOnlyGrow DEF TypeOK
  <1>1. AbortedIds \subseteq AbortedIds'
    BY <1>0, IdsGrow
  <1>2. CASE stopping' = stopping
    BY <1>1, <1>2 DEF StopsFine
  <1>3. ASSUME NEW t \in Tabs, stopping' = [stopping EXCEPT ![t] = NoInv]
        PROVE  StopsFine'
    BY <1>0, <1>1, <1>3 DEF StopsFine
  <1>4. ASSUME NEW t \in Tabs, Stop(t)
        PROVE  StopsFine'
    <2>1. CASE UNCHANGED stopping
      BY <1>2, <2>1
    <2>2. CASE /\ Running(tab[t].ref) /\ job' = [job EXCEPT ![tab[t].ref].aborted = TRUE]
               /\ stopping' = [stopping EXCEPT ![t] = tab[t].ref]
      <3>1. tab[t].ref \in Invocations
        BY <2>2, TabFacts DEF Running, Inv0
      <3>2. job'[tab[t].ref].aborted
        BY <1>0, <2>2, <3>1 DEF JobSet
      <3>3. tab[t].ref \in AbortedIds'
        BY <3>1, <3>2 DEF AbortedIds
      <3> QED BY <1>0, <1>1, <2>2, <3>3 DEF StopsFine
    <2> QED BY <1>4, <2>1, <2>2 DEF Stop
  <1>5. ASSUME NEW t \in Tabs, Receive(t) \/ OtherTabStep(t)
        PROVE  StopsFine'
    <2>1. CASE StopReturns(t) \/ CloseTab(t)
      BY <1>3, <2>1 DEF StopReturns, CloseTab
    <2> QED BY <1>2, <1>4, <1>5, <2>1
            DEF OtherTabStep, Receive, Request, RequestRefused, Resume, RunTools, Ask,
                Disconnect, GiveUp, ResumeExisting
  <1>6. ASSUME NEW i \in Invocations,
               ServerStep(i) \/ PrepareFails(i) \/ StreamDelta(i) \/ CleanUp(i)
        PROVE  stopping' = stopping
    BY <1>6 DEF ServerStep, StartJob, StreamEnds, SaveOutcome, FinishJob, PrepareFails,
                StreamDelta, CleanUp
  <1>7. Restart \/ UNCHANGED vars => stopping' = stopping
    BY DEF Restart, vars
  <1> QED BY <1>2, <1>5, <1>6, <1>7, NextCases

\* Answers are about jobs that have ended, and their jobs were aborted.
LEMMA AnswersGrow ==
  ASSUME TypeOK, JobsFine, StopsFine, [Next]_vars, NEW a \in answers'
  PROVE  \/ a \in answers
         \/ /\ a.inv \in Invocations /\ job' = job
            /\ job[a.inv].live = "kept" /\ job[a.inv].aborted
            /\ a.text = job[a.inv].text
PROOF
  <1>1. CASE answers' = answers
    BY <1>1
  <1>2. ASSUME NEW t \in Tabs, StopReturns(t)
        PROVE  \/ a \in answers
               \/ /\ a.inv \in Invocations /\ job' = job
                  /\ job[a.inv].live = "kept" /\ job[a.inv].aborted
                  /\ a.text = job[a.inv].text
    <2>1. stopping[t] \in AbortedIds /\ job' = job
      BY <1>2 DEF StopsFine, StopReturns
    <2>2. \/ a \in answers
          \/ /\ a = [inv |-> stopping[t], text |-> job[stopping[t]].text]
             /\ job[stopping[t]].live = "kept"
      BY <1>2 DEF StopReturns
    <2> QED BY <2>1, <2>2 DEF AbortedIds
  <1>3. ASSUME NEW i \in Invocations,
               ServerStep(i) \/ PrepareFails(i) \/ StreamDelta(i) \/ CleanUp(i)
        PROVE  answers' = answers
    BY <1>3 DEF ServerStep, StartJob, StreamEnds, SaveOutcome, FinishJob, PrepareFails,
                StreamDelta, CleanUp
  <1>4. ASSUME NEW t \in Tabs, Receive(t) \/ OtherTabStep(t), ~StopReturns(t)
        PROVE  answers' = answers
    BY <1>4 DEF OtherTabStep, Receive, Request, RequestRefused, Resume, RunTools, Ask,
                Disconnect, Stop, GiveUp, CloseTab, ResumeExisting
  <1>5. Restart \/ UNCHANGED vars => answers' = answers
    BY DEF Restart, vars
  <1> QED BY <1>1, <1>2, <1>3, <1>4, <1>5, NextCases

LEMMA AnswersStand ==
  ASSUME TypeOK, JobsFine, TabsFine, StopsFine, AnswersKept, OneOutcome, StopStands, [Next]_vars
  PROVE  AnswersKept' /\ StopStands'
PROOF
  <1>0. JobsGrow /\ TypeOK' /\ OneOutcome' /\ JobsFine'
    BY JobsOnlyGrow, TypesKept, JobsKept
  <1> SUFFICES ASSUME NEW a \in answers'
               PROVE  /\ job'[a.inv].live \in {"telling", "kept", "gone"}
                      /\ job'[a.inv].status = "stopped" /\ job'[a.inv].text = a.text
                      /\ a.inv \notin spoiled' =>
                            row'[a.inv] = [st |-> "cancelled", text |-> a.text]
    BY DEF AnswersKept, StopStands
  <1>1. a.inv \in Invocations
    BY <1>0 DEF TypeOK
  <1>2. /\ job'[a.inv].live \in {"telling", "kept", "gone"}
        /\ job'[a.inv].status = "stopped" /\ job'[a.inv].text = a.text
    <2>1. CASE a \in answers
      BY ZenonT(30), <1>0, <1>1, <2>1 DEF AnswersKept, StopStands, JobsGrow
    <2>2. CASE /\ job' = job /\ job[a.inv].live = "kept" /\ job[a.inv].aborted
               /\ a.text = job[a.inv].text
      BY <1>1, <2>2 DEF JobsFine, JobFine
    <2> QED BY <2>1, <2>2, AnswersGrow
  <1>3. ASSUME a.inv \notin spoiled'
        PROVE  row'[a.inv] = [st |-> "cancelled", text |-> a.text]
    <2>1. row'[a.inv].st = RowStatus("stopped") /\ row'[a.inv].text = a.text
      BY <1>0, <1>1, <1>2, <1>3 DEF OneOutcome
    <2>2. RowStatus("stopped") = "cancelled"
      BY DEF RowStatus
    <2>3. row'[a.inv] \in RowSet
      BY <1>0, <1>1 DEF TypeOK
    <2> QED BY <2>1, <2>2, <2>3 DEF RowSet
  <1> QED BY <1>2, <1>3

-----------------------------------------------------------------------------
(* The theorems.                                                           *)

LEMMA InitFine == Init => ChatInvariant
PROOF
  <1> SUFFICES ASSUME Init PROVE ChatInvariant
    OBVIOUS
  <1>1. TypeOK
    BY InitTypes
  <1>2. \A i \in Invocations : /\ job[i] = NewJob /\ told[i] = {}
                               /\ row[i] = [st |-> "none", text |-> <<>>]
    BY DEF Init
  <1>3. JobsFine /\ OneOutcome
    BY <1>2 DEF JobsFine, JobFine, OneOutcome, NewJob
  <1>4. TabsFine
    BY DEF Init, TabsFine, TabFine, RecFine, IdsFine, NewTab
  <1>5. SavedFine /\ StopsFine /\ AnswersKept /\ StopStands
    BY DEF Init, SavedFine, StopsFine, AnswersKept, StopStands
  <1> QED BY <1>1, <1>3, <1>4, <1>5 DEF ChatInvariant

LEMMA StepFine == ChatInvariant /\ [Next]_vars => ChatInvariant'
  BY TypesKept, JobsKept, TabsKept, StopsKept, AnswersStand DEF ChatInvariant

LEMMA AlwaysFine == Spec => []ChatInvariant
  BY InitFine, StepFine, PTL DEF Spec

\* The live jobs, the rows and the tabs keep their types, and a tab that waits
\* or listens has an invocation to do it with.
THEOREM ChatTypes == Spec => []TypeOK
PROOF
  <1>1. ChatInvariant => TypeOK
    BY DEF ChatInvariant
  <1> QED BY <1>1, AlwaysFine, PTL

\* Whoever reads the ending of a generation, from the live job, the kept one or
\* the row, is told the same one (finish, subscribe and
\* replayFinishedAgentChatSse), unless the row could not be written.
THEOREM OneEndingIsTold == Spec => []OneOutcome
PROOF
  <1>1. ChatInvariant => OneOutcome
    BY DEF ChatInvariant
  <1> QED BY <1>1, AlwaysFine, PTL

\* A stop that found the job running is answered with the text that stays, in the
\* job and in the row (stop and finish of the live job).
THEOREM StopsStand == Spec => []StopStands
PROOF
  <1>1. ChatInvariant => StopStands
    BY DEF ChatInvariant
  <1> QED BY <1>1, AlwaysFine, PTL

\* The tools a step runs are those its own request asked for, once that has
\* started, however often its stream was resumed (consumeWithResume).
THEOREM AnswersAreOwn == Spec => []AnswerIsOwn
PROOF
  <1>1. ChatInvariant => AnswerIsOwn
    BY DEF ChatInvariant, TabsFine, TabFine, RecFine, IdsFine, AnswerIsOwn
  <1> QED BY <1>1, AlwaysFine, PTL

-----------------------------------------------------------------------------
(* What a tab shows with the events under way: a trace of texts from what  *)
(* it shows to the text of the job, through the events one by one.         *)

\* Taking the events of q one by one makes w of the text v.
Leads(v, q, w) ==
    \E g \in [Nat -> Text] :
        /\ g[0] = v /\ g[Len(q)] = w
        /\ \A n \in 1 .. Len(q) : g[n] = Shown(g[n - 1], q[n])

Ended(q) == Heard(q) \cap {"done", "stopped"} # {}

Watches(r) == r.on \/ (r.pc = "reading" /\ Ended(r.queue))

Over(live) == live \in {"finishing", "telling", "kept", "gone"}

\* With the events under way a tab shows the text of the job it reads, and one
\* that is told an ending reads a job that has ended.
FollowFine(r, jobs) ==
    /\ Watches(r) => Leads(r.view, r.queue, jobs[r.from].text)
    /\ r.pc = "reading" /\ Ended(r.queue) => r.from # NoInv /\ Over(jobs[r.from].live)

TabsFollow == \A t \in Tabs : FollowFine(tab[t], job)

\* A row with an answer has the text its job ended with.
RowOver(i) ==
    row[i].st \in {"completed", "cancelled"} =>
        job[i].live \in {"telling", "kept", "gone"} /\ row[i].text = job[i].text

RowsAreOver == \A i \in Invocations : RowOver(i)

LEMMA LeastNumber ==
  ASSUME NEW T \in SUBSET Nat, T # {}
  PROVE  \E x \in T : \A y \in T : ~(y < x)
PROOF
  <1>1. \E x \in T : \A y \in T : <<y, x>> \notin OpToRel(<, Nat)
    BY NatLessThanWellFounded, WFMin
  <1> QED BY <1>1 DEF OpToRel

LEMMA ShownIsText ==
  ASSUME NEW v \in Text, NEW e \in EventSet
  PROVE  /\ Shown(v, e) \in Text
         /\ e.type = "delta" => Shown(v, e) = v \o e.text
         /\ e.type \in {"snapshot", "done", "stopped"} => Shown(v, e) = e.text
         /\ e.type \in {"started", "error", "cut", "refused"} => Shown(v, e) = v
PROOF
  <1>1. e.text \in Text /\ v \o e.text \in Text
    BY DEF EventSet, Text
  <1> QED BY <1>1 DEF Shown

\* The recursion of Shows has one solution: any trace gives its value.
LEMMA ShowsIs ==
  ASSUME NEW v \in Text, NEW q \in Seq(EventSet), NEW w, Leads(v, q, w)
  PROVE  Shows(v, q) = w
PROOF
  <1>0. Len(q) \in Nat
    OBVIOUS
  <1>1. PICK g \in [Nat -> Text] :
          /\ g[0] = v /\ g[Len(q)] = w
          /\ \A n \in 1 .. Len(q) : g[n] = Shown(g[n - 1], q[n])
    BY DEF Leads
  <1> DEFINE Solves(a) == a = [n \in 0 .. Len(q) |->
                                 IF n = 0 THEN v ELSE Shown(a[n - 1], q[n])]
  <1>2. \E a : Solves(a)
    <2> DEFINE a == [n \in 0 .. Len(q) |-> g[n]]
    <2>1. \A n \in 0 .. Len(q) :
            g[n] = IF n = 0 THEN v ELSE Shown(a[n - 1], q[n])
      <3> SUFFICES ASSUME NEW n \in 0 .. Len(q), n # 0 PROVE g[n] = Shown(a[n - 1], q[n])
        BY <1>1
      <3>1. n \in 1 .. Len(q) /\ n - 1 \in 0 .. Len(q)
        BY <1>0
      <3> QED BY <1>1, <3>1
    <2>2. Solves(a)
      BY <2>1
    <2> QED BY <2>2
  <1>3. ASSUME NEW a, Solves(a) PROVE a[Len(q)] = w
    <2>1. a[0] = v /\ \A n \in 1 .. Len(q) : a[n] = Shown(a[n - 1], q[n])
      BY <1>0, <1>3
    <2> HIDE DEF Solves
    <2> DEFINE T == {n \in 0 .. Len(q) : a[n] # g[n]}
    <2>2. SUFFICES ASSUME T # {} PROVE FALSE
      BY <1>0, <1>1
    <2>3. PICK n \in T : \A m \in T : ~(m < n)
      <3>1. T \in SUBSET Nat
        BY <1>0
      <3> HIDE DEF T
      <3> QED BY <2>2, <3>1, LeastNumber
    <2>4. n \in 1 .. Len(q) /\ n - 1 \in 0 .. Len(q) /\ n - 1 < n
      BY <1>0, <1>1, <2>1, <2>3
    <2>5. n - 1 \notin T
      BY <2>3, <2>4
    <2>6. a[n - 1] = g[n - 1]
      BY <2>4, <2>5
    <2> QED BY <1>1, <2>1, <2>3, <2>4, <2>6
  <1>4. Shows(v, q) = (CHOOSE a : Solves(a))[Len(q)]
    BY DEF Shows
  <1> HIDE DEF Solves
  <1> QED BY <1>2, <1>3, <1>4

LEMMA LeadsEmpty ==
  ASSUME NEW v \in Text
  PROVE  Leads(v, <<>>, v)
PROOF
  <1>1. PICK g \in [Nat -> Text] : g = [n \in Nat |-> v]
    OBVIOUS
  <1>2. g[0] = v /\ g[Len(<<>>)] = v /\ 1 .. Len(<<>>) = {}
    BY <1>1
  <1> QED BY <1>2 DEF Leads

LEMMA LeadsAppend ==
  ASSUME NEW v, NEW w \in Text, NEW q \in Seq(EventSet), NEW e \in EventSet, Leads(v, q, w)
  PROVE  Leads(v, Append(q, e), Shown(w, e))
PROOF
  <1>1. PICK g \in [Nat -> Text] :
          /\ g[0] = v /\ g[Len(q)] = w
          /\ \A n \in 1 .. Len(q) : g[n] = Shown(g[n - 1], q[n])
    BY DEF Leads
  <1>2. PICK h \in [Nat -> Text] : h = [g EXCEPT ![Len(q) + 1] = Shown(w, e)]
    BY ShownIsText
  <1>3. Len(q) \in Nat
    OBVIOUS
  <1>4. h[Len(q) + 1] = Shown(w, e) /\ \A n \in 0 .. Len(q) : h[n] = g[n]
    BY <1>2, <1>3
  <1>5. ASSUME NEW n \in 1 .. Len(Append(q, e))
        PROVE  h[n] = Shown(h[n - 1], Append(q, e)[n])
    <2>1. CASE n \in 1 .. Len(q)
      <3>1. n - 1 \in 0 .. Len(q) /\ n \in 0 .. Len(q)
        BY <1>3, <2>1
      <3> QED BY <1>1, <1>4, <2>1, <3>1, Appended
    <2>2. CASE n = Len(q) + 1
      <3>1. n - 1 = Len(q) /\ Len(q) \in 0 .. Len(q)
        BY <1>3, <2>2
      <3> QED BY <1>1, <1>4, <2>2, <3>1, Appended
    <2> QED BY <1>3, <2>1, <2>2, Appended
  <1>6. h[0] = v /\ h[Len(Append(q, e))] = Shown(w, e)
    BY <1>1, <1>3, <1>4, Appended
  <1> QED BY <1>5, <1>6 DEF Leads

LEMMA LeadsTail ==
  ASSUME NEW v, NEW w, NEW q \in Seq(EventSet), q # <<>>, Leads(v, q, w)
  PROVE  Leads(Shown(v, q[1]), Tail(q), w)
PROOF
  <1>1. PICK g \in [Nat -> Text] :
          /\ g[0] = v /\ g[Len(q)] = w
          /\ \A n \in 1 .. Len(q) : g[n] = Shown(g[n - 1], q[n])
    BY DEF Leads
  <1>2. PICK h \in [Nat -> Text] : h = [n \in Nat |-> g[n + 1]]
    <2>1. \A n \in Nat : n + 1 \in Nat /\ g[n + 1] \in Text
      OBVIOUS
    <2> QED BY <2>1
  <1>3. /\ Len(q) \in Nat /\ Len(Tail(q)) \in Nat /\ Len(q) = Len(Tail(q)) + 1
        /\ \A n \in 1 .. Len(Tail(q)) : Tail(q)[n] = q[n + 1] /\ n + 1 \in 1 .. Len(q)
    OBVIOUS
  <1>4. h[0] = Shown(v, q[1])
    <2>1. 1 \in 1 .. Len(q) /\ g[1] = Shown(g[0], q[1])
      BY <1>1, <1>3
    <2> QED BY <1>1, <1>2, <2>1
  <1>5. ASSUME NEW n \in 1 .. Len(Tail(q))
        PROVE  h[n] = Shown(h[n - 1], Tail(q)[n])
    <2>1. n \in Nat /\ n - 1 \in Nat /\ n + 1 \in 1 .. Len(q) /\ Tail(q)[n] = q[n + 1]
      BY <1>3
    <2>2. h[n] = g[n + 1] /\ h[n - 1] = g[n] /\ (n + 1) - 1 = n
      BY <1>2, <2>1
    <2> QED BY <1>1, <2>1, <2>2
  <1>6. h[Len(Tail(q))] = w
    BY <1>1, <1>2, <1>3
  <1> QED BY <1>4, <1>5, <1>6 DEF Leads

\* An opening brings the text, whatever the tab showed.
LEMMA LeadsOpening ==
  ASSUME NEW v \in Text, NEW text \in Text
  PROVE  Leads(v, Opening(text), text)
PROOF
  <1>1. PICK a \in EventSet : a = Event("started", <<>>) /\ a.type = "started"
    BY EventIsEvent, Constants
  <1>2. PICK b \in EventSet : b = Event("snapshot", text) /\ b.type = "snapshot" /\ b.text = text
    BY EventIsEvent DEF Event
  <1>3. PICK g \in [Nat -> Text] : g = [n \in Nat |-> IF n < 2 THEN v ELSE text]
    OBVIOUS
  <1>4. g[0] = v /\ g[1] = v /\ g[2] = text
    BY <1>3
  <1>5. g[1] = Shown(g[0], a) /\ g[2] = Shown(g[1], b)
    BY <1>1, <1>2, <1>4, ShownIsText
  <1>9. Len(<<a, b>>) = 2 /\ <<a, b>>[1] = a /\ <<a, b>>[2] = b
    OBVIOUS
  <1>6. PICK q : q = <<a, b>> /\ Len(q) = 2 /\ q[1] = a /\ q[2] = b
    BY <1>9
  <1>7. Opening(text) = <<a, b>>
    BY <1>1, <1>2 DEF Opening
  <1>8. \A n \in 1 .. Len(q) : g[n] = Shown(g[n - 1], q[n])
    BY <1>5, <1>6
  <1> QED BY <1>4, <1>6, <1>7, <1>8 DEF Leads

LEMMA EndingShows ==
  ASSUME NEW status \in Endings \cup {"running"}, NEW text \in Text, NEW tools \in BOOLEAN
  PROVE  /\ Shown(text, Ending(status, text, tools)) = text
         /\ Ending(status, text, tools).type \in {"done", "stopped"} =>
               status \in {"done", "stopped"}
PROOF
  <1>1. PICK e \in EventSet : e = Ending(status, text, tools)
    BY EndingIsEvent
  <1>2. CASE status = "done"
    <2>1. e = Done(text, tools)
      BY <1>1, <1>2 DEF Ending
    <2>2. e.type = "done" /\ e.text = text
      BY <2>1 DEF Done
    <2> QED BY <1>1, <1>2, <2>2, ShownIsText
  <1>3. CASE status = "stopped"
    <2>1. e = Event("stopped", text)
      BY <1>1, <1>3 DEF Ending
    <2>2. e.type = "stopped" /\ e.text = text
      BY <2>1 DEF Event
    <2> QED BY <1>1, <1>3, <2>2, ShownIsText
  <1>4. CASE status \in {"error", "running"}
    <2>1. e = Event("error", <<>>)
      BY <1>1, <1>4 DEF Ending
    <2>2. e.type = "error"
      BY <2>1 DEF Event
    <2> QED BY <1>1, <2>2, ShownIsText
  <1> QED BY <1>2, <1>3, <1>4 DEF Endings

\* What is heard in a queue, an event longer or shorter.
LEMMA EndedGrows ==
  ASSUME NEW q \in Seq(EventSet), NEW e \in EventSet
  PROVE  /\ Ended(Append(q, e)) => Ended(q) \/ e.type \in {"done", "stopped"}
         /\ q # <<>> /\ Ended(Tail(q)) => Ended(q)
         /\ ~Ended(<<>>)
PROOF
  <1>1. ASSUME Ended(Append(q, e)), e.type \notin {"done", "stopped"} PROVE Ended(q)
    <2>1. PICK n \in 1 .. Len(Append(q, e)) : Append(q, e)[n].type \in {"done", "stopped"}
      BY <1>1 DEF Ended, Heard
    <2>2. n \in 1 .. Len(q) /\ q[n] = Append(q, e)[n]
      BY <1>1, <2>1, Appended
    <2>3. q[n].type \in Heard(q)
      BY <2>1, <2>2 DEF Heard, Endings
    <2> QED BY <2>1, <2>2, <2>3 DEF Ended
  <1>2. ASSUME q # <<>>, Ended(Tail(q)) PROVE Ended(q)
    <2>1. PICK n \in 1 .. Len(Tail(q)) : Tail(q)[n].type \in {"done", "stopped"}
      BY <1>2 DEF Ended, Heard
    <2>2. n + 1 \in 1 .. Len(q) /\ q[n + 1] = Tail(q)[n]
      BY <1>2
    <2>3. q[n + 1].type \in Heard(q)
      BY <2>1, <2>2 DEF Heard, Endings
    <2> QED BY <2>1, <2>2, <2>3 DEF Ended
  <1>3. ~Ended(<<>>)
    BY DEF Ended, Heard
  <1> QED BY <1>1, <1>2, <1>3


-----------------------------------------------------------------------------
(* The steps.                                                              *)

\* No text changes and no job that is over runs again.
TextsStay == \A k \in Invocations :
    job'[k].text = job[k].text /\ (Over(job[k].live) => Over(job'[k].live))

LEMMA ServerTexts ==
  ASSUME TypeOK, NEW i \in Invocations, ServerStep(i) \/ PrepareFails(i) \/ CleanUp(i)
  PROVE  TextsStay
PROOF
  <1>0. job \in [Invocations -> JobSet]
    BY DEF TypeOK
  <1> SUFFICES ASSUME NEW k \in Invocations
               PROVE  job'[k].text = job[k].text /\ (Over(job[k].live) => Over(job'[k].live))
    BY DEF TextsStay
  <1> USE DEF Over, JobSet
  <1>1. CASE StartJob(i)
    BY <1>0, <1>1 DEF StartJob
  <1>2. CASE StreamEnds(i)
    BY <1>0, <1>2 DEF StreamEnds
  <1>3. CASE FinishJob(i)
    BY <1>0, <1>3 DEF FinishJob
  <1>4. CASE PrepareFails(i)
    BY <1>0, <1>4 DEF PrepareFails
  <1>5. CASE CleanUp(i)
    BY <1>0, <1>5 DEF CleanUp
  <1>6. CASE SaveOutcome(i)
    BY <1>0, <1>6 DEF SaveOutcome
  <1> QED BY <1>1, <1>2, <1>3, <1>4, <1>5, <1>6 DEF ServerStep

LEMMA RestartTexts ==
  ASSUME TypeOK, Restart
  PROVE  TextsStay
  BY DEF TypeOK, Restart, TextsStay, Over, JobSet

LEMMA TabTexts ==
  ASSUME TypeOK, JobsFine, NEW t \in Tabs, Receive(t) \/ OtherTabStep(t)
  PROVE  TextsStay
PROOF
  <1>0. job \in [Invocations -> JobSet]
    BY DEF TypeOK
  <1>1. CASE Request(t)
    <2>1. Fresh \in Invocations /\ job[Fresh].live = "none"
      BY <1>1, FreshHasNoRow DEF Request, JobsFine, JobFine
    <2> QED BY <1>0, <1>1, <2>1 DEF Request, TextsStay, Over, JobSet
  <1>2. CASE Stop(t)
    BY <1>0, <1>2 DEF Stop, TextsStay, JobSet
  <1>3. CASE job' = job
    BY <1>3 DEF TextsStay
  <1> QED BY <1>1, <1>2, <1>3
          DEF OtherTabStep, Ask, RequestRefused, Resume, Disconnect, RunTools, StopReturns, GiveUp,
              CloseTab, ResumeExisting, Receive

\* A tab that did not move, and one that watches nothing.
LEMMA StillFollows ==
  ASSUME TypeOK, TabsFollow, TextsStay, NEW t \in Tabs
  PROVE  FollowFine(tab[t], job')
PROOF
  <1>1. FollowFine(tab[t], job) /\ TabTyped(tab[t]) /\ tab[t].from \in Inv0
    BY TabTypes, TabFacts DEF TabsFollow
  <1>2. Watches(tab[t]) => tab[t].from \in Invocations
    BY <1>1 DEF FollowFine, Watches, TabTyped, Inv0
  <1> QED BY <1>1, <1>2 DEF FollowFine, TextsStay, Watches

LEMMA WatchesNothing ==
  ASSUME NEW r, NEW jobs, ~Watches(r)
  PROVE  FollowFine(r, jobs)
  BY DEF FollowFine, Watches

LEMMA NewTabWatchesNothing == ~Watches(NewTab)
  BY DEF Watches, NewTab

\* A tab is given an event that leaves the text it has.
LEMMA MoreFollows ==
  ASSUME TypeOK, NEW t \in Tabs, NEW jobs \in [Invocations -> JobSet], FollowFine(tab[t], jobs),
         NEW e \in EventSet, NEW on \in BOOLEAN, on => tab[t].on,
         tab[t].from \in Invocations => Shown(jobs[tab[t].from].text, e) = jobs[tab[t].from].text,
         e.type \in {"done", "stopped"} =>
             tab[t].on /\ tab[t].from # NoInv /\ Over(jobs[tab[t].from].live)
  PROVE  FollowFine([tab[t] EXCEPT !.queue = Append(@, e), !.on = on], jobs)
PROOF
  <1>1. /\ tab[t] \in TabSet /\ tab[t].queue \in Seq(EventSet) /\ tab[t].view \in Text
        /\ tab[t].from \in Inv0 /\ TabTyped(tab[t])
    BY TabFacts, TabTypes
  <1>2. PICK q \in Seq(EventSet) : q = Append(tab[t].queue, e)
    BY <1>1, Appended
  <1>3. PICK r : r = [tab[t] EXCEPT !.queue = Append(@, e), !.on = on]
    OBVIOUS
  <1>4. r.queue = q /\ r.on = on /\ r.pc = tab[t].pc /\ r.from = tab[t].from /\ r.view = tab[t].view
    BY <1>1, <1>2, <1>3 DEF TabSet
  <1>5. Ended(q) => Ended(tab[t].queue) \/ e.type \in {"done", "stopped"}
    BY <1>1, <1>2, EndedGrows
  <1>6. ASSUME Watches(r) PROVE Leads(r.view, r.queue, jobs[r.from].text)
    <2>1. Watches(tab[t])
      BY <1>4, <1>5, <1>6 DEF Watches
    <2>2. tab[t].from \in Invocations
      BY <1>1, <2>1 DEF Watches, FollowFine, TabTyped, Inv0
    <2>3. PICK w \in Text : w = jobs[tab[t].from].text
      BY <2>2 DEF JobSet
    <2>4. Leads(tab[t].view, tab[t].queue, w)
      BY <2>1, <2>3 DEF FollowFine
    <2>5. Leads(tab[t].view, Append(tab[t].queue, e), Shown(w, e))
      BY <1>1, <2>4, LeadsAppend
    <2> QED BY <1>2, <1>4, <2>2, <2>3, <2>5
  <1>7. ASSUME r.pc = "reading", Ended(r.queue)
        PROVE  r.from # NoInv /\ Over(jobs[r.from].live)
    BY <1>4, <1>5, <1>7 DEF FollowFine
  <1> QED BY <1>3, <1>6, <1>7 DEF FollowFine

LEMMA FirstAppended ==
  ASSUME NEW e \in EventSet
  PROVE  Append(<<>>, e) = <<e>>
  OBVIOUS

LEMMA ServerFollows ==
  ASSUME TypeOK, JobsFine, TabsFollow, NEW i \in Invocations,
         ServerStep(i) \/ PrepareFails(i) \/ CleanUp(i), TypeOK', NEW t \in Tabs
  PROVE  FollowFine(tab'[t], job')
PROOF
  <1>0. /\ FollowFine(tab[t], job') /\ TextsStay
        /\ job' \in [Invocations -> JobSet] /\ job \in [Invocations -> JobSet]
        /\ tab[t] \in TabSet /\ tab[t].queue \in Seq(EventSet) /\ tab[t].view \in Text
    BY ServerTexts, StillFollows, TabFacts DEF TypeOK
  <1>1. CASE tab'[t] = tab[t]
    BY <1>0, <1>1
  <1>2. CASE StartJob(i)
    <2>1. \/ tab'[t] = tab[t]
          \/ /\ tab[t].pc = "reading" /\ tab[t].from = i
             /\ tab'[t] = [tab[t] EXCEPT !.on = TRUE, !.queue = Opening(<<>>)]
      BY <1>2 DEF StartJob
    <2>2. job'[i].text = <<>>
      BY <1>0, <1>2 DEF StartJob, JobsFine, JobFine, TextsStay
    <2>3. Leads(tab[t].view, Opening(<<>>), <<>>) /\ ~Ended(Opening(<<>>))
      BY <1>0, LeadsOpening, OpeningIsQueue, Constants DEF Ended
    <2>4. CASE /\ tab[t].pc = "reading" /\ tab[t].from = i
               /\ tab'[t] = [tab[t] EXCEPT !.on = TRUE, !.queue = Opening(<<>>)]
      <3>1. /\ tab'[t].view = tab[t].view /\ tab'[t].from = i
            /\ tab'[t].queue = Opening(<<>>)
        BY <1>0, <2>4 DEF TabSet
      <3> QED BY <2>2, <2>3, <3>1 DEF FollowFine
    <2> QED BY <1>1, <2>1, <2>4
  <1>3. CASE PrepareFails(i)
    <2>1. \/ tab'[t] = tab[t]
          \/ tab[t].queue = <<>> /\ tab'[t] = [tab[t] EXCEPT !.queue = <<Refused>>]
      BY <1>3 DEF PrepareFails
    <2>2. CASE tab[t].queue = <<>> /\ tab'[t] = [tab[t] EXCEPT !.queue = <<Refused>>]
      <3>1. PICK on \in BOOLEAN : on = tab[t].on
        BY <1>0 DEF TabSet
      <3>2. tab'[t] = [tab[t] EXCEPT !.queue = Append(@, Refused), !.on = on]
        BY <1>0, <2>2, <3>1, FirstAppended, FailuresAreEvents DEF TabSet
      <3>3. \A x \in Text : Shown(x, Refused) = x
        BY ShownIsText, FailuresAreEvents
      <3>4. tab[t].from \in Invocations => job'[tab[t].from].text \in Text
        BY <1>0 DEF JobSet
      <3>5. PICK e \in EventSet : e = Refused /\ e.type = "refused"
        BY FailuresAreEvents
      <3>6. tab[t].from \in Invocations => Shown(job'[tab[t].from].text, e) = job'[tab[t].from].text
        BY <3>3, <3>4, <3>5
      <3>7. PICK jobs \in [Invocations -> JobSet] : jobs = job'
        BY <1>0
      <3>8. FollowFine([tab[t] EXCEPT !.queue = Append(@, e), !.on = on], jobs)
        BY <1>0, <3>1, <3>5, <3>6, <3>7, MoreFollows
      <3> QED BY <3>2, <3>5, <3>7, <3>8
    <2> QED BY <1>1, <2>1, <2>2
  <1>4. CASE FinishJob(i)
    <2>1. PICK e : e = Ending(job[i].status, job[i].text, job[i].tools)
      OBVIOUS
    <2>6. /\ job[i].status \in Endings \cup {"running"} /\ job[i].text \in Text
          /\ job[i].tools \in BOOLEAN
      BY <1>0 DEF JobSet
    <2>2. e \in EventSet /\ Shown(job[i].text, e) = job[i].text
      BY <2>1, <2>6, EndingIsEvent, EndingShows
    <2>3. \/ tab'[t] = tab[t]
          \/ /\ tab[t].on /\ tab[t].from = i
             /\ tab'[t] = [tab[t] EXCEPT !.queue = Append(@, e), !.on = FALSE]
      BY <1>4, <2>1 DEF FinishJob, Listeners
    <2>4. job'[i].live = "kept" /\ job'[i].text = job[i].text
      BY ZenonT(30), <1>0, <1>4 DEF FinishJob, JobSet
    <2>5. CASE /\ tab[t].on /\ tab[t].from = i
               /\ tab'[t] = [tab[t] EXCEPT !.queue = Append(@, e), !.on = FALSE]
      <3>1. tab[t].from # NoInv /\ Over(job'[tab[t].from].live)
        BY <2>4, <2>5, Constants DEF Over
      <3>2. Shown(job'[tab[t].from].text, e) = job'[tab[t].from].text
        BY <2>2, <2>4, <2>5
      <3>3. PICK jobs \in [Invocations -> JobSet] : jobs = job'
        BY <1>0
      <3>4. PICK on \in BOOLEAN : on = FALSE
        OBVIOUS
      <3>5. FollowFine([tab[t] EXCEPT !.queue = Append(@, e), !.on = on], jobs)
        BY <1>0, <2>2, <2>5, <3>1, <3>2, <3>3, <3>4, MoreFollows
      <3> QED BY <2>5, <3>3, <3>4, <3>5
    <2> QED BY <1>1, <2>3, <2>5
  <1> QED BY <1>1, <1>2, <1>3, <1>4 DEF ServerStep, StreamEnds, SaveOutcome, CleanUp

\* A token reaches the text of the job and every tab that listens to it.
LEMMA DeltaFollows ==
  ASSUME TypeOK, JobsFine, TabsFollow, NEW i \in Invocations, StreamDelta(i), NEW t \in Tabs
  PROVE  FollowFine(tab'[t], job')
PROOF
  <1>0. /\ job \in [Invocations -> JobSet] /\ FollowFine(tab[t], job) /\ TabTyped(tab[t])
        /\ tab[t] \in TabSet /\ tab[t].queue \in Seq(EventSet) /\ tab[t].view \in Text
        /\ tab[t].from \in Inv0
    BY TabFacts, TabTypes DEF TypeOK, TabsFollow
  <1>1. /\ job'[i].text = Append(job[i].text, Len(job[i].text) + 1)
        /\ job[i].live = "running" /\ job'[i].live = "running"
        /\ \A k \in Invocations : k # i => job'[k] = job[k]
    BY <1>0 DEF StreamDelta, JobSet
  <1>2. ~(tab[t].pc = "reading" /\ Ended(tab[t].queue) /\ tab[t].from = i)
    BY <1>0, <1>1 DEF FollowFine, Over
  <1>3. CASE tab[t].on /\ tab[t].from = i
    <2>1. PICK d : d = Delta(Len(job[i].text) + 1)
      OBVIOUS
    <2>2. job[i].text \in Text /\ Len(job[i].text) + 1 \in Nat
      BY <1>0 DEF JobSet, Text
    <2>3. d \in EventSet /\ d.type = "delta" /\ d.text = <<Len(job[i].text) + 1>>
      BY <2>1, <2>2 DEF Delta, Event, EventSet, Text
    <2>4. Shown(job[i].text, d) = job'[i].text
      <3>1. Shown(job[i].text, d) = job[i].text \o <<Len(job[i].text) + 1>>
        <4>1. d.type = "delta" => Shown(job[i].text, d) = job[i].text \o d.text
          BY <2>2, <2>3, ShownIsText
        <4> QED BY <2>3, <4>1
      <3>2. job[i].text \o <<Len(job[i].text) + 1>> = Append(job[i].text, Len(job[i].text) + 1)
        BY <2>2 DEF Text
      <3> QED BY <1>1, <3>1, <3>2
    <2>5. tab'[t] = [tab[t] EXCEPT !.queue = Append(@, d)]
      BY <1>3, <2>1 DEF StreamDelta, Broadcast, Listeners
    <2>6. Leads(tab[t].view, Append(tab[t].queue, d), job'[i].text)
      <3>1. Leads(tab[t].view, tab[t].queue, job[i].text)
        BY <1>0, <1>3 DEF FollowFine, Watches
      <3> QED BY <1>0, <2>2, <2>3, <2>4, <3>1, LeadsAppend
    <2>7. /\ tab'[t].view = tab[t].view /\ tab'[t].from = i /\ tab'[t].pc = "reading"
          /\ tab'[t].queue = Append(tab[t].queue, d)
      BY <1>0, <1>3, <2>5 DEF TabSet, TabTyped
    <2>8. ~Ended(Append(tab[t].queue, d))
      BY <1>0, <1>2, <1>3, <2>3, EndedGrows DEF TabTyped
    <2> QED BY <2>6, <2>7, <2>8 DEF FollowFine
  <1>4. CASE ~(tab[t].on /\ tab[t].from = i)
    <2>1. tab'[t] = tab[t]
      BY <1>4 DEF StreamDelta, Broadcast, Listeners
    <2>2. Watches(tab[t]) => tab[t].from \in Invocations /\ tab[t].from # i
      BY <1>0, <1>2, <1>4 DEF Watches, FollowFine, TabTyped, Inv0
    <2> QED BY <1>0, <1>1, <2>1, <2>2 DEF FollowFine, Watches
  <1> QED BY <1>3, <1>4

LEMMA RestartFollows ==
  ASSUME TypeOK, TabsFollow, Restart, TypeOK', NEW t \in Tabs
  PROVE  FollowFine(tab'[t], job')
PROOF
  <1>0. /\ FollowFine(tab[t], job') /\ job' \in [Invocations -> JobSet]
        /\ tab[t] \in TabSet
    BY RestartTexts, StillFollows, TabFacts DEF TypeOK
  <1>1. CASE tab[t].pc = "reading"
    <2>1. tab'[t] = [tab[t] EXCEPT !.queue = Append(@, Cut), !.on = FALSE]
      BY <1>1 DEF Restart
    <2>2. PICK e \in EventSet : e = Cut /\ e.type = "cut"
      BY FailuresAreEvents
    <2>3. PICK jobs \in [Invocations -> JobSet] : jobs = job'
      BY <1>0
    <2>4. tab[t].from \in Invocations => jobs[tab[t].from].text \in Text
      BY <2>3 DEF JobSet
    <2>5. tab[t].from \in Invocations => Shown(jobs[tab[t].from].text, e) = jobs[tab[t].from].text
      BY <2>2, <2>4, ShownIsText
    <2>6. PICK on \in BOOLEAN : on = FALSE
      OBVIOUS
    <2>7. FollowFine([tab[t] EXCEPT !.queue = Append(@, e), !.on = on], jobs)
      BY <1>0, <2>2, <2>3, <2>5, <2>6, MoreFollows
    <2> QED BY <2>1, <2>2, <2>3, <2>6, <2>7
  <1>2. CASE tab[t].pc # "reading"
    <2>1. tab'[t] = [tab[t] EXCEPT !.on = FALSE]
      BY <1>2 DEF Restart
    <2>2. ~Watches(tab'[t])
      BY <1>0, <1>2, <2>1 DEF Watches, TabSet
    <2> QED BY <2>2, WatchesNothing
  <1> QED BY <1>1, <1>2


LEMMA ReceivedFollows ==
  ASSUME TypeOK, TabsFollow, NEW t \in Tabs, ReceiveCase(t)
  PROVE  \E r : TabTyped(r) /\ Becomes(t, r) /\ FollowFine(r, job)
PROOF
  <1>0. /\ FollowFine(tab[t], job) /\ tab[t].pc = "reading" /\ tab[t].queue # <<>>
        /\ tab[t] \in TabSet /\ tab[t].queue \in Seq(EventSet) /\ tab[t].view \in Text
    BY TabFacts DEF TabsFollow, ReceiveCase
  <1>1. PICK e \in EventSet : e = tab[t].queue[1]
    BY <1>0, TailIsQueue
  <1>2. PICK q \in Seq(EventSet) : q = Tail(tab[t].queue)
    BY <1>0, TailIsQueue
  <1>3. PICK v \in Text : v = Shown(tab[t].view, e)
    BY <1>0, ShownIsText
  <1>4. ASSUME NEW r, r.queue = q, r.on = tab[t].on, r.pc = tab[t].pc, r.from = tab[t].from,
               r.view = v
        PROVE  FollowFine(r, job)
    <2>1. Ended(q) => Ended(tab[t].queue)
      BY <1>0, <1>2, EndedGrows
    <2>2. Leads(tab[t].view, tab[t].queue, job[tab[t].from].text) =>
            Leads(v, q, job[tab[t].from].text)
      BY <1>0, <1>1, <1>2, <1>3, LeadsTail
    <2> QED BY <1>0, <1>4, <2>1, <2>2 DEF FollowFine, Watches
  <1>5. Rest(t) \in TabSet /\ Rest(t) = [tab[t] EXCEPT !.queue = q]
    BY <1>0, <1>2, FirstEvent DEF Rest
  <1>6. CASE e.type = "started" /\ Becomes(t, KnownTab(t))
    <2>1. v = tab[t].view
      BY <1>0, <1>3, <1>6, ShownIsText
    <2>2. PICK r : r = KnownTab(t)
      OBVIOUS
    <2>3. r.queue = q /\ r.on = tab[t].on /\ r.pc = tab[t].pc /\ r.from = tab[t].from /\ r.view = v
      BY <1>0, <1>5, <2>1, <2>2 DEF KnownTab, TabSet
    <2> QED BY <1>0, <1>4, <1>6, <2>2, <2>3, ReceivedTyped
  <1>7. CASE e.type = "snapshot" /\ Becomes(t, [KnownTab(t) EXCEPT !.view = e.text])
    <2>1. v = e.text
      BY <1>0, <1>3, <1>7, ShownIsText
    <2>2. PICK r : r = [KnownTab(t) EXCEPT !.view = e.text]
      OBVIOUS
    <2>3. r.queue = q /\ r.on = tab[t].on /\ r.pc = tab[t].pc /\ r.from = tab[t].from /\ r.view = v
      BY <1>0, <1>5, <2>1, <2>2 DEF KnownTab, TabSet
    <2>4. TabTyped(r)
      BY <1>0, <1>1, <1>7, <2>2, ReceivedTyped
    <2> QED BY <1>4, <1>7, <2>2, <2>3, <2>4
  <1>8. CASE e.type = "delta" /\ Becomes(t, DeltaTab(t))
    <2>1. v = tab[t].view \o e.text
      BY <1>0, <1>3, <1>8, ShownIsText
    <2>2. PICK r : r = DeltaTab(t)
      OBVIOUS
    <2>3. r = [[tab[t] EXCEPT !.queue = q] EXCEPT !.view = v]
      BY <1>0, <1>1, <1>5, <2>1, <2>2 DEF DeltaTab, TabSet
    <2>4. r.queue = q /\ r.on = tab[t].on /\ r.pc = tab[t].pc /\ r.from = tab[t].from /\ r.view = v
      BY <1>0, <2>3 DEF TabSet
    <2> QED BY <1>0, <1>4, <1>8, <2>2, <2>4, ReceivedTyped
  <1>9. ~Watches(NewTab) /\ TabTyped(NewTab)
    BY NewTabWatchesNothing, NewTabTyped
  <1>10. /\ ~Watches(NextTab(t)) /\ ~Watches(AnewTab(t)) /\ ~Watches(LeftTab)
         /\ ~Watches(RetryTab(t)) /\ ~Watches(NextRequest(t))
    <2>1. ~Watches(NextTab(t)) /\ ~Watches(AnewTab(t))
      BY <1>5 DEF Watches, NextTab, AnewTab, ReadyTab, TabSet
    <2>2. ~Watches(RetryTab(t))
      BY <1>0 DEF Watches, RetryTab, TabSet
    <2>3. ~Watches(NextRequest(t)) /\ ~Watches(LeftTab)
      BY NextRequestIs DEF Watches, LeftTab, NewTab
    <2> QED BY <2>1, <2>2, <2>3
  <1>11. ASSUME NEW r, ~Watches(r), TabTyped(r), Becomes(t, r)
         PROVE  \E s : TabTyped(s) /\ Becomes(t, s) /\ FollowFine(s, job)
    BY <1>11, WatchesNothing
  <1>12. \/ EndRun(t)
         \/ Becomes(t, NextTab(t))
         \/ Becomes(t, AnewTab(t))
         \/ Retries(t) /\ Becomes(t, RetryTab(t))
         \/ Becomes(t, NextRequest(t))
         \/ Becomes(t, LeftTab)
         => \E s : TabTyped(s) /\ Becomes(t, s) /\ FollowFine(s, job)
    <2>1. EndRun(t) => Becomes(t, NewTab)
      BY DEF EndRun, Becomes
    <2> QED BY <1>0, <1>9, <1>10, <1>11, <2>1, ReceivedTyped, NextRequestIs, LeftTabIs
  <1> QED BY <1>1, <1>6, <1>7, <1>8, <1>12 DEF ReceiveCase

\* A tab that resumes is sent the text of the live job, or what the row kept of
\* the job that ended.
LEMMA ResumedFollows ==
  ASSUME TypeOK, JobsFine, TabsFine, RowsAreOver, NEW t \in Tabs, Resume(t)
  PROVE  FollowFine(ResumeTab(t), job)
PROOF
  <1>1. PICK i \in Invocations : i = tab[t].ref /\ Alive(i) /\ i # NoInv
    BY ResumedKnows, Constants
  <1>2. /\ job[i] \in JobSet /\ row[i] \in RowSet /\ tab[t] \in TabSet
        /\ job[i].text \in Text /\ row[i].text \in Text
        /\ job[i].status \in Endings \cup {"running"} /\ job[i].tools \in BOOLEAN
        /\ JobFine(i) /\ RowOver(i)
    BY TabFacts DEF TypeOK, JobSet, RowSet, JobsFine, RowsAreOver
  <1>3. PICK on \in BOOLEAN : on = (InMap(i) /\ job[i].status = "running")
    OBVIOUS
  <1>4. ASSUME NEW q \in Seq(EventSet), q = IF InMap(i) THEN Subscribed(i) ELSE Replayed(i),
               on \/ Ended(q) => Leads(<<>>, q, job[i].text),
               Ended(q) => Over(job[i].live)
        PROVE  FollowFine(ResumeTab(t), job)
    <2>1. ResumeTab(t) = [tab[t] EXCEPT !.pc = "reading", !.from = i, !.view = <<>>,
                                        !.on = on, !.queue = q]
      BY <1>1, <1>3, <1>4 DEF ResumeTab
    <2>2. PICK r : r = ResumeTab(t)
      OBVIOUS
    <2>3. r.queue = q /\ r.on = on /\ r.pc = "reading" /\ r.from = i /\ r.view = <<>>
      BY <1>2, <2>1, <2>2 DEF TabSet
    <2>4. FollowFine(r, job)
      BY <1>1, <1>4, <2>3 DEF FollowFine, Watches
    <2> QED BY <2>2, <2>4
  <1>5. ASSUME NEW text \in Text
        PROVE  /\ Opening(text) \in Seq(EventSet) /\ Leads(<<>>, Opening(text), text)
               /\ ~Ended(Opening(text))
    BY LeadsOpening, OpeningIsQueue, Constants DEF Ended
  <1>6. ASSUME NEW text \in Text, NEW e \in EventSet, Shown(text, e) = text
        PROVE  /\ Append(Opening(text), e) \in Seq(EventSet)
               /\ Leads(<<>>, Append(Opening(text), e), text)
               /\ Ended(Append(Opening(text), e)) => e.type \in {"done", "stopped"}
    <2>1. PICK o \in Seq(EventSet) : o = Opening(text)
      BY <1>5
    <2>2. Leads(<<>>, o, text) /\ ~Ended(o)
      BY <1>5, <2>1
    <2>3. Leads(<<>>, Append(o, e), text)
      BY <1>6, <2>2, LeadsAppend
    <2> QED BY <2>1, <2>2, <2>3, Appended, EndedGrows
  <1>7. CASE InMap(i) /\ job[i].status = "running"
    <2>1. Subscribed(i) = Opening(job[i].text)
      BY <1>7 DEF Subscribed
    <2> QED BY <1>2, <1>4, <1>5, <1>7, <2>1
  <1>8. CASE InMap(i) /\ job[i].status # "running"
    <2>1. PICK e \in EventSet : e = Ending(job[i].status, job[i].text, job[i].tools)
      BY <1>2, EndingIsEvent
    <2>2. Shown(job[i].text, e) = job[i].text
      BY <1>2, <2>1, EndingShows
    <2>3. Subscribed(i) = Append(Opening(job[i].text), e)
      BY <1>8, <2>1 DEF Subscribed
    <2>4. Over(job[i].live)
      BY <1>2, <1>8 DEF InMap, JobFine, Over
    <2> QED BY <1>2, <1>4, <1>6, <1>8, <2>2, <2>3, <2>4
  <1>9. CASE ~InMap(i)
    <2>1. PICK status \in Endings : status = ReplayStatus(row[i].st)
      BY DEF ReplayStatus, Endings
    <2>2. PICK e \in EventSet : e = Ending(status, row[i].text, FALSE)
      BY <1>2, EndingIsEvent
    <2>3. /\ Shown(row[i].text, e) = row[i].text
          /\ e.type \in {"done", "stopped"} => status \in {"done", "stopped"}
      BY <1>2, <2>2, EndingShows
    <2>4. Replayed(i) = Append(Opening(row[i].text), e)
      BY <2>1, <2>2 DEF Replayed
    <2>5. status \in {"done", "stopped"} => row[i].text = job[i].text /\ Over(job[i].live)
      BY <1>2, <2>1 DEF ReplayStatus, RowOver, Over
    <2>6. ~on
      BY <1>3, <1>9
    <2>7. /\ Replayed(i) \in Seq(EventSet) /\ Leads(<<>>, Replayed(i), row[i].text)
          /\ Ended(Replayed(i)) => e.type \in {"done", "stopped"}
      BY <1>2, <1>6, <2>3, <2>4
    <2> QED BY <1>4, <1>9, <2>3, <2>5, <2>6, <2>7
  <1> QED BY <1>7, <1>8, <1>9

LEMMA TabStepFollows ==
  ASSUME TypeOK, JobsFine, TabsFine, RowsAreOver, TabsFollow, NEW t \in Tabs,
         Receive(t) \/ OtherTabStep(t)
  PROVE  TabsFollow'
PROOF
  <1>0. /\ tab[t] \in TabSet /\ TabTyped(tab[t]) /\ TextsStay
        /\ tab[t].pc \in {"idle", "asking"} => tab[t].queue = <<>>
    BY TabFacts, TabTypes, TabTexts DEF TabsFine, TabFine, RecFine
  <1>1. ASSUME NEW r, TabTyped(r), Becomes(t, r), FollowFine(r, job')
        PROVE  TabsFollow'
    <2>1. \A u \in Tabs : tab'[u] = IF u = t THEN r ELSE tab[u]
      BY <1>1, BecomesTyped
    <2>2. \A u \in Tabs : FollowFine(tab[u], job')
      BY <1>0, StillFollows
    <2> QED BY <1>1, <2>1, <2>2 DEF TabsFollow
  <1>2. ASSUME NEW r, TabTyped(r), Becomes(t, r), ~Watches(r)
        PROVE  TabsFollow'
    BY <1>1, <1>2, WatchesNothing
  <1>3. ~Ended(<<>>) /\ ~Ended(<<Refused>>) /\ ~Ended(<<Cut>>)
    <2>1. PICK e \in EventSet : e = Refused /\ e.type = "refused"
      BY FailuresAreEvents
    <2>2. PICK c \in EventSet : c = Cut /\ c.type = "cut"
      BY FailuresAreEvents
    <2>3. ~Ended(<<>>) /\ ~Ended(<<e>>) /\ ~Ended(<<c>>)
      BY <2>1, <2>2 DEF Ended, Heard
    <2> QED BY <2>1, <2>2, <2>3
  <1>4. CASE Receive(t)
    <2>1. job' = job
      BY <1>4 DEF Receive
    <2>2. ReceiveCase(t)
      BY <1>4, ReceiveCases
    <2> QED BY <1>1, <2>1, <2>2, ReceivedFollows
  <1>5. CASE Ask(t)
    <2>1. Becomes(t, AskTab(t)) /\ tab[t].pc = "idle"
      BY <1>5 DEF Ask, Becomes, AskTab
    <2>2. ~Watches(AskTab(t))
      BY <1>0, <2>1 DEF Watches, AskTab, TabTyped, TabSet
    <2> QED BY <1>2, <2>1, <2>2, SentTyped
  <1>6. CASE Request(t)
    <2>1. Becomes(t, RequestTab(t)) /\ tab[t].pc = "asking" /\ AnyFresh
      BY <1>6 DEF Request, Becomes, RequestTab
    <2>2. ~Watches(RequestTab(t))
      <3>1. RequestTab(t).on = FALSE /\ RequestTab(t).queue = <<>>
        BY <1>0, <2>1 DEF RequestTab, TabTyped, TabSet
      <3> QED BY <1>3, <3>1 DEF Watches
    <2> QED BY <1>2, <2>1, <2>2, SentTyped
  <1>7. CASE RequestRefused(t)
    <2>1. Becomes(t, RefusedTab(t)) /\ tab[t].pc = "asking"
      BY <1>7 DEF RequestRefused, Becomes, RefusedTab
    <2>2. ~Watches(RefusedTab(t))
      <3>1. RefusedTab(t).on = FALSE /\ RefusedTab(t).queue = <<Refused>>
        BY <1>0, <2>1 DEF RefusedTab, TabTyped, TabSet
      <3> QED BY <1>3, <3>1 DEF Watches
    <2> QED BY <1>2, <2>1, <2>2, SentTyped
  <1>8. CASE Resume(t)
    <2>1. Becomes(t, ResumeTab(t)) /\ tab[t].pc = "waiting" /\ job' = job
      BY <1>8 DEF Resume, Becomes, ResumeTab
    <2> QED BY <1>1, <1>8, <2>1, SentTyped, ResumedFollows
  <1>9. CASE Disconnect(t)
    <2>1. Becomes(t, CutTab(t)) /\ tab[t].pc = "reading"
      BY <1>9 DEF Disconnect, Becomes, CutTab
    <2>2. ~Watches(CutTab(t))
      <3>1. CutTab(t).on = FALSE /\ CutTab(t).queue = <<Cut>>
        BY <1>0 DEF CutTab, TabSet
      <3> QED BY <1>3, <3>1 DEF Watches
    <2> QED BY <1>2, <2>1, <2>2, SentTyped
  <1>10. CASE RunTools(t)
    <2>1. \/ Becomes(t, NextRequest(t))
          \/ Becomes(t, NewTab)
      BY <1>10 DEF RunTools, EndRun, Becomes
    <2>2. ~Watches(NextRequest(t))
      BY NextRequestIs DEF Watches
    <2> QED BY <1>2, <2>1, <2>2, NextRequestIs, NewTabTyped, NewTabWatchesNothing
  <1>11. CASE Stop(t)
    <2>1. \/ Becomes(t, HaltTab(t))
          \/ Becomes(t, NewTab)
      BY <1>11 DEF Stop, EndRun, Becomes, HaltTab
    <2>2. FollowFine(HaltTab(t), job')
      <3>1. PICK r : r = HaltTab(t)
        OBVIOUS
      <3>2. /\ r.pc = tab[t].pc /\ r.from = tab[t].from /\ r.on = tab[t].on
            /\ r.queue = tab[t].queue /\ r.view = tab[t].view
        BY <1>0, <3>1 DEF HaltTab, TabSet
      <3>3. FollowFine(tab[t], job')
        BY <1>0, StillFollows
      <3>4. FollowFine(r, job')
        BY <3>2, <3>3 DEF FollowFine, Watches
      <3> QED BY <3>1, <3>4
    <2> QED BY <1>1, <1>2, <2>1, <2>2, SentTyped, NewTabTyped, NewTabWatchesNothing
  <1>12. CASE StopReturns(t) \/ CloseTab(t) \/ GiveUp(t)
    <2>1. Becomes(t, NewTab)
      BY <1>12 DEF StopReturns, CloseTab, GiveUp, EndRun, Becomes
    <2> QED BY <1>2, <2>1, NewTabTyped, NewTabWatchesNothing
  <1>13. CASE ResumeExisting(t)
    <2>1. Becomes(t, ResumedTab(t)) /\ saved # NoInv
      BY <1>13 DEF ResumeExisting, Becomes, ResumedTab
    <2>2. ~Watches(ResumedTab(t))
      BY DEF Watches, ResumedTab, NewTab
    <2> QED BY <1>2, <2>1, <2>2, SentTyped
  <1> QED BY <1>4, <1>5, <1>6, <1>7, <1>8, <1>9, <1>10, <1>11, <1>12, <1>13 DEF OtherTabStep

\* Rows get the text of a job that has ended.
LEMMA RowsKept ==
  ASSUME TypeOK, JobsFine, RowsAreOver, [Next]_vars
  PROVE  RowsAreOver'
PROOF
  <1>0. job \in [Invocations -> JobSet] /\ row \in [Invocations -> RowSet] /\ JobsGrow
    BY JobsOnlyGrow DEF TypeOK
  <1> SUFFICES ASSUME NEW k \in Invocations PROVE RowOver(k)'
    BY DEF RowsAreOver
  <1>1. RowOver(k) /\ JobFine(k)
    BY DEF RowsAreOver, JobsFine
  <1>2. CASE row'[k] = row[k]
    BY <1>0, <1>1, <1>2 DEF RowOver, JobsGrow
  <1>3. ASSUME row'[k].st \notin {"completed", "cancelled"} PROVE RowOver(k)'
    BY <1>3 DEF RowOver
  <1>4. ASSUME NEW i \in Invocations, ServerStep(i) \/ PrepareFails(i) \/ StreamDelta(i) \/ CleanUp(i)
        PROVE  RowOver(k)'
    <2>1. CASE PrepareFails(i)
      <3>1. row'[k] = row[k] \/ row'[k].st = "failed"
        BY <1>0, <2>1 DEF PrepareFails, RowSet
      <3> QED BY <1>2, <1>3, <3>1
    <2>2. CASE SaveOutcome(i)
      <3>1. row'[k] = row[k] \/ (k = i /\ row'[k].text = job[k].text)
        <4>1. \/ row' = row
              \/ row' = [row EXCEPT ![i] = [st |-> RowStatus(job[i].status), text |-> job[i].text]]
          BY <2>2 DEF SaveOutcome
        <4>2. CASE row' = [row EXCEPT ![i] = [st |-> RowStatus(job[i].status), text |-> job[i].text]]
          BY <1>0, <4>2
        <4> QED BY <4>1, <4>2
      <3>2. k = i => job'[k].live = "telling" /\ job'[k].text = job[k].text
        BY <1>0, <2>2 DEF SaveOutcome, JobSet
      <3> QED BY <1>2, <3>1, <3>2 DEF RowOver
    <2> QED BY <1>2, <1>4, <2>1, <2>2 DEF ServerStep, StartJob, StreamEnds, FinishJob, StreamDelta, CleanUp
  <1>5. ASSUME NEW t \in Tabs, Receive(t) \/ OtherTabStep(t)
        PROVE  RowOver(k)'
    <2>1. CASE Request(t)
      <3>1. row'[k] = row[k] \/ row'[k].st = "pending"
        BY <1>0, <2>1 DEF Request, RowSet
      <3> QED BY <1>2, <1>3, <3>1
    <2> QED BY <1>2, <1>5, <2>1
            DEF OtherTabStep, Ask, RequestRefused, Resume, Disconnect, RunTools, Stop,
                StopReturns, GiveUp, CloseTab, ResumeExisting, Receive
  <1>6. Restart \/ UNCHANGED vars => row' = row
    BY DEF Restart, vars
  <1> QED BY <1>2, <1>4, <1>5, <1>6, NextCases

ViewInvariant == ChatInvariant /\ RowsAreOver /\ TabsFollow

LEMMA InitFollows == Init => ViewInvariant
PROOF
  <1> SUFFICES ASSUME Init PROVE RowsAreOver /\ TabsFollow
    BY InitFine DEF ViewInvariant
  <1>1. RowsAreOver
    BY DEF Init, RowsAreOver, RowOver
  <1>2. \A t \in Tabs : tab[t] = NewTab
    BY DEF Init
  <1> QED BY <1>1, <1>2, NewTabWatchesNothing, WatchesNothing DEF TabsFollow

LEMMA StepFollows == ViewInvariant /\ [Next]_vars => ViewInvariant'
PROOF
  <1> SUFFICES ASSUME ViewInvariant, [Next]_vars PROVE ViewInvariant'
    OBVIOUS
  <1>1. /\ ChatInvariant /\ TypeOK /\ JobsFine /\ TabsFine /\ TabsFollow /\ RowsAreOver
        /\ ChatInvariant' /\ TypeOK'
    BY StepFine DEF ViewInvariant, ChatInvariant
  <1>2. RowsAreOver'
    BY <1>1, RowsKept
  <1>3. ASSUME UNCHANGED vars PROVE TabsFollow'
    <2>1. tab' = tab /\ job' = job
      BY <1>3 DEF vars
    <2> QED BY <1>1, <2>1 DEF TabsFollow
  <1>4. ASSUME NEW i \in Invocations, ServerStep(i) \/ PrepareFails(i) \/ StreamDelta(i) \/ CleanUp(i)
        PROVE  TabsFollow'
    <2>1. \A t \in Tabs : FollowFine(tab'[t], job')
      BY <1>1, <1>4, ServerFollows, DeltaFollows
    <2> QED BY <2>1 DEF TabsFollow
  <1>5. ASSUME Restart PROVE TabsFollow'
    <2>1. \A t \in Tabs : FollowFine(tab'[t], job')
      BY <1>1, <1>5, RestartFollows
    <2> QED BY <2>1 DEF TabsFollow
  <1>6. TabsFollow'
    BY <1>1, <1>3, <1>4, <1>5, NextCases, TabStepFollows
  <1> QED BY <1>1, <1>2, <1>6 DEF ViewInvariant

\* A tab that joins a generation at any moment, after any number of broken
\* connections, misses no token and gets none twice, from the live job
\* (subscribe and broadcast), the kept one or the row (replayFinishedAgentChatSse).
THEOREM ViewsFollow == Spec => []ViewFollows
PROOF
  <1>1. ViewInvariant => ViewFollows
    <2> SUFFICES ASSUME ViewInvariant, NEW t \in Tabs,
                        \/ tab[t].on
                        \/ /\ tab[t].pc = "reading"
                           /\ Heard(tab[t].queue) \cap {"done", "stopped"} # {}
                 PROVE  Shows(tab[t].view, tab[t].queue) = job[tab[t].from].text
      BY DEF ViewFollows
    <2>1. TypeOK /\ FollowFine(tab[t], job) /\ Watches(tab[t])
      BY DEF ViewInvariant, ChatInvariant, TabsFollow, Watches, Ended
    <2>2. Leads(tab[t].view, tab[t].queue, job[tab[t].from].text)
      BY <2>1 DEF FollowFine
    <2> QED BY <2>1, <2>2, TabFacts, ShowsIs
  <1> QED BY <1>1, InitFollows, StepFollows, PTL DEF Spec

=============================================================================
