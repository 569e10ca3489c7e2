-------------------------- MODULE SessionHubProofs --------------------------
(***************************************************************************)
(* For any number of editors, sessions, edits and outside updates: the     *)
(* type invariant, and that no edit is forgotten.                          *)
(***************************************************************************)
EXTENDS SessionHub, TLAPS

\* A step of handleOpen or of a reload that works with a session knows which.
SessionsKnown ==
    /\ \A c \in Conns : opening[c].pc \in {"reload", "got", "public"} => opening[c].sid \in Slots
    /\ server.pc \in {"reload", "got"} => server.sid \in Slots

\* What has been read from the store, and what is in it, the store has shown.
ReadIsStored ==
    /\ Texts(store) \subseteq stored
    /\ Texts(server.got) \subseteq stored
    /\ Texts(put.got) \subseteq stored
    /\ \A c \in Conns : Texts(opening[c].got) \subseteq stored

\* The edits that nothing in memory has to answer for.
Settled == stored \cup lost

HubInvariant == TypeOK /\ SessionsKnown /\ ReadIsStored /\ NoEditForgotten

-----------------------------------------------------------------------------
(* Documents.                                                              *)

LEMMA ApplyIsDoc ==
  ASSUME NEW d \in Doc, NEW m \in Patch
  PROVE  /\ Apply(d, m) \in Doc
         /\ \A p \in Parts : Apply(d, m)[p] = d[p] \/ Apply(d, m)[p] = m.content
  BY DEF Apply, Doc, Patch

LEMMA NoDocIsDoc == NoDoc \in Doc /\ Texts(NoDoc) = {}
  BY BoundsAssumption DEF NoDoc, Doc, Content, Texts

LEMMA NewSessionIsSession ==
  ASSUME NEW d \in Doc
  PROVE  NewSession(d) \in Session /\ NewSession(d).doc = d
  BY DEF NewSession, Session

LEMMA FreeSlotIsSlot ==
  ASSUME Free # {}
  PROVE  FreeSlot \in Slots /\ ~Alive(FreeSlot)
  BY DEF Free, FreeSlot

LEMMA RemovedOne ==
  ASSUME NEW S, NEW q \in Seq(S), NEW i \in DOMAIN q
  PROVE  /\ RemoveAt(q, i) \in Seq(S)
         /\ \A k \in DOMAIN q : k # i => \E l \in DOMAIN RemoveAt(q, i) : RemoveAt(q, i)[l] = q[k]
PROOF
  <1> DEFINE a == SubSeq(q, 1, i - 1)
             b == SubSeq(q, i + 1, Len(q))
  <1>1. i \in 1..Len(q) /\ Len(q) \in Nat
    OBVIOUS
  <1>2. a \in Seq(S) /\ Len(a) = i - 1 /\ \A k \in 1..(i - 1) : a[k] = q[k]
    BY <1>1
  <1>3. b \in Seq(S) /\ Len(b) = Len(q) - i /\ \A k \in 1..(Len(q) - i) : b[k] = q[k + i]
    BY <1>1
  <1>4. RemoveAt(q, i) = a \o b
    BY DEF RemoveAt
  <1> HIDE DEF a, b
  <1>5. /\ a \o b \in Seq(S)
        /\ DOMAIN (a \o b) = 1..(Len(a) + Len(b))
        /\ \A k \in 1..Len(a) : (a \o b)[k] = a[k]
        /\ \A k \in (Len(a) + 1)..(Len(a) + Len(b)) : (a \o b)[k] = b[k - Len(a)]
    <2>1. a \in Seq(S) /\ b \in Seq(S) /\ Len(a) \in Nat /\ Len(b) \in Nat
      BY <1>2, <1>3
    <2>2. a \o b \in Seq(S) /\ Len(a \o b) = Len(a) + Len(b)
      BY <2>1
    <2>3. DOMAIN (a \o b) = 1..(Len(a) + Len(b))
      BY <2>2
    <2>4. ASSUME NEW k \in 1..Len(a)
          PROVE  (a \o b)[k] = a[k]
      BY <2>1
    <2>5. ASSUME NEW k \in (Len(a) + 1)..(Len(a) + Len(b))
          PROVE  (a \o b)[k] = b[k - Len(a)]
      BY <2>1
    <2> QED BY <2>2, <2>3, <2>4, <2>5
  <1>6. ASSUME NEW k \in DOMAIN q, k # i
        PROVE  \E l \in DOMAIN (a \o b) : (a \o b)[l] = q[k]
    <2>1. CASE k < i
      <3>1. k \in DOMAIN (a \o b) /\ (a \o b)[k] = q[k]
        BY SMTT(20), <1>1, <1>2, <1>3, <1>5, <1>6, <2>1
      <3> QED BY <3>1
    <2>2. CASE k > i
      <3>1. PICK j \in Int : j = k - 1
        BY <1>1
      <3>2. PICK h \in Int : h = k - i
        BY <1>1
      <3>3. j \in (Len(a) + 1)..(Len(a) + Len(b)) /\ h \in 1..(Len(q) - i)
            /\ j - Len(a) = h /\ h + i = k
        BY SMTT(20), <1>1, <1>2, <1>3, <1>6, <2>2, <3>1, <3>2
      <3>4. (a \o b)[j] = b[h]
        BY <1>5, <3>3
      <3>5. b[h] = q[k]
        BY <1>3, <3>3
      <3>6. j \in DOMAIN (a \o b)
        BY <1>2, <1>3, <1>5, <3>3
      <3> QED BY <3>4, <3>5, <3>6
    <2> QED BY <1>1, <1>6, <2>1, <2>2
  <1> QED BY <1>4, <1>5, <1>6

-----------------------------------------------------------------------------
(* Messages.                                                               *)

LEMMA SentIsTyped ==
  ASSUME inbox \in [Conns -> Seq(Message)], NEW s, NEW sources, NEW m \in Message
  PROVE  Sent(s, sources, m) \in [Conns -> Seq(Message)]
  BY DEF Sent

LEMMA UnannouncedIsTyped ==
  ASSUME apart \in [Conns -> SUBSET Parts], NEW s, NEW d
  PROVE  Unannounced(s, d) \in [Conns -> SUBSET Parts]
  BY DEF Unannounced

LEMMA BroadcastIsMessage ==
  ASSUME sess \in [Slots -> Session], NEW s \in Slots, NEW m \in Patch
  PROVE  Broadcast(s, m) \in Message /\ NextRev(s, m.part) \in Nat
  BY DEF Broadcast, NextRev, Message, Session

LEMMA EditIsPatch ==
  ASSUME NEW d \in Doc, NEW p \in Parts, NEW e \in Edits, NEW remove \in BOOLEAN
  PROVE  PatchOf(d, p, e, remove) \in Patch
PROOF
  <1>1. d[p] \in Content /\ e \in 0..MaxEdits
    BY BoundsAssumption DEF Doc, Edits
  <1>2. ASSUME NEW here \in BOOLEAN
        PROVE  [d[p] EXCEPT !.text = e, !.here = here] \in Content
    BY <1>1 DEF Content
  <1>3. [d[p] EXCEPT !.text = e, !.here = ~(d[p].here /\ remove)] \in Content
    BY <1>2
  <1> QED BY <1>3 DEF PatchOf, Patch

LEMMA TakenIsView ==
  ASSUME NEW v \in View, NEW m \in Message
  PROVE  Taken(v, m) \in View
PROOF
  <1>1. CASE m \in [type : {"init"}, doc : Doc]
    BY <1>1 DEF Taken, View
  <1>2. CASE m \in [type : {"patch"}, rev : Nat, patch : Patch]
    BY <1>2, ApplyIsDoc DEF Taken, View
  <1>3. CASE m \in [type : {"update"}, patch : Patch]
    BY <1>3, ApplyIsDoc DEF Taken, View
  <1> QED BY <1>1, <1>2, <1>3 DEF Message

LEMMA UsageGrows ==
  ASSUME NEW u \in Usage
  PROVE  /\ u.opens < MaxOpens => [u EXCEPT !.opens = @ + 1] \in Usage
         /\ u.marks < MaxMarks => [u EXCEPT !.marks = @ + 1] \in Usage /\ u.marks + 1 \in 0..MaxMarks
         /\ u.edits < MaxEdits => [u EXCEPT !.edits = @ + 1] \in Usage /\ u.edits + 1 \in Edits
PROOF
  <1>1. u.opens \in 0..MaxOpens /\ u.marks \in 0..MaxMarks /\ u.edits \in 0..MaxEdits
    BY DEF Usage
  <1>2. /\ u.opens < MaxOpens => u.opens + 1 \in 0..MaxOpens
        /\ u.marks < MaxMarks => u.marks + 1 \in 0..MaxMarks
        /\ u.edits < MaxEdits => u.edits + 1 \in 0..MaxEdits /\ u.edits + 1 \in Edits
    BY <1>1, BoundsAssumption DEF Edits
  <1> QED BY <1>2 DEF Usage

-----------------------------------------------------------------------------
(* What keeps edits out of memory-only sessions, step by step.             *)

\* The invariant is kept by a step that leaves no session unarmed with a text
\* that is neither old, saved nor carried by a save, and that takes no save
\* away without settling it.
LEMMA MemoryKept ==
  ASSUME NoEditForgotten,
         \A s \in Slots : \/ sess'[s].timer
                          \/ Texts(sess'[s].doc) \subseteq Settled'
                          \/ \E l \in DOMAIN writes' : writes'[l].doc = sess'[s].doc
                          \/ /\ ~sess[s].timer
                             /\ Texts(sess'[s].doc) \subseteq Texts(sess[s].doc) \cup Settled,
         Settled \subseteq Settled',
         \A i \in DOMAIN writes : \/ Texts(writes[i].doc) \subseteq Settled'
                                  \/ \E l \in DOMAIN writes' : writes'[l].doc = writes[i].doc
  PROVE  NoEditForgotten'
PROOF
  <1> SUFFICES ASSUME NEW s \in Slots, NEW e \in Texts(sess'[s].doc), ~sess'[s].timer
               PROVE  e \in Settled' \/ \E i \in DOMAIN writes' : e \in Texts(writes'[i].doc)
    BY DEF NoEditForgotten, Texts, Settled
  <1>1. CASE Texts(sess'[s].doc) \subseteq Settled'
    BY <1>1
  <1>2. CASE \E l \in DOMAIN writes' : writes'[l].doc = sess'[s].doc
    BY <1>2
  <1>3. CASE ~sess[s].timer /\ Texts(sess'[s].doc) \subseteq Texts(sess[s].doc) \cup Settled
    <2>1. e \in Settled \/ \E i \in DOMAIN writes : e \in Texts(writes[i].doc)
      BY <1>3 DEF NoEditForgotten, Settled
    <2>2. ASSUME NEW i \in DOMAIN writes, e \in Texts(writes[i].doc), e \notin Settled'
          PROVE  \E l \in DOMAIN writes' : e \in Texts(writes'[l].doc)
      BY <2>2
    <2> QED BY <2>1, <2>2
  <1> QED BY <1>1, <1>2, <1>3

LEMMA HubInit == Init => HubInvariant
PROOF
  <1> SUFFICES ASSUME Init PROVE HubInvariant
    OBVIOUS
  <1>1. store \in Doc /\ Texts(store) = {}
    BY BoundsAssumption DEF Init, Doc, Content, Texts
  <1>2. sess \in [Slots -> Session] /\ \A s \in Slots : sess[s].doc = NoDoc
    BY NoDocIsDoc, NewSessionIsSession DEF Init
  <1>3. TypeOK
    <2>1. opening \in [Conns -> OpeningState]
      BY NoDocIsDoc DEF Init, NotOpening, OpeningState
    <2>2. /\ server \in ServerState /\ put \in PutState
          /\ view \in [Conns -> View]
      BY NoDocIsDoc DEF Init, ServerIdle, PutIdle, NoView, Parts, ServerState, PutState, View
    <2>3. used \in Usage
      BY BoundsAssumption DEF Init, Usage
    <2>4. outbox \in [Conns -> Seq(Patch)] /\ inbox \in [Conns -> Seq(Message)]
          /\ writes \in Seq(Save)
      BY DEF Init
    <2> QED BY <1>1, <1>2, <2>1, <2>2, <2>3, <2>4 DEF Init, TypeOK
  <1>4. SessionsKnown
    BY DEF Init, SessionsKnown, NotOpening, ServerIdle
  <1>5. ReadIsStored
    BY <1>1, NoDocIsDoc DEF Init, ReadIsStored, NotOpening, ServerIdle, PutIdle
  <1>6. NoEditForgotten
    BY <1>2, NoDocIsDoc DEF NoEditForgotten
  <1> QED BY <1>3, <1>4, <1>5, <1>6 DEF HubInvariant

-----------------------------------------------------------------------------
(* Opening a connection.                                                   *)

LEMMA OpenKeeps ==
  ASSUME HubInvariant, NEW c \in Conns, Open(c)
  PROVE  HubInvariant'
PROOF
  <1>1. TypeOK'
    <2>1. used' \in Usage
      BY UsageGrows DEF HubInvariant, TypeOK, Open
    <2>2. opening' \in [Conns -> OpeningState]
      BY NoDocIsDoc DEF HubInvariant, TypeOK, Open, NotOpening, OpeningState
    <2> QED BY <2>1, <2>2 DEF HubInvariant, TypeOK, Open
  <1>2. SessionsKnown'
    BY DEF HubInvariant, TypeOK, SessionsKnown, Open, NotOpening
  <1>3. ReadIsStored'
    <2>1. \A d \in Conns : opening'[d].got = opening[d].got \/ opening'[d].got = NoDoc
      BY DEF HubInvariant, TypeOK, Open, NotOpening
    <2> QED BY <2>1, NoDocIsDoc DEF HubInvariant, ReadIsStored, Open
  <1>4. NoEditForgotten'
    BY DEF HubInvariant, NoEditForgotten, Open
  <1> QED BY <1>1, <1>2, <1>3, <1>4 DEF HubInvariant

\* A session made from the stored document shows saved edits only.
LEMMA LoadKeeps ==
  ASSUME HubInvariant, Free # {}, sess' = [sess EXCEPT ![FreeSlot] = NewSession(store)],
         UNCHANGED <<writes, stored, lost>>
  PROVE  sess' \in [Slots -> Session] /\ NoEditForgotten'
PROOF
  <1>1. FreeSlot \in Slots /\ ~sess[FreeSlot].timer
    BY FreeSlotIsSlot DEF Alive
  <1>2. NewSession(store) \in Session /\ NewSession(store).doc = store
    BY NewSessionIsSession DEF HubInvariant, TypeOK
  <1>3. Texts(store) \subseteq stored
    BY DEF HubInvariant, ReadIsStored
  <1>4. ASSUME NEW s \in Slots
        PROVE  \/ sess'[s].timer
               \/ /\ ~sess[s].timer
                  /\ Texts(sess'[s].doc) \subseteq Texts(sess[s].doc) \cup Settled
    BY <1>1, <1>2, <1>3 DEF HubInvariant, TypeOK, Settled
  <1>5. Settled' = Settled
    BY DEF Settled
  <1>6. NoEditForgotten'
    BY <1>4, <1>5, MemoryKept DEF HubInvariant
  <1> QED BY <1>1, <1>2, <1>6 DEF HubInvariant, TypeOK

LEMMA OpenLoadedKeeps ==
  ASSUME HubInvariant, NEW c \in Conns, OpenLoaded(c)
  PROVE  HubInvariant'
PROOF
  <1>1. sess' \in [Slots -> Session] /\ NoEditForgotten' /\ FreeSlot \in Slots
    BY LoadKeeps, FreeSlotIsSlot DEF OpenLoaded
  <1>2. \A d \in Conns : opening'[d].got = opening[d].got
    BY DEF HubInvariant, TypeOK, OpeningState, OpenLoaded
  <1>3. TypeOK'
    <2>1. [opening[c] EXCEPT !.pc = "reload", !.sid = FreeSlot] \in OpeningState
      BY <1>1 DEF HubInvariant, TypeOK, OpeningState
    <2>2. opening' = [opening EXCEPT ![c] = [opening[c] EXCEPT !.pc = "reload", !.sid = FreeSlot]]
      BY DEF HubInvariant, TypeOK, OpenLoaded
    <2>3. opening' \in [Conns -> OpeningState]
      BY <2>1, <2>2 DEF HubInvariant, TypeOK
    <2> QED BY <1>1, <2>3 DEF HubInvariant, TypeOK, OpenLoaded
  <1>4. SessionsKnown'
    BY <1>1 DEF HubInvariant, TypeOK, SessionsKnown, OpeningState, OpenLoaded
  <1>5. ReadIsStored'
    BY <1>2 DEF HubInvariant, ReadIsStored, OpenLoaded
  <1> QED BY <1>1, <1>3, <1>4, <1>5 DEF HubInvariant

LEMMA ReloadReadKeeps ==
  ASSUME HubInvariant, NEW c \in Conns, ReloadRead(c)
  PROVE  HubInvariant'
PROOF
  <1>1. TypeOK'
    <2>1. [opening[c] EXCEPT !.pc = "got", !.got = store] \in OpeningState
      BY DEF HubInvariant, TypeOK, OpeningState
    <2>2. opening' = [opening EXCEPT ![c] = [opening[c] EXCEPT !.pc = "got", !.got = store]]
      BY DEF HubInvariant, TypeOK, ReloadRead
    <2>3. opening' \in [Conns -> OpeningState]
      BY <2>1, <2>2 DEF HubInvariant, TypeOK
    <2> QED BY <2>3 DEF HubInvariant, TypeOK, ReloadRead
  <1>2. SessionsKnown'
    BY DEF HubInvariant, TypeOK, SessionsKnown, OpeningState, ReloadRead
  <1>3. ReadIsStored'
    <2>1. \A d \in Conns : opening'[d].got = opening[d].got \/ opening'[d].got = store
      BY DEF HubInvariant, TypeOK, OpeningState, ReloadRead
    <2> QED BY <2>1 DEF HubInvariant, ReadIsStored, ReloadRead
  <1>4. NoEditForgotten'
    BY DEF HubInvariant, NoEditForgotten, ReloadRead
  <1> QED BY <1>1, <1>2, <1>3, <1>4 DEF HubInvariant

\* A session whose document is replaced by one that was stored stays sound.
LEMMA ReloadKeeps ==
  ASSUME HubInvariant, NEW s \in Slots, NEW d \in Doc, Texts(d) \subseteq stored,
         NEW t \in Session, t.doc = d, t.timer = sess[s].timer,
         sess' = [sess EXCEPT ![s] = t], UNCHANGED <<writes, stored, lost>>
  PROVE  sess' \in [Slots -> Session] /\ NoEditForgotten'
PROOF
  <1>1. ASSUME NEW r \in Slots
        PROVE  \/ sess'[r].timer
               \/ /\ ~sess[r].timer
                  /\ Texts(sess'[r].doc) \subseteq Texts(sess[r].doc) \cup Settled
    BY DEF HubInvariant, TypeOK, Settled
  <1>2. Settled' = Settled
    BY DEF Settled
  <1>3. NoEditForgotten'
    BY <1>1, <1>2, MemoryKept DEF HubInvariant
  <1> QED BY <1>3 DEF HubInvariant, TypeOK

LEMMA RegisterKeeps ==
  ASSUME HubInvariant, NEW c \in Conns, Register(c)
  PROVE  HubInvariant'
PROOF
  <1> DEFINE s == opening[c].sid
             t == [sess[s] EXCEPT !.doc = opening[c].got, !.clients = @ \cup {c}]
  <1>1. s \in Slots /\ opening[c].got \in Doc /\ Texts(opening[c].got) \subseteq stored
    BY DEF HubInvariant, TypeOK, SessionsKnown, ReadIsStored, Register, OpeningState
  <1>2. t \in Session /\ t.doc = opening[c].got /\ t.timer = sess[s].timer
    <2>1. sess[s] \in Session
      BY <1>1 DEF HubInvariant, TypeOK
    <2>2. ASSUME NEW u \in Session, NEW d \in Doc
          PROVE  LET w == [u EXCEPT !.doc = d, !.clients = @ \cup {c}]
                 IN  w \in Session /\ w.doc = d /\ w.timer = u.timer
      BY DEF Session
    <2> QED BY <1>1, <2>1, <2>2
  <1>3. sess' = [sess EXCEPT ![s] = t]
    BY <1>1 DEF HubInvariant, TypeOK, Register
  <1>4. sess' \in [Slots -> Session] /\ NoEditForgotten'
    <2> HIDE DEF s, t
    <2> QED BY <1>1, <1>2, <1>3, ReloadKeeps DEF Register
  <1>5. apart' \in [Conns -> SUBSET Parts]
    BY UnannouncedIsTyped DEF HubInvariant, TypeOK, Register
  <1>6. TypeOK'
    <2>1. [opening[c] EXCEPT !.pc = "public"] \in OpeningState
      BY DEF HubInvariant, TypeOK, OpeningState
    <2>2. opening' = [opening EXCEPT ![c] = [opening[c] EXCEPT !.pc = "public"]]
      BY DEF HubInvariant, TypeOK, Register
    <2>3. opening' \in [Conns -> OpeningState]
      BY <2>1, <2>2 DEF HubInvariant, TypeOK
    <2> QED BY <1>4, <1>5, <2>3 DEF HubInvariant, TypeOK, Register
  <1>7. SessionsKnown'
    BY DEF HubInvariant, TypeOK, SessionsKnown, OpeningState, Register
  <1>8. ReadIsStored'
    <2>1. \A d \in Conns : opening'[d].got = opening[d].got
      BY DEF HubInvariant, TypeOK, OpeningState, Register
    <2> QED BY <2>1 DEF HubInvariant, ReadIsStored, Register
  <1> QED BY <1>4, <1>6, <1>7, <1>8 DEF HubInvariant

LEMMA SendInitKeeps ==
  ASSUME HubInvariant, NEW c \in Conns, SendInit(c)
  PROVE  HubInvariant'
PROOF
  <1>1. sess[opening[c].sid].doc \in Doc
    BY DEF HubInvariant, TypeOK, SessionsKnown, SendInit, Session, OpeningState
  <1>2. [type |-> "init", doc |-> sess[opening[c].sid].doc] \in Message
    BY <1>1 DEF Message
  <1>3. inbox' \in [Conns -> Seq(Message)]
    BY <1>2 DEF HubInvariant, TypeOK, SendInit
  <1>4. opening' \in [Conns -> OpeningState]
    BY NoDocIsDoc DEF HubInvariant, TypeOK, SendInit, NotOpening, OpeningState
  <1>5. TypeOK'
    BY <1>3, <1>4 DEF HubInvariant, TypeOK, SendInit
  <1>6. SessionsKnown'
    BY DEF HubInvariant, TypeOK, SessionsKnown, SendInit, NotOpening
  <1>7. ReadIsStored'
    <2>1. \A d \in Conns : opening'[d].got = opening[d].got \/ opening'[d].got = NoDoc
      BY DEF HubInvariant, TypeOK, SendInit, NotOpening
    <2> QED BY <2>1, NoDocIsDoc DEF HubInvariant, ReadIsStored, SendInit
  <1>8. NoEditForgotten'
    BY DEF HubInvariant, NoEditForgotten, SendInit
  <1> QED BY <1>5, <1>6, <1>7, <1>8 DEF HubInvariant

LEMMA NoViewIsView == NoView \in View
  BY NoDocIsDoc DEF NoView, View

LEMMA OpenFailsKeeps ==
  ASSUME HubInvariant, NEW c \in Conns, OpenFails(c)
  PROVE  HubInvariant'
PROOF
  <1>1. opening' \in [Conns -> OpeningState]
    BY NoDocIsDoc DEF HubInvariant, TypeOK, OpenFails, NotOpening, OpeningState
  <1>2. /\ ws' \in [Conns -> {"closed", "open", "closing"}]
        /\ inbox' \in [Conns -> Seq(Message)]
        /\ view' \in [Conns -> View]
    <2>1. CASE ws[c] = "open"
      <3>1. /\ ws' = [ws EXCEPT ![c] = "closing"]
            /\ inbox' = [inbox EXCEPT ![c] = <<>>]
            /\ view' = [view EXCEPT ![c] = NoView]
        BY <2>1 DEF OpenFails
      <3> QED BY <3>1, NoViewIsView DEF HubInvariant, TypeOK
    <2>2. CASE ws[c] # "open"
      BY <2>2 DEF HubInvariant, TypeOK, OpenFails
    <2> QED BY <2>1, <2>2
  <1>3. TypeOK'
    BY <1>1, <1>2 DEF HubInvariant, TypeOK, OpenFails
  <1>4. SessionsKnown'
    BY DEF HubInvariant, TypeOK, SessionsKnown, OpenFails, NotOpening
  <1>5. ReadIsStored'
    <2>1. \A d \in Conns : opening'[d].got = opening[d].got \/ opening'[d].got = NoDoc
      BY DEF HubInvariant, TypeOK, OpenFails, NotOpening
    <2> QED BY <2>1, NoDocIsDoc DEF HubInvariant, ReadIsStored, OpenFails
  <1>6. NoEditForgotten'
    BY DEF HubInvariant, NoEditForgotten, OpenFails
  <1> QED BY <1>3, <1>4, <1>5, <1>6 DEF HubInvariant

-----------------------------------------------------------------------------
(* The editor.                                                             *)

LEMMA EditKeeps ==
  ASSUME HubInvariant, NEW c \in Conns, Edit(c)
  PROVE  HubInvariant'
PROOF
  <1>1. PICK p \in Parts, remove \in BOOLEAN :
           /\ outbox' = [outbox EXCEPT ![c] =
                           Append(@, PatchOf(view[c].doc, p, used.edits + 1, remove))]
           /\ view' = [view EXCEPT ![c].doc =
                         Apply(@, PatchOf(view[c].doc, p, used.edits + 1, remove))]
    BY DEF Edit
  <1> DEFINE m == PatchOf(view[c].doc, p, used.edits + 1, remove)
  <1>2. used' \in Usage /\ used.edits + 1 \in Edits
    BY UsageGrows DEF HubInvariant, TypeOK, Edit
  <1>3. view[c] \in View /\ view[c].doc \in Doc
    BY DEF HubInvariant, TypeOK, View
  <1>4. m \in Patch /\ Apply(view[c].doc, m) \in Doc
    BY <1>2, <1>3, EditIsPatch, ApplyIsDoc
  <1>5. [view[c] EXCEPT !.doc = Apply(@, m)] \in View
    BY <1>3, <1>4 DEF View
  <1> HIDE DEF m
  <1>6. outbox' \in [Conns -> Seq(Patch)]
    BY <1>1, <1>4 DEF HubInvariant, TypeOK, m
  <1>7. view' \in [Conns -> View]
    BY <1>1, <1>5 DEF HubInvariant, TypeOK, m
  <1>8. TypeOK'
    BY <1>2, <1>6, <1>7 DEF HubInvariant, TypeOK, Edit
  <1> QED BY <1>8 DEF HubInvariant, SessionsKnown, ReadIsStored, NoEditForgotten, Edit

LEMMA ReceiveKeeps ==
  ASSUME HubInvariant, NEW c \in Conns, Receive(c)
  PROVE  HubInvariant'
PROOF
  <1>1. inbox[c] \in Seq(Message) /\ inbox[c] # <<>>
    BY DEF HubInvariant, TypeOK, Receive
  <1>2. Head(inbox[c]) \in Message /\ Tail(inbox[c]) \in Seq(Message)
    BY <1>1
  <1>3. Taken(view[c], Head(inbox[c])) \in View
    BY <1>2, TakenIsView DEF HubInvariant, TypeOK
  <1>4. inbox' \in [Conns -> Seq(Message)] /\ view' \in [Conns -> View]
    BY <1>2, <1>3 DEF HubInvariant, TypeOK, Receive
  <1>5. apart' \in [Conns -> SUBSET Parts]
    BY DEF HubInvariant, TypeOK, Receive
  <1>6. TypeOK'
    BY <1>4, <1>5 DEF HubInvariant, TypeOK, Receive
  <1> QED BY <1>6 DEF HubInvariant, SessionsKnown, ReadIsStored, NoEditForgotten, Receive

LEMMA DisconnectKeeps ==
  ASSUME HubInvariant, NEW c \in Conns, Disconnect(c)
  PROVE  HubInvariant'
PROOF
  <1>1. TypeOK'
    BY DEF HubInvariant, TypeOK, Disconnect
  <1> QED BY <1>1 DEF HubInvariant, SessionsKnown, ReadIsStored, NoEditForgotten, Disconnect

-----------------------------------------------------------------------------
(* The hub's handlers.                                                     *)

LEMMA HandleEditKeeps ==
  ASSUME HubInvariant, NEW c \in Conns, HandleEdit(c)
  PROVE  HubInvariant'
PROOF
  <1> DEFINE m == Head(outbox[c])
             t == [sess[mapped] EXCEPT !.doc = Apply(@, m), !.timer = TRUE,
                                       !.rev = NextRev(mapped, m.part)]
  <1>1. mapped \in Slots /\ sess[mapped] \in Session
    BY DEF HubInvariant, TypeOK, HandleEdit, Registered
  <1>2. m \in Patch /\ Tail(outbox[c]) \in Seq(Patch)
    <2>1. outbox[c] \in Seq(Patch) /\ outbox[c] # <<>>
      BY DEF HubInvariant, TypeOK, HandleEdit
    <2> QED BY <2>1
  <1>3. Broadcast(mapped, m) \in Message /\ NextRev(mapped, m.part) \in Nat
    BY <1>1, <1>2, BroadcastIsMessage DEF HubInvariant, TypeOK
  <1>4. t \in Session /\ t.timer
    <2>1. ASSUME NEW u \in Session, NEW d \in Doc, NEW r \in Nat
          PROVE  LET w == [u EXCEPT !.doc = d, !.timer = TRUE, !.rev = r]
                 IN  w \in Session /\ w.timer
      BY DEF Session
    <2>2. Apply(sess[mapped].doc, m) \in Doc
      BY <1>1, <1>2, ApplyIsDoc DEF Session
    <2> QED BY <1>1, <1>3, <2>1, <2>2
  <1>5. sess' = [sess EXCEPT ![mapped] = t]
    BY <1>1 DEF HubInvariant, TypeOK, HandleEdit
  <1>6. inbox' = Sent(mapped, {c}, Broadcast(mapped, m))
        /\ outbox' = [outbox EXCEPT ![c] = Tail(outbox[c])]
    BY DEF HandleEdit
  <1> HIDE DEF m, t
  <1>7. sess' \in [Slots -> Session]
    BY <1>1, <1>4, <1>5 DEF HubInvariant, TypeOK
  <1>8. inbox' \in [Conns -> Seq(Message)] /\ outbox' \in [Conns -> Seq(Patch)]
    BY <1>2, <1>3, <1>6, SentIsTyped DEF HubInvariant, TypeOK
  <1>9. apart' \in [Conns -> SUBSET Parts]
    <2>1. m.part \in Parts
      BY <1>2 DEF Patch
    <2> QED BY <2>1 DEF HubInvariant, TypeOK, HandleEdit, m
  <1>10. TypeOK'
    BY <1>7, <1>8, <1>9 DEF HubInvariant, TypeOK, HandleEdit
  <1>11. NoEditForgotten'
    <2>1. ASSUME NEW s \in Slots
          PROVE  \/ sess'[s].timer
                 \/ /\ ~sess[s].timer
                    /\ Texts(sess'[s].doc) \subseteq Texts(sess[s].doc) \cup Settled
      BY <1>1, <1>4, <1>5 DEF HubInvariant, TypeOK
    <2>2. Settled' = Settled
      BY DEF HandleEdit, Settled
    <2> QED BY <2>1, <2>2, MemoryKept DEF HubInvariant, HandleEdit
  <1> QED BY <1>10, <1>11 DEF HubInvariant, SessionsKnown, ReadIsStored, HandleEdit

LEMMA HandleUnknownKeeps ==
  ASSUME HubInvariant, NEW c \in Conns, HandleUnknown(c)
  PROVE  HubInvariant'
PROOF
  <1>1. TypeOK'
    BY NoViewIsView DEF HubInvariant, TypeOK, HandleUnknown, CloseUnknown
  <1> QED BY <1>1 DEF HubInvariant, SessionsKnown, ReadIsStored, NoEditForgotten,
                      HandleUnknown, CloseUnknown

LEMMA HandleUnmappedKeeps ==
  ASSUME HubInvariant, NEW c \in Conns, HandleUnmapped(c)
  PROVE  HubInvariant'
PROOF
  <1>1. TypeOK'
    BY DEF HubInvariant, TypeOK, HandleUnmapped
  <1> QED BY <1>1 DEF HubInvariant, SessionsKnown, ReadIsStored, NoEditForgotten,
                      HandleUnmapped

LEMMA StrayLoadedKeeps ==
  ASSUME HubInvariant, NEW c \in Conns, StrayLoaded(c)
  PROVE  HubInvariant'
PROOF
  <1>1. sess' \in [Slots -> Session] /\ NoEditForgotten' /\ FreeSlot \in Slots
    BY LoadKeeps, FreeSlotIsSlot DEF StrayLoaded
  <1>2. TypeOK'
    BY <1>1, NoViewIsView DEF HubInvariant, TypeOK, StrayLoaded, CloseUnknown
  <1> QED BY <1>1, <1>2 DEF HubInvariant, SessionsKnown, ReadIsStored, StrayLoaded

LEMMA StrayFailsKeeps ==
  ASSUME HubInvariant, NEW c \in Conns, StrayFails(c)
  PROVE  HubInvariant'
PROOF
  <1>1. TypeOK'
    BY NoViewIsView DEF HubInvariant, TypeOK, StrayFails, CloseUnknown
  <1> QED BY <1>1 DEF HubInvariant, SessionsKnown, ReadIsStored, NoEditForgotten,
                      StrayFails, CloseUnknown

LEMMA Appended ==
  ASSUME NEW q \in Seq(Save), NEW d \in Save
  PROVE  /\ Append(q, d) \in Seq(Save)
         /\ \A i \in DOMAIN q : \E l \in DOMAIN Append(q, d) : Append(q, d)[l] = q[i]
         /\ \E l \in DOMAIN Append(q, d) : Append(q, d)[l] = d
PROOF
  <1>1. DOMAIN q = 1..Len(q) /\ Len(q) \in Nat /\ DOMAIN Append(q, d) = 1..(Len(q) + 1)
    OBVIOUS
  <1>2. Append(q, d)[Len(q) + 1] = d /\ \A i \in 1..Len(q) : Append(q, d)[i] = q[i]
    BY <1>1
  <1>3. Len(q) + 1 \in DOMAIN Append(q, d) /\ DOMAIN q \subseteq DOMAIN Append(q, d)
    BY <1>1
  <1> QED BY <1>1, <1>2, <1>3

\* A session that is disarmed with a save of its document stays sound.
LEMMA FlushKeeps ==
  ASSUME HubInvariant, NEW s \in Slots, NEW t \in Session, t.doc = sess[s].doc,
         sess' = [sess EXCEPT ![s] = t], writes' = Append(writes, NewSave(sess[s].doc)),
         UNCHANGED <<stored, lost>>
  PROVE  sess' \in [Slots -> Session] /\ writes' \in Seq(Save) /\ NoEditForgotten'
PROOF
  <1>1. sess' \in [Slots -> Session] /\ sess[s].doc \in Doc
    BY DEF HubInvariant, TypeOK, Session
  <1>2. PICK w \in Save : w = NewSave(sess[s].doc) /\ w.doc = sess[s].doc
    <2>1. PICK d \in Doc : d = sess[s].doc
      BY <1>1
    <2>2. NewSave(d) \in Save /\ NewSave(d).doc = d
      BY DEF NewSave, Save
    <2> QED BY <2>1, <2>2
  <1>3. writes \in Seq(Save) /\ writes' = Append(writes, w)
    BY <1>2 DEF HubInvariant, TypeOK
  <1>4. /\ writes' \in Seq(Save)
        /\ \A i \in DOMAIN writes : \E l \in DOMAIN writes' : writes'[l] = writes[i]
        /\ \E l \in DOMAIN writes' : writes'[l] = w
    <2>1. /\ Append(writes, w) \in Seq(Save)
          /\ \A i \in DOMAIN writes : \E l \in DOMAIN Append(writes, w) :
                 Append(writes, w)[l] = writes[i]
          /\ \E l \in DOMAIN Append(writes, w) : Append(writes, w)[l] = w
      BY <1>2, <1>3, Appended
    <2> QED BY <1>3, <2>1, Zenon
  <1>5. /\ \A i \in DOMAIN writes : \E l \in DOMAIN writes' : writes'[l].doc = writes[i].doc
        /\ \E l \in DOMAIN writes' : writes'[l].doc = sess[s].doc
    BY <1>2, <1>4
  <1>6. sess'[s].doc = sess[s].doc /\ \A r \in Slots \ {s} : sess'[r] = sess[r]
    BY DEF HubInvariant, TypeOK
  <1>7. \A r \in Slots : sess[r].timer \in BOOLEAN
    BY DEF HubInvariant, TypeOK, Session
  <1>8. NoEditForgotten'
    <2>1. ASSUME NEW r \in Slots
          PROVE  \/ sess'[r].timer
                 \/ Texts(sess'[r].doc) \subseteq Settled'
                 \/ \E l \in DOMAIN writes' : writes'[l].doc = sess'[r].doc
                 \/ /\ ~sess[r].timer
                    /\ Texts(sess'[r].doc) \subseteq Texts(sess[r].doc) \cup Settled
      <3>1. CASE r = s
        BY <1>5, <1>6, <3>1
      <3>2. CASE r # s
        BY <1>6, <1>7, <3>2
      <3> QED BY <3>1, <3>2
    <2>2. Settled' = Settled
      BY DEF Settled
    <2> QED BY <1>5, <2>1, <2>2, MemoryKept DEF HubInvariant
  <1> QED BY <1>1, <1>4, <1>8

LEMMA HandleCloseKeeps ==
  ASSUME HubInvariant, NEW c \in Conns, HandleClose(c)
  PROVE  HubInvariant'
PROOF
  <1>1. CASE mapped # 0 /\ sess[mapped].clients \subseteq {c}
    <2> DEFINE t == [sess[mapped] EXCEPT !.clients = {}, !.timer = FALSE]
    <2>1. mapped \in Slots /\ sess[mapped] \in Session
      BY <1>1 DEF HubInvariant, TypeOK
    <2>2. t \in Session /\ t.doc = sess[mapped].doc
      <3>1. ASSUME NEW u \in Session
            PROVE  LET w == [u EXCEPT !.clients = {}, !.timer = FALSE]
                   IN  w \in Session /\ w.doc = u.doc
        BY DEF Session
      <3> QED BY <2>1, <3>1
    <2>3. sess' = [sess EXCEPT ![mapped] = t] /\ writes' = Append(writes, NewSave(sess[mapped].doc))
      BY <1>1, <2>1 DEF HubInvariant, TypeOK, HandleClose
    <2> HIDE DEF t
    <2>4. sess' \in [Slots -> Session] /\ writes' \in Seq(Save) /\ NoEditForgotten'
      BY <2>1, <2>2, <2>3, FlushKeeps DEF HandleClose
    <2>5. mapped' = 0
      BY <1>1 DEF HandleClose
    <2>6. TypeOK'
      BY <2>4, <2>5 DEF HubInvariant, TypeOK, HandleClose
    <2> QED BY <2>4, <2>6 DEF HubInvariant, SessionsKnown, ReadIsStored, HandleClose
  <1>2. CASE ~(mapped # 0 /\ sess[mapped].clients \subseteq {c})
    <2>1. sess' = [s \in Slots |-> IF s = mapped
                     THEN [sess[s] EXCEPT !.clients = @ \ {c}] ELSE sess[s]]
          /\ UNCHANGED <<mapped, writes>>
      BY <1>2 DEF HandleClose
    <2>2. ASSUME NEW s \in Slots
          PROVE  sess'[s] \in Session /\ sess'[s].doc = sess[s].doc /\ sess'[s].timer = sess[s].timer
      <3>1. ASSUME NEW u \in Session
            PROVE  LET w == [u EXCEPT !.clients = @ \ {c}]
                   IN  w \in Session /\ w.doc = u.doc /\ w.timer = u.timer
        BY DEF Session
      <3> QED BY <2>1, <3>1 DEF HubInvariant, TypeOK
    <2>3. sess' \in [Slots -> Session]
      BY <2>1, <2>2
    <2>4. NoEditForgotten'
      BY <2>1, <2>2 DEF HubInvariant, NoEditForgotten, HandleClose, Texts
    <2>5. TypeOK'
      BY <2>1, <2>3 DEF HubInvariant, TypeOK, HandleClose
    <2> QED BY <2>4, <2>5 DEF HubInvariant, SessionsKnown, ReadIsStored, HandleClose
  <1> QED BY <1>1, <1>2

-----------------------------------------------------------------------------
(* Saving.                                                                 *)

LEMMA TimerFiresKeeps ==
  ASSUME HubInvariant, NEW s \in Slots, TimerFires(s)
  PROVE  HubInvariant'
PROOF
  <1> DEFINE t == [sess[s] EXCEPT !.timer = FALSE]
  <1>1. t \in Session /\ t.doc = sess[s].doc
    <2>1. ASSUME NEW u \in Session
          PROVE  LET w == [u EXCEPT !.timer = FALSE] IN w \in Session /\ w.doc = u.doc
      BY DEF Session
    <2> QED BY <2>1 DEF HubInvariant, TypeOK
  <1>2. sess' = [sess EXCEPT ![s] = t] /\ writes' = Append(writes, NewSave(sess[s].doc))
    BY DEF HubInvariant, TypeOK, TimerFires
  <1> HIDE DEF t
  <1>3. sess' \in [Slots -> Session] /\ writes' \in Seq(Save) /\ NoEditForgotten'
    BY <1>1, <1>2, FlushKeeps DEF TimerFires
  <1>4. TypeOK'
    BY <1>3 DEF HubInvariant, TypeOK, TimerFires
  <1> QED BY <1>3, <1>4 DEF HubInvariant, SessionsKnown, ReadIsStored, TimerFires

LEMMA SaveInFlight ==
  ASSUME HubInvariant, NEW i \in DOMAIN writes
  PROVE  writes \in Seq(Save) /\ writes[i] \in Save /\ writes[i].doc \in Doc
PROOF
  <1>1. writes \in Seq(Save)
    BY DEF HubInvariant, TypeOK
  <1>2. writes[i] \in Save
    BY <1>1
  <1>3. \A w \in Save : w.doc \in Doc
    BY DEF Save
  <1> QED BY <1>1, <1>2, <1>3

\* The rows and the objects of two documents, put together.
LEMMA MixedDocs ==
  ASSUME HubInvariant, NEW d \in Doc
  PROVE  /\ WithRow(d) \in Doc /\ WithNodes(d) \in Doc
         /\ Texts(WithNodes(d)) \subseteq Texts(d) \cup Texts(store)
         /\ Texts(WithRow(d)) \subseteq Texts(d) \cup Texts(store)
         /\ Texts(WithRow(d)) \subseteq Edits /\ Texts(d) \subseteq Edits
PROOF
  <1>1. store \in Doc /\ Meta \in Parts
    BY DEF HubInvariant, TypeOK, Parts
  <1>2. WithRow(d) \in Doc /\ WithNodes(d) \in Doc
    BY <1>1 DEF WithRow, WithNodes, Doc
  <1>3. \A p \in Parts : /\ WithRow(d)[p] \in {d[p], store[p]}
                          /\ WithNodes(d)[p] \in {d[p], store[p]}
    BY <1>1 DEF WithRow, WithNodes, Doc
  <1>4. Texts(WithNodes(d)) \subseteq Texts(d) \cup Texts(store)
    BY <1>3 DEF Texts
  <1>5. Texts(WithRow(d)) \subseteq Texts(d) \cup Texts(store)
    BY <1>3 DEF Texts
  <1>6. \A e \in Doc : Texts(e) \subseteq Edits
    BY BoundsAssumption DEF Texts, Doc, Content, Edits
  <1> QED BY <1>2, <1>4, <1>5, <1>6

LEMMA SaveRowKeeps ==
  ASSUME HubInvariant, SaveRow
  PROVE  HubInvariant'
PROOF
  <1>1. PICK i \in DOMAIN writes : /\ store' = WithRow(writes[i].doc)
                                   /\ NowStored(Texts(store'))
                                   /\ writes' = [writes EXCEPT ![i].row = TRUE]
    BY DEF SaveRow
  <1>2. writes \in Seq(Save) /\ writes[i] \in Save /\ writes[i].doc \in Doc
    BY SaveInFlight
  <1>3. store' \in Doc /\ Texts(store') \subseteq Edits
    BY <1>1, <1>2, MixedDocs
  <1>4. /\ writes' \in Seq(Save) /\ DOMAIN writes' = DOMAIN writes
        /\ \A k \in DOMAIN writes : writes'[k].doc = writes[k].doc
    <2>1. PICK w \in Save : w = [writes[i] EXCEPT !.row = TRUE] /\ w.doc = writes[i].doc
      <3>1. \A u \in Save : /\ [u EXCEPT !.row = TRUE] \in Save
                            /\ [u EXCEPT !.row = TRUE].doc = u.doc
        BY DEF Save
      <3> QED BY <1>2, <3>1
    <2>2. writes' = [writes EXCEPT ![i] = w]
      BY <1>1, <1>2, <2>1
    <2> QED BY <1>2, <2>1, <2>2
  <1>5. Settled \subseteq Settled' /\ stored \subseteq stored' /\ Texts(store') \subseteq stored'
    BY <1>1 DEF NowStored, Settled
  <1>6. TypeOK'
    BY <1>1, <1>3, <1>4 DEF HubInvariant, TypeOK, SaveRow, NowStored
  <1>7. ReadIsStored'
    BY <1>5 DEF HubInvariant, ReadIsStored, SaveRow
  <1>8. NoEditForgotten'
    <2>1. \A s \in Slots : sess[s].timer \in BOOLEAN
      BY DEF HubInvariant, TypeOK, Session
    <2> QED BY <1>4, <1>5, <2>1, MemoryKept DEF HubInvariant, SaveRow
  <1> QED BY <1>6, <1>7, <1>8 DEF HubInvariant, SessionsKnown, SaveRow

\* A save that ends leaves its edits in the store or given up.
LEMMA EndedSave ==
  ASSUME HubInvariant, NEW i \in DOMAIN writes, writes' = RemoveAt(writes, i), UNCHANGED sess,
         Settled \cup Texts(writes[i].doc) \subseteq Settled'
  PROVE  writes' \in Seq(Save) /\ NoEditForgotten'
PROOF
  <1>1. /\ writes' \in Seq(Save)
        /\ \A k \in DOMAIN writes : k # i => \E l \in DOMAIN writes' : writes'[l] = writes[k]
    BY RemovedOne DEF HubInvariant, TypeOK
  <1>2. \A s \in Slots : sess[s].timer \in BOOLEAN
    BY DEF HubInvariant, TypeOK, Session
  <1>3. ASSUME NEW k \in DOMAIN writes
        PROVE  \/ Texts(writes[k].doc) \subseteq Settled'
               \/ \E l \in DOMAIN writes' : writes'[l].doc = writes[k].doc
    BY <1>1
  <1>4. NoEditForgotten'
    BY <1>2, <1>3, MemoryKept DEF HubInvariant
  <1> QED BY <1>1, <1>4

LEMMA SaveNodesKeeps ==
  ASSUME HubInvariant, SaveNodes
  PROVE  HubInvariant'
PROOF
  <1>1. PICK i \in DOMAIN writes : /\ store' = WithNodes(writes[i].doc)
                                   /\ NowStored(Texts(writes[i].doc))
                                   /\ writes' = RemoveAt(writes, i)
    BY DEF SaveNodes
  <1>2. writes[i].doc \in Doc
    BY SaveInFlight
  <1>3. /\ store' \in Doc /\ Texts(writes[i].doc) \subseteq Edits
        /\ Texts(store') \subseteq Texts(writes[i].doc) \cup Texts(store)
    BY <1>1, <1>2, MixedDocs
  <1>4. /\ Settled \cup Texts(writes[i].doc) \subseteq Settled'
        /\ stored \cup Texts(writes[i].doc) = stored'
    BY <1>1 DEF NowStored, Settled
  <1>5. writes' \in Seq(Save) /\ NoEditForgotten'
    BY <1>1, <1>4, EndedSave DEF SaveNodes
  <1>6. TypeOK'
    BY <1>1, <1>3, <1>5 DEF HubInvariant, TypeOK, SaveNodes, NowStored
  <1>7. ReadIsStored'
    BY <1>3, <1>4 DEF HubInvariant, ReadIsStored, SaveNodes
  <1> QED BY <1>5, <1>6, <1>7 DEF HubInvariant, SessionsKnown, SaveNodes

LEMMA SaveFailsKeeps ==
  ASSUME HubInvariant, SaveFails
  PROVE  HubInvariant'
PROOF
  <1>1. PICK i \in DOMAIN writes : /\ lost' = lost \cup (Texts(writes[i].doc) \ stored)
                                   /\ writes' = RemoveAt(writes, i)
    BY DEF SaveFails
  <1>2. writes[i].doc \in Doc
    BY SaveInFlight
  <1>3. Texts(writes[i].doc) \subseteq Edits
    BY <1>2, MixedDocs
  <1>4. Settled \cup Texts(writes[i].doc) \subseteq Settled'
    BY <1>1 DEF SaveFails, Settled
  <1>5. writes' \in Seq(Save) /\ NoEditForgotten'
    BY <1>1, <1>4, EndedSave DEF SaveFails
  <1>6. TypeOK'
    BY <1>1, <1>3, <1>5 DEF HubInvariant, TypeOK, SaveFails
  <1> QED BY <1>5, <1>6 DEF HubInvariant, SessionsKnown, ReadIsStored, SaveFails

-----------------------------------------------------------------------------
(* The writers that go past the session.                                   *)

\* A part's new content with the old text changes the document's texts in
\* nothing; neither does a mark, or making the part present.
LEMMA SameTexts ==
  ASSUME NEW d \in Doc, NEW p \in Parts, NEW x \in Content, x.text = d[p].text
  PROVE  [d EXCEPT ![p] = x] \in Doc /\ Texts([d EXCEPT ![p] = x]) = Texts(d)
PROOF
  <1>1. \A r \in Parts : [d EXCEPT ![p] = x][r].text = d[r].text
    BY DEF Doc
  <1> QED BY <1>1 DEF Doc, Texts

LEMMA Marked ==
  ASSUME NEW d \in Doc, NEW p \in Parts, NEW k \in 0..MaxMarks
  PROVE  [d EXCEPT ![p].mark = k] \in Doc /\ Texts([d EXCEPT ![p].mark = k]) = Texts(d)
PROOF
  <1> DEFINE x == [d[p] EXCEPT !.mark = k]
  <1>1. x \in Content /\ x.text = d[p].text
    BY DEF Doc, Content
  <1>2. [d EXCEPT ![p].mark = k] = [d EXCEPT ![p] = x]
    BY DEF Doc
  <1> HIDE DEF x
  <1> QED BY <1>1, <1>2, SameTexts

LEMMA MarkedHere ==
  ASSUME NEW d \in Doc, NEW p \in Parts, NEW k \in 0..MaxMarks, NEW here \in BOOLEAN
  PROVE  LET e == [d EXCEPT ![p].mark = k, ![p].here = here]
         IN  e \in Doc /\ Texts(e) = Texts(d)
PROOF
  <1> DEFINE x == [d[p] EXCEPT !.mark = k, !.here = here]
  <1>1. x \in Content /\ x.text = d[p].text
    BY DEF Doc, Content
  <1>2. [d EXCEPT ![p].mark = k, ![p].here = here] = [d EXCEPT ![p] = x]
    BY DEF Doc
  <1> HIDE DEF x
  <1> QED BY <1>1, <1>2, SameTexts

LEMMA ServerReadKeeps ==
  ASSUME HubInvariant, ServerRead
  PROVE  HubInvariant'
PROOF
  <1>1. PICK n \in Parts :
           server' = [server EXCEPT !.pc = "save", !.got = [store EXCEPT ![n].mark = used.marks + 1],
                                    !.node = n]
    BY DEF ServerRead, Parts
  <1>2. used' \in Usage /\ used.marks + 1 \in 0..MaxMarks
    BY UsageGrows DEF HubInvariant, TypeOK, ServerRead
  <1> DEFINE d == [store EXCEPT ![n].mark = used.marks + 1]
  <1>3. d \in Doc /\ Texts(d) = Texts(store)
    BY <1>2, Marked DEF HubInvariant, TypeOK
  <1> HIDE DEF d
  <1>4. server' \in ServerState /\ server'.got = d /\ server'.pc = "save"
    <2>1. ASSUME NEW u \in ServerState
          PROVE  LET w == [u EXCEPT !.pc = "save", !.got = d, !.node = n]
                 IN  w \in ServerState /\ w.got = d /\ w.pc = "save"
      BY <1>3 DEF ServerState
    <2>2. server' = [server EXCEPT !.pc = "save", !.got = d, !.node = n]
      BY <1>1 DEF d
    <2> QED BY <2>1, <2>2 DEF HubInvariant, TypeOK
  <1>5. TypeOK'
    BY <1>2, <1>4 DEF HubInvariant, TypeOK, ServerRead
  <1> QED BY <1>3, <1>4, <1>5 DEF HubInvariant, SessionsKnown, ReadIsStored,
                                  NoEditForgotten, ServerRead

LEMMA ServerSaveKeeps ==
  ASSUME HubInvariant, ServerSave
  PROVE  HubInvariant'
PROOF
  <1>1. server' \in ServerState /\ server'.got = server.got /\ server'.pc = "send"
        /\ server.got \in Doc
    BY DEF HubInvariant, TypeOK, ServerState, ServerSave
  <1>2. TypeOK'
    BY <1>1 DEF HubInvariant, TypeOK, ServerSave
  <1> QED BY <1>1, <1>2 DEF HubInvariant, SessionsKnown, ReadIsStored,
                            NoEditForgotten, ServerSave

LEMMA ServerIdleIsState ==
  ServerIdle \in ServerState /\ Texts(ServerIdle.got) = {} /\ ServerIdle.pc = "idle"
  BY NoDocIsDoc DEF ServerIdle, ServerState, Parts

LEMMA ServerFailsKeeps ==
  ASSUME HubInvariant, ServerFails
  PROVE  HubInvariant'
PROOF
  <1>1. server.got \in Doc /\ Texts(server.got) \subseteq stored /\ Texts(store) \subseteq stored
    BY DEF HubInvariant, TypeOK, ServerState, ReadIsStored
  <1>2. store' \in {store, WithRow(server.got)} /\ server' = ServerIdle
    BY DEF ServerFails
  <1>3. store' \in Doc /\ Texts(store') \subseteq stored
    BY <1>1, <1>2, MixedDocs DEF HubInvariant, TypeOK
  <1>4. TypeOK'
    BY <1>2, <1>3, ServerIdleIsState DEF HubInvariant, TypeOK, ServerFails
  <1> QED BY <1>2, <1>3, <1>4, ServerIdleIsState
          DEF HubInvariant, SessionsKnown, ReadIsStored, NoEditForgotten, ServerFails

\* What the service sends a session has been saved.
LEMMA AppliedTexts ==
  ASSUME NEW d \in Doc, NEW g \in Doc, NEW p \in Parts
  PROVE  LET m == [op |-> "update", part |-> p, content |-> g[p]]
         IN  m \in Patch /\ Texts(Apply(d, m)) \subseteq Texts(d) \cup Texts(g)
PROOF
  <1> DEFINE m == [op |-> "update", part |-> p, content |-> g[p]]
  <1>1. m \in Patch /\ m.content = g[p]
    BY DEF Patch, Doc
  <1> HIDE DEF m
  <1>2. \A r \in Parts : Apply(d, m)[r] = d[r] \/ Apply(d, m)[r] = g[p]
    BY <1>1, ApplyIsDoc
  <1>3. Texts(Apply(d, m)) \subseteq Texts(d) \cup Texts(g)
    BY <1>2 DEF Texts
  <1> QED BY <1>1, <1>3 DEF m

LEMMA ServerSendKeeps ==
  ASSUME HubInvariant, ServerSend
  PROVE  HubInvariant'
PROOF
  <1>1. CASE mapped = 0
    <2>1. server' = ServerIdle /\ UNCHANGED <<sess, inbox>>
      BY <1>1 DEF ServerSend
    <2>2. TypeOK'
      BY <2>1, ServerIdleIsState DEF HubInvariant, TypeOK, ServerSend
    <2> QED BY <2>1, <2>2, ServerIdleIsState
            DEF HubInvariant, SessionsKnown, ReadIsStored, NoEditForgotten, ServerSend
  <1>2. CASE mapped # 0 /\ sess[mapped].doc[server.node].here
    <2> DEFINE m == [op |-> "update", part |-> server.node, content |-> server.got[server.node]]
               t == [sess[mapped] EXCEPT !.doc = Apply(@, m), !.rev = NextRev(mapped, server.node)]
    <2>1. mapped \in Slots /\ sess[mapped] \in Session /\ sess[mapped].doc \in Doc
          /\ server.got \in Doc /\ server.node \in Parts
      BY <1>2 DEF HubInvariant, TypeOK, Session, ServerState
    <2>2. m \in Patch /\ Texts(Apply(sess[mapped].doc, m))
                           \subseteq Texts(sess[mapped].doc) \cup Texts(server.got)
      BY <2>1, AppliedTexts
    <2>3. sess' = [sess EXCEPT ![mapped] = t] /\ inbox' = Sent(mapped, {}, Broadcast(mapped, m))
          /\ server' = ServerIdle
      BY <1>2, <2>1 DEF HubInvariant, TypeOK, ServerSend
    <2>4. m.part = server.node
      OBVIOUS
    <2>5. Broadcast(mapped, m) \in Message /\ NextRev(mapped, server.node) \in Nat
      <3> HIDE DEF m
      <3> QED BY <2>1, <2>2, <2>4, BroadcastIsMessage DEF HubInvariant, TypeOK
    <2>6. t \in Session /\ t.doc = Apply(sess[mapped].doc, m) /\ t.timer = sess[mapped].timer
      <3>1. Apply(sess[mapped].doc, m) \in Doc
        <4> HIDE DEF m
        <4> QED BY <2>1, <2>2, ApplyIsDoc
      <3> HIDE DEF m
      <3> DEFINE d == Apply(sess[mapped].doc, m)
                 r == NextRev(mapped, server.node)
      <3>2. t = [sess[mapped] EXCEPT !.doc = d, !.rev = r] /\ r \in Nat /\ d \in Doc
        BY <2>5, <3>1
      <3> HIDE DEF d, r, t
      <3>3. t \in Session /\ t.doc = d /\ t.timer = sess[mapped].timer
        BY <2>1, <3>2 DEF Session
      <3> QED BY <3>3 DEF d
    <2> HIDE DEF m, t
    <2>7. sess' \in [Slots -> Session] /\ inbox' \in [Conns -> Seq(Message)]
      BY <2>1, <2>3, <2>5, <2>6, SentIsTyped DEF HubInvariant, TypeOK
    <2>8. TypeOK'
      BY <2>3, <2>7, ServerIdleIsState DEF HubInvariant, TypeOK, ServerSend
    <2>9. NoEditForgotten'
      <3>1. Texts(server.got) \subseteq Settled /\ Settled' = Settled /\ \A s \in Slots : sess[s].timer \in BOOLEAN
        BY DEF HubInvariant, ReadIsStored, TypeOK, Session, Settled, ServerSend
      <3>2. ASSUME NEW s \in Slots
            PROVE  \/ sess'[s].timer
                   \/ /\ ~sess[s].timer
                      /\ Texts(sess'[s].doc) \subseteq Texts(sess[s].doc) \cup Settled
        BY <2>1, <2>2, <2>3, <2>6, <3>1 DEF HubInvariant, TypeOK
      <3> QED BY <3>1, <3>2, MemoryKept DEF HubInvariant, ServerSend
    <2> QED BY <2>3, <2>8, <2>9, ServerIdleIsState
            DEF HubInvariant, SessionsKnown, ReadIsStored, ServerSend
  <1>3. CASE mapped # 0 /\ ~sess[mapped].doc[server.node].here
    <2>1. server' = [ServerIdle EXCEPT !.pc = "reload", !.sid = mapped] /\ UNCHANGED <<sess, inbox>>
      BY <1>3 DEF ServerSend
    <2>2. server' \in ServerState /\ server'.got = NoDoc /\ server'.sid \in Slots
      <3>1. ServerIdle \in ServerState /\ ServerIdle.got = NoDoc /\ mapped \in Slots
        BY <1>3, ServerIdleIsState DEF HubInvariant, TypeOK, ServerIdle
      <3>2. ASSUME NEW u \in ServerState, NEW r \in Slots
            PROVE  LET w == [u EXCEPT !.pc = "reload", !.sid = r]
                   IN  w \in ServerState /\ w.got = u.got /\ w.sid = r
        BY DEF ServerState
      <3> QED BY <2>1, <3>1, <3>2
    <2>3. TypeOK'
      BY <2>1, <2>2 DEF HubInvariant, TypeOK, ServerSend
    <2> QED BY <2>1, <2>2, <2>3, NoDocIsDoc
            DEF HubInvariant, SessionsKnown, ReadIsStored, NoEditForgotten, ServerSend
  <1> QED BY <1>1, <1>2, <1>3

LEMMA ServerReloadKeeps ==
  ASSUME HubInvariant, ServerReload
  PROVE  HubInvariant'
PROOF
  <1>1. CASE server.pc = "reload"
    <2>1. server' = [server EXCEPT !.pc = "got", !.got = store] /\ UNCHANGED <<sess, apart>>
      BY <1>1 DEF ServerReload
    <2>2. server' \in ServerState /\ server'.got = store /\ server'.sid = server.sid
      <3>1. ASSUME NEW u \in ServerState, NEW d \in Doc
            PROVE  LET w == [u EXCEPT !.pc = "got", !.got = d]
                   IN  w \in ServerState /\ w.got = d /\ w.sid = u.sid
        BY DEF ServerState
      <3> QED BY <2>1, <3>1 DEF HubInvariant, TypeOK
    <2>3. TypeOK'
      BY <2>1, <2>2 DEF HubInvariant, TypeOK, ServerReload
    <2> QED BY <1>1, <2>1, <2>2, <2>3
            DEF HubInvariant, SessionsKnown, ReadIsStored, NoEditForgotten, ServerReload
  <1>2. CASE server.pc = "got"
    <2> DEFINE s == server.sid
               t == [sess[s] EXCEPT !.doc = server.got]
    <2>1. s \in Slots /\ server.got \in Doc /\ Texts(server.got) \subseteq stored
      BY <1>2 DEF HubInvariant, TypeOK, SessionsKnown, ReadIsStored, ServerState
    <2>2. t \in Session /\ t.doc = server.got /\ t.timer = sess[s].timer
      <3>1. ASSUME NEW u \in Session, NEW d \in Doc
            PROVE  LET w == [u EXCEPT !.doc = d]
                   IN  w \in Session /\ w.doc = d /\ w.timer = u.timer
        BY DEF Session
      <3> QED BY <2>1, <3>1 DEF HubInvariant, TypeOK
    <2>3. sess' = [sess EXCEPT ![s] = t] /\ server' = ServerIdle
          /\ apart' = Unannounced(s, server.got)
      BY <1>2, <2>1 DEF HubInvariant, TypeOK, ServerReload
    <2> HIDE DEF s, t
    <2>4. sess' \in [Slots -> Session] /\ NoEditForgotten'
      BY <2>1, <2>2, <2>3, ReloadKeeps DEF ServerReload
    <2>5. apart' \in [Conns -> SUBSET Parts]
      BY <2>3, UnannouncedIsTyped DEF HubInvariant, TypeOK
    <2>6. TypeOK'
      BY <2>3, <2>4, <2>5, ServerIdleIsState DEF HubInvariant, TypeOK, ServerReload
    <2> QED BY <2>3, <2>4, <2>6, ServerIdleIsState
            DEF HubInvariant, SessionsKnown, ReadIsStored, ServerReload
  <1> QED BY <1>1, <1>2 DEF ServerReload

LEMMA PutIdleIsState ==
  /\ PutIdle \in PutState /\ Texts(PutIdle.got) = {}
  /\ [PutIdle EXCEPT !.pc = "drop"] \in PutState
  /\ Texts([PutIdle EXCEPT !.pc = "drop"].got) = {}
  BY NoDocIsDoc DEF PutIdle, PutState

LEMMA PutReadKeeps ==
  ASSUME HubInvariant, PutRead
  PROVE  HubInvariant'
PROOF
  <1>1. PICK p \in Parts, here \in BOOLEAN :
           put' = [pc |-> "save",
                   got |-> [store EXCEPT ![p].mark = used.marks + 1, ![p].here = here]]
    BY DEF PutRead
  <1>2. used' \in Usage /\ used.marks + 1 \in 0..MaxMarks
    BY UsageGrows DEF HubInvariant, TypeOK, PutRead
  <1>3. PICK d \in Doc : /\ d = [store EXCEPT ![p].mark = used.marks + 1, ![p].here = here]
                         /\ Texts(d) = Texts(store)
    <2>1. PICK k \in 0..MaxMarks : k = used.marks + 1
      BY <1>2
    <2>2. store \in Doc
      BY DEF HubInvariant, TypeOK
    <2>3. LET e == [store EXCEPT ![p].mark = k, ![p].here = here]
          IN  e \in Doc /\ Texts(e) = Texts(store)
      BY <2>2, MarkedHere
    <2> QED BY <2>1, <2>3
  <1>4. put' \in PutState /\ put'.got = d
    BY <1>1, <1>3 DEF PutState
  <1>5. TypeOK'
    BY <1>2, <1>4 DEF HubInvariant, TypeOK, PutRead
  <1> QED BY <1>3, <1>4, <1>5 DEF HubInvariant, SessionsKnown, ReadIsStored,
                                  NoEditForgotten, PutRead

LEMMA PutSaveKeeps ==
  ASSUME HubInvariant, PutSave
  PROVE  HubInvariant'
PROOF
  <1>1. put.got \in Doc /\ Texts(put.got) \subseteq stored /\ Texts(store) \subseteq stored
    BY DEF HubInvariant, TypeOK, PutState, ReadIsStored
  <1>2. store' \in {put.got, store, WithRow(put.got)}
    BY DEF PutSave
  <1>3. store' \in Doc /\ Texts(store') \subseteq stored
    BY <1>1, <1>2, MixedDocs DEF HubInvariant, TypeOK
  <1>4. put' \in PutState /\ Texts(put'.got) = {}
    BY PutIdleIsState DEF PutSave
  <1>5. TypeOK'
    BY <1>3, <1>4 DEF HubInvariant, TypeOK, PutSave
  <1> QED BY <1>3, <1>4, <1>5 DEF HubInvariant, SessionsKnown, ReadIsStored,
                                  NoEditForgotten, PutSave

LEMMA PutDropKeeps ==
  ASSUME HubInvariant, PutDrop
  PROVE  HubInvariant'
PROOF
  <1>1. CASE mapped = 0
    <2>1. UNCHANGED <<sess, lost>>
      BY <1>1 DEF PutDrop
    <2>2. TypeOK'
      BY <2>1, PutIdleIsState DEF HubInvariant, TypeOK, PutDrop
    <2> QED BY <2>1, <2>2, PutIdleIsState DEF HubInvariant, SessionsKnown, ReadIsStored,
                              NoEditForgotten, PutDrop
  <1>2. CASE mapped # 0
    <2> DEFINE t == [sess[mapped] EXCEPT !.timer = FALSE]
    <2>1. mapped \in Slots /\ sess[mapped] \in Session /\ sess[mapped].doc \in Doc
      BY <1>2 DEF HubInvariant, TypeOK, Session
    <2>2. t \in Session /\ t.doc = sess[mapped].doc
      <3>1. ASSUME NEW u \in Session
            PROVE  LET w == [u EXCEPT !.timer = FALSE] IN w \in Session /\ w.doc = u.doc
        BY DEF Session
      <3> QED BY <2>1, <3>1
    <2>3. /\ sess' = [sess EXCEPT ![mapped] = t]
          /\ lost' = lost \cup (Texts(sess[mapped].doc) \ stored)
      BY <1>2, <2>1 DEF HubInvariant, TypeOK, PutDrop
    <2> HIDE DEF t
    <2>4. Texts(sess[mapped].doc) \subseteq Edits
      BY <2>1, MixedDocs
    <2>5. TypeOK'
      BY <2>1, <2>2, <2>3, <2>4, PutIdleIsState DEF HubInvariant, TypeOK, PutDrop
    <2>6. NoEditForgotten'
      <3>1. \A s \in Slots : sess[s].timer \in BOOLEAN
        BY DEF HubInvariant, TypeOK, Session
      <3>3. Settled \subseteq Settled' /\ Texts(sess[mapped].doc) \subseteq Settled'
        BY <2>3 DEF PutDrop, Settled
      <3>2. ASSUME NEW s \in Slots
            PROVE  \/ sess'[s].timer
                   \/ Texts(sess'[s].doc) \subseteq Settled'
                   \/ /\ ~sess[s].timer
                      /\ Texts(sess'[s].doc) \subseteq Texts(sess[s].doc) \cup Settled
        <4>1. CASE s = mapped
          BY <2>1, <2>2, <2>3, <3>3, <4>1 DEF HubInvariant, TypeOK
        <4>2. CASE s # mapped
          BY <2>1, <2>3, <3>1, <4>2 DEF HubInvariant, TypeOK
        <4> QED BY <4>1, <4>2
      <3> QED BY <3>2, <3>3, MemoryKept DEF HubInvariant, PutDrop
    <2> QED BY <2>3, <2>5, <2>6, PutIdleIsState DEF HubInvariant, SessionsKnown, ReadIsStored, PutDrop
  <1> QED BY <1>1, <1>2

-----------------------------------------------------------------------------
(* The theorems.                                                           *)

LEMMA HubStep == HubInvariant /\ [Next]_vars => HubInvariant'
PROOF
  <1> SUFFICES ASSUME HubInvariant, [Next]_vars PROVE HubInvariant'
    OBVIOUS
  <1>1. CASE UNCHANGED vars
    BY <1>1 DEF vars, HubInvariant, TypeOK, SessionsKnown, ReadIsStored, NoEditForgotten
  <1>2. ASSUME NEW c \in Conns, Opening(c) PROVE HubInvariant'
    BY <1>2, OpenKeeps, OpenLoadedKeeps, ReloadReadKeeps, RegisterKeeps, SendInitKeeps,
       OpenFailsKeeps DEF Opening
  <1>3. ASSUME NEW c \in Conns, Editor(c) PROVE HubInvariant'
    BY <1>3, EditKeeps, ReceiveKeeps, DisconnectKeeps DEF Editor
  <1>4. ASSUME NEW c \in Conns, Handling(c) PROVE HubInvariant'
    BY <1>4, HandleEditKeeps, HandleUnknownKeeps, HandleUnmappedKeeps, StrayLoadedKeeps,
       StrayFailsKeeps, HandleCloseKeeps DEF Handling
  <1>5. ASSUME NEW s \in Slots, TimerFires(s) PROVE HubInvariant'
    BY <1>5, TimerFiresKeeps
  <1> QED BY <1>1, <1>2, <1>3, <1>4, <1>5, SaveRowKeeps, SaveNodesKeeps, SaveFailsKeeps,
             ServerReadKeeps, ServerSaveKeeps, ServerFailsKeeps, ServerSendKeeps,
             ServerReloadKeeps, PutReadKeeps, PutSaveKeeps, PutDropKeeps DEF Next

LEMMA HubAlways == Spec => []HubInvariant
  BY HubInit, HubStep, PTL DEF Spec

\* The hub, its editors and the writers past it keep their state well typed:
\* revisions of a session never run below zero, and queues hold patches and
\* messages of the documents' own parts.
THEOREM HubTypes == Spec => []TypeOK
PROOF
  <1>1. HubInvariant => TypeOK
    BY DEF HubInvariant
  <1> QED BY <1>1, HubAlways, PTL

\* However the sessions of a document are opened twice, reloaded, left,
\* invalidated and saved out of order, an edit shown by a session has a timer
\* armed or a save that carries it, or has been in the store once, unless the
\* code gave it up: with a save that failed, or a session that a PUT dropped.
THEOREM NoEditIsForgotten == Spec => []NoEditForgotten
PROOF
  <1>1. HubInvariant => NoEditForgotten
    BY DEF HubInvariant
  <1> QED BY <1>1, HubAlways, PTL
=============================================================================
