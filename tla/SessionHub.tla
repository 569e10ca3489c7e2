----------------------------- MODULE SessionHub -----------------------------
(***************************************************************************)
(* The live editing of one workflow document: the session the API keeps in *)
(* memory for the connected editors, the debounced saves of that session,  *)
(* the editors' copies of the document, and the two writers that go to the *)
(* store past the session: the job service and PUT /workflows/:id.         *)
(*                                                                         *)
(* A document maps its parts to contents.  `text` is the last edit of a    *)
(* part (which edit removed it, for an absent one), `mark` the last update *)
(* made to it past the session.  Handlers run between awaits; each access  *)
(* to the store that is awaited is a step of its own and may fail.  A save *)
(* writes the workflow's row (the metadata) before its object (the nodes). *)
(***************************************************************************)
EXTENDS Integers, Sequences, SequencesExt, FiniteSets

CONSTANTS
    Conns,      \* the editors' websockets, one document each
    Nodes,      \* nodes of the canvas
    Meta,       \* name and description, which are kept in the workflow's row
    Slots,      \* session objects that can be alive at once
    MaxEdits,   \* bound: edits by editors
    MaxMarks,   \* bound: updates by the job service and by PUT
    MaxChanges, \* bound: both together
    MaxOpens    \* bound: connections that are opened

ASSUME PartsAssumption == Meta \notin Nodes
ASSUME SlotsAssumption == 0 \notin Slots
ASSUME BoundsAssumption == MaxEdits \in Nat /\ MaxMarks \in Nat /\ MaxOpens \in Nat

Parts == Nodes \cup {Meta}
Edits == 1..MaxEdits
Content == [here : BOOLEAN, text : 0..MaxEdits, mark : 0..MaxMarks]
Doc == [Parts -> Content]

VARIABLES
    store,      \* the persisted document
    mapped,     \* slot of the session in the hub's map, 0 for none
    sess,       \* the session objects: [doc, timer, rev, clients]
    ws,         \* state of each websocket
    opening,    \* where handleOpen of each websocket is: [pc, sid, got]
    stray,      \* a message of the websocket found no session and loads one
    view,       \* the editor's copy: [known, doc, rev]
    outbox,     \* editor to hub, in order
    inbox,      \* hub to editor, in order
    writes,     \* saves in flight: [doc, row], oldest first
    server,     \* the job service's update: [pc, got, node, sid]
    put,        \* the PUT under way: [pc, got]
    used,       \* edits, marks and connections so far
    stored,     \* edits that the store has shown
    lost,       \* edits given up by a save that failed or a session dropped
    apart       \* parts in which an editor's copy may differ from the session

vars == <<store, mapped, sess, ws, opening, stray, view, outbox, inbox, writes,
          server, put, used, stored, lost, apart>>

-----------------------------------------------------------------------------
Patch == [op : {"add", "update", "remove"}, part : Parts, content : Content]
NoDoc == [p \in Parts |-> [here |-> FALSE, text |-> 0, mark |-> 0]]

Session == [doc : Doc, timer : BOOLEAN, rev : Nat, clients : SUBSET Conns]
NewSession(d) == [doc |-> d, timer |-> FALSE, rev |-> 0, clients |-> {}]

\* What an editor receives: the document, a patch with its revision, or a
\* partial update of the metadata, which carries none.
Message == [type : {"init"}, doc : Doc]
           \cup [type : {"patch"}, rev : Nat, patch : Patch]
           \cup [type : {"update"}, patch : Patch]

OpeningState == [pc : {"idle", "load", "reload", "got", "public"},
                 sid : Slots \cup {0}, got : Doc]
ServerState == [pc : {"idle", "save", "send", "reload", "got"}, got : Doc,
                node : Parts, sid : Slots \cup {0}]
PutState == [pc : {"idle", "save", "drop"}, got : Doc]
Save == [doc : Doc, row : BOOLEAN]
View == [known : BOOLEAN, doc : Doc, rev : Nat]
Usage == [edits : 0..MaxEdits, marks : 0..MaxMarks, opens : 0..MaxOpens]

NotOpening == [pc |-> "idle", sid |-> 0, got |-> NoDoc]
ServerIdle == [pc |-> "idle", got |-> NoDoc, node |-> Meta, sid |-> 0]
PutIdle == [pc |-> "idle", got |-> NoDoc]
NewSave(d) == [doc |-> d, row |-> FALSE]
NoView == [known |-> FALSE, doc |-> NoDoc, rev |-> 0]

TypeOK ==
    /\ store \in Doc
    /\ mapped \in Slots \cup {0}
    /\ sess \in [Slots -> Session]
    /\ ws \in [Conns -> {"closed", "open", "closing"}]
    /\ opening \in [Conns -> OpeningState]
    /\ stray \in [Conns -> BOOLEAN]
    /\ view \in [Conns -> View]
    /\ outbox \in [Conns -> Seq(Patch)]
    /\ inbox \in [Conns -> Seq(Message)]
    /\ writes \in Seq(Save)
    /\ server \in ServerState
    /\ put \in PutState
    /\ used \in Usage
    /\ stored \subseteq Edits
    /\ lost \subseteq Edits
    /\ apart \in [Conns -> SUBSET Parts]

Init ==
    /\ store = [p \in Parts |-> [here |-> TRUE, text |-> 0, mark |-> 0]]
    /\ mapped = 0
    /\ sess = [s \in Slots |-> NewSession(NoDoc)]
    /\ ws = [c \in Conns |-> "closed"]
    /\ opening = [c \in Conns |-> NotOpening]
    /\ stray = [c \in Conns |-> FALSE]
    /\ view = [c \in Conns |-> NoView]
    /\ outbox = [c \in Conns |-> <<>>]
    /\ inbox = [c \in Conns |-> <<>>]
    /\ writes = <<>>
    /\ server = ServerIdle
    /\ put = PutIdle
    /\ used = [edits |-> 0, marks |-> 0, opens |-> 0]
    /\ stored = {}
    /\ lost = {}
    /\ apart = [c \in Conns |-> {}]

-----------------------------------------------------------------------------
(* Documents, patches and messages.                                        *)

Texts(d) == {d[p].text : p \in Parts} \ {0}

\* The store after the row, or the object, of document d is written to it.
WithRow(d) == [store EXCEPT ![Meta] = d[Meta]]
WithNodes(d) == [d EXCEPT ![Meta] = store[Meta]]

\* applyWorkflowGraphPatch and mergeWorkflowPartialState.
Applies(d, m) == IF m.op = "add" THEN ~d[m.part].here ELSE d[m.part].here
Apply(d, m) == IF Applies(d, m) THEN [d EXCEPT ![m.part] = m.content] ELSE d

\* The session objects that something still refers to.
Alive(s) == \/ s = mapped \/ sess[s].timer \/ s = server.sid
            \/ \E c \in Conns : opening[c].sid = s
Free == {s \in Slots : ~Alive(s)}
FreeSlot == CHOOSE s \in Free : TRUE

Registered(c) == mapped # 0 /\ c \in sess[mapped].clients

Touches(m, p) == m.type = "init" \/ m.patch.part = p
EditsOn(q, p) == \E i \in DOMAIN q : q[i].part = p

\* A message to the clients of a session that are not among `sources`.
Sent(s, sources, m) ==
    [c \in Conns |-> IF c \in sess[s].clients \ sources /\ ws[c] = "open"
                     THEN Append(inbox[c], m) ELSE inbox[c]]

\* Replacing a session's document tells none of its clients.
Unannounced(s, d) ==
    [c \in Conns |-> IF c \in sess[s].clients
                     THEN apart[c] \cup {p \in Parts : sess[s].doc[p] # d[p]}
                     ELSE apart[c]]

-----------------------------------------------------------------------------
(* handleOpen: find or load the session, reload it from the store,         *)
(* register the client, await the public state, send the document.         *)

Open(c) ==
    /\ ws[c] = "closed" /\ opening[c].pc = "idle" /\ ~stray[c] /\ ~Registered(c)
    /\ used.opens < MaxOpens
    /\ used' = [used EXCEPT !.opens = @ + 1]
    /\ ws' = [ws EXCEPT ![c] = "open"]
    /\ opening' = [opening EXCEPT ![c] =
                     [NotOpening EXCEPT !.pc = IF mapped = 0 THEN "load" ELSE "reload",
                                        !.sid = mapped]]
    /\ UNCHANGED <<store, mapped, sess, stray, view, outbox, inbox, writes, server, put,
                   stored, lost, apart>>

\* Two connections that load at once both get here: the later one replaces
\* the session of the earlier one in the map.
OpenLoaded(c) ==
    /\ opening[c].pc = "load" /\ Free # {}
    /\ sess' = [sess EXCEPT ![FreeSlot] = NewSession(store)]
    /\ mapped' = FreeSlot
    /\ opening' = [opening EXCEPT ![c].pc = "reload", ![c].sid = FreeSlot]
    /\ UNCHANGED <<store, ws, stray, view, outbox, inbox, writes, server, put, used,
                   stored, lost, apart>>

ReloadRead(c) ==
    /\ opening[c].pc = "reload"
    /\ opening' = [opening EXCEPT ![c].pc = "got", ![c].got = store]
    /\ UNCHANGED <<store, mapped, sess, ws, stray, view, outbox, inbox, writes, server,
                   put, used, stored, lost, apart>>

Register(c) ==
    /\ opening[c].pc = "got"
    /\ sess' = [sess EXCEPT ![opening[c].sid].doc = opening[c].got,
                            ![opening[c].sid].clients = @ \cup {c}]
    /\ apart' = Unannounced(opening[c].sid, opening[c].got)
    /\ opening' = [opening EXCEPT ![c].pc = "public"]
    /\ UNCHANGED <<store, mapped, ws, stray, view, outbox, inbox, writes, server, put,
                   used, stored, lost>>

\* With a bug: the document sent is the one that was read for the reload.
SendInitStale(c) ==
    /\ opening[c].pc = "public"
    /\ inbox' = IF ws[c] = "open"
                THEN [inbox EXCEPT ![c] = Append(@, [type |-> "init", doc |-> opening[c].got])]
                ELSE inbox
    /\ apart' = [apart EXCEPT ![c] = {}]
    /\ opening' = [opening EXCEPT ![c] = NotOpening]
    /\ UNCHANGED <<store, mapped, sess, ws, stray, view, outbox, writes, server, put,
                   used, stored, lost>>

SendInit(c) ==
    /\ opening[c].pc = "public"
    /\ LET d == sess[opening[c].sid].doc IN
          inbox' = IF ws[c] = "open"
                   THEN [inbox EXCEPT ![c] = Append(@, [type |-> "init", doc |-> d])]
                   ELSE inbox
    /\ apart' = [apart EXCEPT ![c] = {}]
    /\ opening' = [opening EXCEPT ![c] = NotOpening]
    /\ UNCHANGED <<store, mapped, sess, ws, stray, view, outbox, writes, server, put,
                   used, stored, lost>>

\* An await of handleOpen that fails: the connection is closed (1008), a client
\* that is registered by then stays so until the close is handled.  After this
\* clean close the editor does not reconnect.
OpenFails(c) ==
    /\ opening[c].pc \in {"load", "reload", "public"}
    /\ opening' = [opening EXCEPT ![c] = NotOpening]
    /\ IF ws[c] = "open"
       THEN /\ ws' = [ws EXCEPT ![c] = "closing"]
            /\ inbox' = [inbox EXCEPT ![c] = <<>>]
            /\ view' = [view EXCEPT ![c] = NoView]
       ELSE UNCHANGED <<ws, inbox, view>>
    /\ UNCHANGED <<store, mapped, sess, stray, outbox, writes, server, put, used,
                   stored, lost, apart>>

Opening(c) == Open(c) \/ OpenLoaded(c) \/ ReloadRead(c) \/ Register(c) \/ SendInit(c)
              \/ OpenFails(c)

-----------------------------------------------------------------------------
(* The editor: its copy of the document, what it sends and receives.       *)

\* The patch that edit e of part p is, in a document d.
PatchOf(d, p, e, remove) ==
    [op |-> IF ~d[p].here THEN "add" ELSE IF remove THEN "remove" ELSE "update",
     part |-> p,
     content |-> [d[p] EXCEPT !.text = e, !.here = ~(d[p].here /\ remove)]]

Edit(c) ==
    /\ ws[c] = "open" /\ view[c].known
    /\ used.edits < MaxEdits /\ used.edits + used.marks < MaxChanges
    /\ used' = [used EXCEPT !.edits = @ + 1]
    /\ \E p \in Parts, remove \in BOOLEAN :
          LET m == PatchOf(view[c].doc, p, used.edits + 1, remove) IN
          /\ remove => p # Meta /\ view[c].doc[p].here
          /\ outbox' = [outbox EXCEPT ![c] = Append(@, m)]
          /\ view' = [view EXCEPT ![c].doc = Apply(@, m)]
    /\ UNCHANGED <<store, mapped, sess, ws, opening, stray, inbox, writes, server, put,
                   stored, lost, apart>>

\* A patch with an old revision is skipped; a document resets the revision.
Taken(v, m) ==
    CASE m.type = "init" -> [known |-> TRUE, doc |-> m.doc, rev |-> 0]
      [] m.type = "patch" /\ m.rev <= v.rev -> v
      [] OTHER -> [v EXCEPT !.rev = IF m.type = "patch" THEN m.rev ELSE @,
                            !.doc = IF v.known THEN Apply(@, m.patch) ELSE @]

\* A message that arrives over an own edit the hub has not seen leaves the
\* two copies apart in that part.
Receive(c) ==
    /\ inbox[c] # <<>>
    /\ inbox' = [inbox EXCEPT ![c] = Tail(@)]
    /\ view' = [view EXCEPT ![c] = Taken(@, Head(inbox[c]))]
    /\ apart' = [apart EXCEPT ![c] =
                    @ \cup {p \in Parts : Touches(Head(inbox[c]), p) /\ EditsOn(outbox[c], p)}]
    /\ UNCHANGED <<store, mapped, sess, ws, opening, stray, outbox, writes, server,
                   put, used, stored, lost>>

\* The connection ends.  What was sent still arrives; what is lost on the way
\* is, for the hub, an edit that was never made.  An editor that reconnects
\* keeps its copy and its revision, and may edit before it is sent the document.
Disconnect(c) ==
    /\ ws[c] = "open"
    /\ ws' = [ws EXCEPT ![c] = "closing"]
    /\ inbox' = [inbox EXCEPT ![c] = <<>>]
    /\ UNCHANGED <<store, mapped, sess, opening, stray, view, outbox, writes, server, put,
                   used, stored, lost, apart>>

Editor(c) == Edit(c) \/ Receive(c) \/ Disconnect(c)

-----------------------------------------------------------------------------
(* handleMessage: the edits of a registered client change the session,     *)
(* arm its timer and go to the other clients.                              *)

\* With a bug: an update of the metadata takes a revision back.
NextRevBack(s, p) == IF p = Meta THEN sess[s].rev - 1 ELSE sess[s].rev + 1

\* handlePatchGraph for nodes, handleUpdate for the metadata.
NextRev(s, p) == IF p = Meta THEN sess[s].rev ELSE sess[s].rev + 1
Broadcast(s, m) == IF m.part = Meta THEN [type |-> "update", patch |-> m]
                   ELSE [type |-> "patch", rev |-> sess[s].rev + 1, patch |-> m]

HandleEdit(c) ==
    /\ outbox[c] # <<>> /\ Registered(c)
    /\ outbox' = [outbox EXCEPT ![c] = Tail(@)]
    /\ LET m == Head(outbox[c]) IN
       /\ sess' = [sess EXCEPT ![mapped].doc = Apply(@, m),
                               ![mapped].timer = TRUE,
                               ![mapped].rev = NextRev(mapped, m.part)]
       /\ inbox' = Sent(mapped, {c}, Broadcast(mapped, m))
       /\ apart' = [apart EXCEPT ![c] = @ \cup
                       {p \in {m.part} : \E i \in DOMAIN inbox[c] : Touches(inbox[c][i], p)}]
    /\ UNCHANGED <<store, mapped, ws, opening, stray, view, writes, server, put,
                   used, stored, lost>>

\* The hub closes the connection of a client it does not know (1011), cleanly:
\* the editor does not reconnect.
CloseUnknown(c) ==
    /\ ws' = [ws EXCEPT ![c] = "closing"]
    /\ outbox' = [outbox EXCEPT ![c] = <<>>]
    /\ inbox' = [inbox EXCEPT ![c] = <<>>]
    /\ view' = [view EXCEPT ![c] = NoView]

HandleUnknown(c) ==
    /\ outbox[c] # <<>> /\ mapped # 0 /\ ~Registered(c) /\ ~stray[c]
    /\ CloseUnknown(c)
    /\ UNCHANGED <<store, mapped, sess, opening, stray, writes, server, put, used,
                   stored, lost, apart>>

\* With no session in the map, one is loaded before the client is looked up.
HandleUnmapped(c) ==
    /\ outbox[c] # <<>> /\ mapped = 0 /\ ~stray[c]
    /\ stray' = [stray EXCEPT ![c] = TRUE]
    /\ UNCHANGED <<store, mapped, sess, ws, opening, view, outbox, inbox, writes,
                   server, put, used, stored, lost, apart>>

StrayLoaded(c) ==
    /\ stray[c] /\ Free # {}
    /\ stray' = [stray EXCEPT ![c] = FALSE]
    /\ sess' = [sess EXCEPT ![FreeSlot] = NewSession(store)]
    /\ mapped' = FreeSlot
    /\ CloseUnknown(c)
    /\ UNCHANGED <<store, opening, writes, server, put, used, stored, lost, apart>>

StrayFails(c) ==
    /\ stray[c]
    /\ stray' = [stray EXCEPT ![c] = FALSE]
    /\ CloseUnknown(c)
    /\ UNCHANGED <<store, mapped, sess, opening, writes, server, put, used, stored,
                   lost, apart>>

\* With a bug: the last editor's leaving stops the timer and saves nothing.
CloseForgetsFlush(c) ==
    /\ ws[c] = "closing" /\ outbox[c] = <<>> /\ ~stray[c]
    /\ ws' = [ws EXCEPT ![c] = "closed"]
    /\ IF mapped # 0 /\ sess[mapped].clients \subseteq {c}
       THEN /\ sess' = [sess EXCEPT ![mapped].clients = {}, ![mapped].timer = FALSE]
            /\ mapped' = 0
       ELSE /\ sess' = [s \in Slots |-> IF s = mapped
                            THEN [sess[s] EXCEPT !.clients = @ \ {c}] ELSE sess[s]]
            /\ UNCHANGED mapped
    /\ apart' = [apart EXCEPT ![c] = {}]
    /\ UNCHANGED <<store, opening, stray, view, outbox, inbox, writes, server, put,
                   used, stored, lost>>

\* handleClose: the last client to leave takes the session out of the map,
\* with a save that nothing waits for.
HandleClose(c) ==
    /\ ws[c] = "closing" /\ outbox[c] = <<>> /\ ~stray[c]
    /\ ws' = [ws EXCEPT ![c] = "closed"]
    /\ IF mapped # 0 /\ sess[mapped].clients \subseteq {c}
       THEN /\ sess' = [sess EXCEPT ![mapped].clients = {}, ![mapped].timer = FALSE]
            /\ writes' = Append(writes, NewSave(sess[mapped].doc))
            /\ mapped' = 0
       ELSE /\ sess' = [s \in Slots |-> IF s = mapped
                            THEN [sess[s] EXCEPT !.clients = @ \ {c}] ELSE sess[s]]
            /\ UNCHANGED <<mapped, writes>>
    /\ apart' = [apart EXCEPT ![c] = {}]
    /\ UNCHANGED <<store, opening, stray, view, outbox, inbox, server, put, used,
                   stored, lost>>

Handling(c) == HandleEdit(c) \/ HandleUnknown(c) \/ HandleUnmapped(c)
               \/ StrayLoaded(c) \/ StrayFails(c) \/ HandleClose(c)

-----------------------------------------------------------------------------
(* Saving.                                                                 *)

TimerFires(s) ==
    /\ sess[s].timer
    /\ sess' = [sess EXCEPT ![s].timer = FALSE]
    /\ writes' = Append(writes, NewSave(sess[s].doc))
    /\ UNCHANGED <<store, mapped, ws, opening, stray, view, outbox, inbox, server,
                   put, used, stored, lost, apart>>

NowStored(texts) == stored' = stored \cup texts /\ lost' = lost \ texts

\* Saves overlap: their halves are written in any order, and the older document
\* may be the one that stays.
SaveRow ==
    /\ \E i \in DOMAIN writes :
          /\ ~writes[i].row
          /\ store' = WithRow(writes[i].doc)
          /\ NowStored(Texts(store'))
          /\ writes' = [writes EXCEPT ![i].row = TRUE]
    /\ UNCHANGED <<mapped, sess, ws, opening, stray, view, outbox, inbox, server,
                   put, used, apart>>

SaveNodes ==
    /\ \E i \in DOMAIN writes :
          /\ writes[i].row
          /\ store' = WithNodes(writes[i].doc)
          /\ NowStored(Texts(writes[i].doc))
          /\ writes' = RemoveAt(writes, i)
    /\ UNCHANGED <<mapped, sess, ws, opening, stray, view, outbox, inbox, server,
                   put, used, apart>>

\* A save that throws is logged and not repeated.
SaveFails ==
    /\ \E i \in DOMAIN writes :
          /\ lost' = lost \cup (Texts(writes[i].doc) \ stored)
          /\ writes' = RemoveAt(writes, i)
    /\ UNCHANGED <<store, mapped, sess, ws, opening, stray, view, outbox, inbox, server,
                   put, used, stored, apart>>

-----------------------------------------------------------------------------
(* The job service patches one node of the stored document and tells the   *)
(* session; PUT /workflows/:id replaces the document and drops the session. *)

ServerRead ==
    /\ server.pc = "idle" /\ used.marks < MaxMarks /\ used.edits + used.marks < MaxChanges
    /\ \E n \in Nodes :
          /\ store[n].here
          /\ server' = [server EXCEPT !.pc = "save", !.got = [store EXCEPT ![n].mark = used.marks + 1],
                                      !.node = n]
    /\ used' = [used EXCEPT !.marks = @ + 1]
    /\ UNCHANGED <<store, mapped, sess, ws, opening, stray, view, outbox, inbox,
                   writes, put, stored, lost, apart>>

ServerSave ==
    /\ server.pc = "save"
    /\ store' = server.got
    /\ server' = [server EXCEPT !.pc = "send"]
    /\ UNCHANGED <<mapped, sess, ws, opening, stray, view, outbox, inbox, writes,
                   put, used, stored, lost, apart>>

\* A save, or the session's reload, that throws ends the update; the row may
\* have been written.
ServerFails ==
    /\ \/ server.pc = "save" /\ store' \in {store, WithRow(server.got)}
       \/ server.pc = "reload" /\ UNCHANGED store
    /\ server' = ServerIdle
    /\ UNCHANGED <<mapped, sess, ws, opening, stray, view, outbox, inbox, writes,
                   put, used, stored, lost, apart>>

\* broadcastServerNodeUpdate.
ServerSend ==
    /\ server.pc = "send"
    /\ IF mapped = 0
       THEN server' = ServerIdle /\ UNCHANGED <<sess, inbox>>
       ELSE IF sess[mapped].doc[server.node].here
       THEN LET m == [op |-> "update", part |-> server.node,
                      content |-> server.got[server.node]] IN
            /\ sess' = [sess EXCEPT ![mapped].doc = Apply(@, m),
                                    ![mapped].rev = NextRev(mapped, server.node)]
            /\ inbox' = Sent(mapped, {}, Broadcast(mapped, m))
            /\ server' = ServerIdle
       ELSE /\ server' = [ServerIdle EXCEPT !.pc = "reload", !.sid = mapped]
            /\ UNCHANGED <<sess, inbox>>
    /\ UNCHANGED <<store, mapped, ws, opening, stray, view, outbox, writes, put,
                   used, stored, lost, apart>>

ServerReload ==
    /\ \/ /\ server.pc = "reload"
          /\ server' = [server EXCEPT !.pc = "got", !.got = store]
          /\ UNCHANGED <<sess, apart>>
       \/ /\ server.pc = "got"
          /\ sess' = [sess EXCEPT ![server.sid].doc = server.got]
          /\ apart' = Unannounced(server.sid, server.got)
          /\ server' = ServerIdle
    /\ UNCHANGED <<store, mapped, ws, opening, stray, view, outbox, inbox, writes,
                   put, used, stored, lost>>

\* The caller of PUT changes one part, or removes a node, of the document as
\* it was when the caller read it.
PutRead ==
    /\ put.pc = "idle" /\ used.marks < MaxMarks /\ used.edits + used.marks < MaxChanges
    /\ used' = [used EXCEPT !.marks = @ + 1]
    /\ \E p \in Parts, here \in BOOLEAN :
          /\ here \/ p # Meta
          /\ put' = [pc |-> "save",
                     got |-> [store EXCEPT ![p].mark = used.marks + 1, ![p].here = here]]
    /\ UNCHANGED <<store, mapped, sess, ws, opening, stray, view, outbox, inbox, writes,
                   server, stored, lost, apart>>

PutSave ==
    /\ put.pc = "save"
    /\ \/ store' = put.got /\ put' = [PutIdle EXCEPT !.pc = "drop"]
       \/ store' \in {store, WithRow(put.got)} /\ put' = PutIdle
    /\ UNCHANGED <<mapped, sess, ws, opening, stray, view, outbox, inbox, writes,
                   server, used, stored, lost, apart>>

\* invalidateSession: what the session had not saved goes with it.
PutDrop ==
    /\ put.pc = "drop"
    /\ put' = PutIdle
    /\ mapped' = 0
    /\ IF mapped = 0 THEN UNCHANGED <<sess, lost>>
       ELSE /\ sess' = [sess EXCEPT ![mapped].timer = FALSE]
            /\ lost' = lost \cup (Texts(sess[mapped].doc) \ stored)
    /\ UNCHANGED <<store, ws, opening, stray, view, outbox, inbox, writes, server,
                   used, stored, apart>>

Next ==
    \/ \E c \in Conns : Opening(c) \/ Editor(c) \/ Handling(c)
    \/ \E s \in Slots : TimerFires(s)
    \/ SaveRow \/ SaveNodes \/ SaveFails
    \/ ServerRead \/ ServerSave \/ ServerFails \/ ServerSend \/ ServerReload
    \/ PutRead \/ PutSave \/ PutDrop

Spec == Init /\ [][Next]_vars

-----------------------------------------------------------------------------
(* What editors may rely on.                                               *)

\* No edit is forgotten: one that a session shows has a timer armed for it, is
\* carried by a save in flight, or has been in the store once, however sessions
\* are replaced, reloaded and left.  What the code gives up is the exception: a
\* save that fails is not repeated, and the PUT route drops the session.  That
\* the store keeps an edit is not claimed: a save that overlaps may undo it.
NoEditForgotten ==
    \A s \in Slots : \A e \in Texts(sess[s].doc) :
        sess[s].timer \/ e \in stored \cup lost
        \/ \E i \in DOMAIN writes : e \in Texts(writes[i].doc)

\* Between messages the copy of a registered editor is the session's, except
\* for parts in which an edit of its own crossed another one's, or that a
\* reload changed without telling anyone.
CopiesAgree ==
    \A c \in Conns :
        /\ Registered(c) /\ ws[c] = "open" /\ opening[c].pc = "idle"
        /\ inbox[c] = <<>> /\ outbox[c] = <<>>
        => \A p \in Parts \ apart[c] : view[c].doc[p] = sess[mapped].doc[p]
=============================================================================
