----------------------- MODULE SessionHubCopiesProofs -----------------------
(***************************************************************************)
(* For any number of editors, sessions, edits and outside updates: between *)
(* messages an editor's copy of the document is the session's.             *)
(*                                                                         *)
(* While messages are under way the copy and the session are related by    *)
(* what the messages will make of them.  For one part of the document this *)
(* is a trace of its contents, one for each message; that a trace of       *)
(* messages about other parts is constant is shown by the well-foundedness *)
(* of < on the naturals.                                                   *)
(***************************************************************************)
EXTENDS SessionHubProofs, WellFoundedInduction

\* Apply, for one part with content x.
Fits(x, m) == IF m.op = "add" THEN ~x.here ELSE x.here
Puts(x, m, p) == IF m.part = p /\ Fits(x, m) THEN m.content ELSE x

\* The edits q make y of content x of part p.
Writes(x, q, y, p) ==
    \E g \in [Nat -> Content] :
        /\ g[0] = x
        /\ \A i \in DOMAIN q : g[i] = Puts(g[i - 1], q[i], p)
        /\ g[Len(q)] = y

\* From its copy, or from the document message n brings, the messages q take an
\* editor to content y of part p.
ReadsFrom(n, g, v, q, y, p) ==
    /\ IF n = 0 THEN v.known /\ g[0] = v.doc[p]
                ELSE q[n].type = "init" /\ g[n] = q[n].doc[p]
    /\ \A i \in (n + 1)..Len(q) : q[i].type # "init" /\ g[i] = Puts(g[i - 1], q[i].patch, p)
    /\ g[Len(q)] = y

Reads(v, q, y, p) == \E n \in 0..Len(q) : \E g \in [Nat -> Content] : ReadsFrom(n, g, v, q, y, p)

Untouched(q, p) == \A i \in DOMAIN q : ~Touches(q[i], p)

NoDocument(q) == \A i \in DOMAIN q : q[i].type # "init"

\* What is known of an editor that is not connected, or is being connected.
Quiet(c) ==
    /\ ws[c] # "open" => inbox[c] = <<>>
    /\ opening[c].pc \in {"load", "reload", "got"} => ~Registered(c) /\ inbox[c] = <<>>
    /\ opening[c].pc = "public" /\ Registered(c) => opening[c].sid = mapped

Following(c) == Registered(c) /\ ws[c] = "open"

\* The patches on their way have rising revisions, and none is skipped for its
\* revision: a document resets the one an editor kept from an earlier connection.
RevsRise(q, rev) ==
    /\ \A i \in DOMAIN q : q[i].type = "patch" => 0 < q[i].rev /\ q[i].rev <= rev
    /\ \A i, j \in DOMAIN q :
          i < j /\ q[i].type = "patch" /\ q[j].type = "patch" => q[i].rev < q[j].rev

Fresh(v, q, rev) ==
    NoDocument(q) =>
        v.rev <= rev /\ \A i \in DOMAIN q : q[i].type = "patch" => v.rev < q[i].rev

\* Without own edits under way the messages bring the session's content; with
\* no message under way the own edits bring the copy's content to the session.
InStep(v, in, out, doc, p) ==
    /\ ~EditsOn(out, p) => Reads(v, in, doc[p], p)
    /\ Untouched(in, p) => v.known /\ Writes(doc[p], out, v.doc[p], p)

Follows(c) ==
    /\ Quiet(c)
    /\ Following(c) => RevsRise(inbox[c], sess[mapped].rev)
    /\ Following(c) /\ opening[c].pc = "idle" =>
          /\ Fresh(view[c], inbox[c], sess[mapped].rev)
          /\ \A p \in Parts \ apart[c] :
                InStep(view[c], inbox[c], outbox[c], sess[mapped].doc, p)

CopiesInvariant == \A c \in Conns : Follows(c)

-----------------------------------------------------------------------------
(* Traces.                                                                 *)

\* Every nonempty set of numbers has a least element.
LEMMA LeastNumber ==
  ASSUME NEW T \in SUBSET Nat, T # {}
  PROVE  \E x \in T : \A y \in T : ~(y < x)
PROOF
  <1>1. \E x \in T : \A y \in T : <<y, x>> \notin OpToRel(<, Nat)
    BY NatLessThanWellFounded, WFMin
  <1> QED BY <1>1 DEF OpToRel

\* A trace that no step changes ends where it began.
LEMMA ConstantTrace ==
  ASSUME NEW g \in [Nat -> Content], NEW l \in Nat, \A i \in 1..l : g[i] = g[i - 1]
  PROVE  g[l] = g[0]
PROOF
  <1> DEFINE T == {i \in 0..l : g[i] # g[0]}
  <1>1. SUFFICES ASSUME T # {} PROVE FALSE
    OBVIOUS
  <1>2. PICK i \in T : \A j \in T : ~(j < i)
    <2>1. T \in SUBSET Nat
      OBVIOUS
    <2> HIDE DEF T
    <2> QED BY <1>1, <2>1, LeastNumber
  <1>3. i \in 1..l /\ i - 1 \in 0..l /\ i - 1 < i
    BY <1>2
  <1>4. i - 1 \notin T
    BY <1>2, <1>3
  <1> QED BY <1>2, <1>3, <1>4

\* What a message makes of a part.
LEMMA PutsIsContent ==
  ASSUME NEW x \in Content, NEW m \in Patch, NEW p
  PROVE  Puts(x, m, p) \in Content
  BY DEF Puts, Patch

LEMMA ApplyPuts ==
  ASSUME NEW d \in Doc, NEW m \in Patch, NEW p \in Parts
  PROVE  Apply(d, m)[p] = Puts(d[p], m, p)
  BY DEF Apply, Applies, Puts, Fits, Doc, Patch

LEMMA FirstAndRest ==
  ASSUME NEW S, NEW q \in Seq(S), q # <<>>
  PROVE  /\ Tail(q) \in Seq(S) /\ Len(q) \in Nat /\ Len(Tail(q)) \in Nat
         /\ Len(q) = Len(Tail(q)) + 1
         /\ Head(q) = q[1] /\ Head(q) \in S /\ DOMAIN q = 1..Len(q)
         /\ DOMAIN Tail(q) = 1..Len(Tail(q))
         /\ \A i \in 1..Len(Tail(q)) : Tail(q)[i] = q[i + 1] /\ i + 1 \in 2..Len(q)
  OBVIOUS

LEMMA AppendedOne ==
  ASSUME NEW S, NEW q \in Seq(S), NEW m \in S
  PROVE  /\ Append(q, m) \in Seq(S) /\ Len(q) \in Nat
         /\ Len(Append(q, m)) = Len(q) + 1
         /\ Append(q, m)[Len(q) + 1] = m
         /\ DOMAIN q = 1..Len(q) /\ DOMAIN Append(q, m) = 1..(Len(q) + 1)
         /\ \A i \in 1..Len(q) : Append(q, m)[i] = q[i]
  OBVIOUS

-----------------------------------------------------------------------------
(* Edits on their way to the hub.                                          *)

LEMMA WritesAppend ==
  ASSUME NEW x, NEW y \in Content, NEW p, NEW q \in Seq(Patch), NEW m \in Patch,
         Writes(x, q, y, p)
  PROVE  Writes(x, Append(q, m), Puts(y, m, p), p)
PROOF
  <1>1. PICK g \in [Nat -> Content] : /\ g[0] = x /\ g[Len(q)] = y
                                      /\ \A i \in DOMAIN q : g[i] = Puts(g[i - 1], q[i], p)
    BY DEF Writes
  <1>2. Puts(y, m, p) \in Content
    BY PutsIsContent
  <1>3. PICK h \in [Nat -> Content] : h = [g EXCEPT ![Len(q) + 1] = Puts(y, m, p)]
    BY <1>2
  <1>4. Len(q) \in Nat
    OBVIOUS
  <1>5. h[Len(q) + 1] = Puts(y, m, p) /\ \A i \in 0..Len(q) : h[i] = g[i]
    BY <1>3, <1>4
  <1>6. ASSUME NEW i \in DOMAIN Append(q, m)
        PROVE  h[i] = Puts(h[i - 1], Append(q, m)[i], p)
    <2>1. CASE i \in 1..Len(q)
      <3>1. i - 1 \in 0..Len(q) /\ i \in 0..Len(q)
        BY <1>4, <2>1
      <3> QED BY <1>1, <1>5, <2>1, <3>1, AppendedOne
    <2>2. CASE i = Len(q) + 1
      <3>1. i - 1 = Len(q) /\ Len(q) \in 0..Len(q)
        BY <1>4, <2>2
      <3> QED BY <1>1, <1>5, <2>2, <3>1, AppendedOne
    <2> QED BY <1>4, <2>1, <2>2, AppendedOne
  <1>7. h[0] = x /\ h[Len(Append(q, m))] = Puts(y, m, p)
    BY <1>1, <1>4, <1>5, AppendedOne
  <1> QED BY <1>6, <1>7 DEF Writes

LEMMA WritesTail ==
  ASSUME NEW x, NEW y, NEW p, NEW q \in Seq(Patch), q # <<>>, Writes(x, q, y, p)
  PROVE  Writes(Puts(x, Head(q), p), Tail(q), y, p)
PROOF
  <1>1. PICK g \in [Nat -> Content] : /\ g[0] = x /\ g[Len(q)] = y
                                      /\ \A i \in DOMAIN q : g[i] = Puts(g[i - 1], q[i], p)
    BY DEF Writes
  <1>2. PICK h \in [Nat -> Content] : h = [i \in Nat |-> g[i + 1]]
    <2>1. \A i \in Nat : i + 1 \in Nat /\ g[i + 1] \in Content
      OBVIOUS
    <2> QED BY <2>1
  <1>3. h[0] = Puts(x, Head(q), p)
    <2>1. 1 \in DOMAIN q /\ g[1] = Puts(g[0], q[1], p)
      BY <1>1, FirstAndRest
    <2> QED BY <1>1, <1>2, <2>1, FirstAndRest
  <1>4. ASSUME NEW i \in DOMAIN Tail(q)
        PROVE  h[i] = Puts(h[i - 1], Tail(q)[i], p)
    <2>1. i \in Nat /\ i - 1 \in Nat /\ i + 1 \in DOMAIN q /\ Tail(q)[i] = q[i + 1]
      BY FirstAndRest
    <2>2. h[i] = g[i + 1] /\ h[i - 1] = g[i] /\ (i + 1) - 1 = i
      BY <1>2, <2>1
    <2> QED BY <1>1, <2>1, <2>2
  <1>5. h[Len(Tail(q))] = y
    BY <1>1, <1>2, FirstAndRest
  <1> QED BY <1>3, <1>4, <1>5 DEF Writes

\* Edits of other parts change nothing.
LEMMA WritesNothing ==
  ASSUME NEW x \in Content, NEW y, NEW p, NEW q \in Seq(Patch), ~EditsOn(q, p)
  PROVE  Writes(x, q, y, p) <=> x = y
PROOF
  <1>1. \A i \in DOMAIN q : q[i].part # p
    BY DEF EditsOn
  <1>2. ASSUME Writes(x, q, y, p) PROVE x = y
    <2>1. PICK g \in [Nat -> Content] : /\ g[0] = x /\ g[Len(q)] = y
                                        /\ \A i \in DOMAIN q : g[i] = Puts(g[i - 1], q[i], p)
      BY <1>2 DEF Writes
    <2>2. Len(q) \in Nat /\ \A i \in 1..Len(q) : g[i] = g[i - 1]
      BY <1>1, <2>1 DEF Puts
    <2>3. g[Len(q)] = g[0]
      BY <2>2, ConstantTrace
    <2> QED BY <2>1, <2>3
  <1>3. ASSUME x = y PROVE Writes(x, q, y, p)
    <2>1. PICK g \in [Nat -> Content] : g = [i \in Nat |-> x]
      OBVIOUS
    <2>2. \A i \in DOMAIN q : i \in Nat /\ i - 1 \in Nat
      OBVIOUS
    <2>3. \A i \in DOMAIN q : g[i] = Puts(g[i - 1], q[i], p)
      BY <1>1, <2>1, <2>2 DEF Puts
    <2>4. g[0] = x /\ g[Len(q)] = y
      BY <1>3, <2>1
    <2> QED BY <2>3, <2>4 DEF Writes
  <1> QED BY <1>2, <1>3

-----------------------------------------------------------------------------
(* Messages on their way to an editor.                                     *)

\* The patch of a message that is not a document.
LEMMA MessagePatch ==
  ASSUME NEW m \in Message
  PROVE  /\ m.type \in {"init", "patch", "update"}
         /\ m.type # "init" => m.patch \in Patch
         /\ m.type = "init" => m.doc \in Doc
         /\ m.type = "patch" => m.rev \in Nat
  BY DEF Message

LEMMA ReadsAppend ==
  ASSUME NEW v, NEW y \in Content, NEW p, NEW q \in Seq(Message), NEW m \in Message,
         m.type # "init", Reads(v, q, y, p)
  PROVE  Reads(v, Append(q, m), Puts(y, m.patch, p), p)
PROOF
  <1>1. PICK n \in 0..Len(q) : \E g \in [Nat -> Content] : ReadsFrom(n, g, v, q, y, p)
    BY DEF Reads
  <1>2. PICK g \in [Nat -> Content] : ReadsFrom(n, g, v, q, y, p)
    BY <1>1
  <1>3. Puts(y, m.patch, p) \in Content
    BY PutsIsContent, MessagePatch
  <1>4. PICK h \in [Nat -> Content] : h = [g EXCEPT ![Len(q) + 1] = Puts(y, m.patch, p)]
    BY <1>3
  <1>5. Len(q) \in Nat /\ n \in 0..Len(Append(q, m))
    BY AppendedOne
  <1>6. h[Len(q) + 1] = Puts(y, m.patch, p) /\ \A i \in 0..Len(q) : h[i] = g[i]
    BY <1>4, <1>5
  <1>7. IF n = 0 THEN v.known /\ h[0] = v.doc[p]
                 ELSE Append(q, m)[n].type = "init" /\ h[n] = Append(q, m)[n].doc[p]
    BY <1>2, <1>5, <1>6, AppendedOne DEF ReadsFrom
  <1>8. ASSUME NEW i \in (n + 1)..Len(Append(q, m))
        PROVE  /\ Append(q, m)[i].type # "init"
               /\ h[i] = Puts(h[i - 1], Append(q, m)[i].patch, p)
    <2>1. CASE i <= Len(q)
      <3>1. i \in (n + 1)..Len(q) /\ i \in 1..Len(q) /\ i - 1 \in 0..Len(q) /\ i \in 0..Len(q)
        BY <1>5, <2>1
      <3> QED BY <1>2, <1>6, <3>1, AppendedOne DEF ReadsFrom
    <2>2. CASE i = Len(q) + 1
      <3>1. i - 1 = Len(q) /\ Len(q) \in 0..Len(q)
        BY <1>5, <2>2
      <3> QED BY <1>2, <1>6, <2>2, <3>1, AppendedOne DEF ReadsFrom
    <2> QED BY <1>5, <2>1, <2>2, AppendedOne
  <1>9. h[Len(Append(q, m))] = Puts(y, m.patch, p)
    BY <1>6, AppendedOne
  <1>10. ReadsFrom(n, h, v, Append(q, m), Puts(y, m.patch, p), p)
    BY <1>7, <1>8, <1>9 DEF ReadsFrom
  <1> QED BY <1>5, <1>10 DEF Reads

\* A document brings its content of every part.
LEMMA ReadsDocument ==
  ASSUME NEW v, NEW p \in Parts, NEW q \in Seq(Message), NEW m \in Message, m.type = "init"
  PROVE  Reads(v, Append(q, m), m.doc[p], p)
PROOF
  <1>1. m.doc[p] \in Content
    BY MessagePatch DEF Doc
  <1>2. PICK g \in [Nat -> Content] : g = [i \in Nat |-> m.doc[p]]
    BY <1>1
  <1>3. PICK n \in Nat : n = Len(q) + 1
    OBVIOUS
  <1>4. n = Len(Append(q, m)) /\ n # 0 /\ Append(q, m)[n] = m /\ n \in 0..Len(Append(q, m))
    BY <1>3, AppendedOne
  <1>5. ReadsFrom(n, g, v, Append(q, m), m.doc[p], p)
    BY <1>2, <1>4 DEF ReadsFrom
  <1> QED BY <1>4, <1>5 DEF Reads

\* The editor takes the first message, which is not an old patch.
LEMMA ReadsTail ==
  ASSUME NEW v \in View, NEW y, NEW p \in Parts, NEW q \in Seq(Message), q # <<>>,
         NoDocument(q) /\ Head(q).type = "patch" => v.rev < Head(q).rev,
         Reads(v, q, y, p)
  PROVE  Reads(Taken(v, Head(q)), Tail(q), y, p)
PROOF
  <1>1. PICK n \in 0..Len(q) : \E g \in [Nat -> Content] : ReadsFrom(n, g, v, q, y, p)
    BY DEF Reads
  <1>2. PICK g \in [Nat -> Content] : ReadsFrom(n, g, v, q, y, p)
    BY <1>1
  <1>3. PICK h \in [Nat -> Content] : h = [i \in Nat |-> g[i + 1]]
    <2>1. \A i \in Nat : i + 1 \in Nat /\ g[i + 1] \in Content
      OBVIOUS
    <2> QED BY <2>1
  <1>4. PICK l \in Nat : l = Len(Tail(q))
    BY FirstAndRest
  <1>5. Len(q) = l + 1 /\ n \in 0..(l + 1) /\ Head(q) = q[1] /\ Head(q) \in Message
        /\ \A i \in 1..l : Tail(q)[i] = q[i + 1]
    BY <1>4, FirstAndRest
  <1>6. PICK k \in 0..l : k = IF n = 0 THEN 0 ELSE n - 1
    BY <1>5
  <1>7. ASSUME NEW i \in (k + 1)..l
        PROVE  Tail(q)[i].type # "init" /\ h[i] = Puts(h[i - 1], Tail(q)[i].patch, p)
    <2>1. i + 1 \in (n + 1)..Len(q) /\ i \in Nat /\ i - 1 \in Nat /\ i \in 1..l
      BY <1>5, <1>6
    <2>2. h[i] = g[i + 1] /\ h[i - 1] = g[i] /\ (i + 1) - 1 = i
      BY SMTT(20), <1>3, <2>1
    <2>3. q[i + 1].type # "init" /\ g[i + 1] = Puts(g[(i + 1) - 1], q[i + 1].patch, p)
      BY <1>2, <2>1 DEF ReadsFrom
    <2> QED BY <1>5, <2>1, <2>2, <2>3
  <1>8. h[l] = y
    BY <1>2, <1>3, <1>5 DEF ReadsFrom
  <1>9. IF k = 0 THEN Taken(v, Head(q)).known /\ h[0] = Taken(v, Head(q)).doc[p]
                 ELSE Tail(q)[k].type = "init" /\ h[k] = Tail(q)[k].doc[p]
    <2>1. CASE n = 0
      <3>1. 1 \in (n + 1)..Len(q) /\ k = 0
        BY <1>5, <1>6, <2>1
      <3>2. q[1].type # "init" /\ g[1] = Puts(g[0], q[1].patch, p) /\ v.known /\ g[0] = v.doc[p]
        BY <1>2, <2>1, <3>1 DEF ReadsFrom
      <3>3. q[1].patch \in Patch /\ v.doc \in Doc
        BY <1>5, <3>2, MessagePatch DEF View
      <3>4. Apply(v.doc, q[1].patch)[p] = Puts(v.doc[p], q[1].patch, p)
        BY <3>3, ApplyPuts
      <3>5. ~(q[1].type = "patch" /\ q[1].rev <= v.rev)
        <4>1. \A i \in 1..Len(q) : q[i].type # "init"
          BY <1>2, <2>1 DEF ReadsFrom
        <4>2. NoDocument(q)
          BY <4>1 DEF NoDocument
        <4> QED BY <1>5, <4>2, MessagePatch DEF View
      <3>6. Taken(v, q[1]).known /\ Taken(v, q[1]).doc = Apply(v.doc, q[1].patch)
        BY <3>2, <3>5 DEF Taken, View
      <3>7. h[0] = g[1]
        BY <1>3
      <3> QED BY <1>5, <3>1, <3>2, <3>4, <3>6, <3>7
    <2>2. CASE n = 1
      <3>1. q[1].type = "init" /\ g[1] = q[1].doc[p] /\ k = 0
        BY <1>2, <1>6, <2>2 DEF ReadsFrom
      <3>2. Taken(v, q[1]).known /\ Taken(v, q[1]).doc = q[1].doc
        BY <3>1 DEF Taken
      <3>3. h[0] = g[1]
        BY <1>3
      <3> QED BY <1>5, <3>1, <3>2, <3>3
    <2>3. CASE n \notin {0, 1}
      <3>1. k = n - 1 /\ k # 0 /\ k \in 1..l /\ k + 1 = n
        BY <1>5, <1>6, <2>3
      <3>2. q[n].type = "init" /\ g[n] = q[n].doc[p]
        BY <1>2, <2>3 DEF ReadsFrom
      <3>3. h[k] = g[n] /\ Tail(q)[k] = q[n]
        BY <1>3, <1>5, <3>1
      <3> QED BY <3>1, <3>2, <3>3
    <2> QED BY <2>1, <2>2, <2>3
  <1>10. ReadsFrom(k, h, Taken(v, Head(q)), Tail(q), y, p)
    BY <1>4, <1>7, <1>8, <1>9 DEF ReadsFrom
  <1> QED BY <1>4, <1>6, <1>10 DEF Reads

\* Messages about other parts change nothing.
LEMMA ReadsNothing ==
  ASSUME NEW v \in View, NEW y, NEW p \in Parts, NEW q \in Seq(Message), Untouched(q, p)
  PROVE  Reads(v, q, y, p) <=> v.known /\ v.doc[p] = y
PROOF
  <1>1. \A i \in 1..Len(q) : q[i].type # "init" /\ q[i].patch.part # p
    BY DEF Untouched, Touches
  <1>2. Len(q) \in Nat /\ v.doc[p] \in Content
    BY DEF View, Doc
  <1>3. ASSUME Reads(v, q, y, p) PROVE v.known /\ v.doc[p] = y
    <2>1. PICK n \in 0..Len(q) : \E g \in [Nat -> Content] : ReadsFrom(n, g, v, q, y, p)
      BY <1>3 DEF Reads
    <2>2. PICK g \in [Nat -> Content] : ReadsFrom(n, g, v, q, y, p)
      BY <2>1
    <2>3. n = 0
      BY <1>1, <1>2, <2>2 DEF ReadsFrom
    <2>4. \A i \in 1..Len(q) : g[i] = Puts(g[i - 1], q[i].patch, p)
      BY <2>2, <2>3 DEF ReadsFrom
    <2>5. \A i \in 1..Len(q) : g[i] = g[i - 1]
      BY <1>1, <2>4 DEF Puts
    <2>6. g[Len(q)] = g[0]
      BY <1>2, <2>5, ConstantTrace
    <2> QED BY <2>2, <2>3, <2>6 DEF ReadsFrom
  <1>4. ASSUME v.known, v.doc[p] = y PROVE Reads(v, q, y, p)
    <2>1. PICK g \in [Nat -> Content] : g = [i \in Nat |-> y]
      BY <1>2, <1>4
    <2>2. ASSUME NEW i \in 1..Len(q) PROVE g[i] = Puts(g[i - 1], q[i].patch, p)
      <3>1. i \in Nat /\ i - 1 \in Nat
        BY <1>2
      <3> QED BY <1>1, <2>1, <3>1 DEF Puts
    <2>3. ReadsFrom(0, g, v, q, y, p)
      BY <1>1, <1>2, <1>4, <2>1, <2>2 DEF ReadsFrom
    <2> QED BY <1>2, <2>3 DEF Reads
  <1> QED BY <1>3, <1>4

\* They depend on the copy's content of the part alone.
LEMMA ReadsSame ==
  ASSUME NEW v, NEW w, NEW p, NEW q, NEW y,
         v.known = w.known, v.doc[p] = w.doc[p], Reads(v, q, y, p)
  PROVE  Reads(w, q, y, p)
PROOF
  <1>1. PICK n \in 0..Len(q) : \E g \in [Nat -> Content] : ReadsFrom(n, g, v, q, y, p)
    BY DEF Reads
  <1>2. PICK g \in [Nat -> Content] : ReadsFrom(n, g, v, q, y, p)
    BY <1>1
  <1>3. ReadsFrom(n, g, w, q, y, p)
    BY <1>2 DEF ReadsFrom
  <1> QED BY <1>3 DEF Reads

LEMMA UntouchedParts ==
  ASSUME NEW q \in Seq(Message), NEW p
  PROVE  /\ \A m \in Message :
              Untouched(Append(q, m), p) <=> (Untouched(q, p) /\ ~Touches(m, p))
         /\ q # <<>> => (Untouched(q, p) <=> (~Touches(Head(q), p) /\ Untouched(Tail(q), p)))
PROOF
  <1>1. ASSUME NEW m \in Message
        PROVE  Untouched(Append(q, m), p) <=> (Untouched(q, p) /\ ~Touches(m, p))
    <2>1. \A i \in 1..(Len(q) + 1) : i \in 1..Len(q) \/ i = Len(q) + 1
      BY AppendedOne
    <2>2. \A i \in 1..Len(q) : i \in 1..(Len(q) + 1)
      BY AppendedOne
    <2>3. Len(q) + 1 \in 1..(Len(q) + 1)
      BY AppendedOne
    <2> QED BY <2>1, <2>2, <2>3, AppendedOne DEF Untouched
  <1>2. ASSUME q # <<>>
        PROVE  Untouched(q, p) <=> (~Touches(Head(q), p) /\ Untouched(Tail(q), p))
    <2>1. PICK l \in Nat : l = Len(Tail(q)) /\ Len(q) = l + 1
      BY <1>2, FirstAndRest
    <2>2. Untouched(q, p) <=> \A i \in 1..(l + 1) : ~Touches(q[i], p)
      BY <1>2, <2>1, FirstAndRest DEF Untouched
    <2>3. Untouched(Tail(q), p) <=> \A i \in 1..l : ~Touches(q[i + 1], p)
      <3>1. DOMAIN Tail(q) = 1..l /\ \A i \in 1..l : Tail(q)[i] = q[i + 1]
        BY <1>2, <2>1, FirstAndRest
      <3> QED BY <3>1 DEF Untouched
    <2>4. \A i \in 1..(l + 1) : i = 1 \/ \E j \in 1..l : i = j + 1
      <3>1. \A i \in 1..(l + 1) : i = 1 \/ (i - 1 \in 1..l /\ i = (i - 1) + 1)
        BY <2>1
      <3> QED BY <3>1
    <2>5. 1 \in 1..(l + 1) /\ \A i \in 1..l : i + 1 \in 1..(l + 1)
      BY <2>1
    <2>6. Head(q) = q[1]
      BY <1>2, FirstAndRest
    <2> QED BY <2>2, <2>3, <2>4, <2>5, <2>6
  <1> QED BY <1>1, <1>2

LEMMA EditsOnParts ==
  ASSUME NEW q \in Seq(Patch), NEW p
  PROVE  /\ \A m \in Patch : EditsOn(Append(q, m), p) <=> (EditsOn(q, p) \/ m.part = p)
         /\ q # <<>> => (EditsOn(q, p) <=> (Head(q).part = p \/ EditsOn(Tail(q), p)))
PROOF
  <1>1. ASSUME NEW m \in Patch
        PROVE  EditsOn(Append(q, m), p) <=> (EditsOn(q, p) \/ m.part = p)
    <2>1. \A i \in 1..(Len(q) + 1) : i \in 1..Len(q) \/ i = Len(q) + 1
      BY AppendedOne
    <2>2. \A i \in 1..Len(q) : i \in 1..(Len(q) + 1)
      BY AppendedOne
    <2>3. Len(q) + 1 \in 1..(Len(q) + 1)
      BY AppendedOne
    <2> QED BY <2>1, <2>2, <2>3, AppendedOne DEF EditsOn
  <1>2. ASSUME q # <<>>
        PROVE  EditsOn(q, p) <=> (Head(q).part = p \/ EditsOn(Tail(q), p))
    <2>1. PICK l \in Nat : l = Len(Tail(q)) /\ Len(q) = l + 1
      BY <1>2, FirstAndRest
    <2>2. EditsOn(q, p) <=> \E i \in 1..(l + 1) : q[i].part = p
      BY <1>2, <2>1, FirstAndRest DEF EditsOn
    <2>3. EditsOn(Tail(q), p) <=> \E i \in 1..l : q[i + 1].part = p
      <3>1. DOMAIN Tail(q) = 1..l /\ \A i \in 1..l : Tail(q)[i] = q[i + 1]
        BY <1>2, <2>1, FirstAndRest
      <3> QED BY <3>1 DEF EditsOn
    <2>4. \A i \in 1..(l + 1) : i = 1 \/ \E j \in 1..l : i = j + 1
      <3>1. \A i \in 1..(l + 1) : i = 1 \/ (i - 1 \in 1..l /\ i = (i - 1) + 1)
        BY <2>1
      <3> QED BY <3>1
    <2>5. 1 \in 1..(l + 1) /\ \A i \in 1..l : i + 1 \in 1..(l + 1)
      BY <2>1
    <2>6. Head(q) = q[1]
      BY <1>2, FirstAndRest
    <2> QED BY <2>2, <2>3, <2>4, <2>5, <2>6
  <1> QED BY <1>1, <1>2

\* Revisions that are sent are new ones.
LEMMA RevsAppend ==
  ASSUME NEW q \in Seq(Message), NEW m \in Message,
         NEW rev \in Nat, NEW next \in Nat, rev <= next, RevsRise(q, rev),
         m.type = "patch" => rev < m.rev /\ m.rev <= next
  PROVE  RevsRise(Append(q, m), next)
PROOF
  <1>1. PICK l \in Nat : l = Len(q)
    BY AppendedOne
  <1>2. PICK r \in Seq(Message) : r = Append(q, m)
    BY AppendedOne
  <1>3. DOMAIN q = 1..l /\ DOMAIN r = 1..(l + 1) /\ r[l + 1] = m
        /\ \A i \in 1..l : r[i] = q[i] /\ q[i] \in Message
    BY <1>1, <1>2, AppendedOne
  <1>4. \A i \in 1..l : q[i].type = "patch" => q[i].rev \in Nat
    BY <1>3, MessagePatch
  <1>5. ASSUME NEW i \in 1..(l + 1), r[i].type = "patch"
        PROVE  0 < r[i].rev /\ r[i].rev <= next
    <2>1. CASE i \in 1..l
      BY <1>3, <1>4, <1>5, <2>1 DEF RevsRise
    <2>2. CASE i = l + 1
      BY <1>3, <1>5, <2>2, MessagePatch
    <2> QED BY <2>1, <2>2
  <1>6. ASSUME NEW i \in 1..(l + 1), NEW j \in 1..(l + 1), i < j,
               r[i].type = "patch", r[j].type = "patch"
        PROVE  r[i].rev < r[j].rev
    <2>1. i \in 1..l
      BY <1>6
    <2>2. CASE j \in 1..l
      BY <1>3, <1>6, <2>1, <2>2 DEF RevsRise
    <2>3. CASE j = l + 1
      <3>1. q[i].rev <= rev /\ q[i].rev \in Nat /\ rev < m.rev /\ m.rev \in Nat
        BY <1>3, <1>4, <1>6, <2>1, <2>3, MessagePatch DEF RevsRise
      <3> QED BY <1>3, <2>1, <2>3, <3>1
    <2> QED BY <2>2, <2>3
  <1> QED BY <1>2, <1>3, <1>5, <1>6 DEF RevsRise

LEMMA FreshAppend ==
  ASSUME NEW v \in View, NEW q \in Seq(Message), NEW m \in Message,
         NEW rev \in Nat, NEW next \in Nat, rev <= next, Fresh(v, q, rev),
         m.type = "patch" => rev < m.rev
  PROVE  Fresh(v, Append(q, m), next)
PROOF
  <1>1. PICK l \in Nat : l = Len(q)
    BY AppendedOne
  <1>2. PICK r \in Seq(Message) : r = Append(q, m)
    BY AppendedOne
  <1>3. DOMAIN q = 1..l /\ DOMAIN r = 1..(l + 1) /\ r[l + 1] = m
        /\ \A i \in 1..l : r[i] = q[i] /\ i \in 1..(l + 1)
    BY <1>1, <1>2, AppendedOne
  <1>4. SUFFICES ASSUME NoDocument(r)
                 PROVE  v.rev <= next /\ \A i \in DOMAIN r : r[i].type = "patch" => v.rev < r[i].rev
    BY <1>2 DEF Fresh
  <1>5. NoDocument(q)
    BY <1>3, <1>4 DEF NoDocument
  <1>6. v.rev \in Nat /\ v.rev <= rev /\ \A i \in 1..l : q[i].type = "patch" => v.rev < q[i].rev
    BY <1>3, <1>5 DEF Fresh, View
  <1>7. ASSUME NEW i \in 1..(l + 1), r[i].type = "patch" PROVE v.rev < r[i].rev
    <2>1. CASE i \in 1..l
      BY <1>3, <1>6, <1>7, <2>1
    <2>2. CASE i = l + 1
      BY <1>3, <1>6, <1>7, <2>2, MessagePatch
    <2> QED BY <2>1, <2>2
  <1> QED BY <1>3, <1>6, <1>7

LEMMA RevsTail ==
  ASSUME NEW q \in Seq(Message), NEW rev, q # <<>>, RevsRise(q, rev)
  PROVE  RevsRise(Tail(q), rev)
PROOF
  <1>1. PICK l \in Nat : l = Len(Tail(q))
    BY FirstAndRest
  <1>2. DOMAIN q = 1..(l + 1) /\ DOMAIN Tail(q) = 1..l
        /\ \A i \in 1..l : Tail(q)[i] = q[i + 1] /\ i + 1 \in 1..(l + 1)
    BY <1>1, FirstAndRest
  <1>3. ASSUME NEW i \in 1..l, Tail(q)[i].type = "patch"
        PROVE  0 < Tail(q)[i].rev /\ Tail(q)[i].rev <= rev
    BY <1>2, <1>3 DEF RevsRise
  <1>4. ASSUME NEW i \in 1..l, NEW j \in 1..l, i < j,
               Tail(q)[i].type = "patch", Tail(q)[j].type = "patch"
        PROVE  Tail(q)[i].rev < Tail(q)[j].rev
    <2>1. i + 1 < j + 1
      BY <1>4
    <2> QED BY <1>2, <1>4, <2>1 DEF RevsRise
  <1> QED BY <1>2, <1>3, <1>4 DEF RevsRise

LEMMA FreshTail ==
  ASSUME NEW v \in View, NEW q \in Seq(Message), NEW rev \in Nat, q # <<>>,
         RevsRise(q, rev), Fresh(v, q, rev)
  PROVE  Fresh(Taken(v, Head(q)), Tail(q), rev)
PROOF
  <1>1. PICK l \in Nat : l = Len(Tail(q))
    BY FirstAndRest
  <1>2. DOMAIN q = 1..(l + 1) /\ DOMAIN Tail(q) = 1..l /\ Head(q) = q[1] /\ q[1] \in Message
        /\ \A i \in 1..l : Tail(q)[i] = q[i + 1] /\ i + 1 \in 1..(l + 1) /\ 1 < i + 1
    BY <1>1, FirstAndRest
  <1>3. /\ q[1].type \in {"init", "patch", "update"} /\ v.rev \in Nat
        /\ q[1].type = "patch" => q[1].rev \in Nat
    BY <1>2, MessagePatch DEF View
  <1>4. SUFFICES ASSUME NoDocument(Tail(q))
                 PROVE  /\ Taken(v, q[1]).rev <= rev
                        /\ \A i \in 1..l : q[i + 1].type = "patch" =>
                                             Taken(v, q[1]).rev < q[i + 1].rev
    BY <1>2 DEF Fresh
  <1>5. CASE q[1].type = "init"
    <2>1. Taken(v, q[1]).rev = 0
      BY <1>5 DEF Taken
    <2> QED BY <1>2, <2>1 DEF RevsRise
  <1>6. CASE q[1].type # "init"
    <2>1. \A i \in 1..(l + 1) : i = 1 \/ \E j \in 1..l : i = j + 1
      <3>1. \A i \in 1..(l + 1) : i = 1 \/ (i - 1 \in 1..l /\ i = (i - 1) + 1)
        BY <1>1
      <3> QED BY <3>1
    <2>2. NoDocument(q)
      <3>1. \A j \in 1..l : q[j + 1].type # "init"
        BY <1>2, <1>4 DEF NoDocument
      <3> QED BY <1>2, <1>6, <2>1, <3>1 DEF NoDocument
    <2>3. v.rev <= rev /\ \A i \in 1..(l + 1) : q[i].type = "patch" => v.rev < q[i].rev
      BY <1>2, <2>2 DEF Fresh
    <2>4. CASE q[1].type = "patch"
      <3>1. 1 \in 1..(l + 1) /\ q[1].rev <= rev /\ v.rev < q[1].rev
        BY <1>2, <2>3, <2>4 DEF RevsRise
      <3>2. Taken(v, q[1]).rev = q[1].rev
        BY <1>3, <2>4, <3>1 DEF Taken, View
      <3>3. ASSUME NEW i \in 1..l, q[i + 1].type = "patch" PROVE q[1].rev < q[i + 1].rev
        <4>1. \A a, b \in 1..(l + 1) :
                 a < b /\ q[a].type = "patch" /\ q[b].type = "patch" => q[a].rev < q[b].rev
          BY <1>2 DEF RevsRise
        <4>2. PICK j \in 1..(l + 1) : j = i + 1 /\ 1 < j
          BY <1>2
        <4> QED BY <2>4, <3>1, <3>3, <4>1, <4>2
      <3> QED BY <3>1, <3>2, <3>3
    <2>5. CASE q[1].type = "update"
      <3>1. Taken(v, q[1]).rev = v.rev
        BY <2>5 DEF Taken, View
      <3> QED BY <1>2, <2>3, <3>1
    <2> QED BY <1>3, <1>6, <2>4, <2>5
  <1> QED BY <1>5, <1>6

-----------------------------------------------------------------------------
(* What keeps a copy in step with the session.                             *)

\* A patch that the session applies and sends.
LEMMA InStepBroadcast ==
  ASSUME NEW v \in View, NEW in \in Seq(Message), NEW out \in Seq(Patch), NEW d \in Doc,
         NEW p \in Parts, InStep(v, in, out, d, p),
         NEW m \in Message, m.type # "init"
  PROVE  InStep(v, Append(in, m), out, Apply(d, m.patch), p)
PROOF
  <1>1. m.patch \in Patch /\ d[p] \in Content
    BY MessagePatch DEF Doc
  <1>2. Apply(d, m.patch)[p] = Puts(d[p], m.patch, p)
    BY <1>1, ApplyPuts
  <1>3. ~EditsOn(out, p) => Reads(v, Append(in, m), Apply(d, m.patch)[p], p)
    BY <1>1, <1>2, ReadsAppend DEF InStep
  <1>4. Untouched(Append(in, m), p) => Untouched(in, p) /\ Apply(d, m.patch)[p] = d[p]
    BY <1>2, UntouchedParts DEF Touches, Puts
  <1> QED BY <1>3, <1>4 DEF InStep

\* An own edit that reaches the session when no message about the part is under way.
LEMMA InStepHandled ==
  ASSUME NEW v \in View, NEW in \in Seq(Message), NEW out \in Seq(Patch), NEW d \in Doc,
         NEW p \in Parts, InStep(v, in, out, d, p), out # <<>>,
         Head(out).part # p \/ Untouched(in, p)
  PROVE  InStep(v, in, Tail(out), Apply(d, Head(out)), p)
PROOF
  <1>1. Head(out) \in Patch /\ Tail(out) \in Seq(Patch) /\ d[p] \in Content
    BY FirstAndRest DEF Doc
  <1>2. Apply(d, Head(out))[p] = Puts(d[p], Head(out), p)
        /\ Puts(d[p], Head(out), p) \in Content
    BY <1>1, ApplyPuts, PutsIsContent
  <1>3. Untouched(in, p) => v.known /\ Writes(Apply(d, Head(out))[p], Tail(out), v.doc[p], p)
    BY <1>2, WritesTail DEF InStep
  <1>4. ~EditsOn(Tail(out), p) => Reads(v, in, Apply(d, Head(out))[p], p)
    <2>1. CASE Head(out).part # p
      BY <1>2, <2>1, EditsOnParts DEF InStep, Puts
    <2>2. CASE Untouched(in, p)
      <3>1. ~EditsOn(Tail(out), p) => v.known /\ v.doc[p] = Apply(d, Head(out))[p]
        BY <1>1, <1>2, <1>3, <2>2, WritesNothing
      <3> QED BY <2>2, <3>1, ReadsNothing
    <2> QED BY <2>1, <2>2
  <1> QED BY <1>3, <1>4 DEF InStep

\* A message that is taken when no own edit of the part is under way.
LEMMA InStepReceived ==
  ASSUME NEW v \in View, NEW in \in Seq(Message), NEW out \in Seq(Patch), NEW d \in Doc,
         NEW p \in Parts, InStep(v, in, out, d, p), in # <<>>,
         ~Touches(Head(in), p) \/ ~EditsOn(out, p),
         NoDocument(in) /\ Head(in).type = "patch" => v.rev < Head(in).rev
  PROVE  InStep(Taken(v, Head(in)), Tail(in), out, d, p)
PROOF
  <1>1. Head(in) \in Message /\ Tail(in) \in Seq(Message) /\ d[p] \in Content
    BY FirstAndRest DEF Doc
  <1>2. Taken(v, Head(in)) \in View
    BY <1>1, TakenIsView
  <1>3. ~EditsOn(out, p) => Reads(Taken(v, Head(in)), Tail(in), d[p], p)
    BY ReadsTail DEF InStep
  <1>4. ASSUME Untouched(Tail(in), p)
        PROVE  Taken(v, Head(in)).known /\ Writes(d[p], out, Taken(v, Head(in)).doc[p], p)
    <2>1. CASE ~Touches(Head(in), p)
      <3>1. v.known /\ Writes(d[p], out, v.doc[p], p)
        BY <1>4, <2>1, UntouchedParts DEF InStep
      <3>2. Head(in).type # "init" /\ Head(in).patch.part # p /\ Head(in).patch \in Patch
        BY <1>1, <2>1, MessagePatch DEF Touches
      <3>3. Apply(v.doc, Head(in).patch)[p] = v.doc[p]
        BY <3>2, ApplyPuts DEF Puts, View
      <3>4. Taken(v, Head(in)).known /\ Taken(v, Head(in)).doc[p] = v.doc[p]
        BY <3>1, <3>2, <3>3 DEF Taken, View
      <3> QED BY <3>1, <3>4
    <2>2. CASE ~EditsOn(out, p)
      <3>1. PICK w \in View : w = Taken(v, Head(in))
        BY <1>2
      <3>2. PICK r \in Seq(Message) : r = Tail(in)
        BY <1>1
      <3>3. Reads(w, r, d[p], p) /\ Untouched(r, p)
        BY <1>3, <1>4, <2>2, <3>1, <3>2
      <3>4. w.known /\ w.doc[p] = d[p]
        BY <3>3, ReadsNothing
      <3> QED BY <1>1, <2>2, <3>1, <3>4, WritesNothing
    <2> QED BY <2>1, <2>2
  <1> QED BY <1>3, <1>4 DEF InStep

\* An own edit, made to the copy and sent.
LEMMA InStepEdited ==
  ASSUME NEW v \in View, NEW in \in Seq(Message), NEW out \in Seq(Patch), NEW d \in Doc,
         NEW p \in Parts, InStep(v, in, out, d, p), NEW m \in Patch
  PROVE  InStep([v EXCEPT !.doc = Apply(@, m)], in, Append(out, m), d, p)
PROOF
  <1>1. v.doc \in Doc /\ v.doc[p] \in Content
    BY DEF View, Doc
  <1>2. PICK w \in View : w = [v EXCEPT !.doc = Apply(@, m)]
    BY <1>1, ApplyIsDoc DEF View
  <1>3. w.known = v.known /\ w.doc[p] = Puts(v.doc[p], m, p)
    BY <1>1, <1>2, ApplyPuts DEF View
  <1>4. Untouched(in, p) => w.known /\ Writes(d[p], Append(out, m), w.doc[p], p)
    BY <1>1, <1>3, WritesAppend DEF InStep
  <1>5. ~EditsOn(Append(out, m), p) => Reads(w, in, d[p], p)
    BY <1>3, EditsOnParts, ReadsSame DEF InStep, Puts
  <1> QED BY <1>2, <1>4, <1>5 DEF InStep

\* The document that ends handleOpen.
LEMMA InStepOpened ==
  ASSUME NEW v \in View, NEW in \in Seq(Message), NEW d \in Doc, NEW p \in Parts, NEW out
  PROVE  InStep(v, Append(in, [type |-> "init", doc |-> d]), out, d, p)
PROOF
  <1>1. PICK m \in Message : m = [type |-> "init", doc |-> d]
    BY DEF Message
  <1>2. Reads(v, Append(in, m), d[p], p)
    BY <1>1, ReadsDocument
  <1>3. ~Untouched(Append(in, m), p)
    <2>1. Touches(m, p)
      BY <1>1 DEF Touches
    <2> QED BY <2>1, UntouchedParts
  <1> QED BY <1>1, <1>2, <1>3 DEF InStep

-----------------------------------------------------------------------------
(* Editors a step does not concern.                                        *)

LEMMA CopiesInit == Init => CopiesInvariant
  BY DEF Init, CopiesInvariant, Follows, Quiet, Following, Registered, NotOpening

\* What the types say of one editor and of the session in the map.
LEMMA EditorTypes ==
  ASSUME HubInvariant, NEW c \in Conns
  PROVE  /\ view[c] \in View /\ view[c].rev \in Nat /\ view[c].known \in BOOLEAN
         /\ inbox[c] \in Seq(Message) /\ outbox[c] \in Seq(Patch)
         /\ apart[c] \in SUBSET Parts /\ opening[c] \in OpeningState
         /\ opening[c].pc \in {"idle", "load", "reload", "got", "public"}
         /\ Registered(c) => /\ mapped \in Slots /\ sess[mapped] \in Session
                             /\ sess[mapped].doc \in Doc /\ sess[mapped].rev \in Nat
                             /\ c \in sess[mapped].clients
  BY DEF HubInvariant, TypeOK, View, Session, Registered, OpeningState

\* Nothing of the editor changes, and of the session only what it is told apart.
LEMMA Stays ==
  ASSUME HubInvariant, NEW c \in Conns, Follows(c),
         ws'[c] = ws[c], opening'[c] = opening[c], view'[c] = view[c],
         outbox'[c] = outbox[c], inbox'[c] = inbox[c], mapped' = mapped,
         apart[c] \subseteq apart'[c],
         mapped # 0 =>
            /\ c \in sess'[mapped].clients <=> c \in sess[mapped].clients
            /\ sess'[mapped].rev = sess[mapped].rev
            /\ c \in sess[mapped].clients =>
                  \A p \in Parts \ apart'[c] : sess'[mapped].doc[p] = sess[mapped].doc[p]
  PROVE  Follows(c)'
PROOF
  <1>1. Registered(c)' <=> Registered(c)
    BY DEF Registered
  <1>2. Quiet(c)'
    BY <1>1 DEF Follows, Quiet
  <1>3. ASSUME Following(c)'
        PROVE  /\ RevsRise(inbox[c], sess[mapped].rev)'
               /\ opening'[c].pc = "idle" => Fresh(view[c], inbox[c], sess[mapped].rev)'
    BY <1>1, <1>3 DEF Follows, Following, Registered, RevsRise, Fresh, NoDocument
  <1>4. ASSUME Following(c)', opening'[c].pc = "idle", NEW p \in Parts \ apart'[c]
        PROVE  InStep(view[c], inbox[c], outbox[c], sess[mapped].doc, p)'
    <2>1. InStep(view[c], inbox[c], outbox[c], sess[mapped].doc, p)
      BY <1>1, <1>4 DEF Follows, Following
    <2>2. sess'[mapped'].doc[p] = sess[mapped].doc[p]
      BY <1>1, <1>4 DEF Following, Registered
    <2> QED BY <2>1, <2>2 DEF InStep
  <1> QED BY <1>2, <1>3, <1>4 DEF Follows

\* The session in the map is gone, or another one that no client knows.
LEMMA Dropped ==
  ASSUME NEW c \in Conns, Follows(c), ~Registered(c)',
         ws'[c] = ws[c], opening'[c] = opening[c], view'[c] = view[c],
         outbox'[c] = outbox[c], inbox'[c] = inbox[c]
  PROVE  Follows(c)'
PROOF
  <1>1. Quiet(c)'
    BY DEF Follows, Quiet
  <1> QED BY <1>1 DEF Follows, Following

\* The session takes a patch and sends it to the editor.
LEMMA Told ==
  ASSUME HubInvariant, NEW c \in Conns, Follows(c),
         mapped # 0, mapped' = mapped, NEW m \in Patch,
         ws'[c] = ws[c], opening'[c] = opening[c], view'[c] = view[c],
         outbox'[c] = outbox[c], apart[c] \subseteq apart'[c],
         inbox'[c] = IF c \in sess[mapped].clients /\ ws[c] = "open"
                     THEN Append(inbox[c], Broadcast(mapped, m)) ELSE inbox[c],
         sess'[mapped].clients = sess[mapped].clients,
         sess'[mapped].rev = NextRev(mapped, m.part),
         sess'[mapped].doc = Apply(sess[mapped].doc, m)
  PROVE  Follows(c)'
PROOF
  <1>1. Registered(c)' <=> Registered(c)
    BY DEF Registered
  <1>2. CASE ~Following(c)
    <2>1. inbox'[c] = inbox[c]
      BY <1>2 DEF Following, Registered
    <2>2. Quiet(c)' /\ ~Following(c)'
      BY <1>1, <1>2, <2>1 DEF Follows, Quiet, Following
    <2> QED BY <2>2 DEF Follows
  <1>3. CASE Following(c)
    <2>1. /\ mapped \in Slots /\ sess[mapped].doc \in Doc /\ sess[mapped].rev \in Nat
          /\ c \in sess[mapped].clients /\ ws[c] = "open"
      BY <1>3, EditorTypes DEF Following
    <2>2. PICK msg \in Message : msg = Broadcast(mapped, m)
      BY <2>1, BroadcastIsMessage DEF HubInvariant, TypeOK
    <2>3. /\ msg.type # "init" /\ msg.patch = m
          /\ msg.type = "patch" => msg.rev = sess[mapped].rev + 1
                                   /\ sess'[mapped].rev = sess[mapped].rev + 1
          /\ sess'[mapped].rev \in Nat /\ sess[mapped].rev <= sess'[mapped].rev
      BY <2>1, <2>2 DEF Broadcast, NextRev
    <2>4. inbox'[c] = Append(inbox[c], msg)
      BY <2>1, <2>2
    <2>5. /\ RevsRise(Append(inbox[c], msg), sess'[mapped].rev)
          /\ opening[c].pc = "idle" =>
                Fresh(view[c], Append(inbox[c], msg), sess'[mapped].rev)
      <3>1. /\ RevsRise(inbox[c], sess[mapped].rev)
            /\ opening[c].pc = "idle" => Fresh(view[c], inbox[c], sess[mapped].rev)
        BY <1>3 DEF Follows
      <3>2. msg.type = "patch" => sess[mapped].rev < msg.rev /\ msg.rev <= sess'[mapped].rev
        BY <2>1, <2>3
      <3>3. PICK next \in Nat : next = sess'[mapped].rev
        BY <2>3
      <3>4. RevsRise(Append(inbox[c], msg), next)
        BY <2>1, <2>3, <3>1, <3>2, <3>3, EditorTypes, RevsAppend
      <3>5. opening[c].pc = "idle" => Fresh(view[c], Append(inbox[c], msg), next)
        BY <2>1, <2>3, <3>1, <3>2, <3>3, EditorTypes, FreshAppend
      <3> QED BY <3>3, <3>4, <3>5
    <2>6. ASSUME opening[c].pc = "idle", NEW p \in Parts \ apart'[c]
          PROVE  InStep(view[c], inbox[c], outbox[c], sess[mapped].doc, p)'
      <3>1. InStep(view[c], inbox[c], outbox[c], sess[mapped].doc, p)
        BY <1>3, <2>6 DEF Follows
      <3>2. InStep(view[c], Append(inbox[c], msg), outbox[c], Apply(sess[mapped].doc, msg.patch), p)
        BY <2>1, <2>3, <2>6, <3>1, EditorTypes, InStepBroadcast
      <3> QED BY <2>3, <2>4, <3>2
    <2>7. Quiet(c)'
      <3>1. opening[c].pc \notin {"load", "reload", "got"}
        BY <1>3 DEF Follows, Quiet, Following
      <3> QED BY <1>1, <2>1, <3>1 DEF Follows, Quiet
    <2> QED BY <2>4, <2>5, <2>6, <2>7 DEF Follows
  <1> QED BY <1>2, <1>3

-----------------------------------------------------------------------------
(* Connecting.                                                             *)

LEMMA OpenFollows ==
  ASSUME HubInvariant, CopiesInvariant, NEW b \in Conns, Open(b), NEW c \in Conns
  PROVE  Follows(c)'
PROOF
  <1>1. Follows(c)
    BY DEF CopiesInvariant
  <1>2. CASE c # b
    BY <1>1, <1>2, Stays DEF Open, HubInvariant, TypeOK
  <1>3. CASE c = b
    <2>1. inbox[c] = <<>> /\ ~Registered(c) /\ ws[c] = "closed"
      BY <1>1, <1>3 DEF Follows, Quiet, Open
    <2>2. /\ inbox'[c] = <<>> /\ ~Registered(c)' /\ ws'[c] = "open"
          /\ opening'[c].pc \in {"load", "reload"}
      BY <1>3, <2>1 DEF Open, Registered, HubInvariant, TypeOK, NotOpening
    <2>3. Quiet(c)'
      BY <2>2 DEF Quiet
    <2> QED BY <2>2, <2>3 DEF Follows, Following
  <1> QED BY <1>2, <1>3

\* A session that has just been loaded has no clients.
LEMMA NoClients ==
  ASSUME HubInvariant, Free # {}, sess' = [sess EXCEPT ![FreeSlot] = NewSession(store)],
         mapped' = FreeSlot, NEW c \in Conns
  PROVE  ~Registered(c)'
PROOF
  <1>1. FreeSlot \in Slots
    BY FreeSlotIsSlot
  <1>2. sess'[mapped'].clients = {}
    BY <1>1 DEF HubInvariant, TypeOK, NewSession
  <1> QED BY <1>2 DEF Registered

LEMMA OpenLoadedFollows ==
  ASSUME HubInvariant, CopiesInvariant, NEW b \in Conns, OpenLoaded(b), NEW c \in Conns
  PROVE  Follows(c)'
PROOF
  <1>1. Follows(c) /\ ~Registered(c)'
    BY NoClients DEF CopiesInvariant, OpenLoaded
  <1>2. CASE c # b
    BY <1>1, <1>2, Dropped DEF OpenLoaded, HubInvariant, TypeOK
  <1>3. CASE c = b
    <2>1. opening[c].pc = "load" /\ opening'[c].pc = "reload"
          /\ UNCHANGED <<ws, view, outbox, inbox>>
      BY <1>3 DEF OpenLoaded, HubInvariant, TypeOK, OpeningState
    <2>2. Quiet(c)'
      BY <1>1, <2>1 DEF Follows, Quiet
    <2> QED BY <1>1, <2>2 DEF Follows, Following
  <1> QED BY <1>2, <1>3

LEMMA ReloadReadFollows ==
  ASSUME HubInvariant, CopiesInvariant, NEW b \in Conns, ReloadRead(b), NEW c \in Conns
  PROVE  Follows(c)'
PROOF
  <1>1. Follows(c)
    BY DEF CopiesInvariant
  <1>2. CASE c # b
    BY <1>1, <1>2, Stays DEF ReloadRead, HubInvariant, TypeOK
  <1>3. CASE c = b
    <2>1. opening[c].pc = "reload" /\ opening'[c].pc = "got"
          /\ UNCHANGED <<ws, view, outbox, inbox, sess, mapped>>
      BY <1>3 DEF ReloadRead, HubInvariant, TypeOK, OpeningState
    <2>2. Quiet(c)' /\ ~Registered(c)'
      BY <1>1, <2>1 DEF Follows, Quiet, Registered
    <2> QED BY <2>2 DEF Follows, Following
  <1> QED BY <1>2, <1>3

LEMMA RegisterFollows ==
  ASSUME HubInvariant, CopiesInvariant, NEW b \in Conns, Register(b), NEW c \in Conns
  PROVE  Follows(c)'
PROOF
  <1>1. Follows(c)
    BY DEF CopiesInvariant
  <1>2. PICK s \in Slots : s = opening[b].sid
    BY DEF Register, HubInvariant, SessionsKnown
  <1>3. \A r \in Slots :
           /\ sess'[r].rev = sess[r].rev
           /\ sess'[r].clients = IF r = s THEN sess[r].clients \cup {b} ELSE sess[r].clients
           /\ sess'[r].doc = IF r = s THEN opening[b].got ELSE sess[r].doc
    BY <1>2 DEF Register, HubInvariant, TypeOK, Session
  <1>4. mapped # 0 => mapped \in Slots
    BY DEF HubInvariant, TypeOK
  <1>5. apart'[c] = IF c \in sess[s].clients
                    THEN apart[c] \cup {p \in Parts : sess[s].doc[p] # opening[b].got[p]}
                    ELSE apart[c]
    BY <1>2 DEF Register, Unannounced
  <1>6. CASE c # b
    <2>1. opening'[c] = opening[c] /\ UNCHANGED <<ws, view, outbox, inbox, mapped>>
      BY <1>6 DEF Register, HubInvariant, TypeOK
    <2>2. mapped # 0 =>
            /\ c \in sess'[mapped].clients <=> c \in sess[mapped].clients
            /\ sess'[mapped].rev = sess[mapped].rev
            /\ c \in sess[mapped].clients =>
                  \A p \in Parts \ apart'[c] : sess'[mapped].doc[p] = sess[mapped].doc[p]
      BY <1>3, <1>4, <1>5, <1>6
    <2> QED BY <1>1, <1>5, <2>1, <2>2, Stays
  <1>7. CASE c = b
    <2>1. /\ opening[c].pc = "got" /\ opening'[c].pc = "public" /\ opening'[c].sid = s
          /\ UNCHANGED <<ws, view, outbox, inbox, mapped>>
      BY <1>2, <1>7 DEF Register, HubInvariant, TypeOK, OpeningState
    <2>2. ~Registered(c) /\ inbox[c] = <<>>
      BY <1>1, <2>1 DEF Follows, Quiet
    <2>3. Registered(c)' => mapped' = s /\ sess'[s].rev \in Nat
      BY ZenonT(30), <1>2, <1>3, <1>4, <2>1, <2>2 DEF Registered, HubInvariant, TypeOK, Session
    <2>4. Quiet(c)'
      BY <1>1, <2>1, <2>2, <2>3 DEF Follows, Quiet
    <2>5. Following(c)' => RevsRise(inbox[c], sess[mapped].rev)'
      BY <2>1, <2>2 DEF RevsRise
    <2> QED BY <2>1, <2>4, <2>5 DEF Follows
  <1> QED BY <1>6, <1>7

LEMMA SendInitFollows ==
  ASSUME HubInvariant, CopiesInvariant, NEW b \in Conns, SendInit(b), NEW c \in Conns
  PROVE  Follows(c)'
PROOF
  <1>1. Follows(c)
    BY DEF CopiesInvariant
  <1>2. CASE c # b
    BY <1>1, <1>2, Stays DEF SendInit, HubInvariant, TypeOK
  <1>3. CASE c = b
    <2>1. PICK d \in Doc : d = sess[opening[c].sid].doc
      BY <1>3 DEF SendInit, HubInvariant, SessionsKnown, TypeOK, Session
    <2>2. PICK m \in Message : m = [type |-> "init", doc |-> d]
      BY DEF Message
    <2>3. /\ opening[c].pc = "public" /\ opening'[c].pc = "idle"
          /\ inbox'[c] = IF ws[c] = "open" THEN Append(inbox[c], m) ELSE inbox[c]
          /\ UNCHANGED <<ws, view, outbox, sess, mapped>>
      BY <1>3, <2>1, <2>2 DEF SendInit, HubInvariant, TypeOK, NotOpening
    <2>4. Registered(c)' <=> Registered(c)
      BY <2>3 DEF Registered
    <2>5. Quiet(c)'
      BY <1>1, <2>3 DEF Follows, Quiet
    <2>6. ASSUME Following(c)'
          PROVE  /\ RevsRise(inbox[c], sess[mapped].rev)'
                 /\ Fresh(view[c], inbox[c], sess[mapped].rev)'
                 /\ \A p \in Parts : InStep(view[c], inbox[c], outbox[c], sess[mapped].doc, p)'
      <3>1. Following(c) /\ inbox'[c] = Append(inbox[c], m)
            /\ sess[mapped].doc = d /\ sess[mapped].rev \in Nat
        BY <1>1, <2>1, <2>3, <2>4, <2>6, EditorTypes DEF Follows, Quiet, Following
      <3>2. RevsRise(Append(inbox[c], m), sess[mapped].rev)
        BY <1>1, <2>2, <3>1, EditorTypes, RevsAppend DEF Follows
      <3>3. ~NoDocument(Append(inbox[c], m))
        <4>1. PICK q \in Seq(Message) : q = inbox[c]
          BY EditorTypes
        <4>2. Append(q, m)[Len(q) + 1] = m /\ Len(q) + 1 \in DOMAIN Append(q, m)
          BY AppendedOne
        <4> QED BY <2>2, <4>1, <4>2 DEF NoDocument
      <3>4. \A p \in Parts : InStep(view[c], Append(inbox[c], m), outbox[c], d, p)
        BY <2>2, EditorTypes, InStepOpened
      <3> QED BY <2>3, <3>1, <3>2, <3>3, <3>4 DEF Fresh
    <2> QED BY <2>5, <2>6 DEF Follows
  <1> QED BY <1>2, <1>3

-----------------------------------------------------------------------------
(* The editor.                                                             *)

LEMMA EditFollows ==
  ASSUME HubInvariant, CopiesInvariant, NEW b \in Conns, Edit(b), NEW c \in Conns
  PROVE  Follows(c)'
PROOF
  <1>1. Follows(c)
    BY DEF CopiesInvariant
  <1>2. CASE c # b
    BY <1>1, <1>2, Stays DEF Edit, HubInvariant, TypeOK
  <1>3. CASE c = b
    <2>1. PICK p \in Parts, remove \in BOOLEAN :
             LET m == PatchOf(view[c].doc, p, used.edits + 1, remove) IN
             /\ outbox' = [outbox EXCEPT ![c] = Append(@, m)]
             /\ view' = [view EXCEPT ![c].doc = Apply(@, m)]
      BY <1>3 DEF Edit
    <2>2. PatchOf(view[c].doc, p, used.edits + 1, remove) \in Patch
      <3>1. view[c].doc \in Doc
        BY EditorTypes DEF View
      <3>2. used.edits + 1 \in Edits
        BY <1>3, UsageGrows DEF Edit, HubInvariant, TypeOK
      <3> QED BY <3>1, <3>2, EditIsPatch
    <2>3. PICK m \in Patch : m = PatchOf(view[c].doc, p, used.edits + 1, remove)
      BY <2>2
    <2>4. /\ outbox'[c] = Append(outbox[c], m)
          /\ view'[c] = [view[c] EXCEPT !.doc = Apply(@, m)]
      BY <2>1, <2>3, EditorTypes DEF HubInvariant, TypeOK, View
    <2>5. /\ ws[c] = "open" /\ view[c].known
          /\ UNCHANGED <<sess, mapped, ws, opening, inbox, apart>>
      BY <1>3 DEF Edit
    <2>7. Registered(c)' <=> Registered(c)
      BY <2>5 DEF Registered
    <2>8. Quiet(c)'
      BY <1>1, <2>5, <2>7 DEF Follows, Quiet
    <2>9. view'[c].rev = view[c].rev
      BY <2>4, EditorTypes DEF View
    <2>10. ASSUME Following(c)'
           PROVE  /\ RevsRise(inbox[c], sess[mapped].rev)'
                  /\ opening'[c].pc = "idle" => Fresh(view[c], inbox[c], sess[mapped].rev)'
      BY <1>1, <2>5, <2>7, <2>9, <2>10
      DEF Follows, Following, RevsRise, Fresh, NoDocument
    <2>11. ASSUME Following(c)', opening'[c].pc = "idle", NEW r \in Parts \ apart'[c]
           PROVE  InStep(view[c], inbox[c], outbox[c], sess[mapped].doc, r)'
      <3>1. Following(c) /\ InStep(view[c], inbox[c], outbox[c], sess[mapped].doc, r)
        BY <1>1, <2>5, <2>7, <2>11 DEF Follows, Following
      <3>2. sess[mapped].doc \in Doc
        BY <3>1, EditorTypes DEF Following
      <3>3. InStep([view[c] EXCEPT !.doc = Apply(@, m)], inbox[c], Append(outbox[c], m),
                   sess[mapped].doc, r)
        BY <3>1, <3>2, EditorTypes, InStepEdited
      <3> QED BY <2>4, <2>5, <3>3
    <2> QED BY <2>8, <2>10, <2>11 DEF Follows
  <1> QED BY <1>2, <1>3

LEMMA ReceiveFollows ==
  ASSUME HubInvariant, CopiesInvariant, NEW b \in Conns, Receive(b), NEW c \in Conns
  PROVE  Follows(c)'
PROOF
  <1>1. Follows(c)
    BY DEF CopiesInvariant
  <1>2. CASE c # b
    BY <1>1, <1>2, Stays DEF Receive, HubInvariant, TypeOK
  <1>3. CASE c = b
    <2>1. PICK q \in Seq(Message) : q = inbox[c]
      BY EditorTypes
    <2>2. PICK m \in Message : m = Head(q) /\ q # <<>> /\ m = q[1] /\ 1 \in DOMAIN q
      BY <1>3, <2>1, FirstAndRest DEF Receive
    <2>3. /\ inbox'[c] = Tail(q)
          /\ view'[c] = Taken(view[c], m)
          /\ apart'[c] = apart[c] \cup {p \in Parts : Touches(m, p) /\ EditsOn(outbox[c], p)}
          /\ UNCHANGED <<sess, mapped, ws, opening, outbox>>
      BY <1>3, <2>1, <2>2 DEF Receive, HubInvariant, TypeOK
    <2>4. ws[c] = "open"
      BY <1>1, <2>1, <2>2 DEF Follows, Quiet
    <2>5. Registered(c)' <=> Registered(c)
      BY <2>3 DEF Registered
    <2>6. Quiet(c)'
      <3>1. opening[c].pc \notin {"load", "reload", "got"}
        BY <1>1, <2>1, <2>2 DEF Follows, Quiet
      <3> QED BY <1>1, <2>3, <2>4, <2>5, <3>1 DEF Follows, Quiet
    <2>7. ASSUME Following(c)'
          PROVE  /\ RevsRise(inbox[c], sess[mapped].rev)'
                 /\ opening'[c].pc = "idle" => Fresh(view[c], inbox[c], sess[mapped].rev)'
      <3>1. Following(c) /\ sess[mapped].rev \in Nat
        BY <2>3, <2>5, <2>7, EditorTypes DEF Following
      <3>2. /\ RevsRise(q, sess[mapped].rev)
            /\ opening[c].pc = "idle" => Fresh(view[c], q, sess[mapped].rev)
        BY <1>1, <2>1, <3>1 DEF Follows
      <3>3. RevsRise(Tail(q), sess[mapped].rev)
        BY <2>2, <3>2, RevsTail
      <3>4. opening[c].pc = "idle" => Fresh(Taken(view[c], Head(q)), Tail(q), sess[mapped].rev)
        BY <2>2, <3>1, <3>2, EditorTypes, FreshTail
      <3> QED BY <2>2, <2>3, <3>3, <3>4
    <2>8. ASSUME Following(c)', opening'[c].pc = "idle", NEW p \in Parts \ apart'[c]
          PROVE  InStep(view[c], inbox[c], outbox[c], sess[mapped].doc, p)'
      <3>1. Following(c) /\ sess[mapped].doc \in Doc
        BY <2>3, <2>5, <2>8, EditorTypes DEF Following
      <3>2. InStep(view[c], q, outbox[c], sess[mapped].doc, p)
        BY <1>1, <2>1, <2>3, <2>8, <3>1 DEF Follows
      <3>3. ~Touches(Head(q), p) \/ ~EditsOn(outbox[c], p)
        BY <2>2, <2>3, <2>8
      <3>4. NoDocument(q) /\ Head(q).type = "patch" => view[c].rev < Head(q).rev
        BY <1>1, <2>1, <2>2, <2>3, <2>8, <3>1 DEF Follows, Fresh
      <3>5. InStep(Taken(view[c], Head(q)), Tail(q), outbox[c], sess[mapped].doc, p)
        BY <2>2, <2>8, <3>1, <3>2, <3>3, <3>4, EditorTypes, InStepReceived
      <3> QED BY <2>2, <2>3, <3>5
    <2> QED BY <2>6, <2>7, <2>8 DEF Follows
  <1> QED BY <1>2, <1>3

\* A connection that ends, from either side.
LEMMA ClosingFollows ==
  ASSUME NEW c \in Conns, Follows(c), ws'[c] = "closing",
         inbox'[c] = <<>>, opening'[c] \in {opening[c], NotOpening},
         Registered(c)' => Registered(c) /\ mapped' = mapped
  PROVE  Follows(c)'
PROOF
  <1>1. Quiet(c)'
    BY DEF Follows, Quiet, NotOpening
  <1> QED BY <1>1 DEF Follows, Following

LEMMA OpenFailsFollows ==
  ASSUME HubInvariant, CopiesInvariant, NEW b \in Conns, OpenFails(b), NEW c \in Conns
  PROVE  Follows(c)'
PROOF
  <1>1. Follows(c)
    BY DEF CopiesInvariant
  <1>2. CASE c # b
    BY <1>1, <1>2, Stays DEF OpenFails, HubInvariant, TypeOK
  <1>3. CASE c = b /\ ws[b] = "open"
    BY <1>1, <1>3, ClosingFollows DEF OpenFails, HubInvariant, TypeOK, Registered
  <1>4. CASE c = b /\ ws[b] # "open"
    <2>1. /\ ws'[c] # "open" /\ opening'[c].pc = "idle"
          /\ UNCHANGED <<ws, inbox, sess, mapped>>
      BY <1>4 DEF OpenFails, HubInvariant, TypeOK, NotOpening
    <2>2. Quiet(c)'
      BY <1>1, <1>4, <2>1 DEF Follows, Quiet
    <2> QED BY <2>1, <2>2 DEF Follows, Following
  <1> QED BY <1>2, <1>3, <1>4

LEMMA DisconnectFollows ==
  ASSUME HubInvariant, CopiesInvariant, NEW b \in Conns, Disconnect(b), NEW c \in Conns
  PROVE  Follows(c)'
PROOF
  <1>1. Follows(c)
    BY DEF CopiesInvariant
  <1>2. CASE c # b
    BY <1>1, <1>2, Stays DEF Disconnect, HubInvariant, TypeOK
  <1>3. CASE c = b
    BY <1>1, <1>3, ClosingFollows DEF Disconnect, HubInvariant, TypeOK, Registered
  <1> QED BY <1>2, <1>3

-----------------------------------------------------------------------------
(* The hub.                                                                *)

LEMMA HandleEditFollows ==
  ASSUME HubInvariant, CopiesInvariant, NEW b \in Conns, HandleEdit(b), NEW c \in Conns
  PROVE  Follows(c)'
PROOF
  <1>1. Follows(c)
    BY DEF CopiesInvariant
  <1>2. PICK q \in Seq(Patch) : q = outbox[b] /\ q # <<>>
    BY EditorTypes DEF HandleEdit
  <1>3. PICK m \in Patch : m = Head(q)
    BY <1>2, FirstAndRest
  <1>4. /\ Registered(b) /\ mapped # 0 /\ mapped \in Slots
        /\ UNCHANGED <<mapped, ws, opening, view>>
    BY DEF HandleEdit, Registered, HubInvariant, TypeOK
  <1>5. /\ sess'[mapped].doc = Apply(sess[mapped].doc, m)
        /\ sess'[mapped].rev = NextRev(mapped, m.part)
        /\ sess'[mapped].clients = sess[mapped].clients
    BY <1>2, <1>3, <1>4 DEF HandleEdit, HubInvariant, TypeOK, Session
  <1>6. CASE c # b
    <2>1. /\ outbox'[c] = outbox[c] /\ apart'[c] = apart[c]
          /\ inbox'[c] = IF c \in sess[mapped].clients /\ ws[c] = "open"
                         THEN Append(inbox[c], Broadcast(mapped, m)) ELSE inbox[c]
      BY <1>2, <1>3, <1>6 DEF HandleEdit, Sent, HubInvariant, TypeOK
    <2> QED BY <1>1, <1>4, <1>5, <2>1, Told
  <1>7. CASE c = b
    <2>1. /\ outbox'[c] = Tail(q) /\ inbox'[c] = inbox[c]
          /\ apart'[c] = apart[c] \cup
                {p \in {m.part} : \E i \in DOMAIN inbox[c] : Touches(inbox[c][i], p)}
      BY <1>2, <1>3, <1>7 DEF HandleEdit, Sent, HubInvariant, TypeOK
    <2>2. Registered(c) /\ Registered(c)'
      BY <1>4, <1>5, <1>7 DEF Registered
    <2>3. /\ sess[mapped].rev \in Nat /\ sess'[mapped].rev \in Nat
          /\ sess[mapped].rev <= sess'[mapped].rev /\ sess[mapped].doc \in Doc
      BY <1>4, <1>5, <2>2, EditorTypes DEF NextRev
    <2>4. Quiet(c)'
      BY <1>1, <1>4, <2>1, <2>2 DEF Follows, Quiet
    <2>5. ASSUME Following(c)'
          PROVE  /\ RevsRise(inbox[c], sess[mapped].rev)'
                 /\ opening'[c].pc = "idle" => Fresh(view[c], inbox[c], sess[mapped].rev)'
      <3>1. /\ RevsRise(inbox[c], sess[mapped].rev)
            /\ opening[c].pc = "idle" => Fresh(view[c], inbox[c], sess[mapped].rev)
        BY <1>1, <1>4, <2>2, <2>5 DEF Follows, Following
      <3>2. view[c].rev \in Nat
        BY EditorTypes
      <3>3. \A i \in DOMAIN inbox[c] : inbox[c][i].type = "patch" => inbox[c][i].rev \in Nat
        BY EditorTypes, MessagePatch
      <3> QED BY <1>4, <2>1, <2>3, <3>1, <3>2, <3>3 DEF RevsRise, Fresh, NoDocument
    <2>6. ASSUME Following(c)', opening'[c].pc = "idle", NEW p \in Parts \ apart'[c]
          PROVE  InStep(view[c], inbox[c], outbox[c], sess[mapped].doc, p)'
      <3>1. InStep(view[c], inbox[c], q, sess[mapped].doc, p)
        BY <1>1, <1>2, <1>4, <1>7, <2>1, <2>2, <2>6 DEF Follows, Following
      <3>2. Head(q).part # p \/ Untouched(inbox[c], p)
        BY <1>3, <2>1, <2>6 DEF Untouched
      <3>3. InStep(view[c], inbox[c], Tail(q), Apply(sess[mapped].doc, Head(q)), p)
        BY <1>2, <2>3, <2>6, <3>1, <3>2, EditorTypes, InStepHandled
      <3> QED BY <1>3, <1>4, <1>5, <2>1, <3>3
    <2> QED BY <2>4, <2>5, <2>6 DEF Follows
  <1> QED BY <1>6, <1>7

LEMMA UnknownFollows ==
  ASSUME HubInvariant, CopiesInvariant, NEW b \in Conns,
         HandleUnknown(b) \/ HandleUnmapped(b), NEW c \in Conns
  PROVE  Follows(c)'
PROOF
  <1>1. Follows(c)
    BY DEF CopiesInvariant
  <1>2. CASE HandleUnknown(b) /\ c # b
    BY <1>1, <1>2, Stays DEF HandleUnknown, CloseUnknown, HubInvariant, TypeOK
  <1>3. CASE HandleUnknown(b) /\ c = b
    BY <1>1, <1>3, ClosingFollows
    DEF HandleUnknown, CloseUnknown, HubInvariant, TypeOK, Registered
  <1>4. CASE HandleUnmapped(b)
    BY <1>1, <1>4, Stays DEF HandleUnmapped
  <1> QED BY <1>2, <1>3, <1>4

LEMMA StrayLoadedFollows ==
  ASSUME HubInvariant, CopiesInvariant, NEW b \in Conns, StrayLoaded(b), NEW c \in Conns
  PROVE  Follows(c)'
PROOF
  <1>1. Follows(c) /\ ~Registered(c)'
    BY NoClients DEF CopiesInvariant, StrayLoaded
  <1>2. CASE c # b
    BY <1>1, <1>2, Dropped DEF StrayLoaded, CloseUnknown, HubInvariant, TypeOK
  <1>3. CASE c = b
    BY <1>1, <1>3, ClosingFollows DEF StrayLoaded, CloseUnknown, HubInvariant, TypeOK
  <1> QED BY <1>2, <1>3

LEMMA StrayFailsFollows ==
  ASSUME HubInvariant, CopiesInvariant, NEW b \in Conns, StrayFails(b), NEW c \in Conns
  PROVE  Follows(c)'
PROOF
  <1>1. Follows(c)
    BY DEF CopiesInvariant
  <1>2. CASE c # b
    BY <1>1, <1>2, Stays DEF StrayFails, CloseUnknown, HubInvariant, TypeOK
  <1>3. CASE c = b
    BY <1>1, <1>3, ClosingFollows DEF StrayFails, CloseUnknown, HubInvariant, TypeOK, Registered
  <1> QED BY <1>2, <1>3

LEMMA HandleCloseFollows ==
  ASSUME HubInvariant, CopiesInvariant, NEW b \in Conns, HandleClose(b), NEW c \in Conns
  PROVE  Follows(c)'
PROOF
  <1>1. Follows(c)
    BY DEF CopiesInvariant
  <1>2. /\ ws[b] = "closing" /\ outbox[b] = <<>>
        /\ ws' = [ws EXCEPT ![b] = "closed"] /\ apart' = [apart EXCEPT ![b] = {}]
        /\ UNCHANGED <<opening, view, outbox, inbox>>
    BY DEF HandleClose
  <1>3. mapped # 0 => mapped \in Slots
    BY DEF HubInvariant, TypeOK
  <1>4. \/ mapped' = 0
        \/ /\ mapped' = mapped
           /\ mapped # 0 => /\ sess'[mapped].clients = sess[mapped].clients \ {b}
                            /\ sess'[mapped].doc = sess[mapped].doc
                            /\ sess'[mapped].rev = sess[mapped].rev
    <2>1. CASE mapped # 0 /\ sess[mapped].clients \subseteq {b}
      BY <2>1 DEF HandleClose
    <2>2. CASE ~(mapped # 0 /\ sess[mapped].clients \subseteq {b})
      <3>1. /\ mapped' = mapped
            /\ sess' = [s \in Slots |-> IF s = mapped
                            THEN [sess[s] EXCEPT !.clients = @ \ {b}] ELSE sess[s]]
        BY <2>2 DEF HandleClose
      <3>2. mapped # 0 => sess[mapped] \in Session
        BY <1>3 DEF HubInvariant, TypeOK
      <3> QED BY <1>3, <3>1, <3>2 DEF Session
    <2> QED BY <2>1, <2>2
  <1>5. CASE c # b
    <2>1. ws'[c] = ws[c] /\ apart'[c] = apart[c]
      BY <1>2, <1>5 DEF HubInvariant, TypeOK
    <2>2. CASE mapped' = 0
      BY <1>1, <1>2, <2>1, <2>2, Dropped DEF Registered
    <2>3. CASE mapped' # 0
      BY <1>1, <1>2, <1>4, <1>5, <2>1, <2>3, Stays
    <2> QED BY <2>2, <2>3
  <1>6. CASE c = b
    <2>1. ws'[c] = "closed" /\ ~Registered(c)'
      BY <1>2, <1>4, <1>6 DEF Registered, HubInvariant, TypeOK
    <2>2. Quiet(c)'
      BY <1>1, <1>2, <1>6, <2>1 DEF Follows, Quiet
    <2> QED BY <2>1, <2>2 DEF Follows, Following
  <1> QED BY <1>5, <1>6

\* Saves and reads leave the editors, and the documents of the sessions, alone.
LEMMA SavingFollows ==
  ASSUME HubInvariant, CopiesInvariant, NEW c \in Conns,
         \/ \E s \in Slots : TimerFires(s)
         \/ SaveRow \/ SaveNodes \/ SaveFails \/ ServerRead \/ ServerSave \/ ServerFails
         \/ PutRead \/ PutSave \/ UNCHANGED vars
  PROVE  Follows(c)'
PROOF
  <1>1. Follows(c)
    BY DEF CopiesInvariant
  <1>2. ASSUME NEW s \in Slots, TimerFires(s) PROVE Follows(c)'
    <2>1. \A r \in Slots : /\ sess'[r].clients = sess[r].clients
                           /\ sess'[r].rev = sess[r].rev /\ sess'[r].doc = sess[r].doc
      BY <1>2 DEF TimerFires, HubInvariant, TypeOK, Session
    <2>2. mapped # 0 => mapped \in Slots
      BY DEF HubInvariant, TypeOK
    <2> QED BY <1>1, <1>2, <2>1, <2>2, Stays DEF TimerFires
  <1>3. CASE SaveRow
    BY <1>1, <1>3, Stays DEF SaveRow
  <1>4. CASE SaveNodes
    BY <1>1, <1>4, Stays DEF SaveNodes
  <1>5. CASE SaveFails
    BY <1>1, <1>5, Stays DEF SaveFails
  <1>6. CASE ServerRead
    BY <1>1, <1>6, Stays DEF ServerRead
  <1>7. CASE ServerSave
    BY <1>1, <1>7, Stays DEF ServerSave
  <1>8. CASE ServerFails
    BY <1>1, <1>8, Stays DEF ServerFails
  <1>9. CASE PutRead
    BY <1>1, <1>9, Stays DEF PutRead
  <1>10. CASE PutSave
    BY <1>1, <1>10, Stays DEF PutSave
  <1>11. CASE UNCHANGED vars
    BY <1>1, <1>11, Stays DEF vars
  <1> QED BY <1>2, <1>3, <1>4, <1>5, <1>6, <1>7, <1>8, <1>9, <1>10, <1>11

LEMMA ServerSendFollows ==
  ASSUME HubInvariant, CopiesInvariant, ServerSend, NEW c \in Conns
  PROVE  Follows(c)'
PROOF
  <1>1. Follows(c)
    BY DEF CopiesInvariant
  <1>2. UNCHANGED <<mapped, ws, opening, view, outbox, apart>>
    BY DEF ServerSend
  <1>3. CASE mapped # 0 /\ sess[mapped].doc[server.node].here
    <2>1. mapped \in Slots
      BY <1>3 DEF HubInvariant, TypeOK
    <2>2. PICK m \in Patch : m = [op |-> "update", part |-> server.node,
                                  content |-> server.got[server.node]]
      BY DEF HubInvariant, TypeOK, ServerState, Doc, Patch
    <2>3. /\ sess' = [sess EXCEPT ![mapped].doc = Apply(@, m),
                                  ![mapped].rev = NextRev(mapped, server.node)]
          /\ inbox' = Sent(mapped, {}, Broadcast(mapped, m))
      BY <1>3, <2>2 DEF ServerSend
    <2>4. /\ sess'[mapped].doc = Apply(sess[mapped].doc, m)
          /\ sess'[mapped].rev = NextRev(mapped, m.part)
          /\ sess'[mapped].clients = sess[mapped].clients
      BY <2>1, <2>2, <2>3 DEF HubInvariant, TypeOK, Session
    <2>5. inbox'[c] = IF c \in sess[mapped].clients /\ ws[c] = "open"
                      THEN Append(inbox[c], Broadcast(mapped, m)) ELSE inbox[c]
      BY <2>3 DEF Sent
    <2> QED BY <1>1, <1>2, <1>3, <2>4, <2>5, Told
  <1>4. CASE ~(mapped # 0 /\ sess[mapped].doc[server.node].here)
    BY <1>1, <1>2, <1>4, Stays DEF ServerSend
  <1> QED BY <1>3, <1>4

LEMMA ServerReloadFollows ==
  ASSUME HubInvariant, CopiesInvariant, ServerReload, NEW c \in Conns
  PROVE  Follows(c)'
PROOF
  <1>1. Follows(c)
    BY DEF CopiesInvariant
  <1>2. UNCHANGED <<mapped, ws, opening, view, outbox, inbox>>
    BY DEF ServerReload
  <1>3. CASE server.pc = "reload"
    BY <1>1, <1>2, <1>3, Stays DEF ServerReload
  <1>4. CASE server.pc = "got"
    <2>1. PICK s \in Slots : s = server.sid
      BY <1>4 DEF HubInvariant, SessionsKnown
    <2>2. \A r \in Slots : /\ sess'[r].clients = sess[r].clients
                           /\ sess'[r].rev = sess[r].rev
                           /\ sess'[r].doc = IF r = s THEN server.got ELSE sess[r].doc
      <3>1. sess' = [sess EXCEPT ![s].doc = server.got]
        BY <1>4, <2>1 DEF ServerReload
      <3> QED BY <2>1, <3>1 DEF HubInvariant, TypeOK, Session
    <2>3. apart'[c] = IF c \in sess[s].clients
                      THEN apart[c] \cup {p \in Parts : sess[s].doc[p] # server.got[p]}
                      ELSE apart[c]
      BY <1>4, <2>1 DEF ServerReload, Unannounced
    <2>4. mapped # 0 => mapped \in Slots
      BY DEF HubInvariant, TypeOK
    <2> QED BY <1>1, <1>2, <2>2, <2>3, <2>4, Stays
  <1> QED BY <1>3, <1>4 DEF ServerReload

LEMMA PutDropFollows ==
  ASSUME HubInvariant, CopiesInvariant, PutDrop, NEW c \in Conns
  PROVE  Follows(c)'
  BY Dropped DEF PutDrop, CopiesInvariant, Registered

-----------------------------------------------------------------------------
LEMMA CopiesStep ==
  HubInvariant /\ CopiesInvariant /\ [Next]_vars => CopiesInvariant'
PROOF
  <1> SUFFICES ASSUME HubInvariant, CopiesInvariant, [Next]_vars, NEW c \in Conns
               PROVE  Follows(c)'
    BY DEF CopiesInvariant
  <1>1. ASSUME NEW b \in Conns, Opening(b) PROVE Follows(c)'
    BY <1>1, OpenFollows, OpenLoadedFollows, ReloadReadFollows, RegisterFollows,
       SendInitFollows, OpenFailsFollows DEF Opening
  <1>2. ASSUME NEW b \in Conns, Editor(b) PROVE Follows(c)'
    BY <1>2, EditFollows, ReceiveFollows, DisconnectFollows DEF Editor
  <1>3. ASSUME NEW b \in Conns, Handling(b) PROVE Follows(c)'
    BY <1>3, HandleEditFollows, UnknownFollows, StrayLoadedFollows, StrayFailsFollows,
       HandleCloseFollows DEF Handling
  <1>4. CASE \/ \E s \in Slots : TimerFires(s)
             \/ SaveRow \/ SaveNodes \/ SaveFails \/ ServerRead \/ ServerSave \/ ServerFails
             \/ PutRead \/ PutSave \/ UNCHANGED vars
    BY <1>4, SavingFollows
  <1>5. CASE ServerSend \/ ServerReload \/ PutDrop
    BY <1>5, ServerSendFollows, ServerReloadFollows, PutDropFollows
  <1> QED BY <1>1, <1>2, <1>3, <1>4, <1>5 DEF Next

\* With nothing under way a registered editor's copy is the session's, but for
\* the parts in which it was set apart.
LEMMA CopiesAgreeThen == HubInvariant /\ CopiesInvariant => CopiesAgree
PROOF
  <1> SUFFICES ASSUME HubInvariant, CopiesInvariant, NEW c \in Conns,
                      Registered(c), ws[c] = "open", opening[c].pc = "idle",
                      inbox[c] = <<>>, outbox[c] = <<>>, NEW p \in Parts \ apart[c]
               PROVE  view[c].doc[p] = sess[mapped].doc[p]
    BY DEF CopiesAgree
  <1>1. InStep(view[c], <<>>, <<>>, sess[mapped].doc, p)
    BY DEF CopiesInvariant, Follows, Following
  <1>2. Untouched(<<>>, p) /\ ~EditsOn(<<>>, p)
    BY DEF Untouched, EditsOn
  <1>3. Writes(sess[mapped].doc[p], <<>>, view[c].doc[p], p)
    BY <1>1, <1>2 DEF InStep
  <1> QED BY <1>3 DEF Writes

\* Between messages the copy of a registered editor is the session's, except in
\* parts where own and other edits crossed or that a reload changed untold:
\* however sessions are loaded, replaced, reloaded and left, no broadcast is
\* missed, none is skipped for its revision, and none is applied twice.
THEOREM CopiesFollowSession == Spec => []CopiesAgree
PROOF
  <1>1. Init => CopiesInvariant
    BY CopiesInit
  <1>2. HubInvariant /\ CopiesInvariant /\ [Next]_vars => CopiesInvariant'
    BY CopiesStep
  <1>3. HubInvariant /\ CopiesInvariant => CopiesAgree
    BY CopiesAgreeThen
  <1> QED BY <1>1, <1>2, <1>3, HubAlways, PTL DEF Spec
=============================================================================
