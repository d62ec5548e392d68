---------------------------- MODULE NamespaceProofs ----------------------------
(***************************************************************************)
(* Proofs about the modules DurableNamespace and NamespaceImport: what      *)
(* optimistic commits, the blob store and the capture guarantee for any     *)
(* cells, requests and processes; and that a namespace filled from a plan,  *)
(* by any number of importers, holds it and then serves like any other.     *)
(***************************************************************************)
EXTENDS NamespaceImport, TLAPS

-------------------------------------------------------------------------------
(* The inductive invariant *)

\* What a reader saw of a row: an earlier revision, or the row as it is.
Seen(row, cell) == row.rev <= cell.rev /\ (row.rev = cell.rev => row = cell)

\* The bodies the transition creates are in the blob store.
Published(e, read, stored) ==
    \A o \in Writes[e] \cap Object : Result(e, read)[o] # None => <<o, Result(e, read)[o]>> \in stored

Reading(w, rows, stored) ==
    w.pc # "idle" =>
        /\ w.event \in Request
        /\ DOMAIN w.read \subseteq Reads[w.event]
        /\ \A c \in DOMAIN w.read : Seen(w.read[c], rows[c])
        /\ w.pc = "publishing" => DOMAIN w.read = Reads[w.event] /\ Published(w.event, w.read, stored)

Copied ==
    capture.pc # "idle" =>
        /\ capture.token \in Token /\ capture.token.fence <= fence /\ capture.token.seq <= seq
        /\ capture.token = CurrentToken => \A x \in DOMAIN capture.copy : capture.copy[x] = Stored(x)
        /\ capture.pc = "captured" => DOMAIN capture.copy = Item

\* What also holds of a namespace that is being filled.
BaseInv ==
    /\ TypeOK
    /\ \A h \in Handler : Reading(handler[h], cells, blobs)
    /\ Copied
    /\ BodiesStored
    /\ OneAnswer

NamespaceInv == BaseInv /\ HeadsNameVersions

-------------------------------------------------------------------------------
(* What a transaction writes *)

\* The transition of an event over the values it read writes to the cells of
\* the event (compute_transition in node-core).
LEMMA ResultType ==
    ASSUME NEW e \in Event, NEW read, \A c \in Reads[e] : read[c] \in Row
    PROVE  Result(e, read) \in [Writes[e] -> Value \cup {None}]
<1> DEFINE f == [c \in Reads[e] |-> read[c].val]
<1>1. f \in [Reads[e] -> Value \cup {None}]
    BY Zenon DEF Row
<1>2. f \in UNION {[Reads[d] -> Value \cup {None}] : d \in Event}
    BY <1>1, Zenon
<1>3. DOMAIN f = Reads[e]
    BY Zenon
<1> QED
    BY <1>2, <1>3, NamespaceAssumption, Zenon DEF Result

\* What makes a commit find the cells it reads as its reader saw them.
Current(e, read) ==
    /\ e \in Event
    /\ \A c \in Reads[e] : c \in Cell /\ read[c] \in Row /\ read[c] = cells[c]

\* validate_state_reads and validate_object_reads: since a revision is never
\* reused, comparing revisions compares rows.
LEMMA CommittableIsCurrent ==
    ASSUME NEW e \in Event, NEW read, TypeOK, Committable(e, read),
           \A c \in Reads[e] : read[c] \in Row /\ Seen(read[c], cells[c])
    PROVE  Current(e, read)
<1> SUFFICES ASSUME NEW c \in Reads[e] PROVE c \in Cell /\ read[c] = cells[c]
    BY Zenon DEF Current
<1>1. c \in Cell
    BY NamespaceAssumption, Zenon
<1>2. CASE c \in Key
    BY <1>1, <1>2, Zenon DEF Committable, RowUnmoved, Seen
<1>3. CASE c \in Object
    BY <1>1, <1>3, Zenon DEF Committable, HeadUnmoved
<1> QED
    BY <1>1, <1>2, <1>3, Zenon DEF Cell

\* A cell after a commit: as before, or one revision further.
Moved(old, new) == new = old \/ new.rev = old.rev + 1

\* A transaction over current rows keeps the types, moves revisions forward,
\* and writes the receipt of its event where there was none.
LEMMA WriteEffect ==
    ASSUME NEW e, NEW read, TypeOK, Current(e, read), Committable(e, read), Write(e, read)
    PROVE  /\ seq' = seq + 1
           /\ cells' \in [Cell -> Row] /\ versions' \in [Object -> Seq(Value)]
           /\ receipts' \in [Id -> Receipt \cup {None}]
           /\ \A c \in Cell : Moved(cells[c], cells'[c])
           /\ \A i \in Id : receipts[i] # None => receipts'[i] = receipts[i]
           /\ e \notin Bare => receipts'[IdOf[e]] = [event |-> e, result |-> Result(e, read)]
           /\ [event |-> e, result |-> Result(e, read)] \in Receipt
<1> DEFINE new == Result(e, read)
<1>1. e \in Event /\ new \in [Writes[e] -> Value \cup {None}] /\ IdOf[e] \in Id
    BY ResultType, NamespaceAssumption, Zenon DEF Current
<1>2. [event |-> e, result |-> new] \in Receipt
    BY <1>1, Zenon DEF Receipt, Output
<1>3. \A c \in Writes[e] : c \in Cell /\ cells[c] \in Row /\ read[c] = cells[c] /\ new[c] \in Value \cup {None}
  <2>1. TAKE c \in Writes[e]
  <2>2. c \in Reads[e]
    BY <1>1, NamespaceAssumption, Zenon
  <2> QED
    BY <1>1, <2>2, Zenon DEF Current
<1> HIDE DEF new
<1>4. ASSUME NEW c \in Cell PROVE cells'[c] \in Row /\ Moved(cells[c], cells'[c])
  <2>1. cells[c] \in Row
    BY Zenon DEF TypeOK
  <2>2. CASE c \notin Writes[e]
    BY <2>1, <2>2, Zenon DEF Write, Moved
  <2>3. CASE c \in Writes[e] /\ c \in Key
    BY <1>3, <2>1, <2>3 DEF Write, Moved, NewRow, Row, new
  <2>4. CASE c \in Writes[e] /\ c \notin Key
    BY <1>3, <2>1, <2>4 DEF Write, Moved, NewHead, Row, new
  <2> QED
    BY <2>2, <2>3, <2>4, Zenon
<1>5. ASSUME NEW o \in Object PROVE versions'[o] \in Seq(Value)
  <2>1. versions[o] \in Seq(Value)
    BY Zenon DEF TypeOK
  <2>2. CASE o \notin Writes[e]
    BY <2>1, <2>2, Zenon DEF Write
  <2>3. CASE o \in Writes[e] /\ new[o] = None
    BY <2>1, <2>3, Zenon DEF Write, NewVersions, new
  <2>4. CASE o \in Writes[e] /\ new[o] # None
    <3>1. new[o] \in Value
      BY <1>3, <2>4, Zenon
    <3>2. versions'[o] = Append(versions[o], new[o])
      BY <2>4, Zenon DEF Write, NewVersions, new
    <3> QED
      BY <2>1, <3>1, <3>2
  <2> QED
    BY <2>2, <2>3, <2>4, Zenon
<1>6. /\ receipts' \in [Id -> Receipt \cup {None}]
      /\ e \notin Bare => receipts'[IdOf[e]] = [event |-> e, result |-> new]
    BY <1>1, <1>2, Zenon DEF Write, NewReceipts, TypeOK, new
<1>7. \A i \in Id : receipts[i] # None => receipts'[i] = receipts[i]
    BY <1>1, Zenon DEF Write, NewReceipts, Committable
<1>8. cells' \in [Cell -> Row] /\ versions' \in [Object -> Seq(Value)]
    BY <1>4, <1>5, Zenon DEF Write
<1>9. seq' = seq + 1
    BY Zenon DEF Write
<1> QED
    BY <1>2, <1>4, <1>6, <1>7, <1>8, <1>9, Zenon DEF new

\* A reader of an earlier state of the rows is still one after a commit.
LEMMA ReadingLater ==
    ASSUME NEW w, InvocationOK(w), NEW old \in [Cell -> Row], NEW new \in [Cell -> Row],
           NEW B, NEW C, B \subseteq C, \A c \in Cell : Moved(old[c], new[c]),
           Reading(w, old, B)
    PROVE  Reading(w, new, C)
<1> SUFFICES ASSUME w.pc # "idle"
             PROVE  Reading(w, new, C)
    BY Zenon DEF Reading
<1>1. ASSUME NEW c \in DOMAIN w.read PROVE Seen(w.read[c], new[c])
  <2>1. Seen(w.read[c], old[c])
    BY Zenon DEF Reading
  <2>2. c \in Cell /\ w.read[c] \in Row
    BY Zenon DEF InvocationOK
  <2>3. old[c] \in Row /\ new[c] \in Row /\ Moved(old[c], new[c])
    BY <2>2, Zenon
  <2>4. w.read[c].rev \in Nat /\ old[c].rev \in Nat /\ new[c].rev \in Nat
    BY <2>2, <2>3, Zenon DEF Row
  <2> QED
    BY <2>1, <2>3, <2>4 DEF Seen, Moved
<1>2. Published(w.event, w.read, B) => Published(w.event, w.read, C)
    BY Zenon DEF Published
<1> QED
    BY <1>1, <1>2, Zenon DEF Reading

\* Heads still name the newest version, and bodies are there, when the bodies
\* a transaction writes were published before it.
LEMMA WriteObjects ==
    ASSUME NEW e, NEW read, TypeOK, Current(e, read), Committable(e, read), Write(e, read),
           HeadsNameVersions, BodiesStored, Published(e, read, blobs), blobs \subseteq blobs'
    PROVE  HeadsNameVersions' /\ BodiesStored'
<1> DEFINE new == Result(e, read)
<1>0. e \in Event /\ new \in [Writes[e] -> Value \cup {None}]
    BY ResultType, Zenon DEF Current
<1>s. SUFFICES ASSUME NEW o \in Object
               PROVE  /\ cells'[o].ver = Len(versions'[o]) /\ cells'[o].ver <= MaxVersion
                      /\ cells'[o].val # None => cells'[o].val = versions'[o][cells'[o].ver]
                      /\ \A n \in DOMAIN versions'[o] : <<o, versions'[o][n]>> \in blobs'
    BY Zenon DEF HeadsNameVersions, BodiesStored
<1>1. /\ o \in Cell /\ o \notin Key /\ cells[o] \in Row /\ versions[o] \in Seq(Value)
      /\ cells[o].ver = Len(versions[o]) /\ cells[o].ver <= MaxVersion
      /\ cells[o].val # None => cells[o].val = versions[o][cells[o].ver]
      /\ \A n \in DOMAIN versions[o] : <<o, versions[o][n]>> \in blobs'
    BY NamespaceAssumption DEF TypeOK, Cell, HeadsNameVersions, BodiesStored
<1>2. o \in Writes[e] => read[o] = cells[o]
    BY <1>0, NamespaceAssumption, Zenon DEF Current
<1>3. CASE o \notin Writes[e]
    <2>1. cells'[o] = cells[o] /\ versions'[o] = versions[o]
      BY <1>1, <1>3, Zenon DEF Write
    <2> QED
      BY <1>1, <2>1, Zenon
<1>4. CASE o \in Writes[e]
  <2>1. cells'[o] = NewHead(cells[o], new[o]) /\ versions'[o] = NewVersions(o, new[o])
    BY <1>1, <1>2, <1>4, Zenon DEF Write
  <2>2. new[o] # None => <<o, new[o]>> \in blobs'
    BY <1>4, Zenon DEF Published
  <2>3. new[o] \in Value \cup {None}
    BY <1>0, <1>4, Zenon
  <2> HIDE DEF new
  <2>4. CASE new[o] = None
    <3>1. cells'[o].ver = cells[o].ver /\ cells'[o].val = None
      BY <2>1, <2>4 DEF NewHead
    <3>2. versions'[o] = versions[o]
      BY <2>1, <2>4, Zenon DEF NewVersions
    <3> QED
      BY <1>1, <3>1, <3>2, Zenon
  <2>5. CASE new[o] # None
    <3>1. /\ cells'[o].ver = cells[o].ver + 1 /\ cells'[o].val = new[o]
          /\ versions'[o] = Append(versions[o], new[o])
      BY <2>1, <2>5 DEF NewHead, NewVersions
    <3>2. Len(versions'[o]) = Len(versions[o]) + 1 /\ new[o] \in Value
      BY <1>1, <2>3, <2>5, <3>1
    <3>3. ASSUME NEW n \in DOMAIN versions'[o]
          PROVE  versions'[o][n] = IF n = Len(versions[o]) + 1 THEN new[o] ELSE versions[o][n]
      BY <1>1, <3>1, <3>2
    <3>4. DOMAIN versions'[o] = 1 .. Len(versions[o]) + 1 /\ DOMAIN versions[o] = 1 .. Len(versions[o])
      BY <1>1, <3>1, <3>2
    <3>5. \A n \in DOMAIN versions'[o] : <<o, versions'[o][n]>> \in blobs'
      <4> SUFFICES ASSUME NEW n \in DOMAIN versions'[o] PROVE <<o, versions'[o][n]>> \in blobs'
        BY Zenon
      <4>1. CASE n = Len(versions[o]) + 1
        BY <2>2, <2>5, <3>3, <4>1, Zenon
      <4>2. CASE n # Len(versions[o]) + 1
        <5>1. n \in DOMAIN versions[o]
          BY <1>1, <3>4, <4>2
        <5>2. versions'[o][n] = versions[o][n]
          BY <3>3, <4>2, Zenon
        <5> QED
          BY <1>1, <5>1, <5>2, Zenon
      <4> QED
        BY <4>1, <4>2, Zenon
    <3>6. Len(versions[o]) + 1 \in DOMAIN versions'[o]
      BY <1>1, <3>4
    <3>7. cells'[o].ver <= MaxVersion
      <4>1. cells[o].ver < MaxVersion /\ cells[o].ver \in Nat
        BY <1>1, <1>2, <1>4, <2>5, Zenon DEF Committable, TransitionValid, Row, new
      <4> QED
        BY <3>1, <4>1, NamespaceAssumption
    <3> QED
      BY <1>1, <3>1, <3>2, <3>3, <3>5, <3>6, <3>7, Zenon
  <2> QED
    BY <2>4, <2>5, Zenon
<1> QED
    BY <1>3, <1>4, Zenon

\* Given answers stay the recorded ones, since receipts are never replaced.
LEMMA AnswersStay ==
    ASSUME TypeOK, OneAnswer, \A i \in Id : receipts[i] # None => receipts'[i] = receipts[i],
           NEW r \in replies
    PROVE  receipts'[IdOf[r.event]] = r
<1>1. r \in Receipt /\ receipts[IdOf[r.event]] = r
    BY Zenon DEF TypeOK, OneAnswer
<1>2. IdOf[r.event] \in Id
    BY <1>1, NamespaceAssumption, Zenon DEF Receipt
<1>3. r # None
    BY <1>1, NamespaceAssumption, Zenon DEF Receipt, Output
<1> QED
    BY <1>1, <1>2, <1>3, Zenon

\* What every commit leaves true, whoever makes it.
Consistent ==
    /\ cells \in [Cell -> Row] /\ versions \in [Object -> Seq(Value)]
    /\ receipts \in [Id -> Receipt \cup {None}] /\ seq \in Nat
    /\ HeadsNameVersions /\ BodiesStored
    /\ replies \subseteq Receipt /\ OneAnswer

LEMMA CommitKeeps ==
    ASSUME NEW e, NEW read, NamespaceInv, Current(e, read), Committable(e, read), Write(e, read),
           Published(e, read, blobs), blobs' = blobs,
           \/ replies' = replies
           \/ e \notin Bare /\ replies' = replies \cup {[event |-> e, result |-> Result(e, read)]}
    PROVE  Consistent' /\ \A h \in Handler : Reading(handler[h], cells', blobs')
<1> DEFINE rec == [event |-> e, result |-> Result(e, read)]
<1>0. TypeOK /\ HeadsNameVersions /\ BodiesStored /\ OneAnswer
    BY Zenon DEF NamespaceInv, BaseInv
<1>1. /\ seq' = seq + 1
      /\ cells' \in [Cell -> Row] /\ versions' \in [Object -> Seq(Value)]
      /\ receipts' \in [Id -> Receipt \cup {None}]
      /\ \A c \in Cell : Moved(cells[c], cells'[c])
      /\ \A i \in Id : receipts[i] # None => receipts'[i] = receipts[i]
      /\ e \notin Bare => receipts'[IdOf[e]] = rec
      /\ rec \in Receipt
    BY <1>0, WriteEffect, Zenon
<1>2. HeadsNameVersions' /\ BodiesStored'
    BY <1>0, WriteObjects, Zenon
<1>3. ASSUME NEW h \in Handler PROVE Reading(handler[h], cells', blobs')
  <2>1. InvocationOK(handler[h]) /\ cells \in [Cell -> Row] /\ Reading(handler[h], cells, blobs)
    BY Zenon DEF NamespaceInv, BaseInv, TypeOK
  <2> QED
    BY <1>0, <1>1, <2>1, ReadingLater, Zenon
<1>4. \A r \in replies : receipts'[IdOf[r.event]] = r
    BY <1>0, <1>1, AnswersStay, Zenon
<1>5. rec.event = e
    BY Zenon
<1> HIDE DEF rec
<1>6. replies' = replies \/ (e \notin Bare /\ replies' = replies \cup {rec})
    BY Zenon DEF rec
<1>7. OneAnswer' /\ replies' \subseteq Receipt
  <2>1. ASSUME NEW r \in replies' PROVE receipts'[IdOf[r.event]] = r /\ r \in Receipt
    <3>1. CASE r \in replies
      BY <1>0, <1>4, <3>1, Zenon DEF TypeOK
    <3>2. CASE r \notin replies
      <4>1. r = rec /\ e \notin Bare
        BY <1>6, <3>2, Zenon
      <4> QED
        BY <1>1, <1>5, <4>1, Zenon
    <3> QED
      BY <3>1, <3>2, Zenon
  <2> QED
    BY <2>1, Zenon DEF OneAnswer
<1>8. seq' \in Nat
    BY <1>0, <1>1 DEF TypeOK
<1> QED
    BY <1>1, <1>2, <1>3, <1>7, <1>8, Zenon DEF Consistent

-------------------------------------------------------------------------------
(* Steps *)

LEMMA IdleOK == InvocationOK(Idle) /\ \A rows, stored : Reading(Idle, rows, stored)
<1>1. Nothing \in [{} -> Row] /\ DOMAIN Nothing = {}
    BY Zenon DEF Nothing
<1>2. Idle.pc = "idle" /\ Idle.read = Nothing
    BY Zenon DEF Idle
<1>3. Idle \in [pc : {"idle", "reading", "publishing"}, event : Event \cup {None},
                serving : Token \cup {None}, read : {Idle.read}]
    BY <1>2, Zenon DEF Idle
<1> QED
    BY <1>1, <1>2, <1>3, Zenon DEF InvocationOK, Reading

\* A handler goes on to w; the namespace and the capture stay as they are,
\* except that bodies may be published.
LEMMA HandlerMoves ==
    ASSUME NamespaceInv, NEW h \in Handler, NEW w, InvocationOK(w), Reading(w, cells, blobs'),
           handler' = [handler EXCEPT ![h] = w],
           blobs \subseteq blobs', blobs' \subseteq Object \X Value,
           UNCHANGED <<meta, content, config, capture, replies>>
    PROVE  NamespaceInv'
<1>1. UNCHANGED <<fence, seq, life, serving, sealed, cells, versions, receipts, config, capture, replies>>
    BY Zenon DEF meta, content
<1>2. TypeOK
    BY Zenon DEF NamespaceInv, BaseInv
<1>3. ASSUME NEW g \in Handler
      PROVE  InvocationOK(handler'[g]) /\ Reading(handler'[g], cells', blobs')
  <2>1. CASE g = h
    <3>1. handler'[g] = w /\ cells' = cells
      BY <1>1, <1>2, <2>1, Zenon DEF TypeOK
    <3> QED
      BY <3>1, Zenon
  <2>2. CASE g # h
    <3>1. handler'[g] = handler[g] /\ cells' = cells
      BY <1>1, <1>2, <2>2, Zenon DEF TypeOK
    <3>2. InvocationOK(handler[g]) /\ Reading(handler[g], cells, blobs) /\ cells \in [Cell -> Row]
      BY Zenon DEF NamespaceInv, BaseInv, TypeOK
    <3>3. \A c \in Cell : Moved(cells[c], cells[c])
      BY Zenon DEF Moved
    <3>4. Reading(handler[g], cells, blobs')
      BY <3>2, <3>3, ReadingLater, Zenon
    <3> QED
      BY <3>1, <3>2, <3>4, Zenon
  <2> QED
    BY <2>1, <2>2, Zenon
<1>4. handler' = [g \in Handler |-> handler'[g]]
    BY <1>2, Zenon DEF TypeOK
<1>5. TypeOK'
    BY <1>1, <1>2, <1>3, <1>4, Zenon DEF TypeOK
<1>6. Copied'
    BY <1>1, Zenon DEF NamespaceInv, BaseInv, Copied, CurrentToken, Stored
<1>7. HeadsNameVersions' /\ BodiesStored' /\ OneAnswer'
    BY <1>1, Zenon DEF NamespaceInv, BaseInv, HeadsNameVersions, BodiesStored, OneAnswer
<1> QED
    BY <1>3, <1>5, <1>6, <1>7, Zenon DEF NamespaceInv, BaseInv

LEMMA HandlerStops ==
    ASSUME NamespaceInv, NEW h \in Handler, handler' = [handler EXCEPT ![h] = Idle],
           UNCHANGED <<meta, content, blobs, config, capture, replies>>
    PROVE  NamespaceInv'
<1>1. InvocationOK(Idle) /\ Reading(Idle, cells, blobs')
    BY IdleOK, Zenon
<1>2. blobs \subseteq blobs' /\ blobs' \subseteq Object \X Value
    BY Zenon DEF NamespaceInv, BaseInv, TypeOK
<1> QED
    BY <1>1, <1>2, HandlerMoves, Zenon

\* Receive: nothing is read yet.
LEMMA ReceiveStep ==
    ASSUME NamespaceInv, NEW h \in Handler, NEW e \in Request, Receive(h, e)
    PROVE  NamespaceInv'
<1> DEFINE w == [pc |-> "reading", event |-> e, serving |-> serving, read |-> Nothing]
<1>1. Nothing \in [{} -> Row] /\ DOMAIN Nothing = {}
    BY Zenon DEF Nothing
<1>2. e \in Event /\ serving \in Token \cup {None} /\ blobs \subseteq Object \X Value
    BY NamespaceAssumption, Zenon DEF NamespaceInv, BaseInv, TypeOK
<1>3. /\ handler' = [handler EXCEPT ![h] = w]
      /\ UNCHANGED <<meta, content, blobs, config, capture, replies>>
    BY Zenon DEF Receive
<1>4. InvocationOK(w) /\ Reading(w, cells, blobs')
    BY <1>1, <1>2, Zenon DEF InvocationOK, Reading
<1> HIDE DEF w
<1> QED
    BY <1>2, <1>3, <1>4, HandlerMoves, Zenon

\* ReadRow and ReadHead: what is read is the cell as it is.
LEMMA ObserveStep ==
    ASSUME NamespaceInv, NEW h \in Handler, NEW c \in Cell, Observe(h, c)
    PROVE  NamespaceInv'
<1> DEFINE v == handler[h]
           read == [d \in DOMAIN v.read \cup {c} |-> IF d = c THEN cells[c] ELSE v.read[d]]
           w == [v EXCEPT !.read = read]
<1>1. /\ InvocationOK(v) /\ Reading(v, cells, blobs) /\ cells[c] \in Row
      /\ blobs \subseteq Object \X Value
    BY Zenon DEF NamespaceInv, BaseInv, TypeOK
<1>2. /\ v.pc = "reading" /\ c \in Reads[v.event] /\ c \notin DOMAIN v.read
      /\ handler' = [handler EXCEPT ![h] = w]
      /\ UNCHANGED <<meta, content, blobs, config, capture, replies>>
    BY Zenon DEF Observe
<1>3. /\ v.event \in Request /\ DOMAIN v.read \subseteq Reads[v.event]
      /\ \A d \in DOMAIN v.read : Seen(v.read[d], cells[d])
    BY <1>1, <1>2, Zenon DEF Reading
<1>4. v.read \in [DOMAIN v.read -> Row] /\ DOMAIN v.read \subseteq Cell
    BY <1>1, Zenon DEF InvocationOK
<1>5. /\ read \in [DOMAIN v.read \cup {c} -> Row] /\ DOMAIN read = DOMAIN v.read \cup {c}
      /\ \A d \in DOMAIN read : read[d] = IF d = c THEN cells[c] ELSE v.read[d]
    BY <1>1, <1>4, Zenon
<1>6. Seen(cells[c], cells[c])
    BY <1>1 DEF Seen, Row
<1> HIDE DEF v, read
<1>7. w.pc = v.pc /\ w.event = v.event /\ w.serving = v.serving /\ w.read = read
    BY <1>1, Zenon DEF InvocationOK
<1>8. InvocationOK(w)
  <2>1. w \in [pc : {"idle", "reading", "publishing"}, event : Event \cup {None},
               serving : Token \cup {None}, read : {w.read}]
    BY <1>1, <1>7, Zenon DEF InvocationOK
  <2> QED
    BY <1>4, <1>5, <1>7, <2>1, Zenon DEF InvocationOK
<1> HIDE DEF w
<1>9. Reading(w, cells, blobs')
    BY <1>2, <1>3, <1>5, <1>6, <1>7, Zenon DEF Reading
<1> QED
    BY <1>1, <1>2, <1>8, <1>9, HandlerMoves, Zenon DEF w

\* Publish: the bodies of the transition are in the store from here on.
LEMMA PublishStep ==
    ASSUME NamespaceInv, NEW h \in Handler, Publish(h)
    PROVE  NamespaceInv'
<1> DEFINE v == handler[h]
           new == Result(v.event, v.read)
           w == [v EXCEPT !.pc = "publishing"]
<1>1. /\ InvocationOK(v) /\ Reading(v, cells, blobs) /\ blobs \subseteq Object \X Value
    BY Zenon DEF NamespaceInv, BaseInv, TypeOK
<1>2. /\ v.pc = "reading" /\ DOMAIN v.read = Reads[v.event]
      /\ handler' = [handler EXCEPT ![h] = w]
      /\ blobs' = blobs \cup {<<o, new[o]>> : o \in {x \in Writes[v.event] \cap Object : new[x] # None}}
      /\ UNCHANGED <<meta, content, config, capture, replies>>
    BY Zenon DEF Publish
<1>3. /\ v.event \in Request /\ v.event \in Event
      /\ \A d \in DOMAIN v.read : Seen(v.read[d], cells[d]) /\ v.read[d] \in Row
    BY <1>1, <1>2, NamespaceAssumption, Zenon DEF Reading, InvocationOK
<1>4. new \in [Writes[v.event] -> Value \cup {None}]
    BY <1>2, <1>3, ResultType, Zenon
<1>5. Published(v.event, v.read, blobs')
    BY <1>2, Zenon DEF Published
<1> HIDE DEF new
<1>6. blobs \subseteq blobs' /\ blobs' \subseteq Object \X Value
    BY <1>1, <1>2, <1>4
<1> HIDE DEF v
<1>7. w.pc = "publishing" /\ w.event = v.event /\ w.serving = v.serving /\ w.read = v.read
    BY <1>1, Zenon DEF InvocationOK
<1>8. InvocationOK(w)
    BY <1>1, <1>7, Zenon DEF InvocationOK
<1> HIDE DEF w
<1>9. Reading(w, cells, blobs')
    BY <1>2, <1>3, <1>5, <1>7, Zenon DEF Reading
<1> QED
    BY <1>2, <1>6, <1>8, <1>9, HandlerMoves, Zenon DEF w

\* A token that was at most the current one is behind after a move.
Advance(f, n, g, m) == (g = f /\ m = n + 1) \/ (g = f + 1 /\ m = n)
Behind(a, b, g, m) == a <= g /\ b <= m /\ ~(a = g /\ b = m)

LEMMA TokenPassed ==
    ASSUME NEW a \in Nat, NEW b \in Nat, NEW f \in Nat, NEW n \in Nat, NEW g, NEW m,
           a <= f, b <= n, Advance(f, n, g, m)
    PROVE  Behind(a, b, g, m)
<1>1. CASE g = f /\ m = n + 1
    BY <1>1 DEF Behind
<1>2. CASE g = f + 1 /\ m = n
    BY <1>2 DEF Behind
<1> QED
    BY <1>1, <1>2, Zenon DEF Advance

\* A capture under a token that is no longer current holds nothing to compare.
LEMMA CopiedLater ==
    ASSUME TypeOK, Copied, capture' = capture,
           \/ fence' = fence /\ seq' = seq + 1
           \/ fence' = fence + 1 /\ seq' = seq
    PROVE  Copied'
<1> SUFFICES ASSUME capture.pc # "idle" PROVE Copied'
    BY Zenon DEF Copied
<1>1. /\ capture.token \in Token /\ capture.token.fence <= fence /\ capture.token.seq <= seq
      /\ capture.pc = "captured" => DOMAIN capture.copy = Item
    BY Zenon DEF Copied
<1>2. /\ capture.token.fence \in Nat /\ capture.token.seq \in Nat /\ fence \in Nat /\ seq \in Nat
    BY <1>1, Zenon DEF Token, TypeOK
<1>3. /\ capture.token.fence <= fence' /\ capture.token.seq <= seq'
      /\ ~(capture.token.fence = fence' /\ capture.token.seq = seq')
  <2>1. Advance(fence, seq, fence', seq')
    BY Zenon DEF Advance
  <2>2. Behind(capture.token.fence, capture.token.seq, fence', seq')
    BY <1>1, <1>2, <2>1, TokenPassed, Zenon
  <2> QED
    BY <2>2, Zenon DEF Behind
<1>4. CurrentToken'.fence = fence' /\ CurrentToken'.seq = seq'
    BY Zenon DEF CurrentToken
<1>5. capture.token # CurrentToken'
    BY <1>3, <1>4, Zenon
<1> QED
    BY <1>1, <1>3, <1>5, Zenon DEF Copied

LEMMA NoCaptureOK ==
    /\ NoCapture.pc = "idle" /\ NoCapture.copy = Nothing /\ DOMAIN Nothing = {}
    /\ NoCapture \in [pc : {"idle", "copying", "captured"}, token : Token \cup {None}, copy : {NoCapture.copy}]
    /\ Nothing \in [DOMAIN Nothing -> Record]
<1>1. NoCapture.copy = Nothing
    BY Zenon DEF NoCapture
<1> QED
    BY <1>1, Zenon DEF NoCapture, Nothing

\* A commit of a handler: it read the rows as they are, because their revisions
\* are those it read, and its bodies are published.
LEMMA CommitStep ==
    ASSUME NamespaceInv, NEW h \in Handler, CommitBy(h),
           LET w == handler[h]
           IN  \/ replies' = replies
               \/ w.event \notin Bare
                  /\ replies' = replies \cup {[event |-> w.event, result |-> Result(w.event, w.read)]}
    PROVE  NamespaceInv' /\ Current(handler[h].event, handler[h].read)
<1> DEFINE w == handler[h]
<1>1. /\ w.pc = "publishing" /\ Committable(w.event, w.read) /\ Write(w.event, w.read)
      /\ handler' = [handler EXCEPT ![h] = Idle]
      /\ UNCHANGED <<fence, life, serving, sealed, blobs, config, capture>>
    BY Zenon DEF CommitBy
<1>2. TypeOK /\ InvocationOK(w) /\ Reading(w, cells, blobs)
    BY Zenon DEF NamespaceInv, BaseInv, TypeOK
<1>3. /\ w.event \in Event /\ Published(w.event, w.read, blobs)
      /\ \A c \in Reads[w.event] : w.read[c] \in Row /\ Seen(w.read[c], cells[c])
    BY <1>1, <1>2, NamespaceAssumption DEF Reading, InvocationOK
<1> HIDE DEF w
<1>4. Current(w.event, w.read)
    BY <1>1, <1>2, <1>3, CommittableIsCurrent, Zenon
<1>5. \/ replies' = replies
      \/ w.event \notin Bare
         /\ replies' = replies \cup {[event |-> w.event, result |-> Result(w.event, w.read)]}
    BY Zenon DEF w
<1>6. blobs' = blobs
    BY <1>1, Zenon
<1>7. Consistent' /\ \A g \in Handler : Reading(handler[g], cells', blobs')
    BY <1>1, <1>3, <1>4, <1>5, <1>6, CommitKeeps, Zenon
<1>8. ASSUME NEW g \in Handler
      PROVE  InvocationOK(handler'[g]) /\ Reading(handler'[g], cells', blobs')
  <2>1. handler'[g] = IF g = h THEN Idle ELSE handler[g]
    BY <1>1, <1>2, Zenon DEF TypeOK
  <2>2. InvocationOK(handler[g])
    BY <1>2, Zenon DEF TypeOK
  <2> QED
    BY <1>7, <2>1, <2>2, IdleOK, Zenon
<1>9. handler' = [g \in Handler |-> handler'[g]]
  <2>1. handler = [g \in Handler |-> handler[g]]
    BY <1>2, Zenon DEF TypeOK
  <2> QED
    BY <1>1, <2>1, Zenon
<1>10. TypeOK'
    BY <1>1, <1>2, <1>7, <1>8, <1>9, Zenon DEF TypeOK, Consistent
<1>11. Copied'
  <2>1. Copied /\ capture' = capture /\ fence' = fence /\ seq' = seq + 1
    BY <1>1, Zenon DEF NamespaceInv, BaseInv, Write
  <2> QED
    BY <1>2, <2>1, CopiedLater, Zenon
<1> QED
    BY <1>4, <1>7, <1>8, <1>10, <1>11, Zenon DEF NamespaceInv, BaseInv, Consistent, w

\* Steps of the capture that only read the namespace.
LEMMA CaptureMoves ==
    ASSUME BaseInv, UNCHANGED <<meta, content, blobs, config, handler, replies>>,
           capture' \in [pc : {"idle", "copying", "captured"}, token : Token \cup {None},
                         copy : {capture'.copy}],
           DOMAIN capture'.copy \subseteq Item,
           capture'.copy \in [DOMAIN capture'.copy -> Record],
           Copied'
    PROVE  BaseInv'
<1>1. UNCHANGED <<fence, seq, life, serving, sealed, cells, versions, receipts, blobs, config, handler, replies>>
    BY Zenon DEF meta, content
<1>2. TypeOK'
  <2>1. TypeOK
    BY Zenon DEF BaseInv
  <2>2. /\ fence' \in Nat /\ seq' \in Nat /\ sealed' \in BOOLEAN
        /\ life' \in {"Ordinary", "FreshImport", "Importing", "CompleteInactive"}
        /\ serving' \in Token \cup {None}
        /\ cells' \in [Cell -> Row] /\ versions' \in [Object -> Seq(Value)]
        /\ receipts' \in [Id -> Receipt \cup {None}] /\ blobs' \subseteq Object \X Value
        /\ config' \in [Process -> Nat] /\ replies' \subseteq Receipt
    BY <1>1, <2>1, Zenon DEF TypeOK
  <2>3. handler' = [h \in Handler |-> handler'[h]] /\ \A h \in Handler : InvocationOK(handler'[h])
    BY <1>1, <2>1, Zenon DEF TypeOK
  <2> QED
    BY <2>2, <2>3, Zenon DEF TypeOK
<1>3. BodiesStored' /\ OneAnswer'
    BY <1>1, Zenon DEF BaseInv, BodiesStored, OneAnswer
<1>4. \A h \in Handler : Reading(handler'[h], cells', blobs')
    BY <1>1, Zenon DEF BaseInv
<1> QED
    BY <1>2, <1>3, <1>4, Zenon DEF BaseInv

\* BeginCapture, CapturePage, EndCapture and AbandonCapture: pages served under
\* the current token are the namespace as it is.
LEMMA CaptureStep ==
    ASSUME BaseInv, BeginCapture \/ EndCapture \/ AbandonCapture \/ \E p \in Page : CapturePage(p)
    PROVE  BaseInv'
<1>0. TypeOK /\ Copied
    BY Zenon DEF BaseInv
<1>t. CurrentToken \in Token /\ CurrentToken.fence = fence /\ CurrentToken.seq = seq
    BY <1>0, Zenon DEF TypeOK, CurrentToken, Token
<1>l. fence <= fence /\ seq <= seq
    BY <1>0 DEF TypeOK
<1>1. CASE BeginCapture
  <2>1. /\ capture' = [pc |-> "copying", token |-> CurrentToken, copy |-> Nothing]
        /\ UNCHANGED <<meta, content, blobs, config, handler, replies>>
    BY <1>1, Zenon DEF BeginCapture
  <2>2. /\ capture'.pc = "copying" /\ capture'.token = CurrentToken /\ capture'.copy = Nothing
        /\ DOMAIN capture'.copy = {} /\ Nothing \in [{} -> Record]
    BY <2>1, Zenon DEF Nothing
  <2>3. capture' \in [pc : {"idle", "copying", "captured"}, token : Token \cup {None}, copy : {capture'.copy}]
    BY <1>t, <2>1, <2>2, Zenon
  <2>4. Copied'
    BY <1>t, <1>l, <2>1, <2>2, Zenon DEF Copied, meta
  <2> QED
    BY <2>1, <2>2, <2>3, <2>4, CaptureMoves, Zenon
<1>2. CASE EndCapture
  <2>1. /\ capture.pc = "copying" /\ DOMAIN capture.copy = Item
        /\ capture' = [capture EXCEPT !.pc = "captured"]
        /\ UNCHANGED <<meta, content, blobs, config, handler, replies>>
    BY <1>2, Zenon DEF EndCapture
  <2>2. capture'.pc = "captured" /\ capture'.token = capture.token /\ capture'.copy = capture.copy
    BY <1>0, <2>1, Zenon DEF TypeOK
  <2>3. /\ capture' \in [pc : {"idle", "copying", "captured"}, token : Token \cup {None}, copy : {capture'.copy}]
        /\ DOMAIN capture'.copy \subseteq Item
        /\ capture'.copy \in [DOMAIN capture'.copy -> Record]
    BY <1>0, <2>1, <2>2, Zenon DEF TypeOK
  <2>4. Copied'
    BY <1>0, <2>1, <2>2, Zenon DEF Copied, meta, content, CurrentToken, Stored
  <2> QED
    BY <2>1, <2>3, <2>4, CaptureMoves, Zenon
<1>3. CASE AbandonCapture
  <2>1. capture' = NoCapture /\ UNCHANGED <<meta, content, blobs, config, handler, replies>>
    BY <1>3, Zenon DEF AbandonCapture
  <2>2. Copied'
    BY <2>1, NoCaptureOK, Zenon DEF Copied
  <2> QED
    BY <2>1, <2>2, NoCaptureOK, CaptureMoves, Zenon
<1>4. ASSUME NEW p \in Page, CapturePage(p) PROVE BaseInv'
  <2> DEFINE copy == [x \in DOMAIN capture.copy \cup p |-> IF x \in p THEN Stored(x) ELSE capture.copy[x]]
  <2>1. /\ capture.pc = "copying" /\ capture.token = CurrentToken
        /\ capture' = [capture EXCEPT !.copy = copy]
        /\ UNCHANGED <<meta, content, blobs, config, handler, replies>>
    BY <1>4, Zenon DEF CapturePage
  <2>2. p \subseteq Item /\ DOMAIN capture.copy \subseteq Item
    BY <1>0, NamespaceAssumption, Zenon DEF TypeOK
  <2>3. ASSUME NEW x \in Item PROVE Stored(x) \in Record
    <3>1. CASE x \in Cell \cup Id
      BY <1>0, <3>1, Zenon DEF Stored, TypeOK, Record
    <3>2. CASE x \notin Cell \cup Id
      <4>1. PICK o \in Object, n \in 1..MaxVersion : x = <<o, n>>
        BY <3>2 DEF Item
      <4>2. x[1] = o /\ x[2] = n
        BY <4>1, Zenon
      <4>3. versions[o] \in Seq(Value)
        BY <1>0, Zenon DEF TypeOK
      <4>4. n \in DOMAIN versions[o] => versions[o][n] \in Value
        BY <4>3
      <4> QED
        BY <3>2, <4>2, <4>4, Zenon DEF Stored, Record
    <3> QED
      BY <3>1, <3>2, Zenon
  <2>4. \A x \in DOMAIN capture.copy : capture.copy[x] = Stored(x)
    BY <1>0, <2>1, Zenon DEF Copied
  <2>5. /\ DOMAIN copy = DOMAIN capture.copy \cup p
        /\ \A x \in DOMAIN copy : copy[x] = Stored(x)
    BY <2>4, Zenon
  <2>6. copy \in [DOMAIN copy -> Record]
    BY <2>2, <2>3, <2>4, Zenon
  <2> HIDE DEF copy
  <2>7. capture'.pc = "copying" /\ capture'.token = capture.token /\ capture'.copy = copy
    BY <1>0, <2>1, Zenon DEF TypeOK
  <2>8. capture' \in [pc : {"idle", "copying", "captured"}, token : Token \cup {None}, copy : {capture'.copy}]
    <3>1. capture \in [pc : {"idle", "copying", "captured"}, token : Token \cup {None}, copy : {capture.copy}]
      BY <1>0, Zenon DEF TypeOK
    <3> QED
      BY <2>1, <2>7, <3>1, Zenon
  <2>9. Copied'
    <3>1. UNCHANGED <<fence, seq, cells, versions, receipts>>
      BY <2>1, Zenon DEF meta, content
    <3>2. \A x : Stored(x)' = Stored(x)
      BY <3>1, Zenon DEF Stored
    <3>3. capture'.token \in Token /\ capture'.token.fence <= fence' /\ capture'.token.seq <= seq'
      BY <1>t, <1>l, <2>1, <2>7, <3>1, Zenon
    <3> QED
      BY <2>5, <2>7, <3>1, <3>3, Zenon DEF Copied, Stored
  <2> QED
    BY <2>1, <2>2, <2>5, <2>6, <2>7, <2>8, <2>9, CaptureMoves, Zenon
<1> QED
    BY <1>1, <1>2, <1>3, <1>4, Zenon

\* SealRetention, SealCompletion and their successor forms: the token of the
\* capture is current, so its copy is the namespace.
LEMMA TokenWriteCurrent ==
    ASSUME NamespaceInv, NEW e \in {Retention, Seal}, TokenWrite(e)
    PROVE  /\ Current(e, capture.copy) /\ Published(e, capture.copy, blobs)
           /\ \A x \in Item : capture.copy[x] = Stored(x)
<1>1. capture.pc = "captured" /\ capture.token = CurrentToken /\ TypeOK /\ Copied
    BY Zenon DEF TokenWrite, NamespaceInv, BaseInv
<1>2. \A x \in Item : capture.copy[x] = Stored(x)
    BY <1>1, Zenon DEF Copied
<1>3. e \in Event /\ Reads[e] \subseteq Key /\ Writes[e] \cap Object = {}
    BY NamespaceAssumption
<1>4. ASSUME NEW c \in Reads[e] PROVE c \in Cell /\ capture.copy[c] \in Row /\ capture.copy[c] = cells[c]
  <2>1. c \in Cell /\ c \in Item
    BY <1>3, Zenon DEF Cell, Item
  <2> QED
    BY <1>1, <1>2, <2>1, Zenon DEF Stored, TypeOK
<1> QED
    BY <1>2, <1>3, <1>4, Zenon DEF Current, Published

LEMMA TokenWriteStep ==
    ASSUME NamespaceInv, NEW e \in {Retention, Seal}, TokenWrite(e), sealed' \in BOOLEAN
    PROVE  NamespaceInv'
<1>1. /\ Committable(e, capture.copy) /\ Write(e, capture.copy) /\ capture' = NoCapture
      /\ UNCHANGED <<fence, life, serving, blobs, config, handler, replies>>
    BY Zenon DEF TokenWrite
<1>2. Current(e, capture.copy) /\ Published(e, capture.copy, blobs)
    BY TokenWriteCurrent, Zenon
<1>3. replies' = replies /\ blobs' = blobs
    BY <1>1, Zenon
<1>4. Consistent' /\ \A h \in Handler : Reading(handler[h], cells', blobs')
    BY <1>1, <1>2, <1>3, CommitKeeps, Zenon
<1>5. Copied'
    BY <1>1, NoCaptureOK, Zenon DEF Copied
<1>6. TypeOK'
    BY <1>1, <1>4, NoCaptureOK, Zenon DEF NamespaceInv, BaseInv, TypeOK, Consistent
<1> QED
    BY <1>1, <1>4, <1>5, <1>6, Zenon DEF NamespaceInv, BaseInv, Consistent

\* An operator fences the writers off.
LEMMA AdvanceFenceStep ==
    ASSUME BaseInv, AdvanceFence
    PROVE  BaseInv'
<1>1. /\ fence' = fence + 1
      /\ UNCHANGED <<seq, life, serving, sealed, cells, versions, receipts, blobs, config, handler, capture, replies>>
    BY Zenon DEF AdvanceFence, content
<1>2. TypeOK /\ Copied
    BY Zenon DEF BaseInv
<1>3. Copied'
    BY <1>1, <1>2, CopiedLater, Zenon
<1>4. TypeOK'
    BY <1>1, <1>2 DEF TypeOK
<1>5. BodiesStored' /\ OneAnswer'
    BY <1>1, Zenon DEF BaseInv, BodiesStored, OneAnswer
<1> QED
    BY <1>1, <1>3, <1>4, <1>5, Zenon DEF BaseInv

\* A process starts again, with nothing of what it was doing.
LEMMA RestartStep ==
    ASSUME BaseInv, NEW p \in Process, Restart(p)
    PROVE  BaseInv'
<1>1. /\ config' = [config EXCEPT ![p] = fence]
      /\ handler' = [h \in Handler |-> IF h = p THEN Idle ELSE handler[h]]
      /\ capture' = NoCapture \/ capture' = capture
      /\ UNCHANGED <<fence, seq, life, serving, sealed, cells, versions, receipts, blobs, replies>>
    BY Zenon DEF Restart, meta, content
<1>2. TypeOK /\ Copied
    BY Zenon DEF BaseInv
<1>3. ASSUME NEW h \in Handler
      PROVE  InvocationOK(handler'[h]) /\ Reading(handler'[h], cells', blobs')
  <2>1. InvocationOK(handler[h]) /\ Reading(handler[h], cells, blobs)
    BY <1>2, Zenon DEF BaseInv, TypeOK
  <2>2. handler'[h] = Idle \/ handler'[h] = handler[h]
    BY <1>1, Zenon
  <2>3. cells' = cells /\ blobs' = blobs
    BY <1>1, Zenon
  <2> QED
    BY <2>1, <2>2, <2>3, IdleOK, Zenon
<1>4. handler' = [h \in Handler |-> handler'[h]]
    BY <1>1, Zenon
<1>5. config' \in [Process -> Nat]
    BY <1>1, <1>2, Zenon DEF TypeOK
<1>6. /\ capture' \in [pc : {"idle", "copying", "captured"}, token : Token \cup {None}, copy : {capture'.copy}]
      /\ DOMAIN capture'.copy \subseteq Item
      /\ capture'.copy \in [DOMAIN capture'.copy -> Record]
  <2>1. CASE capture' = NoCapture
    BY <2>1, NoCaptureOK, Zenon
  <2>2. CASE capture' = capture
    BY <1>2, <2>2, Zenon DEF TypeOK
  <2> QED
    BY <1>1, <2>1, <2>2, Zenon
<1>7. TypeOK'
    BY <1>1, <1>2, <1>3, <1>4, <1>5, <1>6, Zenon DEF TypeOK
<1>8. Copied'
  <2>1. CASE capture' = NoCapture
    BY <2>1, NoCaptureOK, Zenon DEF Copied
  <2>2. CASE capture' = capture
    BY <1>1, <1>2, <2>2, Zenon DEF Copied, CurrentToken, Stored
  <2> QED
    BY <1>1, <2>1, <2>2, Zenon
<1>9. BodiesStored' /\ OneAnswer'
    BY <1>1, Zenon DEF BaseInv, BodiesStored, OneAnswer
<1> QED
    BY <1>3, <1>7, <1>8, <1>9, Zenon DEF BaseInv

\* Replay: the answer is what the receipt records.
LEMMA ReplayStep ==
    ASSUME BaseInv, NEW h \in Handler, NEW e \in Request, Replay(h, e)
    PROVE  BaseInv'
<1> DEFINE receipt == receipts[IdOf[e]]
<1>1. /\ UNCHANGED <<fence, seq, life, serving, sealed, cells, versions, receipts, blobs, config, handler, capture>>
      /\ receipt # None /\ receipt.event = e
      /\ replies' = replies \cup {[event |-> e, result |-> receipt.result]}
    BY Zenon DEF Replay, Reply, meta, content
<1>2. TypeOK /\ Copied
    BY Zenon DEF BaseInv
<1>3. receipt \in Receipt
    BY <1>1, <1>2, NamespaceAssumption DEF TypeOK
<1>4. [event |-> e, result |-> receipt.result] = receipt
    BY <1>1, <1>3, Zenon DEF Receipt
<1>5. OneAnswer'
    BY <1>1, <1>4, Zenon DEF BaseInv, OneAnswer
<1>6. TypeOK'
    BY <1>1, <1>2, <1>3, <1>4, Zenon DEF TypeOK
<1>7. Copied'
    BY <1>1, <1>2, Zenon DEF Copied, CurrentToken, Stored
<1>8. BodiesStored'
    BY <1>1, Zenon DEF BaseInv, BodiesStored
<1> QED
    BY <1>1, <1>5, <1>6, <1>7, <1>8, Zenon DEF BaseInv

\* The steps that leave rows, receipts and bodies alone in any namespace.
Aside ==
    \/ \E h \in Handler, e \in Request : Replay(h, e)
    \/ BeginCapture \/ EndCapture \/ AbandonCapture
    \/ \E p \in Page : CapturePage(p)
    \/ AdvanceFence
    \/ \E p \in Process : Restart(p)
    \/ UNCHANGED vars

LEMMA AsideFrame ==
    ASSUME Aside
    PROVE  /\ UNCHANGED <<seq, life, serving, sealed, cells, versions, receipts, blobs, import>>
           /\ handler' = handler \/ handler' = [h \in Handler |-> handler'[h]]
           /\ \A h \in Handler : handler'[h] = handler[h] \/ handler'[h] = Idle
<1>1. CASE \/ \E h \in Handler, e \in Request : Replay(h, e)
           \/ BeginCapture \/ EndCapture \/ AbandonCapture
           \/ \E p \in Page : CapturePage(p)
           \/ AdvanceFence \/ UNCHANGED vars
  <2>1. UNCHANGED <<seq, life, serving, sealed, content, blobs, import, handler>>
    BY <1>1, Zenon DEF Replay, BeginCapture, EndCapture, AbandonCapture, CapturePage, AdvanceFence, meta, vars
  <2> QED
    BY <2>1, Zenon DEF content
<1>2. CASE \E p \in Process : Restart(p)
    BY <1>2, Zenon DEF Restart, meta, content
<1> QED
    BY <1>1, <1>2, Zenon DEF Aside

LEMMA AsideStep ==
    ASSUME BaseInv, Aside
    PROVE  BaseInv'
<1>1. ASSUME NEW h \in Handler, NEW e \in Request, Replay(h, e) PROVE BaseInv'
    BY <1>1, ReplayStep, Zenon
<1>2. CASE BeginCapture \/ EndCapture \/ AbandonCapture \/ \E p \in Page : CapturePage(p)
    BY <1>2, CaptureStep, Zenon
<1>3. CASE AdvanceFence
    BY <1>3, AdvanceFenceStep, Zenon
<1>4. ASSUME NEW p \in Process, Restart(p) PROVE BaseInv'
    BY <1>4, RestartStep, Zenon
<1>5. CASE UNCHANGED vars
  <2>1. UNCHANGED <<meta, content, blobs, config, handler, capture, replies>>
    BY <1>5, Zenon DEF vars
  <2>2. Copied'
    BY <2>1, Zenon DEF BaseInv, Copied, CurrentToken, Stored, meta, content
  <2>3. /\ capture' \in [pc : {"idle", "copying", "captured"}, token : Token \cup {None}, copy : {capture'.copy}]
        /\ DOMAIN capture'.copy \subseteq Item
        /\ capture'.copy \in [DOMAIN capture'.copy -> Record]
    BY <2>1, Zenon DEF BaseInv, TypeOK
  <2> QED
    BY <2>1, <2>2, <2>3, CaptureMoves, Zenon
<1> QED
    BY <1>1, <1>2, <1>3, <1>4, <1>5, Zenon DEF Aside

LEMMA NamespaceStep == NamespaceInv /\ [Next]_vars => NamespaceInv'
<1> SUFFICES ASSUME NamespaceInv, [Next]_vars PROVE NamespaceInv'
    BY Zenon
<1>0. CASE Aside
  <2>1. BaseInv'
    BY <1>0, AsideStep, Zenon DEF NamespaceInv
  <2>2. cells' = cells /\ versions' = versions
    BY <1>0, AsideFrame, Zenon
  <2>3. HeadsNameVersions'
    BY <2>2, Zenon DEF NamespaceInv, HeadsNameVersions
  <2> QED
    BY <2>1, <2>3, Zenon DEF NamespaceInv
<1>1. ASSUME NEW h \in Handler, Handle(h) PROVE NamespaceInv'
  <2>1. ASSUME NEW e \in Request, Replay(h, e) PROVE NamespaceInv'
    BY <1>0, <2>1, Zenon DEF Aside
  <2>2. ASSUME NEW e \in Request, Receive(h, e) PROVE NamespaceInv'
    BY <2>2, ReceiveStep, Zenon
  <2>3. CASE ReadRow(h) \/ ReadHead(h)
    <3>1. PICK c \in Cell : Observe(h, c)
      BY <2>3, Zenon DEF ReadRow, ReadHead, Cell
    <3> QED
      BY <3>1, ObserveStep, Zenon
  <2>4. CASE Publish(h)
    BY <2>4, PublishStep, Zenon
  <2>5. CASE CommitInvocation(h)
    BY <2>5, CommitStep, Zenon DEF CommitInvocation, Reply
  <2>6. CASE CommitDurable(h)
    BY <2>6, CommitStep, Zenon DEF CommitDurable
  <2>7. CASE Conflict(h) \/ Fail(h)
    <3>1. /\ handler' = [handler EXCEPT ![h] = Idle]
          /\ UNCHANGED <<meta, content, blobs, config, capture, replies>>
      BY <2>7, Zenon DEF Conflict, Fail
    <3> QED
      BY <3>1, HandlerStops, Zenon
  <2> QED
    BY <1>1, <2>1, <2>2, <2>3, <2>4, <2>5, <2>6, <2>7, Zenon DEF Handle
<1>2. CASE Export
  <2>1. CASE BeginCapture \/ EndCapture \/ AbandonCapture \/ \E p \in Page : CapturePage(p)
    BY <1>0, <2>1, Zenon DEF Aside
  <2>2. CASE SealRetention \/ SuccessorSealRetention
    <3>1. TokenWrite(Retention) /\ sealed' \in BOOLEAN
      BY <2>2, Zenon DEF SealRetention, SuccessorSealRetention, NamespaceInv, BaseInv, TypeOK
    <3> QED
      BY <3>1, TokenWriteStep, Zenon
  <2>3. CASE SealCompletion \/ SuccessorSealCompletion
    <3>1. TokenWrite(Seal) /\ sealed' \in BOOLEAN
      BY <2>3, Zenon DEF SealCompletion, SuccessorSealCompletion
    <3> QED
      BY <3>1, TokenWriteStep, Zenon
  <2> QED
    BY <1>2, <2>1, <2>2, <2>3, Zenon DEF Export
<1>3. CASE AdvanceFence \/ (\E p \in Process : Restart(p)) \/ UNCHANGED vars
    BY <1>0, <1>3, Zenon DEF Aside
<1> QED
    BY <1>1, <1>2, <1>3, Zenon DEF Next

LEMMA NamespaceStart == Empty /\ life \in {"Ordinary", "FreshImport"} => NamespaceInv
<1> SUFFICES ASSUME Empty, life \in {"Ordinary", "FreshImport"} PROVE NamespaceInv
    BY Zenon
<1>1. Absent \in Row /\ Absent.val = None /\ Absent.ver = 0
    BY Zenon DEF Absent, Row
<1>2. /\ cells \in [Cell -> Row] /\ \A c \in Cell : cells[c] = Absent
      /\ versions \in [Object -> Seq(Value)] /\ \A o \in Object : versions[o] = <<>>
      /\ receipts \in [Id -> Receipt \cup {None}]
    BY <1>1 DEF Empty
<1>3. TypeOK
  <2>1. handler = [h \in Handler |-> handler[h]] /\ \A h \in Handler : InvocationOK(handler[h])
    BY IdleOK, Zenon DEF Empty
  <2>2. config \in [Process -> Nat] /\ fence \in Nat /\ seq \in Nat /\ sealed \in BOOLEAN
    BY Zenon DEF Empty
  <2> QED
    BY <1>2, <2>1, <2>2, NoCaptureOK, Zenon DEF Empty, TypeOK
<1>4. \A h \in Handler : Reading(handler[h], cells, blobs)
    BY IdleOK, Zenon DEF Empty
<1>5. Copied
    BY NoCaptureOK, Zenon DEF Empty, Copied
<1>6. HeadsNameVersions /\ BodiesStored
  <2> SUFFICES ASSUME NEW o \in Object
               PROVE  /\ cells[o].ver = Len(versions[o]) /\ cells[o].ver <= MaxVersion
                      /\ cells[o].val # None => cells[o].val = versions[o][cells[o].ver]
                      /\ \A n \in DOMAIN versions[o] : <<o, versions[o][n]>> \in blobs
    BY Zenon DEF HeadsNameVersions, BodiesStored
  <2>1. cells[o] = Absent /\ versions[o] = <<>>
    BY <1>2, Zenon DEF Cell
  <2>2. Len(versions[o]) = 0 /\ DOMAIN versions[o] = {} /\ 0 <= MaxVersion
    BY <2>1, NamespaceAssumption
  <2> QED
    BY <1>1, <2>1, <2>2, Zenon
<1>7. OneAnswer
    BY Zenon DEF Empty, OneAnswer
<1> QED
    BY <1>3, <1>4, <1>5, <1>6, <1>7, Zenon DEF NamespaceInv, BaseInv

-------------------------------------------------------------------------------
(* Theorems about one namespace *)

\* The inductive invariant: what every invocation has read is the row as it is
\* or an earlier revision of it (read_state, load_object_head), bodies come
\* before rows, and what a current capture copied is what is stored.
THEOREM NamespaceInvariance == Spec => []NamespaceInv
<1>1. Init => NamespaceInv
    BY NamespaceStart, Zenon DEF Init
<1>2. NamespaceInv /\ [Next]_vars => NamespaceInv'
    BY NamespaceStep, Zenon
<1> QED
    BY <1>1, <1>2, PTL DEF Spec

\* Every answer to a request is the one its receipt records, through replays,
\* fencing and restarts (reconcile_receipt).
THEOREM AnswersAgree == Spec => []OneAnswer
<1>1. NamespaceInv => OneAnswer
    BY Zenon DEF NamespaceInv, BaseInv
<1> QED
    BY <1>1, NamespaceInvariance, PTL

\* Heads name the newest version (load_object_head never meets a corrupt row).
THEOREM HeadsAreNewest == Spec => []HeadsNameVersions
<1>1. NamespaceInv => HeadsNameVersions
    BY Zenon DEF NamespaceInv, BaseInv
<1> QED
    BY <1>1, NamespaceInvariance, PTL

\* No version row references a body that was not published (blobs first).
THEOREM BodiesComeFirst == Spec => []BodiesStored
<1>1. NamespaceInv => BodiesStored
    BY Zenon DEF NamespaceInv, BaseInv
<1> QED
    BY <1>1, NamespaceInvariance, PTL

\* A complete capture under the current token is the namespace, page boundaries
\* and interleaved commits notwithstanding (capture_scoped).
THEOREM CapturesExactly == Spec => []CaptureIsExact
<1>1. NamespaceInv => CaptureIsExact
  <2> SUFFICES ASSUME NamespaceInv, capture.pc = "captured", capture.token = CurrentToken
               PROVE  \A x \in Item : capture.copy[x] = Stored(x)
    BY Zenon DEF CaptureIsExact
  <2> QED
    BY Zenon DEF NamespaceInv, BaseInv, Copied
<1> QED
    BY <1>1, NamespaceInvariance, PTL

\* The transaction of a step: over current rows, before any Seal.
Transacts(e, read) ==
    /\ ~sealed /\ Current(e, read) /\ Committable(e, read) /\ Write(e, read)
    /\ sealed' = (e = Seal)
    /\ e = Seal => \A x \in Item : capture.copy[x] = Stored(x)

Quiet == UNCHANGED <<seq, sealed, content>>

\* A step of the processes leaves the rows alone or is one transaction.
LEMMA StepTransacts ==
    ASSUME NamespaceInv, [Next]_vars
    PROVE  Quiet \/ \E e \in Event, read \in {handler[h].read : h \in Handler} \cup {capture.copy} :
                       Transacts(e, read)
<1>1. ASSUME NEW h \in Handler, Handle(h)
      PROVE  Quiet \/ \E e \in Event : Transacts(e, handler[h].read)
  <2>1. CASE CommitInvocation(h) \/ CommitDurable(h)
    <3> DEFINE w == handler[h]
    <3>1. CommitBy(h) /\ Current(w.event, w.read)
      BY <2>1, CommitStep, Zenon DEF CommitInvocation, CommitDurable, Reply
    <3>2. w.event \in Event /\ w.event # Seal
      <4>1. w.pc = "publishing" /\ Reading(w, cells, blobs)
        BY <3>1, Zenon DEF CommitBy, NamespaceInv, BaseInv
      <4> QED
        BY <4>1, NamespaceAssumption DEF Reading
    <3>3. ~sealed /\ sealed' = sealed /\ sealed \in BOOLEAN
      BY <3>1, Zenon DEF CommitBy, Admits, AdmitsOrdinary, AdmitsSuccessor, NamespaceInv, BaseInv, TypeOK
    <3>4. Transacts(w.event, w.read)
      BY <3>1, <3>2, <3>3, Zenon DEF CommitBy, Transacts
    <3> QED
      BY <3>2, <3>4, Zenon
  <2>2. CASE ~(CommitInvocation(h) \/ CommitDurable(h))
    BY <1>1, <2>2, Zenon DEF Handle, Quiet, meta, Replay, Receive, ReadRow, ReadHead, Observe, Publish, Conflict, Fail
  <2> QED
    BY <2>1, <2>2, Zenon
<1>2. CASE Export
  <2>1. CASE SealRetention \/ SuccessorSealRetention
    <3>1. TokenWrite(Retention) /\ ~sealed /\ sealed' = sealed /\ Retention \in Event /\ Retention # Seal
      BY <2>1, NamespaceAssumption, Zenon
         DEF SealRetention, SuccessorSealRetention, Admits, AdmitsOrdinary, AdmitsSuccessor
    <3>2. Current(Retention, capture.copy)
      BY <3>1, TokenWriteCurrent, Zenon
    <3>3. Transacts(Retention, capture.copy)
      BY <3>1, <3>2, Zenon DEF TokenWrite, Transacts, NamespaceInv, BaseInv, TypeOK
    <3> QED
      BY <3>1, <3>3, Zenon
  <2>2. CASE SealCompletion \/ SuccessorSealCompletion
    <3>1. TokenWrite(Seal) /\ ~sealed /\ sealed' = TRUE /\ Seal \in Event
      BY <2>2, NamespaceAssumption, Zenon
         DEF SealCompletion, SuccessorSealCompletion, Admits, AdmitsOrdinary, AdmitsSuccessor
    <3>2. Current(Seal, capture.copy) /\ \A x \in Item : capture.copy[x] = Stored(x)
      BY <3>1, TokenWriteCurrent, Zenon
    <3>3. Transacts(Seal, capture.copy)
      BY <3>1, <3>2, Zenon DEF TokenWrite, Transacts
    <3> QED
      BY <3>1, <3>3, Zenon
  <2>3. CASE BeginCapture \/ EndCapture \/ AbandonCapture \/ \E p \in Page : CapturePage(p)
    BY <2>3, Zenon DEF Quiet, meta, BeginCapture, EndCapture, AbandonCapture, CapturePage
  <2> QED
    BY <1>2, <2>1, <2>2, <2>3, Zenon DEF Export
<1>3. CASE AdvanceFence \/ (\E p \in Process : Restart(p)) \/ UNCHANGED vars
    BY <1>3, Zenon DEF Quiet, vars, meta, AdvanceFence, Restart
<1> QED
    BY <1>1, <1>2, <1>3, Zenon DEF Next

\* After the Seal nothing changes the namespace, and the Seal is committed over
\* what was captured (commit_seal_completion).
THEOREM SealsForGood == Spec => SealIsFinal
<1>1. ASSUME NamespaceInv, [Next]_vars
      PROVE  /\ sealed => UNCHANGED <<seq, sealed, content>>
             /\ sealed' # sealed => \A x \in Item : capture.copy[x] = Stored(x)
  <2>1. CASE Quiet
    BY <2>1, Zenon DEF Quiet
  <2>2. ASSUME NEW e, NEW read, Transacts(e, read)
        PROVE  ~sealed /\ (sealed' # sealed => \A x \in Item : capture.copy[x] = Stored(x))
    BY <1>1, <2>2, Zenon DEF Transacts, NamespaceInv, BaseInv, TypeOK
  <2> QED
    BY <1>1, <2>1, <2>2, StepTransacts, Zenon
<1>2. NamespaceInv /\ [Next]_vars =>
          [/\ sealed => UNCHANGED <<seq, sealed, content>>
           /\ sealed' # sealed => \A x \in Item : capture.copy[x] = Stored(x)]_vars
    BY <1>1, Zenon
<1> QED
    BY <1>2, NamespaceInvariance, PTL DEF Spec, SealIsFinal

-------------------------------------------------------------------------------
(* Commits implement transactions that run alone *)

Values(rows) == [c \in Cell |-> rows[c].val]
EventsOf(table) == [i \in Id |-> IF table[i] = None THEN None ELSE table[i].event]

\* A transaction over current rows computes what it would compute alone.
LEMMA TransactionExecutes ==
    ASSUME NamespaceInv, NEW e \in Event, NEW read, Transacts(e, read)
    PROVE  Serial!Execute(e)
<1> DEFINE new == Result(e, read)
           rec == [event |-> e, result |-> new]
<1>1. TypeOK /\ Current(e, read) /\ Committable(e, read) /\ Write(e, read)
    BY Zenon DEF NamespaceInv, BaseInv, Transacts
<1>2. /\ IdOf[e] \in Id /\ Reads[e] \subseteq Cell /\ Writes[e] \subseteq Reads[e]
      /\ \A c \in Reads[e] : read[c] = cells[c]
    BY <1>1, NamespaceAssumption, Zenon DEF Current
<1>3. rec \in Receipt
    BY <1>1, WriteEffect, Zenon
<1>4. rec # None
    BY <1>3, NamespaceAssumption, Zenon DEF Receipt, Output
<1>5. Apply(e, [c \in Reads[e] |-> Values(cells)[c]]) = new
  <2>1. [c \in Reads[e] |-> Values(cells)[c]] = [c \in Reads[e] |-> read[c].val]
    BY <1>2, Zenon DEF Values
  <2> QED
    BY <2>1, Zenon DEF Result
<1>6. Values(cells') = [c \in Cell |-> IF c \in Writes[e] THEN new[c] ELSE Values(cells)[c]]
  <2>1. ASSUME NEW c \in Cell
        PROVE  cells'[c].val = IF c \in Writes[e] THEN new[c] ELSE cells[c].val
    BY <1>1, Zenon DEF Write, NewRow, NewHead
  <2> HIDE DEF new
  <2> QED
    BY <2>1, Zenon DEF Values
<1>7. EventsOf(receipts') = [i \in Id |-> IF i = IdOf[e] /\ e \notin Bare THEN e ELSE EventsOf(receipts)[i]]
  <2>1. ASSUME NEW i \in Id
        PROVE  receipts'[i] = IF e \notin Bare /\ i = IdOf[e] THEN rec ELSE receipts[i]
    BY <1>1, Zenon DEF Write, NewReceipts
  <2>2. rec.event = e
    BY Zenon
  <2> HIDE DEF rec
  <2> QED
    BY <1>4, <2>1, <2>2, Zenon DEF EventsOf
<1>8. e \notin Bare => EventsOf(receipts)[IdOf[e]] = None
    BY <1>1, <1>2, Zenon DEF EventsOf, Committable
<1>9. ~sealed /\ sealed' = (e = Seal)
    BY Zenon DEF Transacts
<1> HIDE DEF new, rec
<1> QED
    BY <1>5, <1>6, <1>7, <1>8, <1>9, Zenon DEF Serial!Execute, Values, EventsOf

\* Handlers that read one row at a time, without locks, and captures that read
\* page by page: the namespace behaves as a store that runs one transaction at a
\* time, each request at most once, none after the Seal.
THEOREM NamespaceIsSerial == Spec => RefinesSerialStore
<1>1. Init => Serial!Init
  <2> SUFFICES ASSUME Init PROVE Serial!Init
    BY Zenon
  <2>1. cells = [c \in Cell |-> Absent] /\ receipts = [i \in Id |-> None] /\ sealed = FALSE
    BY Zenon DEF Init, Empty
  <2>2. Absent.val = None
    BY Zenon DEF Absent
  <2> QED
    BY <2>1, <2>2, Zenon DEF Serial!Init
<1>2. NamespaceInv /\ [Next]_vars => [Serial!Next]_(Serial!vars)
  <2> SUFFICES ASSUME NamespaceInv, [Next]_vars PROVE [Serial!Next]_(Serial!vars)
    BY Zenon
  <2>1. CASE Quiet
    BY <2>1, Zenon DEF Quiet, content, Serial!vars
  <2>2. ASSUME NEW e \in Event, NEW read, Transacts(e, read) PROVE Serial!Next
    BY <2>2, TransactionExecutes, Zenon DEF Serial!Next
  <2> QED
    BY <2>1, <2>2, StepTransacts, Zenon
<1> QED
    BY <1>1, <1>2, NamespaceInvariance, PTL DEF Spec, RefinesSerialStore, Serial!Spec

-------------------------------------------------------------------------------
(* Activation of a successor *)

\* What an importer that is about to activate has verified under fence f and
\* sequence n, if its token is still current.
Ready(w, f, n, held) ==
    w.pc = "activate" =>
        /\ w.token \in Token /\ w.token.fence <= f /\ w.token.seq <= n
        /\ w.token.fence = f /\ w.token.seq = n => held

IsJob(w) == {"pc", "token"} \subseteq DOMAIN w

ActivationInv ==
    /\ fence \in Nat /\ seq \in Nat
    /\ job = [p \in Importer |-> job[p]]
    /\ \A p \in Importer : IsJob(job[p]) /\ Ready(job[p], fence, seq, Holds(Total))
    /\ serving # None => life = "CompleteInactive"

\* Whatever writes rows moves the sequence, and whatever fences moves the fence.
TokenMoves ==
    \/ UNCHANGED <<fence, seq, content>>
    \/ fence' = fence /\ seq' = seq + 1
    \/ fence' = fence + 1 /\ seq' = seq

LEMMA ReadyLater ==
    ASSUME fence \in Nat, seq \in Nat, TokenMoves, NEW w, Ready(w, fence, seq, Holds(Total))
    PROVE  Ready(w, fence', seq', Holds(Total)')
<1> SUFFICES ASSUME w.pc = "activate" PROVE Ready(w, fence', seq', Holds(Total)')
    BY Zenon DEF Ready
<1>1. /\ w.token \in Token /\ w.token.fence <= fence /\ w.token.seq <= seq
      /\ w.token.fence = fence /\ w.token.seq = seq => Holds(Total)
    BY Zenon DEF Ready
<1>2. w.token.fence \in Nat /\ w.token.seq \in Nat
    BY <1>1, Zenon DEF Token
<1>3. CASE UNCHANGED <<fence, seq, content>>
  <2>1. Holds(Total) => Holds(Total)'
    BY <1>3, Zenon DEF Holds, content
  <2> QED
    BY <1>1, <1>3, <2>1, Zenon DEF Ready
<1>4. CASE (fence' = fence /\ seq' = seq + 1) \/ (fence' = fence + 1 /\ seq' = seq)
  <2>1. /\ w.token.fence <= fence' /\ w.token.seq <= seq'
        /\ ~(w.token.fence = fence' /\ w.token.seq = seq')
    <3>1. Advance(fence, seq, fence', seq')
      BY <1>4, Zenon DEF Advance
    <3>2. Behind(w.token.fence, w.token.seq, fence', seq')
      BY <1>1, <1>2, <3>1, TokenPassed, Zenon
    <3> QED
      BY <3>2, Zenon DEF Behind
  <2> QED
    BY <1>1, <2>1, Zenon DEF Ready
<1> QED
    BY <1>3, <1>4, Zenon DEF TokenMoves

\* What a step of an importer does to the jobs: p goes to w, the others stay.
Moves(p, w) ==
    /\ job' = [job EXCEPT ![p] = w] /\ IsJob(w)
    /\ w.pc = "activate" => w.token = CurrentToken /\ Holds(Total) /\ UNCHANGED <<fence, seq, content>>

LEMMA JobMoves ==
    ASSUME ActivationInv, NEW p \in Importer, NEW w, Moves(p, w), TokenMoves,
           serving' # None => life' = "CompleteInactive"
    PROVE  ActivationInv'
<1>1. fence' \in Nat /\ seq' \in Nat
    BY DEF ActivationInv, TokenMoves
<1>2. Ready(w, fence', seq', Holds(Total)')
  <2>1. CASE w.pc # "activate"
    BY <2>1, Zenon DEF Ready
  <2>2. CASE w.pc = "activate"
    <3>1. w.token = CurrentToken /\ Holds(Total) /\ UNCHANGED <<fence, seq, content>>
      BY <2>2, Zenon DEF Moves
    <3>2. Holds(Total)'
      BY <3>1, Zenon DEF Holds, content
    <3>3. w.token \in Token /\ w.token.fence <= fence' /\ w.token.seq <= seq'
      BY <3>1 DEF ActivationInv, CurrentToken, Token
    <3> QED
      BY <3>2, <3>3, Zenon DEF Ready
  <2> QED
    BY <2>1, <2>2, Zenon
<1>3. ASSUME NEW q \in Importer PROVE IsJob(job'[q]) /\ Ready(job'[q], fence', seq', Holds(Total)')
  <2>1. CASE q = p
    <3>1. job'[q] = w /\ IsJob(w)
      BY <2>1, Zenon DEF ActivationInv, Moves
    <3> QED
      BY <1>2, <3>1, Zenon
  <2>2. CASE q # p
    <3>1. job'[q] = job[q]
      BY <2>2, Zenon DEF ActivationInv, Moves
    <3>2. IsJob(job[q]) /\ Ready(job[q], fence, seq, Holds(Total)) /\ fence \in Nat /\ seq \in Nat
      BY Zenon DEF ActivationInv
    <3>3. Ready(job[q], fence', seq', Holds(Total)')
      BY <3>2, ReadyLater, Zenon
    <3> QED
      BY <3>1, <3>2, <3>3, Zenon
  <2> QED
    BY <2>1, <2>2, Zenon
<1>4. job' = [q \in Importer |-> job'[q]]
    BY Zenon DEF ActivationInv, Moves
<1> QED
    BY <1>1, <1>3, <1>4, Zenon DEF ActivationInv

\* What an importer may do to the namespace, given that it serves or not.
Allowed ==
    /\ serving' # serving => serving = None /\ Holds(Total)
    /\ serving # None =>
          /\ UNCHANGED <<serving, life, progress>>
          /\ job' # job => UNCHANGED <<seq, content>>

\* A step of the processes of module DurableNamespace.
LEMMA ProcessFrame ==
    ASSUME Next
    PROVE  UNCHANGED <<life, serving, import>> /\ TokenMoves
<1>1. ASSUME NEW h \in Handler, Handle(h) PROVE UNCHANGED <<life, serving, import>> /\ TokenMoves
  <2>1. CASE CommitInvocation(h) \/ CommitDurable(h)
    BY <2>1, Zenon DEF CommitInvocation, CommitDurable, CommitBy, Write, TokenMoves
  <2>2. CASE ~(CommitInvocation(h) \/ CommitDurable(h))
    BY <1>1, <2>2, Zenon DEF Handle, TokenMoves, meta, Replay, Receive, ReadRow, ReadHead, Observe,
                      Publish, Conflict, Fail
  <2> QED
    BY <2>1, <2>2, Zenon
<1>2. CASE Export
  <2>1. CASE \/ SealRetention \/ SealCompletion
             \/ SuccessorSealRetention \/ SuccessorSealCompletion
    BY <2>1, Zenon DEF SealRetention, SealCompletion, SuccessorSealRetention, SuccessorSealCompletion,
                TokenWrite, Write, TokenMoves
  <2>2. CASE BeginCapture \/ EndCapture \/ AbandonCapture \/ \E p \in Page : CapturePage(p)
    BY <2>2, Zenon DEF TokenMoves, meta, BeginCapture, EndCapture, AbandonCapture, CapturePage
  <2> QED
    BY <1>2, <2>1, <2>2, Zenon DEF Export
<1>3. CASE AdvanceFence \/ \E p \in Process : Restart(p)
    BY <1>3, Zenon DEF TokenMoves, meta, AdvanceFence, Restart
<1> QED
    BY <1>1, <1>2, <1>3, Zenon DEF Next

LEMMA ProcessStep ==
    ASSUME ActivationInv, Next
    PROVE  ActivationInv' /\ Allowed
<1>1. UNCHANGED <<life, serving, import>> /\ TokenMoves
    BY ProcessFrame, Zenon
<1>2. job' = job /\ progress' = progress
    BY <1>1, Zenon DEF import
<1>3. fence' \in Nat /\ seq' \in Nat
    BY <1>1 DEF ActivationInv, TokenMoves
<1>4. \A p \in Importer : IsJob(job[p]) /\ Ready(job[p], fence', seq', Holds(Total)')
    BY <1>1, ReadyLater, Zenon DEF ActivationInv
<1> QED
    BY <1>1, <1>2, <1>3, <1>4, Zenon DEF ActivationInv, Allowed

\* A job whose next place is not "activate".
LEMMA Elsewhere ==
    ASSUME ActivationInv, NEW p \in Importer, NEW w, IsJob(w), w.pc # "activate",
           job' = [job EXCEPT ![p] = w], TokenMoves, serving' # None => life' = "CompleteInactive"
    PROVE  ActivationInv'
<1>1. Moves(p, w)
    BY Zenon DEF Moves
<1> QED
    BY <1>1, JobMoves, Zenon

\* AfterBatch: on to the next batch, to a verification, or to rest.
LEMMA BatchEnds ==
    ASSUME ActivationInv, NEW p \in Importer, NEW n, AfterBatch(p, n)
    PROVE  \E w : job' = [job EXCEPT ![p] = w] /\ IsJob(w) /\ w.pc # "activate"
<1> DEFINE v == job[p]
<1>0. IsJob(v)
    BY Zenon DEF ActivationInv
<1>1. PICK x \in {"verify", "publish", "idle"} :
          \/ job' = [job EXCEPT ![p] = [v EXCEPT !.at = n, !.pc = x]]
          \/ job' = [job EXCEPT ![p] = [v EXCEPT !.pc = x]]
    BY Zenon DEF AfterBatch
<1>2. /\ IsJob([v EXCEPT !.at = n, !.pc = x]) /\ [v EXCEPT !.at = n, !.pc = x].pc = x
      /\ IsJob([v EXCEPT !.pc = x]) /\ [v EXCEPT !.pc = x].pc = x
    BY <1>0, Zenon DEF IsJob
<1>3. x # "activate"
    BY Zenon
<1> HIDE DEF v
<1> QED
    BY <1>1, <1>2, <1>3, Zenon

\* Steps of an importer that only read rows, or publish bodies.
LEMMA ReadingImporter ==
    ASSUME ActivationInv, NEW p \in Importer,
           \/ StartVerify(p) \/ EndVerify(p) \/ PublishBodies(p) \/ RetryBatch(p) \/ ObservedComplete(p)
           \/ ImportRefused(p) \/ ActivationRefused(p)
           \/ Resume(p) \/ ObserveComplete(p) \/ StopImport(p) \/ RestartImporter(p)
    PROVE  ActivationInv' /\ Allowed
<1> DEFINE v == job[p]
<1>0. IsJob(v) /\ (serving # None => life = "CompleteInactive")
    BY Zenon DEF ActivationInv
<1>1. UNCHANGED <<fence, seq, life, serving, cells, versions, receipts, progress>>
    BY Zenon DEF StartVerify, EndVerify, PublishBodies, RetryBatch, ObservedComplete, ImportRefused,
           ActivationRefused, Resume, ObserveComplete, StopImport, RestartImporter, meta, content
<1>2. TokenMoves /\ (serving' # None => life' = "CompleteInactive") /\ Allowed
    BY <1>0, <1>1, Zenon DEF TokenMoves, Allowed, content
<1>3. CASE ObservedComplete(p)
  <2> DEFINE w == [v EXCEPT !.pc = "activate"]
  <2>1. job' = [job EXCEPT ![p] = w] /\ v.token = CurrentToken /\ Holds(Total)
    BY <1>3, Zenon DEF ObservedComplete, Goto, Verified
  <2>2. IsJob(w) /\ w.token = v.token
    BY <1>0, Zenon DEF IsJob
  <2> HIDE DEF w, v
  <2>3. Moves(p, w)
    BY <1>1, <2>1, <2>2, Zenon DEF Moves, content
  <2> QED
    BY <1>2, <2>3, JobMoves, Zenon
<1>4. CASE StartVerify(p) \/ ObserveComplete(p)
  <2>1. PICK x \in {"verifying", "observing"} :
            job' = [job EXCEPT ![p] = [v EXCEPT !.pc = x, !.token = CurrentToken]]
    BY <1>4, Zenon DEF StartVerify, ObserveComplete
  <2> DEFINE w == [v EXCEPT !.pc = x, !.token = CurrentToken]
  <2>2. IsJob(w) /\ w.pc = x
    BY <1>0, Zenon DEF IsJob
  <2>3. job' = [job EXCEPT ![p] = w] /\ x # "activate"
    BY <2>1, Zenon
  <2> HIDE DEF w, v
  <2> QED
    BY <1>2, <2>2, <2>3, Elsewhere, Zenon
<1>5. CASE EndVerify(p) \/ PublishBodies(p) \/ ImportRefused(p) \/ ActivationRefused(p) \/ StopImport(p)
  <2>1. PICK x \in {"finish", "publish", "commit", "idle"} :
            job' = [job EXCEPT ![p] = [v EXCEPT !.pc = x]]
    BY <1>5, Zenon DEF EndVerify, PublishBodies, ImportRefused, ActivationRefused, StopImport, Goto
  <2> DEFINE w == [v EXCEPT !.pc = x]
  <2>2. IsJob(w) /\ w.pc = x
    BY <1>0, Zenon DEF IsJob
  <2>3. job' = [job EXCEPT ![p] = w] /\ x # "activate"
    BY <2>1, Zenon
  <2> HIDE DEF w, v
  <2> QED
    BY <1>2, <2>2, <2>3, Elsewhere, Zenon
<1>6. CASE Resume(p)
  <2> DEFINE w == [v EXCEPT !.pc = "verify", !.at = progress]
  <2>1. job' = [job EXCEPT ![p] = w]
    BY <1>6, Zenon DEF Resume
  <2>2. IsJob(w) /\ w.pc = "verify"
    BY <1>0, Zenon DEF IsJob
  <2> HIDE DEF w, v
  <2> QED
    BY <1>2, <2>1, <2>2, Elsewhere, Zenon
<1>7. CASE RetryBatch(p)
  <2>1. AfterBatch(p, NextBatch(job[p].at))
    BY <1>7, Zenon DEF RetryBatch
  <2>2. PICK w : job' = [job EXCEPT ![p] = w] /\ IsJob(w) /\ w.pc # "activate"
    BY <2>1, BatchEnds, Zenon
  <2> QED
    BY <1>2, <2>2, Elsewhere, Zenon
<1>8. CASE RestartImporter(p)
  <2> DEFINE w == [NoJob EXCEPT !.fence = fence]
  <2>1. job' = [job EXCEPT ![p] = w]
    BY <1>8, Zenon DEF RestartImporter
  <2>2. IsJob(w) /\ w.pc = "idle"
    BY Zenon DEF IsJob, NoJob
  <2> HIDE DEF w
  <2> QED
    BY <1>2, <2>1, <2>2, Elsewhere, Zenon
<1> QED
    BY <1>2, <1>3, <1>4, <1>5, <1>6, <1>7, <1>8, Zenon

\* Steps of an importer that write: none of them when the successor serves.
LEMMA WritingImporter ==
    ASSUME ActivationInv, NEW p \in Importer,
           BeginImport(p) \/ CommitBatch(p) \/ FinishImport(p) \/ Activate(p)
    PROVE  ActivationInv' /\ Allowed
<1> DEFINE v == job[p]
<1>0. IsJob(v) /\ (serving # None => life = "CompleteInactive") /\ fence \in Nat /\ seq \in Nat
    BY Zenon DEF ActivationInv
<1>1. CASE BeginImport(p)
  <2>1. /\ life = "FreshImport" /\ fence' = fence /\ seq' = seq + 1 /\ serving' = serving
        /\ \/ job' = [job EXCEPT ![p] = [v EXCEPT !.pc = "verify", !.at = 0]]
           \/ job' = job
    BY <1>1, Zenon DEF BeginImport
  <2>2. serving = None /\ TokenMoves /\ (serving' # None => life' = "CompleteInactive") /\ Allowed
    BY <1>0, <2>1, Zenon DEF TokenMoves, Allowed
  <2>3. CASE job' = job
    <3>1. \A q \in Importer : IsJob(job[q]) /\ Ready(job[q], fence', seq', Holds(Total)')
      BY <2>2, ReadyLater, Zenon DEF ActivationInv
    <3>2. fence' \in Nat /\ seq' \in Nat
      BY <1>0, <2>1
    <3> QED
      BY <2>2, <2>3, <3>1, <3>2, Zenon DEF ActivationInv
  <2>4. CASE job' = [job EXCEPT ![p] = [v EXCEPT !.pc = "verify", !.at = 0]]
    <3> DEFINE w == [v EXCEPT !.pc = "verify", !.at = 0]
    <3>1. IsJob(w) /\ w.pc = "verify" /\ job' = [job EXCEPT ![p] = w]
      BY <1>0, <2>4, Zenon DEF IsJob
    <3> HIDE DEF w, v
    <3> QED
      BY <2>2, <3>1, Elsewhere, Zenon
  <2> QED
    BY <2>1, <2>3, <2>4, Zenon
<1>2. CASE CommitBatch(p)
  <2>1. /\ life = "Importing" /\ fence' = fence /\ seq' = seq + 1 /\ serving' = serving
        /\ AfterBatch(p, NextBatch(job[p].at))
    BY <1>2, Zenon DEF CommitBatch
  <2>2. serving = None /\ TokenMoves /\ (serving' # None => life' = "CompleteInactive") /\ Allowed
    BY <1>0, <2>1, Zenon DEF TokenMoves, Allowed
  <2>3. PICK w : job' = [job EXCEPT ![p] = w] /\ IsJob(w) /\ w.pc # "activate"
    BY <2>1, BatchEnds, Zenon
  <2> QED
    BY <2>2, <2>3, Elsewhere, Zenon
<1>3. CASE FinishImport(p) \/ Activate(p)
  <2> DEFINE w == [v EXCEPT !.pc = "idle"]
  <2>1. job' = [job EXCEPT ![p] = w]
    BY <1>3, Zenon DEF FinishImport, Activate, Goto
  <2>2. IsJob(w) /\ w.pc = "idle"
    BY <1>0, Zenon DEF IsJob
  <2>3. TokenMoves /\ (serving' # None => life' = "CompleteInactive") /\ Allowed
    <3>1. CASE FinishImport(p)
      BY <1>0, <3>1, Zenon DEF FinishImport, TokenMoves, Allowed, content
    <3>2. CASE Activate(p)
      <4>1. /\ v.pc = "activate" /\ v.token = CurrentToken /\ serving = None
            /\ life = "CompleteInactive" /\ life' = life /\ fence' = fence /\ seq' = seq + 1
        BY <3>2, Zenon DEF Activate, Write
      <4>2. Ready(v, fence, seq, Holds(Total)) /\ v.token.fence = fence /\ v.token.seq = seq
        BY <4>1 DEF ActivationInv, CurrentToken
      <4>3. Holds(Total)
        BY <4>1, <4>2, Zenon DEF Ready
      <4> QED
        BY <4>1, <4>3, Zenon DEF TokenMoves, Allowed
    <3> QED
      BY <1>3, <3>1, <3>2, Zenon
  <2> HIDE DEF w, v
  <2> QED
    BY <2>1, <2>2, <2>3, Elsewhere, Zenon
<1> QED
    BY <1>1, <1>2, <1>3, Zenon

LEMMA ActivationStart == ImportInit => ActivationInv
<1> SUFFICES ASSUME ImportInit PROVE ActivationInv
    BY Zenon
<1>1. job = [p \in Importer |-> NoJob] /\ fence = 1 /\ seq = 0 /\ serving = None
    BY Zenon DEF ImportInit, Empty
<1>2. NoJob.pc = "idle" /\ IsJob(NoJob)
    BY Zenon DEF NoJob, IsJob
<1> HIDE DEF NoJob
<1> QED
    BY <1>1, <1>2, Zenon DEF ActivationInv, Ready

\* The steps of an importer: those that write rows or metadata, and the others.
Writer(p) == BeginImport(p) \/ CommitBatch(p) \/ FinishImport(p) \/ Activate(p)

Reader(p) ==
    \/ StartVerify(p) \/ EndVerify(p) \/ PublishBodies(p) \/ RetryBatch(p) \/ ObservedComplete(p)
    \/ ImportRefused(p) \/ ActivationRefused(p)
    \/ Resume(p) \/ ObserveComplete(p) \/ StopImport(p) \/ RestartImporter(p)

LEMMA ImporterSteps ==
    ASSUME NEW p \in Importer,
           Proceed(p) \/ Resume(p) \/ ObserveComplete(p) \/ StopImport(p) \/ RestartImporter(p)
    PROVE  Writer(p) \/ Reader(p)
    BY Zenon DEF Proceed, Writer, Reader

LEMMA ActivationStep == ActivationInv /\ [ImportNext]_vars => ActivationInv' /\ [Allowed]_vars
<1> SUFFICES ASSUME ActivationInv, [ImportNext]_vars PROVE ActivationInv' /\ [Allowed]_vars
    BY Zenon
<1>1. CASE Next
    BY <1>1, ProcessStep, Zenon
<1>2. ASSUME NEW p \in Importer,
             Proceed(p) \/ Resume(p) \/ ObserveComplete(p) \/ StopImport(p) \/ RestartImporter(p)
      PROVE  ActivationInv' /\ Allowed
  <2>1. CASE Writer(p)
    BY <2>1, WritingImporter, Zenon DEF Writer
  <2>2. CASE Reader(p)
    BY <2>2, ReadingImporter, Zenon DEF Reader
  <2> QED
    BY <1>2, <2>1, <2>2, ImporterSteps, Zenon
<1>3. CASE UNCHANGED vars
    BY <1>3, Zenon DEF vars, meta, content, import, ActivationInv, Ready, Holds
<1> QED
    BY <1>1, <1>2, <1>3, Zenon DEF ImportNext

\* A successor is activated once, over the whole verified plan, and afterwards
\* no importer changes it (commit_successor_activation), for any plan, batches
\* and number of importers and whatever the other processes do meanwhile.
THEOREM ActivatesOnce == ImportSpec => ActivatedOnce
    BY ActivationStart, ActivationStep, PTL DEF ImportSpec, ActivatedOnce, Allowed

-------------------------------------------------------------------------------
(* Rows of a plan *)

\* ImportRow::locator is unique: a cell and a receipt have at most one row, and
\* a version of an object has one.
LEMMA TotalIsNat == Total \in Nat /\ Total > 0
<1>1. Total \in Nat
    BY PlanAssumption DEF Total
<1> QED
    BY <1>1, PlanAssumption

LEMMA PlanRow ==
    ASSUME NEW i \in 1..Total
    PROVE  Plan[i] \in ImportRow /\ Plan[i].ver \in Nat
<1>1. Plan \in Seq(ImportRow)
    BY PlanAssumption, Zenon
<1>2. Plan[i] \in ImportRow
    BY <1>1 DEF Total
<1> QED
    BY <1>2, Zenon DEF ImportRow

LEMMA OneRowOfCell ==
    ASSUME NEW i \in 1..Total, NEW j \in 1..Total, Plan[i].at = Plan[j].at,
           Plan[i].kind \in {"state", "head"}, Plan[j].kind \in {"state", "head"}
    PROVE  i = j
<1>1. Plan[i].kind = Plan[j].kind
    BY PlanAssumption, NamespaceAssumption
<1>2. Locator(i) = Locator(j)
    BY <1>1, Zenon DEF Locator
<1> QED
    BY <1>2, PlanAssumption, Zenon

LEMMA OneRowOfReceipt ==
    ASSUME NEW i \in 1..Total, NEW j \in 1..Total, Plan[i].at = Plan[j].at,
           Plan[i].kind = "receipt", Plan[j].kind = "receipt"
    PROVE  i = j
<1>1. Locator(i) = Locator(j)
    BY Zenon DEF Locator
<1> QED
    BY <1>1, PlanAssumption, Zenon

LEMMA OneRowOfVersion ==
    ASSUME NEW i \in 1..Total, NEW j \in 1..Total, Plan[i].at = Plan[j].at,
           Plan[i].kind = "version", Plan[j].kind = "version", Plan[i].ver = Plan[j].ver
    PROVE  i = j
<1>1. Locator(i) = Locator(j)
    BY Zenon DEF Locator
<1> QED
    BY <1>1, PlanAssumption, Zenon

\* The rows up to n are those up to m and those of the batch from m to n.
LEMMA RowsSplit ==
    ASSUME NEW m \in Nat, NEW n \in Nat, m <= n, NEW x, NEW kinds
    PROVE  /\ RowsAt(x, kinds, 0, n) = RowsAt(x, kinds, 0, m) \cup RowsAt(x, kinds, m, n)
           /\ \A i \in RowsAt(x, kinds, 0, m), j \in RowsAt(x, kinds, m, n) : i < j
    BY DEF RowsAt

LEMMA RowsOfPlan ==
    ASSUME NEW m \in Nat, NEW n \in Nat, n <= Total, NEW x, NEW kinds, NEW i \in RowsAt(x, kinds, m, n)
    PROVE  i \in 1..Total /\ Plan[i].at = x /\ Plan[i].kind \in kinds
    BY TotalIsNat DEF RowsAt

\* next_batch: from a boundary that is not the last there is a next one.
LEMMA NextBatchExists ==
    ASSUME NEW n \in {0} \cup Batch, n # Total
    PROVE  NextBatch(n) \in Batch /\ NextBatch(n) > n /\ NextBatch(n) \in 1..Total
<1>1. n \in DOMAIN BatchEnd
    BY PlanAssumption, Zenon
<1>2. BatchEnd[n] \in Batch
    BY <1>1, Zenon DEF Batch
<1>3. BatchEnd[n] \in 1..Total /\ n < BatchEnd[n]
    BY <1>1, <1>2, PlanAssumption, Zenon
<1>4. n \in Nat
  <2>1. n = 0 \/ n \in 1..Total
    BY PlanAssumption, Zenon
  <2> QED
    BY <2>1, TotalIsNat
<1> QED
    BY <1>2, <1>3, <1>4, TotalIsNat, Zenon DEF NextBatch

-------------------------------------------------------------------------------
(* What a batch installs *)

\* One cell, one receipt, the versions of one object, as the first n rows have it.
CellHolds(cell, c, n) ==
    /\ RowsAt(c, {"state", "head"}, 0, n) = {} => cell = Absent
    /\ \A i \in RowsAt(c, {"state", "head"}, 0, n) : Matches(cell, i)

ReceiptHolds(receipt, x, n) ==
    /\ RowsAt(x, {"receipt"}, 0, n) = {} => receipt = None
    /\ \A i \in RowsAt(x, {"receipt"}, 0, n) : receipt = Plan[i].val

VersionsHold(table, o, n) ==
    /\ DOMAIN table = {Plan[i].ver : i \in VersionRows(o, 0, n)}
    /\ \A i \in VersionRows(o, 0, n) : table[Plan[i].ver] = Plan[i].val

HoldsIn(rows, tables, answers, n) ==
    /\ \A c \in Cell : CellHolds(rows[c], c, n)
    /\ \A o \in Object : VersionsHold(tables[o], o, n)
    /\ \A x \in Id : ReceiptHolds(answers[x], x, n)

LEMMA CellCase ==
    ASSUME NEW cell, NEW c, NEW n
    PROVE  LET rows == RowsAt(c, {"state", "head"}, 0, n)
           IN  (IF rows = {} THEN cell = Absent ELSE \A i \in rows : Matches(cell, i))
               <=> CellHolds(cell, c, n)
    BY Zenon DEF CellHolds

LEMMA ReceiptCase ==
    ASSUME NEW receipt, NEW x, NEW n
    PROVE  LET rows == RowsAt(x, {"receipt"}, 0, n)
           IN  (IF rows = {} THEN receipt = None ELSE \A i \in rows : receipt = Plan[i].val)
               <=> ReceiptHolds(receipt, x, n)
    BY Zenon DEF ReceiptHolds

LEMMA HoldsPointwise ==
    ASSUME NEW n
    PROVE  /\ Holds(n) <=> HoldsIn(cells, versions, receipts, n)
           /\ Holds(n)' <=> HoldsIn(cells', versions', receipts', n)
<1>1. Holds(n) <=> HoldsIn(cells, versions, receipts, n)
    BY CellCase, ReceiptCase, Zenon DEF Holds, HoldsIn, VersionsHold
<1>2. Holds(n)' <=> HoldsIn(cells', versions', receipts', n)
    BY CellCase, ReceiptCase, Zenon DEF Holds, HoldsIn, VersionsHold
<1> QED
    BY <1>1, <1>2, Zenon

HeadNames(o) ==
    /\ cells[o].ver = Len(versions[o])
    /\ cells[o].val # None => cells[o].val = versions[o][cells[o].ver]

\* commit_import_batch: what a row of the batch is installed at was free.
LEMMA InstallsCell ==
    ASSUME NEW m \in Nat, NEW n \in Nat, m <= n, n <= Total, InstallRows(m, n),
           NEW c \in Cell, cells[c] \in Row, CellHolds(cells[c], c, m)
    PROVE  cells'[c] \in Row /\ CellHolds(cells'[c], c, n)
<1> DEFINE R == RowsAt(c, {"state", "head"}, m, n)
           Q == RowsAt(c, {"state", "head"}, 0, m)
           i == CHOOSE j \in R : TRUE
<1>1. /\ RowsAt(c, {"state", "head"}, 0, n) = Q \cup R
      /\ \A j \in Q, k \in R : j < k
    BY RowsSplit, Zenon
<1>2. \A j \in Q \cup R : j \in 1..Total /\ Plan[j].at = c /\ Plan[j].kind \in {"state", "head"}
    BY <1>1, RowsOfPlan, Zenon
<1>3. \A j, k \in Q \cup R : j = k
    BY <1>2, OneRowOfCell, Zenon
<1>4. cells'[c] = IF R = {} \/ cells[c].rev > 0 THEN cells[c] ELSE PlannedCell(i)
    BY Zenon DEF InstallRows
<1>5. CASE R = {}
    BY <1>1, <1>4, <1>5, Zenon DEF CellHolds
<1>6. CASE R # {}
  <2>1. i \in R /\ i \in 1..Total
    BY <1>2, <1>6, Zenon
  <2>2. Q = {}
    <3>1. SUFFICES ASSUME NEW j \in Q PROVE FALSE
      BY Zenon
    <3>2. j < i /\ j = i
      BY <1>1, <1>3, <2>1, Zenon
    <3>3. j \in Nat
      BY <1>2
    <3> HIDE DEF i
    <3> QED
      BY <3>2, <3>3
  <2>3. cells[c].rev = 0
    BY <2>2 DEF CellHolds, Absent
  <2>4. cells'[c] = PlannedCell(i)
    BY <1>4, <1>6, <2>3
  <2>5. Plan[i].val \in Value \cup {None} /\ Plan[i].ver \in Nat
    BY <1>2, <2>1, PlanRow, PlanAssumption, Zenon
  <2>6. cells'[c] \in Row /\ Matches(cells'[c], i)
    BY <2>4, <2>5 DEF PlannedCell, Row, Matches
  <2>7. RowsAt(c, {"state", "head"}, 0, n) # {} /\ \A j \in RowsAt(c, {"state", "head"}, 0, n) : j = i
    BY <1>1, <1>3, <2>1, Zenon
  <2> QED
    BY <2>6, <2>7, Zenon DEF CellHolds
<1> QED
    BY <1>5, <1>6, Zenon

LEMMA InstallsReceipt ==
    ASSUME NEW m \in Nat, NEW n \in Nat, m <= n, n <= Total, InstallRows(m, n),
           NEW x \in Id, receipts[x] \in Receipt \cup {None}, ReceiptHolds(receipts[x], x, m)
    PROVE  /\ receipts'[x] \in Receipt \cup {None} /\ ReceiptHolds(receipts'[x], x, n)
           /\ receipts[x] # None => receipts'[x] = receipts[x]
<1> DEFINE R == RowsAt(x, {"receipt"}, m, n)
           Q == RowsAt(x, {"receipt"}, 0, m)
           i == CHOOSE j \in R : TRUE
<1>1. /\ RowsAt(x, {"receipt"}, 0, n) = Q \cup R
      /\ \A j \in Q, k \in R : j < k
    BY RowsSplit, Zenon
<1>2. \A j \in Q \cup R : j \in 1..Total /\ Plan[j].at = x /\ Plan[j].kind = "receipt"
    BY <1>1, RowsOfPlan
<1>3. \A j, k \in Q \cup R : j = k
    BY <1>2, OneRowOfReceipt, Zenon
<1>4. receipts'[x] = IF R = {} \/ receipts[x] # None THEN receipts[x] ELSE Plan[i].val
    BY Zenon DEF InstallRows
<1>5. CASE R = {}
    BY <1>1, <1>4, <1>5, Zenon DEF ReceiptHolds
<1>6. CASE R # {}
  <2>1. i \in R /\ i \in 1..Total
    BY <1>2, <1>6, Zenon
  <2>2. Q = {}
    <3>1. SUFFICES ASSUME NEW j \in Q PROVE FALSE
      BY Zenon
    <3>2. j < i /\ j = i
      BY <1>1, <1>3, <2>1, Zenon
    <3>3. j \in Nat
      BY <1>2
    <3> HIDE DEF i
    <3> QED
      BY <3>2, <3>3
  <2>3. receipts[x] = None
    BY <2>2, Zenon DEF ReceiptHolds
  <2>4. receipts'[x] = Plan[i].val /\ Plan[i].val \in Receipt
    BY <1>2, <1>4, <1>6, <2>1, <2>3, PlanAssumption, Zenon
  <2>5. RowsAt(x, {"receipt"}, 0, n) # {} /\ \A j \in RowsAt(x, {"receipt"}, 0, n) : j = i
    BY <1>1, <1>3, <2>1, Zenon
  <2> QED
    BY <2>3, <2>4, <2>5, Zenon DEF ReceiptHolds
<1> QED
    BY <1>5, <1>6, Zenon

LEMMA InstallsVersions ==
    ASSUME NEW m \in Nat, NEW n \in Nat, m <= n, n <= Total, InstallRows(m, n),
           NEW o \in Object, versions[o] \in Seq(Value), VersionsHold(versions[o], o, m)
    PROVE  /\ versions'[o] \in Seq(Value) /\ VersionsHold(versions'[o], o, n)
           /\ \A v \in DOMAIN versions'[o] :
                 \/ v \in DOMAIN versions[o] /\ versions'[o][v] = versions[o][v]
                 \/ <<o, versions'[o][v]>> \in Bodies(m, n)
<1> DEFINE R == VersionRows(o, m, n)
           Q == VersionRows(o, 0, m)
           old == versions[o]
           D == DOMAIN old \cup {Plan[i].ver : i \in R}
           new == versions'[o]
<1>1. /\ VersionRows(o, 0, n) = Q \cup R
      /\ \A i \in Q, j \in R : i < j
    BY RowsSplit, Zenon DEF VersionRows
<1>2. \A i \in Q \cup R : i \in 1..Total /\ Plan[i].at = o /\ Plan[i].kind = "version" /\ Plan[i].val \in Value
  <2>1. \A i \in Q \cup R : i \in 1..Total /\ Plan[i].at = o /\ Plan[i].kind = "version"
    BY <1>1, RowsOfPlan DEF VersionRows
  <2> QED
    BY <2>1, PlanAssumption, Zenon
<1>3. \A i, j \in Q \cup R : Plan[i].ver = Plan[j].ver => i = j
    BY <1>2, OneRowOfVersion, Zenon
<1>4. new = [v \in D |-> IF v \in DOMAIN old THEN old[v]
                         ELSE Plan[CHOOSE i \in R : Plan[i].ver = v].val]
    BY Zenon DEF InstallRows
<1>5. /\ DOMAIN old = {Plan[i].ver : i \in Q}
      /\ \A i \in Q : old[Plan[i].ver] = Plan[i].val
    BY Zenon DEF VersionsHold
<1> HIDE DEF old, new, R, Q
<1>6. DOMAIN new = {Plan[i].ver : i \in Q \cup R}
    BY <1>4, <1>5, Zenon
<1>7. ASSUME NEW i \in Q PROVE Plan[i].ver \in DOMAIN old /\ new[Plan[i].ver] = old[Plan[i].ver]
    BY <1>4, <1>5, Zenon
<1>8. ASSUME NEW i \in R PROVE new[Plan[i].ver] = Plan[i].val
  <2>1. Plan[i].ver \notin DOMAIN old
    <3>1. SUFFICES ASSUME NEW j \in Q, Plan[j].ver = Plan[i].ver PROVE FALSE
      BY <1>5, Zenon
    <3>2. j = i /\ j < i
      BY <1>1, <1>3, <3>1, Zenon
    <3>3. i \in Nat
      BY <1>2
    <3> QED
      BY <3>2, <3>3
  <2>2. (CHOOSE j \in R : Plan[j].ver = Plan[i].ver) = i
    BY <1>3, Zenon
  <2> QED
    BY <1>4, <2>1, <2>2, Zenon
<1>9. VersionsHold(new, o, n)
  <2>1. \A i \in Q \cup R : new[Plan[i].ver] = Plan[i].val
    BY <1>5, <1>7, <1>8, Zenon
  <2> QED
    BY <1>1, <1>6, <2>1, Zenon DEF VersionsHold
<1>10. new \in Seq(Value)
  <2>1. n \in 0..Total
    BY TotalIsNat
  <2>2. PICK k \in 0..Total : {Plan[i].ver : i \in VersionRows(o, 0, n)} = 1..k
    BY <2>1, CaptureAssumption, Zenon
  <2>3. DOMAIN new = 1..k
    BY <1>9, <2>2, Zenon DEF VersionsHold
  <2>4. \A v \in DOMAIN new : new[v] \in Value
    BY <1>2, <1>5, <1>6, <1>7, <1>8
  <2>5. new = [v \in DOMAIN new |-> new[v]]
    BY <1>4
  <2>6. new \in [1..k -> Value]
    BY <2>3, <2>4, <2>5, Zenon
  <2> QED
    BY <2>2, <2>6, TotalIsNat
<1>11. ASSUME NEW v \in DOMAIN new
       PROVE  \/ v \in DOMAIN old /\ new[v] = old[v]
              \/ <<o, new[v]>> \in Bodies(m, n)
  <2>1. CASE v \in DOMAIN old
    BY <1>4, <2>1, Zenon
  <2>2. CASE v \notin DOMAIN old
    <3>1. PICK i \in R : Plan[i].ver = v
      BY <1>5, <1>6, <2>2, Zenon
    <3>2. new[v] = Plan[i].val /\ Plan[i].at = o /\ Plan[i].kind = "version" /\ i \in m+1..n
      BY <1>2, <1>8, <3>1, Zenon DEF R, VersionRows, RowsAt
    <3> QED
      BY <3>2, Zenon DEF Bodies
  <2> QED
    BY <2>1, <2>2, Zenon
<1> QED
    BY <1>9, <1>10, <1>11, Zenon DEF new, old

\* A head that is there keeps naming the newest version, since the versions of
\* an object come before its head, and a new head is the expected one.
LEMMA InstallsHead ==
    ASSUME NEW m \in Nat, NEW n \in Nat, m <= n, n <= Total, InstallRows(m, n), HeadsExpected(m, n),
           NEW o \in Object, cells[o] \in Row, CellHolds(cells[o], o, m),
           versions[o] \in Seq(Value), versions'[o] \in Seq(Value),
           cells[o].rev > 0 => HeadNames(o), cells'[o].rev > 0
    PROVE  HeadNames(o)'
<1>0. o \in Cell /\ o \notin Key
    BY NamespaceAssumption, Zenon DEF Cell
<1>1. cells[o] = Absent \/ RowsAt(o, {"state", "head"}, 0, m) # {}
    BY Zenon DEF CellHolds
<1>2. CASE cells[o].rev > 0
  <2>1. PICK j \in RowsAt(o, {"state", "head"}, 0, m) : TRUE
    BY <1>1, <1>2 DEF Absent
  <2>2. j \in 1..Total /\ Plan[j].kind = "head" /\ j <= m
    <3>1. j \in 1..Total /\ Plan[j].at = o /\ Plan[j].kind \in {"state", "head"} /\ j <= m
      BY TotalIsNat DEF RowsAt
    <3> QED
      BY <1>0, <3>1, PlanAssumption, Zenon
  <2>3. VersionRows(o, m, n) = {}
    <3>1. SUFFICES ASSUME NEW i \in VersionRows(o, m, n) PROVE FALSE
      BY Zenon
    <3>2. i \in 1..Total /\ Plan[i].kind = "version" /\ i > m
      BY TotalIsNat DEF VersionRows, RowsAt
    <3>3. i < j
      BY <2>2, <3>2, PlanAssumption, Zenon
    <3> QED
      BY <2>2, <3>2, <3>3
  <2>4. cells'[o] = cells[o]
    BY <1>0, <1>2, Zenon DEF InstallRows
  <2>5. versions'[o] = versions[o]
    <3>1. versions'[o] = [v \in DOMAIN versions[o] |-> versions[o][v]]
      <4>1. versions'[o] =
               [v \in DOMAIN versions[o] \cup {Plan[i].ver : i \in VersionRows(o, m, n)} |->
                  IF v \in DOMAIN versions[o] THEN versions[o][v]
                  ELSE Plan[CHOOSE i \in VersionRows(o, m, n) : Plan[i].ver = v].val]
        BY Zenon DEF InstallRows
      <4>2. DOMAIN versions[o] \cup {Plan[i].ver : i \in VersionRows(o, m, n)} = DOMAIN versions[o]
        BY <2>3, Zenon
      <4> QED
        BY <4>1, <4>2, Zenon
    <3> QED
      BY <3>1
  <2> QED
    BY <1>2, <2>4, <2>5, Zenon DEF HeadNames
<1>3. CASE ~(cells[o].rev > 0)
  <2> DEFINE R == RowsAt(o, {"state", "head"}, m, n)
             i == CHOOSE j \in R : TRUE
  <2>1. R # {} /\ cells'[o] = PlannedCell(i)
    BY <1>0, <1>3, Zenon DEF InstallRows
  <2>2. i \in R
    BY <2>1, Zenon
  <2>3. i \in 1..Total /\ Plan[i].kind = "head" /\ i \in RowsAt(o, {"head"}, m, n)
    <3>1. i \in 1..Total /\ Plan[i].at = o /\ Plan[i].kind \in {"state", "head"} /\ i \in m+1..n
      BY <2>2, TotalIsNat DEF RowsAt
    <3>2. Plan[i].kind = "head"
      BY <1>0, <3>1, PlanAssumption, Zenon
    <3> QED
      BY <3>1, <3>2, Zenon DEF RowsAt
  <2> HIDE DEF i
  <2>4. Plan[i].ver = Len(versions'[o]) /\ Plan[i].val \in {None, versions'[o][Plan[i].ver]}
    BY <2>3, Zenon DEF HeadsExpected
  <2>5. cells'[o].ver = Plan[i].ver /\ cells'[o].val = Plan[i].val
    BY <2>1 DEF PlannedCell
  <2> QED
    BY <2>4, <2>5, Zenon DEF HeadNames
<1> QED
    BY <1>2, <1>3, Zenon

\* What a namespace that an importer works on is left with.
Installed(n) ==
    /\ cells \in [Cell -> Row] /\ versions \in [Object -> Seq(Value)]
    /\ receipts \in [Id -> Receipt \cup {None}]
    /\ Holds(n) /\ BodiesStored
    /\ \A o \in Object : cells[o].rev > 0 => HeadNames(o)

\* A batch makes the first m rows the first n, in one transaction, with the
\* bodies published before.
LEMMA BatchInstalls ==
    ASSUME NEW m \in Nat, NEW n \in Nat, m <= n, n <= Total, Installed(m),
           InstallRows(m, n), HeadsExpected(m, n), Bodies(m, n) \subseteq blobs, blobs' = blobs
    PROVE  Installed(n)' /\ \A x \in Id : receipts[x] # None => receipts'[x] = receipts[x]
<1>0. /\ cells \in [Cell -> Row] /\ versions \in [Object -> Seq(Value)]
      /\ receipts \in [Id -> Receipt \cup {None}]
      /\ HoldsIn(cells, versions, receipts, m)
      /\ \A o \in Object : cells[o].rev > 0 => HeadNames(o)
    BY HoldsPointwise, Zenon DEF Installed
<1>1. ASSUME NEW c \in Cell PROVE cells'[c] \in Row /\ CellHolds(cells'[c], c, n)
  <2>1. cells[c] \in Row /\ CellHolds(cells[c], c, m)
    BY <1>0, Zenon DEF HoldsIn
  <2> QED
    BY <2>1, InstallsCell, Zenon
<1>2. ASSUME NEW x \in Id
      PROVE  /\ receipts'[x] \in Receipt \cup {None} /\ ReceiptHolds(receipts'[x], x, n)
             /\ receipts[x] # None => receipts'[x] = receipts[x]
  <2>1. receipts[x] \in Receipt \cup {None} /\ ReceiptHolds(receipts[x], x, m)
    BY <1>0, Zenon DEF HoldsIn
  <2> QED
    BY <2>1, InstallsReceipt, Zenon
<1>3. ASSUME NEW o \in Object
      PROVE  /\ versions'[o] \in Seq(Value) /\ VersionsHold(versions'[o], o, n)
             /\ \A v \in DOMAIN versions'[o] : <<o, versions'[o][v]>> \in blobs'
             /\ cells'[o].rev > 0 => HeadNames(o)'
  <2>1. versions[o] \in Seq(Value) /\ VersionsHold(versions[o], o, m)
    BY <1>0, Zenon DEF HoldsIn
  <2>2. /\ versions'[o] \in Seq(Value) /\ VersionsHold(versions'[o], o, n)
        /\ \A v \in DOMAIN versions'[o] :
              \/ v \in DOMAIN versions[o] /\ versions'[o][v] = versions[o][v]
              \/ <<o, versions'[o][v]>> \in Bodies(m, n)
    BY <2>1, InstallsVersions, Zenon
  <2>3. \A v \in DOMAIN versions[o] : <<o, versions[o][v]>> \in blobs
    BY Zenon DEF Installed, BodiesStored
  <2>4. \A v \in DOMAIN versions'[o] : <<o, versions'[o][v]>> \in blobs'
    BY <2>2, <2>3, Zenon
  <2>5. cells'[o].rev > 0 => HeadNames(o)'
    <3>1. o \in Cell /\ cells[o] \in Row /\ CellHolds(cells[o], o, m)
      BY <1>0, Zenon DEF HoldsIn, Cell
    <3> QED
      BY <1>0, <2>1, <2>2, <3>1, InstallsHead, Zenon
  <2> QED
    BY <2>2, <2>4, <2>5, Zenon
<1>4. /\ cells' \in [Cell -> Row] /\ versions' \in [Object -> Seq(Value)]
      /\ receipts' \in [Id -> Receipt \cup {None}]
  <2>1. /\ cells' = [c \in Cell |-> cells'[c]] /\ receipts' = [x \in Id |-> receipts'[x]]
        /\ versions' = [o \in Object |-> versions'[o]]
    BY DEF InstallRows
  <2> QED
    BY <1>1, <1>2, <1>3, <2>1, Zenon
<1>5. HoldsIn(cells', versions', receipts', n)
    BY <1>1, <1>2, <1>3, Zenon DEF HoldsIn
<1>6. Holds(n)' /\ BodiesStored'
    BY <1>3, <1>5, HoldsPointwise, Zenon DEF BodiesStored
<1> QED
    BY <1>2, <1>3, <1>4, <1>6, Zenon DEF Installed

\* The whole plan is a namespace with a head for every object that has versions.
LEMMA PlanIsConsistent ==
    ASSUME Installed(Total)
    PROVE  HeadsNameVersions
<1> SUFFICES ASSUME NEW o \in Object PROVE HeadNames(o) /\ Len(versions[o]) <= MaxVersion
    BY Zenon DEF HeadNames, HeadsNameVersions
<1>0. Len(versions[o]) <= MaxVersion
  <2>1. VersionsHold(versions[o], o, Total) /\ versions[o] \in Seq(Value)
    BY HoldsPointwise, Zenon DEF Installed, HoldsIn
  <2>2. Len(versions[o]) \in Nat /\ DOMAIN versions[o] = 1..Len(versions[o])
    BY <2>1
  <2>3. ASSUME Len(versions[o]) \in DOMAIN versions[o] PROVE Len(versions[o]) \in 1..MaxVersion
    <3>1. PICK i \in VersionRows(o, 0, Total) : Plan[i].ver = Len(versions[o])
      BY <2>1, <2>3, Zenon DEF VersionsHold
    <3>2. i \in 1..Total /\ Plan[i].kind = "version"
      BY TotalIsNat DEF VersionRows, RowsAt
    <3> QED
      BY <3>1, <3>2, PlanAssumption, Zenon
  <2> QED
    BY <2>2, <2>3, NamespaceAssumption
<1>1. CASE cells[o].rev > 0
    BY <1>0, <1>1, Zenon DEF Installed
<1>2. CASE ~(cells[o].rev > 0)
  <2>1. /\ o \in Cell /\ CellHolds(cells[o], o, Total) /\ VersionsHold(versions[o], o, Total)
        /\ versions[o] \in Seq(Value)
    BY HoldsPointwise, Zenon DEF Installed, HoldsIn, Cell
  <2>2. RowsAt(o, {"state", "head"}, 0, Total) = {}
    BY <1>2, <2>1, Zenon DEF CellHolds, Matches
  <2>3. cells[o] = Absent
    BY <2>1, <2>2, Zenon DEF CellHolds
  <2>4. VersionRows(o, 0, Total) = {}
    <3>1. RowsAt(o, {"head"}, 0, Total) = {}
      BY <2>2, Zenon DEF RowsAt
    <3> QED
      BY <3>1, CaptureAssumption, Zenon
  <2>5. DOMAIN versions[o] = {}
    BY <2>1, <2>4, Zenon DEF VersionsHold
  <2>6. Len(versions[o]) = 0
    <3>1. Len(versions[o]) \in Nat /\ DOMAIN versions[o] = 1..Len(versions[o])
      BY <2>1
    <3>2. 1 \notin 1..Len(versions[o])
      BY <2>5, <3>1, Zenon
    <3> QED
      BY <3>1, <3>2
  <2> QED
    BY <1>0, <2>3, <2>6 DEF HeadNames, Absent
<1> QED
    BY <1>1, <1>2, Zenon

-------------------------------------------------------------------------------
(* The import *)

\* A namespace that does not serve yet: what progress names is installed, no
\* request is under way, and heads that are there name the newest version.
Filling ==
    /\ Holds(progress)
    /\ life = "FreshImport" => progress = 0
    /\ life = "CompleteInactive" => progress = Total
    /\ ~sealed
    /\ \A h \in Handler : handler[h].pc = "idle"
    /\ \A o \in Object : cells[o].rev > 0 => HeadNames(o)

\* An importer at a batch, whose bodies it publishes before it commits it.
Working(w, stored) ==
    /\ "at" \in DOMAIN w /\ w.at \in {0} \cup Batch
    /\ w.pc \in {"publish", "commit"} => w.at # Total
    /\ w.pc = "commit" => Bodies(w.at, NextBatch(w.at)) \subseteq stored

ImportInv ==
    /\ BaseInv
    /\ ActivationInv
    /\ life \in {"FreshImport", "Importing", "CompleteInactive"}
    /\ progress \in {0} \cup Batch
    /\ \A p \in Importer : Working(job[p], blobs)
    /\ IF serving = None THEN Filling ELSE HeadsNameVersions

\* Publishing bodies disturbs nothing else.
LEMMA BodiesAdded ==
    ASSUME BaseInv, UNCHANGED <<meta, content, config, handler, capture, replies>>,
           blobs \subseteq blobs', blobs' \subseteq Object \X Value
    PROVE  BaseInv'
<1>1. UNCHANGED <<fence, seq, life, serving, sealed, cells, versions, receipts, config, handler, capture, replies>>
    BY Zenon DEF meta, content
<1>2. TypeOK
    BY Zenon DEF BaseInv
<1>3. TypeOK'
  <2>1. /\ fence' \in Nat /\ seq' \in Nat /\ sealed' \in BOOLEAN
        /\ life' \in {"Ordinary", "FreshImport", "Importing", "CompleteInactive"}
        /\ serving' \in Token \cup {None}
        /\ cells' \in [Cell -> Row] /\ versions' \in [Object -> Seq(Value)]
        /\ receipts' \in [Id -> Receipt \cup {None}]
        /\ config' \in [Process -> Nat] /\ replies' \subseteq Receipt
    BY <1>1, <1>2, Zenon DEF TypeOK
  <2>2. /\ handler' = [h \in Handler |-> handler'[h]]
        /\ \A h \in Handler : InvocationOK(handler'[h])
    BY <1>1, <1>2, Zenon DEF TypeOK
  <2>3. /\ capture' \in [pc : {"idle", "copying", "captured"}, token : Token \cup {None},
                         copy : {capture'.copy}]
        /\ DOMAIN capture'.copy \subseteq Item
        /\ capture'.copy \in [DOMAIN capture'.copy -> Record]
    BY <1>1, <1>2, Zenon DEF TypeOK
  <2> QED
    BY <2>1, <2>2, <2>3, Zenon DEF TypeOK
<1>4. ASSUME NEW h \in Handler PROVE Reading(handler'[h], cells', blobs')
  <2>1. InvocationOK(handler[h]) /\ Reading(handler[h], cells, blobs) /\ cells \in [Cell -> Row]
    BY Zenon DEF BaseInv, TypeOK
  <2>2. \A c \in Cell : Moved(cells[c], cells[c])
    BY Zenon DEF Moved
  <2>3. Reading(handler[h], cells, blobs')
    BY <2>1, <2>2, ReadingLater, Zenon
  <2> QED
    BY <1>1, <2>3, Zenon
<1>5. Copied'
    BY <1>1, Zenon DEF BaseInv, Copied, CurrentToken, Stored
<1>6. BodiesStored' /\ OneAnswer'
    BY <1>1, Zenon DEF BaseInv, BodiesStored, OneAnswer
<1> QED
    BY <1>3, <1>4, <1>5, <1>6, Zenon DEF BaseInv

LEMMA BodiesTyped == ASSUME NEW m \in Nat, NEW n \in Nat, n <= Total PROVE Bodies(m, n) \subseteq Object \X Value
<1>1. \A j \in m+1..n : j \in 1..Total
    BY TotalIsNat
<1>2. \A j \in m+1..n : Plan[j].kind = "version" => Plan[j].at \in Object /\ Plan[j].val \in Value
    BY <1>1, PlanAssumption, Zenon
<1> QED
    BY <1>2 DEF Bodies

\* A place of the plan at which importers work.
LEMMA Places ==
    ASSUME NEW n \in {0} \cup Batch
    PROVE  n \in Nat /\ n <= Total
    BY TotalIsNat, PlanAssumption

\* What an importer goes on to is again a place it can work from.
LEMMA BatchEndsWorking ==
    ASSUME ImportInv, NEW p \in Importer, NEW n \in Batch, AfterBatch(p, n)
    PROVE  \E w : job' = [job EXCEPT ![p] = w] /\ Working(w, blobs')
<1> DEFINE v == job[p]
<1>0. IsJob(v) /\ Working(v, blobs)
    BY Zenon DEF ImportInv, ActivationInv
<1>1. PICK x \in {"verify", "publish", "idle"} :
          \/ (x = "publish" => n # Total) /\ job' = [job EXCEPT ![p] = [v EXCEPT !.at = n, !.pc = x]]
          \/ x = "idle" /\ job' = [job EXCEPT ![p] = [v EXCEPT !.pc = x]]
    BY Zenon DEF AfterBatch
<1>2. /\ "at" \in DOMAIN [v EXCEPT !.at = n, !.pc = x] /\ [v EXCEPT !.at = n, !.pc = x].pc = x
      /\ [v EXCEPT !.at = n, !.pc = x].at = n
      /\ "at" \in DOMAIN [v EXCEPT !.pc = x] /\ [v EXCEPT !.pc = x].pc = x
      /\ [v EXCEPT !.pc = x].at = v.at /\ v.at \in {0} \cup Batch
    BY <1>0, Zenon DEF IsJob, Working
<1>3. x # "commit"
    BY Zenon
<1> HIDE DEF v
<1>4. CASE (x = "publish" => n # Total) /\ job' = [job EXCEPT ![p] = [v EXCEPT !.at = n, !.pc = x]]
  <2>1. Working([v EXCEPT !.at = n, !.pc = x], blobs')
    BY <1>2, <1>3, <1>4, Zenon DEF Working
  <2> QED
    BY <1>4, <2>1, Zenon
<1>5. CASE x = "idle" /\ job' = [job EXCEPT ![p] = [v EXCEPT !.pc = x]]
  <2>1. Working([v EXCEPT !.pc = x], blobs')
    BY <1>2, <1>5, Zenon DEF Working
  <2> QED
    BY <1>5, <2>1, Zenon
<1> QED
    BY <1>1, <1>4, <1>5, Zenon

LEMMA ImporterWorking ==
    ASSUME ImportInv, NEW p \in Importer, Reader(p) \/ Writer(p)
    PROVE  job' = job \/ \E w : job' = [job EXCEPT ![p] = w] /\ Working(w, blobs')
<1> DEFINE v == job[p]
<1>0. IsJob(v) /\ Working(v, blobs)
    BY Zenon DEF ImportInv, ActivationInv
<1>a. v.at \in {0} \cup Batch /\ {"pc", "token", "at"} \subseteq DOMAIN v
    BY <1>0, Zenon DEF IsJob, Working
<1>1. CASE StartVerify(p) \/ ObserveComplete(p)
  <2>1. PICK x \in {"verifying", "observing"} :
            job' = [job EXCEPT ![p] = [v EXCEPT !.pc = x, !.token = CurrentToken]]
    BY <1>1, Zenon DEF StartVerify, ObserveComplete
  <2> DEFINE w == [v EXCEPT !.pc = x, !.token = CurrentToken]
  <2>2. "at" \in DOMAIN w /\ w.pc = x /\ w.at = v.at
    BY <1>a, Zenon
  <2>3. job' = [job EXCEPT ![p] = w] /\ x \notin {"publish", "commit"}
    BY <2>1, Zenon
  <2> HIDE DEF w, v
  <2>4. Working(w, blobs')
    BY <1>a, <2>2, <2>3, Zenon DEF Working
  <2> QED
    BY <2>3, <2>4, Zenon
<1>2. CASE EndVerify(p) \/ ObservedComplete(p) \/ ImportRefused(p) \/ ActivationRefused(p)
         \/ StopImport(p) \/ FinishImport(p) \/ Activate(p)
  <2>1. PICK x \in {"finish", "publish", "activate", "idle"} :
            (x = "publish" => v.at # Total) /\ job' = [job EXCEPT ![p] = [v EXCEPT !.pc = x]]
    BY <1>2, Zenon DEF EndVerify, ObservedComplete, ImportRefused, ActivationRefused,
         StopImport, FinishImport, Activate, Goto
  <2> DEFINE w == [v EXCEPT !.pc = x]
  <2>2. "at" \in DOMAIN w /\ w.pc = x /\ w.at = v.at
    BY <1>a, Zenon
  <2>3. job' = [job EXCEPT ![p] = w] /\ x # "commit"
    BY <2>1, Zenon
  <2> HIDE DEF w, v
  <2>4. Working(w, blobs')
    BY <1>a, <2>1, <2>2, <2>3, Zenon DEF Working
  <2> QED
    BY <2>3, <2>4, Zenon
<1>3. CASE PublishBodies(p)
  <2> DEFINE w == [v EXCEPT !.pc = "commit"]
  <2>1. /\ job' = [job EXCEPT ![p] = w] /\ v.pc = "publish"
        /\ Bodies(v.at, NextBatch(v.at)) \subseteq blobs'
    BY <1>3, Zenon DEF PublishBodies, Goto
  <2>2. "at" \in DOMAIN w /\ w.at = v.at /\ v.at # Total
    BY <1>0, <1>a, <2>1, Zenon DEF Working
  <2> HIDE DEF w, v
  <2>3. Working(w, blobs')
    BY <1>a, <2>1, <2>2, Zenon DEF Working
  <2> QED
    BY <2>1, <2>3, Zenon
<1>4. CASE Resume(p)
  <2> DEFINE w == [v EXCEPT !.pc = "verify", !.at = progress]
  <2>1. job' = [job EXCEPT ![p] = w]
    BY <1>4, Zenon DEF Resume
  <2>2. "at" \in DOMAIN w /\ w.at = progress /\ w.pc = "verify" /\ progress \in {0} \cup Batch
    BY <1>a, Zenon DEF ImportInv
  <2> HIDE DEF w, v
  <2>3. Working(w, blobs')
    BY <2>2, Zenon DEF Working
  <2> QED
    BY <2>1, <2>3, Zenon
<1>5. CASE BeginImport(p)
  <2> DEFINE w == [v EXCEPT !.pc = "verify", !.at = 0]
  <2>1. job' = job \/ job' = [job EXCEPT ![p] = w]
    BY <1>5, Zenon DEF BeginImport
  <2>2. "at" \in DOMAIN w /\ w.at = 0 /\ w.pc = "verify"
    BY <1>a, Zenon
  <2> HIDE DEF w, v
  <2>3. Working(w, blobs')
    BY <2>2, Zenon DEF Working
  <2> QED
    BY <2>1, <2>3, Zenon
<1>6. CASE RetryBatch(p) \/ CommitBatch(p)
  <2>1. AfterBatch(p, NextBatch(v.at)) /\ v.pc = "commit"
    BY <1>6, Zenon DEF RetryBatch, CommitBatch
  <2>2. NextBatch(v.at) \in Batch
    BY <1>0, <1>a, <2>1, NextBatchExists, Zenon DEF Working
  <2> QED
    BY <2>1, <2>2, BatchEndsWorking, Zenon
<1>7. CASE RestartImporter(p)
  <2> DEFINE w == [NoJob EXCEPT !.fence = fence]
  <2>1. job' = [job EXCEPT ![p] = w]
    BY <1>7, Zenon DEF RestartImporter
  <2>2. "at" \in DOMAIN w /\ w.at = 0 /\ w.pc = "idle"
    BY Zenon DEF NoJob
  <2> HIDE DEF w
  <2>3. Working(w, blobs')
    BY <2>2, Zenon DEF Working
  <2> QED
    BY <2>1, <2>3, Zenon
<1> QED
    BY <1>1, <1>2, <1>3, <1>4, <1>5, <1>6, <1>7, Zenon DEF Reader, Writer

LEMMA WorkingStays ==
    ASSUME ImportInv, NEW p \in Importer, blobs \subseteq blobs',
           job' = job \/ \E w : job' = [job EXCEPT ![p] = w] /\ Working(w, blobs')
    PROVE  \A q \in Importer : Working(job'[q], blobs')
<1> SUFFICES ASSUME NEW q \in Importer PROVE Working(job'[q], blobs')
    BY Zenon
<1>1. Working(job[q], blobs) /\ job = [r \in Importer |-> job[r]]
    BY Zenon DEF ImportInv, ActivationInv
<1>2. Working(job[q], blobs')
    BY <1>1, Zenon DEF Working
<1>3. CASE job' = job
    BY <1>2, <1>3, Zenon
<1>4. ASSUME NEW w, job' = [job EXCEPT ![p] = w], Working(w, blobs') PROVE Working(job'[q], blobs')
  <2>1. job'[q] = IF q = p THEN w ELSE job[q]
    BY <1>1, <1>4, Zenon
  <2> QED
    BY <1>2, <1>4, <2>1, Zenon
<1> QED
    BY <1>3, <1>4, Zenon

\* The rows stay, and so does what is known of them.
LEMMA FillingStays ==
    ASSUME Filling, UNCHANGED <<cells, versions, receipts, life, progress, sealed>>,
           \A h \in Handler : handler'[h] = handler[h] \/ handler'[h] = Idle
    PROVE  Filling'
<1>1. Holds(progress) => Holds(progress)'
    BY Zenon DEF Holds
<1>2. \A h \in Handler : handler'[h].pc = "idle"
    BY DEF Filling, Idle
<1>3. \A o \in Object : cells'[o].rev > 0 => HeadNames(o)'
    BY Zenon DEF Filling, HeadNames
<1> QED
    BY <1>1, <1>2, <1>3, Zenon DEF Filling

\* An importer reads the namespace and publishes bodies.
LEMMA ReaderStep ==
    ASSUME ImportInv, NEW p \in Importer, Reader(p)
    PROVE  ImportInv'
<1>0. BaseInv /\ ActivationInv /\ progress \in {0} \cup Batch
    BY Zenon DEF ImportInv
<1>1. UNCHANGED <<meta, content, outside, progress>>
    BY Zenon DEF Reader, StartVerify, EndVerify, PublishBodies, RetryBatch, ObservedComplete, ImportRefused,
           ActivationRefused, Resume, ObserveComplete, StopImport, RestartImporter
<1>2. blobs \subseteq blobs' /\ blobs' \subseteq Object \X Value
  <2>0. blobs \subseteq Object \X Value
    BY <1>0, Zenon DEF BaseInv, TypeOK
  <2>1. CASE PublishBodies(p)
    <3>1. job[p].pc = "publish" /\ blobs' = blobs \cup Bodies(job[p].at, NextBatch(job[p].at))
      BY <2>1, Zenon DEF PublishBodies
    <3>2. job[p].at \in {0} \cup Batch /\ job[p].at # Total
      BY <3>1, Zenon DEF ImportInv, Working
    <3>3. NextBatch(job[p].at) \in Batch
      BY <3>2, NextBatchExists, Zenon
    <3>4. Bodies(job[p].at, NextBatch(job[p].at)) \subseteq Object \X Value
      BY <3>2, <3>3, Places, BodiesTyped, Zenon
    <3> QED
      BY <2>0, <3>1, <3>4, Zenon
  <2>2. CASE ~PublishBodies(p)
    BY <2>0, <2>2, Zenon DEF Reader, StartVerify, EndVerify, RetryBatch, ObservedComplete, ImportRefused,
           ActivationRefused, Resume, ObserveComplete, StopImport, RestartImporter
  <2> QED
    BY <2>1, <2>2, Zenon
<1>3. BaseInv'
    BY <1>0, <1>1, <1>2, BodiesAdded, Zenon DEF outside
<1>4. ActivationInv'
    BY <1>0, ReadingImporter, Zenon DEF Reader
<1>5. \A q \in Importer : Working(job'[q], blobs')
    BY <1>2, ImporterWorking, WorkingStays, Zenon
<1>6. UNCHANGED <<life, serving, sealed, cells, versions, receipts, progress, handler>>
    BY <1>1, Zenon DEF meta, content, outside
<1>7. Filling => Filling'
    BY <1>6, FillingStays, Zenon
<1>8. HeadsNameVersions => HeadsNameVersions'
    BY <1>6, Zenon DEF HeadsNameVersions
<1> QED
    BY <1>3, <1>4, <1>5, <1>6, <1>7, <1>8, Zenon DEF ImportInv

\* Processes other than importers: before the activation nothing but replays,
\* captures and fencing, afterwards the steps of an ordinary namespace.
LEMMA ClosedStep ==
    ASSUME ImportInv, serving = None, [Next]_vars
    PROVE  Aside
<1>1. Filling /\ life # "Ordinary"
    BY Zenon DEF ImportInv
<1>2. ~Admits(serving)
    BY <1>1, Zenon DEF Admits, AdmitsOrdinary, AdmitsSuccessor
<1>3. ASSUME NEW h \in Handler, Handle(h) PROVE \E e \in Request : Replay(h, e)
  <2>1. handler[h].pc = "idle"
    BY <1>1, Zenon DEF Filling
  <2>2. \A e \in Request : ~Receive(h, e)
    BY <1>2, Zenon DEF Receive
  <2>3. ~ReadRow(h) /\ ~ReadHead(h)
    BY <2>1, Zenon DEF ReadRow, ReadHead, Observe
  <2>4. ~Publish(h) /\ ~Conflict(h) /\ ~Fail(h)
    BY <2>1, Zenon DEF Publish, Conflict, Fail
  <2>5. ~CommitInvocation(h) /\ ~CommitDurable(h)
    BY <2>1, Zenon DEF CommitInvocation, CommitDurable, CommitBy
  <2> QED
    BY <1>3, <2>2, <2>3, <2>4, <2>5, Zenon DEF Handle
<1>4. ASSUME Export
      PROVE  BeginCapture \/ EndCapture \/ AbandonCapture \/ \E p \in Page : CapturePage(p)
    BY <1>2, <1>4, Zenon DEF Export, SealRetention, SealCompletion, SuccessorSealRetention, SuccessorSealCompletion
<1> QED
    BY <1>3, <1>4, Zenon DEF Next, Aside

LEMMA BodiesStay == ASSUME Next PROVE blobs \subseteq blobs'
<1>1. ASSUME NEW h \in Handler, Handle(h) PROVE blobs \subseteq blobs'
    BY <1>1, Zenon DEF Handle, Replay, Receive, ReadRow, ReadHead, Observe, Publish, CommitInvocation,
                CommitDurable, CommitBy, Conflict, Fail
<1>2. CASE Export
    BY <1>2, Zenon DEF Export, BeginCapture, EndCapture, AbandonCapture, CapturePage, SealRetention,
                SealCompletion, SuccessorSealRetention, SuccessorSealCompletion, TokenWrite
<1>3. CASE AdvanceFence \/ \E p \in Process : Restart(p)
    BY <1>3, Zenon DEF AdvanceFence, Restart
<1> QED
    BY <1>1, <1>2, <1>3, Zenon DEF Next

LEMMA ImportProcessStep ==
    ASSUME ImportInv, Next
    PROVE  ImportInv'
<1>0. BaseInv /\ ActivationInv /\ progress \in {0} \cup Batch
    BY Zenon DEF ImportInv
<1>1. UNCHANGED <<life, serving, progress, job>> /\ blobs \subseteq blobs'
    BY ProcessFrame, BodiesStay, Zenon DEF import
<1>2. ActivationInv'
    BY <1>0, ProcessStep, Zenon
<1>3. \A q \in Importer : Working(job'[q], blobs')
  <2>1. TAKE q \in Importer
  <2>2. Working(job[q], blobs)
    BY Zenon DEF ImportInv
  <2> QED
    BY <1>1, <2>2, Zenon DEF Working
<1>4. CASE serving = None
  <2>1. Aside /\ Filling
    BY <1>4, ClosedStep, Zenon DEF ImportInv
  <2>2. BaseInv'
    BY <1>0, <2>1, AsideStep, Zenon
  <2>3. /\ UNCHANGED <<sealed, cells, versions, receipts>>
        /\ \A h \in Handler : handler'[h] = handler[h] \/ handler'[h] = Idle
    BY <2>1, AsideFrame, Zenon
  <2>4. Filling'
    BY <1>1, <2>1, <2>3, FillingStays, Zenon
  <2> QED
    BY <1>1, <1>2, <1>3, <1>4, <2>2, <2>4, Zenon DEF ImportInv
<1>5. CASE serving # None
  <2>1. NamespaceInv
    BY <1>5, Zenon DEF ImportInv, NamespaceInv
  <2>2. NamespaceInv'
    BY <2>1, NamespaceStep, Zenon
  <2> QED
    BY <1>1, <1>2, <1>3, <1>5, <2>2, Zenon DEF ImportInv, NamespaceInv
<1> QED
    BY <1>4, <1>5, Zenon

\* A transaction of an importer, while no request is under way.
LEMMA TransactionStep ==
    ASSUME BaseInv, \A h \in Handler : handler[h].pc = "idle",
           fence' = fence, seq' = seq + 1, UNCHANGED <<sealed, blobs, config, handler, capture, replies>>,
           serving' \in Token \cup {None}, life' \in {"FreshImport", "Importing", "CompleteInactive"},
           cells' \in [Cell -> Row], versions' \in [Object -> Seq(Value)],
           receipts' \in [Id -> Receipt \cup {None}], BodiesStored',
           \A x \in Id : receipts[x] # None => receipts'[x] = receipts[x]
    PROVE  BaseInv'
<1>1. TypeOK /\ Copied /\ OneAnswer
    BY Zenon DEF BaseInv
<1>2. Copied'
    BY <1>1, CopiedLater, Zenon
<1>3. TypeOK'
  <2>1. /\ fence' \in Nat /\ seq' \in Nat /\ sealed' \in BOOLEAN
        /\ blobs' \subseteq Object \X Value /\ config' \in [Process -> Nat] /\ replies' \subseteq Receipt
    BY <1>1 DEF TypeOK
  <2>2. /\ handler' = [h \in Handler |-> handler'[h]]
        /\ \A h \in Handler : InvocationOK(handler'[h])
    BY <1>1, Zenon DEF TypeOK
  <2>3. /\ capture' \in [pc : {"idle", "copying", "captured"}, token : Token \cup {None},
                         copy : {capture'.copy}]
        /\ DOMAIN capture'.copy \subseteq Item
        /\ capture'.copy \in [DOMAIN capture'.copy -> Record]
    BY <1>1, Zenon DEF TypeOK
  <2>4. life' \in {"Ordinary", "FreshImport", "Importing", "CompleteInactive"}
    BY Zenon
  <2> QED
    BY <2>1, <2>2, <2>3, <2>4, Zenon DEF TypeOK
<1>4. \A h \in Handler : Reading(handler'[h], cells', blobs')
    BY Zenon DEF Reading
<1>5. \A r \in replies : receipts'[IdOf[r.event]] = r
    BY <1>1, AnswersStay, Zenon
<1>6. OneAnswer'
    BY <1>5, Zenon DEF OneAnswer
<1> QED
    BY <1>2, <1>3, <1>4, <1>6, Zenon DEF BaseInv

\* begin_import and finish_import move the lifecycle.
LEMMA LifecycleStep ==
    ASSUME ImportInv, NEW p \in Importer, BeginImport(p) \/ FinishImport(p)
    PROVE  ImportInv'
<1>0. BaseInv /\ TypeOK /\ BodiesStored /\ ActivationInv /\ progress \in {0} \cup Batch
    BY Zenon DEF ImportInv, BaseInv
<1>1. ActivationInv' /\ \A q \in Importer : Working(job'[q], blobs')
  <2>1. ActivationInv'
    BY <1>0, WritingImporter, Zenon
  <2>2. blobs' = blobs
    BY Zenon DEF BeginImport, FinishImport
  <2>3. job' = job \/ \E w : job' = [job EXCEPT ![p] = w] /\ Working(w, blobs')
    BY ImporterWorking, Zenon DEF Writer
  <2> QED
    BY <2>1, <2>2, <2>3, WorkingStays, Zenon
<1>2. UNCHANGED <<fence, serving, sealed, cells, versions, receipts, blobs, config, handler, capture, replies>>
    BY Zenon DEF BeginImport, FinishImport, content, outside
<1>3. CASE seq' = seq /\ life' = life /\ FinishImport(p)
  <2>1. progress' = progress
    BY <1>3, Zenon DEF FinishImport
  <2>2. UNCHANGED <<meta, content, config, handler, capture, replies>>
    BY <1>2, <1>3, Zenon DEF meta, content
  <2>3. blobs \subseteq blobs' /\ blobs' \subseteq Object \X Value
    BY <1>0, <1>2, Zenon DEF TypeOK
  <2>4. BaseInv'
    BY <1>0, <2>2, <2>3, BodiesAdded, Zenon
  <2>5. Filling => Filling'
    BY <1>2, <1>3, <2>1, FillingStays, Zenon
  <2>6. HeadsNameVersions => HeadsNameVersions'
    BY <1>2, Zenon DEF HeadsNameVersions
  <2> QED
    BY <1>1, <1>2, <1>3, <2>1, <2>4, <2>5, <2>6, Zenon DEF ImportInv
<1>4. CASE seq' = seq + 1 /\ life' # life
  <2>1. /\ serving = None /\ life' \in {"Importing", "CompleteInactive"} /\ progress' = progress
        /\ life' = "CompleteInactive" => progress = Total
    <3>1. CASE BeginImport(p)
      <4>1. life = "FreshImport" /\ life' = "Importing" /\ progress' = 0
        BY <3>1, Zenon DEF BeginImport
      <4>2. serving = None
        BY <1>0, <4>1, Zenon DEF ActivationInv
      <4>3. progress = 0
        BY <4>1, <4>2, Zenon DEF ImportInv, Filling
      <4> QED
        BY <4>1, <4>2, <4>3, Zenon
    <3>2. CASE FinishImport(p)
      BY <1>0, <1>4, <3>2, Zenon DEF FinishImport, ActivationInv
    <3> QED
      BY <3>1, <3>2, Zenon
  <2>2. Filling
    BY <2>1, Zenon DEF ImportInv
  <2>3. BodiesStored'
    BY <1>0, <1>2, Zenon DEF BodiesStored
  <2>4. /\ cells' \in [Cell -> Row] /\ versions' \in [Object -> Seq(Value)]
        /\ receipts' \in [Id -> Receipt \cup {None}]
        /\ \A x \in Id : receipts[x] # None => receipts'[x] = receipts[x]
        /\ serving' \in Token \cup {None}
    BY <1>0, <1>2, Zenon DEF TypeOK
  <2>5. BaseInv'
    BY <1>0, <1>2, <1>4, <2>1, <2>2, <2>3, <2>4, TransactionStep, Zenon DEF Filling
  <2>6. Filling'
    <3>1. Holds(progress)'
      BY <1>2, <2>1, <2>2, Zenon DEF Filling, Holds
    <3>2. \A o \in Object : cells'[o].rev > 0 => HeadNames(o)'
      BY <1>2, <2>2, Zenon DEF Filling, HeadNames
    <3> QED
      BY <1>2, <2>1, <2>2, <3>1, <3>2, Zenon DEF Filling
  <2> QED
    BY <1>0, <1>1, <1>2, <2>1, <2>5, <2>6, Zenon DEF ImportInv
<1> QED
  <2>1. CASE BeginImport(p)
    BY <1>4, <2>1, Zenon DEF BeginImport
  <2>2. CASE FinishImport(p)
    BY <1>3, <1>4, <2>2, Zenon DEF FinishImport
  <2> QED
    BY <2>1, <2>2, Zenon

\* commit_import_batch: exactly the rows of the batch are added, because the
\* recorded progress is the place the importer works from.
LEMMA BatchStep ==
    ASSUME ImportInv, NEW p \in Importer, CommitBatch(p)
    PROVE  ImportInv'
<1>0. BaseInv /\ TypeOK /\ BodiesStored /\ ActivationInv /\ Working(job[p], blobs)
    BY Zenon DEF ImportInv, BaseInv
<1>1. PICK m, n :
         /\ m = job[p].at /\ n = NextBatch(m)
         /\ job[p].pc = "commit" /\ life = "Importing" /\ progress = m
         /\ InstallRows(m, n) /\ HeadsExpected(m, n) /\ progress' = n /\ seq' = seq + 1
         /\ UNCHANGED <<fence, life, serving, sealed, blobs, config, handler, capture, replies>>
    BY Zenon DEF CommitBatch, outside
<1>2. serving = None
    BY <1>0, <1>1, Zenon DEF ActivationInv
<1>3. Filling
    BY <1>2, Zenon DEF ImportInv
<1>4. m \in {0} \cup Batch /\ m # Total /\ Bodies(m, n) \subseteq blobs
    BY <1>0, <1>1, Zenon DEF Working
<1>5. n \in Batch /\ n > m
    BY <1>1, <1>4, NextBatchExists, Zenon
<1>6. m \in Nat /\ n \in Nat /\ m <= n /\ n <= Total
  <2>1. m \in Nat /\ n \in Nat /\ n <= Total
    BY <1>4, <1>5, Places, Zenon
  <2> QED
    BY <1>5, <2>1
<1>7. Installed(m)
    BY <1>0, <1>1, <1>3, Zenon DEF Installed, Filling, TypeOK
<1>8. Installed(n)' /\ \A x \in Id : receipts[x] # None => receipts'[x] = receipts[x]
  <2>1. blobs' = blobs
    BY <1>1, Zenon
  <2> QED
    BY <1>1, <1>4, <1>6, <1>7, <2>1, BatchInstalls, Zenon
<1>9. BaseInv'
  <2>0. life' \in {"FreshImport", "Importing", "CompleteInactive"}
    BY <1>1, Zenon
  <2>1. /\ cells' \in [Cell -> Row] /\ versions' \in [Object -> Seq(Value)]
        /\ receipts' \in [Id -> Receipt \cup {None}] /\ BodiesStored'
        /\ serving' \in Token \cup {None}
    BY <1>0, <1>1, <1>8, Zenon DEF Installed, TypeOK
  <2>2. \A h \in Handler : handler[h].pc = "idle"
    BY <1>3, Zenon DEF Filling
  <2> QED
    BY <1>0, <1>1, <1>8, <2>0, <2>1, <2>2, TransactionStep, Zenon
<1>10. Filling'
  <2>1. HoldsIn(cells', versions', receipts', progress')
    BY <1>1, <1>8, HoldsPointwise, Zenon DEF Installed
  <2>2. Holds(progress)'
    BY <2>1, CellCase, ReceiptCase, Zenon DEF Holds, HoldsIn, VersionsHold
  <2>3. \A o \in Object : cells'[o].rev > 0 => HeadNames(o)'
    BY <1>8, Zenon DEF Installed
  <2> QED
    BY <1>1, <1>3, <2>2, <2>3, Zenon DEF Filling
<1>11. ActivationInv' /\ \A q \in Importer : Working(job'[q], blobs')
  <2>1. ActivationInv'
    BY <1>0, WritingImporter, Zenon
  <2>2. job' = job \/ \E w : job' = [job EXCEPT ![p] = w] /\ Working(w, blobs')
    BY ImporterWorking, Zenon DEF Writer
  <2> QED
    BY <1>1, <2>1, <2>2, WorkingStays, Zenon
<1> QED
    BY <1>1, <1>2, <1>5, <1>9, <1>10, <1>11, Zenon DEF ImportInv

\* commit_successor_activation is a transaction over the rows as they are.
LEMMA ActivateTransacts ==
    ASSUME ImportInv, NEW p \in Importer, Activate(p)
    PROVE  NamespaceInv /\ Transacts(Activation, cells)
<1>0. BaseInv /\ TypeOK /\ BodiesStored /\ ActivationInv
    BY Zenon DEF ImportInv, BaseInv
<1>1. /\ serving = None /\ life = "CompleteInactive" /\ ~sealed /\ sealed' = sealed
      /\ Committable(Activation, cells) /\ Write(Activation, cells)
    BY Zenon DEF Activate
<1>2. Filling /\ progress = Total
    BY <1>1, Zenon DEF ImportInv, Filling
<1>3. Holds(Total)
    BY <1>2, Zenon DEF Filling
<1>4. Installed(Total)
    BY <1>0, <1>2, <1>3, Zenon DEF Installed, Filling, TypeOK
<1>5. NamespaceInv
    BY <1>0, <1>4, PlanIsConsistent, Zenon DEF NamespaceInv
<1>6. Activation \in Event /\ Activation # Seal /\ Reads[Activation] \subseteq Key
    BY PlanAssumption, Zenon
<1>7. Current(Activation, cells)
    BY <1>0, <1>6, Zenon DEF Current, TypeOK, Cell
<1> QED
    BY <1>0, <1>1, <1>5, <1>6, <1>7, Zenon DEF Transacts, TypeOK

LEMMA ActivateStep ==
    ASSUME ImportInv, NEW p \in Importer, Activate(p)
    PROVE  ImportInv'
<1>0. BaseInv /\ TypeOK /\ ActivationInv /\ progress \in {0} \cup Batch
    BY Zenon DEF ImportInv, BaseInv
<1>1. /\ serving = None /\ life = "CompleteInactive" /\ Committable(Activation, cells)
      /\ Write(Activation, cells) /\ serving' = CurrentToken /\ fence' = fence
      /\ UNCHANGED <<life, sealed, blobs, config, handler, capture, replies, progress>>
    BY Zenon DEF Activate, outside
<1>2. NamespaceInv /\ Current(Activation, cells)
    BY ActivateTransacts, Zenon DEF Transacts
<1>3. Published(Activation, cells, blobs)
  <2>1. Writes[Activation] \cap Object = {}
    BY NamespaceAssumption, PlanAssumption, Zenon
  <2> QED
    BY <2>1, Zenon DEF Published
<1>4. Consistent'
    BY <1>1, <1>2, <1>3, CommitKeeps, Zenon
<1>5. seq' = seq + 1 /\ \A x \in Id : receipts[x] # None => receipts'[x] = receipts[x]
    BY <1>0, <1>1, <1>2, WriteEffect, Zenon
<1>6. serving' \in Token /\ serving' # None
    BY <1>0, <1>1, NamespaceAssumption DEF CurrentToken, Token, TypeOK
<1>7. BaseInv'
  <2>1. \A h \in Handler : handler[h].pc = "idle"
    BY <1>1, Zenon DEF ImportInv, Filling
  <2>2. life' \in {"FreshImport", "Importing", "CompleteInactive"} /\ serving' \in Token \cup {None}
    BY <1>1, <1>6, Zenon
  <2>3. /\ cells' \in [Cell -> Row] /\ versions' \in [Object -> Seq(Value)]
        /\ receipts' \in [Id -> Receipt \cup {None}] /\ BodiesStored'
    BY <1>4, Zenon DEF Consistent
  <2> QED
    BY <1>0, <1>1, <1>5, <2>1, <2>2, <2>3, TransactionStep, Zenon
<1>8. HeadsNameVersions'
    BY <1>4, Zenon DEF Consistent
<1>9. ActivationInv' /\ \A q \in Importer : Working(job'[q], blobs')
  <2>1. ActivationInv'
    BY <1>0, WritingImporter, Zenon
  <2>2. job' = job \/ \E w : job' = [job EXCEPT ![p] = w] /\ Working(w, blobs')
    BY ImporterWorking, Zenon DEF Writer
  <2> QED
    BY <1>1, <2>1, <2>2, WorkingStays, Zenon
<1> QED
    BY <1>0, <1>1, <1>6, <1>7, <1>8, <1>9, Zenon DEF ImportInv

LEMMA ImportStart == ImportInit => ImportInv
<1> SUFFICES ASSUME ImportInit PROVE ImportInv
    BY Zenon
<1>1. /\ Empty /\ life = "FreshImport" /\ progress = 0 /\ serving = None /\ sealed = FALSE
      /\ job = [p \in Importer |-> NoJob]
    BY Zenon DEF ImportInit, Empty
<1>2. BaseInv /\ ActivationInv
    BY <1>1, NamespaceStart, ActivationStart, Zenon DEF NamespaceInv
<1>3. \A x, kinds : RowsAt(x, kinds, 0, 0) = {}
    BY DEF RowsAt
<1>4. /\ \A c \in Cell : cells[c] = Absent
      /\ \A o \in Object : versions[o] = <<>>
      /\ \A x \in Id : receipts[x] = None
      /\ \A h \in Handler : handler[h] = Idle
    BY <1>1, Zenon DEF Empty
<1>5. Holds(0)
  <2>1. \A c \in Cell : CellHolds(cells[c], c, 0)
    BY <1>3, <1>4, Zenon DEF CellHolds
  <2>2. \A x \in Id : ReceiptHolds(receipts[x], x, 0)
    BY <1>3, <1>4, Zenon DEF ReceiptHolds
  <2>3. \A o \in Object : VersionsHold(versions[o], o, 0)
    BY <1>3, <1>4 DEF VersionsHold, VersionRows
  <2> QED
    BY <2>1, <2>2, <2>3, HoldsPointwise, Zenon DEF HoldsIn
<1>6. \A o \in Object : ~(cells[o].rev > 0)
    BY <1>4 DEF Cell, Absent
<1>7. Filling
  <2>1. \A h \in Handler : handler[h].pc = "idle"
    BY <1>4 DEF Idle
  <2>2. Holds(progress)
    BY <1>1, <1>5, Zenon
  <2> QED
    BY <1>1, <1>6, <2>1, <2>2, Zenon DEF Filling
<1>8. NoJob.pc = "idle" /\ NoJob.at = 0 /\ "at" \in DOMAIN NoJob
    BY Zenon DEF NoJob
<1>9. \A p \in Importer : Working(job[p], blobs)
    BY <1>1, <1>8, Zenon DEF Working
<1> QED
    BY <1>1, <1>2, <1>7, <1>9, Zenon DEF ImportInv

LEMMA ImportStep == ImportInv /\ [ImportNext]_vars => ImportInv'
<1> SUFFICES ASSUME ImportInv, [ImportNext]_vars PROVE ImportInv'
    BY Zenon
<1>1. CASE Next
    BY <1>1, ImportProcessStep, Zenon
<1>2. ASSUME NEW p \in Importer,
             Proceed(p) \/ Resume(p) \/ ObserveComplete(p) \/ StopImport(p) \/ RestartImporter(p)
      PROVE  ImportInv'
  <2>1. CASE Writer(p)
    BY <2>1, LifecycleStep, BatchStep, ActivateStep, Zenon DEF Writer
  <2>2. CASE Reader(p)
    BY <2>2, ReaderStep, Zenon
  <2> QED
    BY <1>2, <2>1, <2>2, ImporterSteps, Zenon
<1>3. CASE UNCHANGED vars
  <2>1. BaseInv'
    BY <1>3, AsideStep, Zenon DEF Aside, ImportInv
  <2>2. ActivationInv'
    BY <1>3, ActivationStep, Zenon DEF ImportInv
  <2>3. UNCHANGED <<life, serving, sealed, cells, versions, receipts, blobs, progress, job, handler>>
    BY <1>3, Zenon DEF vars, meta, content, import
  <2>4. Filling => Filling'
    BY <2>3, FillingStays, Zenon
  <2>5. HeadsNameVersions => HeadsNameVersions'
    BY <2>3, Zenon DEF HeadsNameVersions
  <2> QED
    BY <2>1, <2>2, <2>3, <2>4, <2>5, Zenon DEF ImportInv
<1> QED
    BY <1>1, <1>2, <1>3, Zenon DEF ImportNext

-------------------------------------------------------------------------------
(* Theorems about the namespace of a successor *)

\* The inductive invariant of a namespace that is imported and then serves.
THEOREM ImportInvariance == ImportSpec => []ImportInv
    BY ImportStart, ImportStep, PTL DEF ImportSpec

\* However invocations of VerifiedImportPlan::advance interleave, stop and
\* retry, what is installed is the prefix of the plan that the recorded progress
\* names, and the whole plan once the import is complete.
THEOREM InstallsPrefix == ImportSpec => []InstalledIsPrefix
<1>1. ImportInv => InstalledIsPrefix
  <2> SUFFICES ASSUME ImportInv, serving = None
               PROVE  /\ life = "FreshImport" => Holds(0)
                      /\ life = "Importing" => Holds(progress)
                      /\ life = "CompleteInactive" => progress = Total /\ Holds(Total)
    BY Zenon DEF InstalledIsPrefix
  <2>1. Filling
    BY Zenon DEF ImportInv
  <2>2. /\ Holds(progress)
        /\ life = "FreshImport" => progress = 0
        /\ life = "CompleteInactive" => progress = Total
    BY <2>1, Zenon DEF Filling
  <2>3. progress = 0 => Holds(0)
    BY <2>2, Zenon
  <2>4. progress = Total => Holds(Total)
    BY <2>2, Zenon
  <2> QED
    BY <2>2, <2>3, <2>4, Zenon
<1> QED
    BY <1>1, ImportInvariance, PTL

\* A successor inherits the guarantees of an ordinary namespace: answers,
\* imported ones included, are those of the receipts, bodies come before rows,
\* captures are exact, and from its activation on heads name the newest version.
THEOREM SuccessorIsSound ==
    ImportSpec => [](/\ OneAnswer /\ BodiesStored /\ CaptureIsExact
                     /\ serving # None => HeadsNameVersions)
<1>1. ImportInv => OneAnswer /\ BodiesStored /\ (serving # None => HeadsNameVersions)
    BY Zenon DEF ImportInv, BaseInv
<1>2. ImportInv => CaptureIsExact
  <2> SUFFICES ASSUME ImportInv, capture.pc = "captured", capture.token = CurrentToken
               PROVE  \A x \in Item : capture.copy[x] = Stored(x)
    BY Zenon DEF CaptureIsExact
  <2> QED
    BY Zenon DEF ImportInv, BaseInv, Copied
<1> QED
    BY <1>1, <1>2, ImportInvariance, PTL

\* A step under an import: nothing, a transaction, or an installation.
LEMMA ImportTransacts ==
    ASSUME ImportInv, [ImportNext]_vars
    PROVE  \/ Quiet
           \/ \E e \in Event, read \in {handler[h].read : h \in Handler} \cup {capture.copy, cells} :
                 NamespaceInv /\ Transacts(e, read)
           \/ serving' = None /\ sealed' = sealed /\ ~sealed
<1>0. BaseInv /\ ActivationInv
    BY Zenon DEF ImportInv
<1>1. CASE serving = None /\ [Next]_vars
  <2>1. Aside
    BY <1>1, ClosedStep, Zenon
  <2>2. UNCHANGED <<seq, sealed, cells, versions, receipts>>
    BY <2>1, AsideFrame, Zenon
  <2> QED
    BY <2>2, Zenon DEF Quiet, content
<1>2. CASE serving # None /\ [Next]_vars
  <2>1. NamespaceInv
    BY <1>2, Zenon DEF ImportInv, NamespaceInv
  <2> QED
    BY <1>2, <2>1, StepTransacts, Zenon
<1>3. ASSUME NEW p \in Importer, Reader(p) PROVE Quiet
    BY <1>3, Zenon DEF Reader, StartVerify, EndVerify, PublishBodies, RetryBatch, ObservedComplete, ImportRefused,
         ActivationRefused,
                Resume, ObserveComplete, StopImport, RestartImporter, Quiet, meta
<1>4. ASSUME NEW p \in Importer, BeginImport(p) \/ CommitBatch(p)
      PROVE  serving' = None /\ sealed' = sealed /\ ~sealed
  <2>1. life # "CompleteInactive" /\ UNCHANGED <<serving, sealed>>
    BY <1>4, Zenon DEF BeginImport, CommitBatch
  <2>2. serving = None
    BY <1>0, <2>1, Zenon DEF ActivationInv
  <2> QED
    BY <2>1, <2>2, Zenon DEF ImportInv, Filling
<1>5. ASSUME NEW p \in Importer, FinishImport(p)
      PROVE  Quiet \/ (serving' = None /\ sealed' = sealed /\ ~sealed)
  <2>1. UNCHANGED <<serving, sealed, content>> /\ (life = "Importing" \/ seq' = seq)
    BY <1>5, Zenon DEF FinishImport
  <2>2. CASE serving = None
    BY <2>1, <2>2, Zenon DEF ImportInv, Filling
  <2>3. CASE serving # None
    BY <1>0, <2>1, <2>3, Zenon DEF ActivationInv, Quiet
  <2> QED
    BY <2>2, <2>3, Zenon
<1>6. ASSUME NEW p \in Importer, Activate(p)
      PROVE  NamespaceInv /\ Transacts(Activation, cells) /\ Activation \in Event
    BY <1>6, ActivateTransacts, PlanAssumption, Zenon
<1>7. ASSUME NEW p \in Importer,
             Proceed(p) \/ Resume(p) \/ ObserveComplete(p) \/ StopImport(p) \/ RestartImporter(p)
      PROVE  Reader(p) \/ BeginImport(p) \/ CommitBatch(p) \/ FinishImport(p) \/ Activate(p)
    BY <1>7, ImporterSteps, Zenon DEF Writer
<1>8. ASSUME NEW p \in Importer, Activate(p)
      PROVE  \E e \in Event, read \in {handler[h].read : h \in Handler} \cup {capture.copy, cells} :
                NamespaceInv /\ Transacts(e, read)
    BY <1>6, <1>8, Zenon
<1> QED
    BY <1>1, <1>2, <1>3, <1>4, <1>5, <1>7, <1>8, Zenon DEF ImportNext

\* A successor too is sealed for good, over exactly what was captured
\* (commit_successor_seal_completion), whatever importers are still at work.
THEOREM SuccessorSealsForGood == ImportSpec => SealIsFinal
<1>1. ASSUME ImportInv, [ImportNext]_vars
      PROVE  /\ sealed => UNCHANGED <<seq, sealed, content>>
             /\ sealed' # sealed => \A x \in Item : capture.copy[x] = Stored(x)
  <2>1. CASE Quiet
    BY <2>1, Zenon DEF Quiet
  <2>2. ASSUME NEW e, NEW read, NamespaceInv, Transacts(e, read)
        PROVE  ~sealed /\ (sealed' # sealed => \A x \in Item : capture.copy[x] = Stored(x))
    BY <2>2, Zenon DEF Transacts, NamespaceInv, BaseInv, TypeOK
  <2>3. CASE sealed' = sealed /\ ~sealed
    BY <2>3, Zenon
  <2> QED
    BY <1>1, <2>1, <2>2, <2>3, ImportTransacts, Zenon
<1>2. ImportInv /\ [ImportNext]_vars =>
          [/\ sealed => UNCHANGED <<seq, sealed, content>>
           /\ sealed' # sealed => \A x \in Item : capture.copy[x] = Stored(x)]_vars
    BY <1>1, Zenon
<1> QED
    BY <1>2, ImportInvariance, PTL DEF ImportSpec, SealIsFinal

\* From its activation on, that transaction included, a successor behaves as a
\* store that runs one transaction at a time, over the state it imported.
ServesSerially == [][serving' # None => [Serial!Next]_(Serial!vars)]_vars

\* commit_successor_activation, and all that the successor then commits, are
\* transactions that could have run alone, each request at most once, those of
\* the imported receipts included.
THEOREM SuccessorIsSerial == ImportSpec => ServesSerially
<1>1. ASSUME ImportInv, [ImportNext]_vars, serving' # None
      PROVE  [Serial!Next]_(Serial!vars)
  <2>1. CASE Quiet
    BY <2>1, Zenon DEF Quiet, content, Serial!vars
  <2>2. ASSUME NEW e \in Event, NEW read, NamespaceInv, Transacts(e, read) PROVE Serial!Next
    BY <2>2, TransactionExecutes, Zenon DEF Serial!Next
  <2> QED
    BY <1>1, <2>1, <2>2, ImportTransacts, Zenon
<1>2. ImportInv /\ [ImportNext]_vars => [serving' # None => [Serial!Next]_(Serial!vars)]_vars
    BY <1>1, Zenon
<1> QED
    BY <1>2, ImportInvariance, PTL DEF ImportSpec, ServesSerially

===============================================================================
