--------------------------- MODULE DurableNamespace ---------------------------
(***************************************************************************)
(* One durable namespace (runtime-sql-durable) and the processes that use   *)
(* it: request handlers (node-core/src/lib.rs), which read rows one by one, *)
(* compute a transition and commit it against the revisions they read, and  *)
(* a capturer, which copies the namespace page by page under a snapshot     *)
(* token and seals it.  A commit is one SQL transaction; its answer may be  *)
(* lost, and its process may be fenced off by the operator at any time.     *)
(*                                                                          *)
(* State rows and objects are cells.  A row has a revision that grows with  *)
(* every write and deletion.  An object has a head (revision, last version) *)
(* and a table of immutable versions, whose bodies are in the blob store.   *)
(* The outbox is module Outbox; the namespace of a successor epoch, filled  *)
(* by an import, is module NamespaceImport.                                 *)
(***************************************************************************)
EXTENDS Integers, Sequences

CONSTANTS
    Key, Object,    \* state rows and objects
    Value,          \* values of a row, bodies of an object
    Id, Event,      \* request identities, and the events that carry them
    Request,        \* the events clients send
    IdOf,           \* the identity an event carries
    Bare,           \* metadata transactions: no receipt, no objects
    Reads, Writes,  \* the cells an event reads, and among them those it writes
    Apply(_, _),    \* the transition: what an event writes, from what it reads
    Retention, Seal,\* the capturer's transactions
    Handler, Capturer,
    Scan,           \* the pages of a portable scan, in their order
    MaxFence, MaxSeq,
    MaxVersion,     \* the last number a version can have
    CaptureAt,      \* bound: the sequence numbers at which a capture may begin
    None

Cell == Key \cup Object
Item == Cell \cup Id \cup (Object \X (1..MaxVersion))
Page == {Scan[n] : n \in DOMAIN Scan}
Process == Handler \cup {Capturer}

ASSUME NamespaceAssumption ==
    /\ Key \cap Object = {} /\ Cell \cap Id = {}
    /\ (Cell \cup Id) \cap (Object \X (1..MaxVersion)) = {}
    /\ Capturer \notin Handler
    /\ None \notin Value \cup Event \cup Nat /\ None \notin [fence : Nat, seq : Nat]
    /\ Request \subseteq Event \ {Retention, Seal}
    /\ IdOf \in [Event -> Id]
    /\ Reads \in [Event -> SUBSET Cell]
    /\ \A e \in Event : Writes[e] \subseteq Reads[e]
    /\ \A e \in Event, f \in UNION {[Reads[d] -> Value \cup {None}] : d \in Event} :
          DOMAIN f = Reads[e] => Apply(e, f) \in [Writes[e] -> Value \cup {None}]
    /\ Bare \subseteq Event /\ Retention \in Bare /\ Seal \in Event \ Bare
    /\ \A e \in Bare \cup {Seal} : Reads[e] \subseteq Key
    /\ \A e \in Event \ {Seal} : e \notin Bare => IdOf[e] # IdOf[Seal]
    /\ None \notin [event : Event, result : UNION {[Writes[e] -> Value \cup {None}] : e \in Event}]
    /\ Scan \in Seq(SUBSET Item) /\ UNION Page = Item
    /\ \A m, n \in DOMAIN Scan : m = n \/ Scan[m] \cap Scan[n] = {}
    /\ MaxFence \in Nat /\ MaxSeq \in Nat /\ MaxVersion \in Nat

VARIABLES
    fence,      \* writer fence
    seq,        \* mutation sequence
    life,       \* lifecycle of the namespace
    serving,    \* None, or the token a successor was activated with
    sealed,     \* the outgoing barrier
    cells,      \* durable_state and durable_object_heads
    versions,   \* durable_object_versions
    receipts,   \* durable_receipts
    blobs,      \* bodies in the blob store
    config,     \* the fence each process was configured with
    progress,   \* what a successor's import has installed ...
    job,        \* ... and what each importer is doing: module NamespaceImport
    handler,    \* the invocation each handler runs
    capture,    \* the capture under way
    replies     \* answers given to clients

meta == <<fence, seq, life, serving, sealed>>
content == <<cells, versions, receipts>>
import == <<progress, job>>
vars == <<meta, content, blobs, config, import, handler, capture, replies>>

Token == [fence : Nat, seq : Nat]
Row == [rev : Nat, val : Value \cup {None}, ver : Nat]
Output == UNION {[Writes[e] -> Value \cup {None}] : e \in Event}
Receipt == [event : Event, result : Output]
Record == Row \cup Receipt \cup Value \cup {None}
Absent == [rev |-> 0, val |-> None, ver |-> 0]
Result(e, read) == Apply(e, [c \in Reads[e] |-> read[c].val])
Nothing == [x \in {} |-> None]
Idle == [pc |-> "idle", event |-> None, serving |-> None, read |-> Nothing]
NoCapture == [pc |-> "idle", token |-> None, copy |-> Nothing]

InvocationOK(w) ==
    /\ w \in [pc : {"idle", "reading", "publishing"}, event : Event \cup {None},
              serving : Token \cup {None}, read : {w.read}]
    /\ w.read \in [DOMAIN w.read -> Row] /\ DOMAIN w.read \subseteq Cell

TypeOK ==
    /\ fence \in Nat /\ seq \in Nat /\ sealed \in BOOLEAN
    /\ life \in {"Ordinary", "FreshImport", "Importing", "CompleteInactive"}
    /\ serving \in Token \cup {None}
    /\ cells \in [Cell -> Row]
    /\ versions \in [Object -> Seq(Value)]
    /\ receipts \in [Id -> Receipt \cup {None}]
    /\ blobs \subseteq Object \X Value
    /\ config \in [Process -> Nat]
    /\ handler = [h \in Handler |-> handler[h]] /\ \A h \in Handler : InvocationOK(handler[h])
    /\ capture \in [pc : {"idle", "copying", "captured"}, token : Token \cup {None},
                    copy : {capture.copy}]
    /\ DOMAIN capture.copy \subseteq Item
    /\ capture.copy \in [DOMAIN capture.copy -> Record]
    /\ replies \subseteq Receipt

Empty ==
    /\ fence = 1 /\ seq = 0 /\ serving = None /\ sealed = FALSE
    /\ cells = [c \in Cell |-> Absent]
    /\ versions = [o \in Object |-> <<>>]
    /\ receipts = [i \in Id |-> None]
    /\ blobs = {}
    /\ config = [p \in Process |-> 1]
    /\ handler = [h \in Handler |-> Idle]
    /\ capture = NoCapture
    /\ replies = {}

\* bootstrap_namespace
Init == Empty /\ life = "Ordinary" /\ progress = 0 /\ job = Nothing

-------------------------------------------------------------------------------
(* The transaction a commit runs *)

\* validate_authority: the fence of the process is the one in the metadata.
Authorized(p) == config[p] = fence

CurrentTokenOfFence == [fence |-> fence, seq |-> 0]
CurrentToken == [fence |-> fence, seq |-> seq]

AdmitsSealed(s) ==
    \/ s = None /\ life = "Ordinary" /\ serving = None
    \/ s # None /\ life = "CompleteInactive" /\ serving = s

\* validate_ordinary_write_lifecycle
AdmitsOrdinary == ~sealed /\ life = "Ordinary" /\ serving = None

\* successor_serving_preconditions: the slot is the one the process observed.
AdmitsSuccessor(s) == ~sealed /\ life = "CompleteInactive" /\ s # None /\ serving = s

\* The port a process commits through depends on the slot it observed.
Admits(s) == (s = None /\ AdmitsOrdinary) \/ AdmitsSuccessor(s)

\* validate_state_reads compares revisions ...
RowUnmoved(k, row) == cells[k].rev = row.rev

\* ... and validate_object_reads whole heads.
HeadUnmoved(o, row) == cells[o] = row

\* validate_object_transition: only a current object can be deleted, and the
\* number of a new version follows that of the last one, while there is one.
TransitionValid(row, new) == IF new = None THEN row.val # None ELSE row.ver < MaxVersion

\* Mutant: the number looked up is that of the head, one too low.
VersionFreeOffByOne(o, row, new) == new # None => row.ver > Len(versions[o])

\* prepare_object_mutations: the version to insert is not there yet.
VersionFree(o, row, new) == new # None => row.ver + 1 > Len(versions[o])

CommittableWritten(e, read) ==
    /\ e \in Bare => seq < MaxSeq
    /\ e \notin Bare => receipts[IdOf[e]] = None
    /\ \A c \in Writes[e] : IF c \in Key THEN RowUnmoved(c, read[c]) ELSE HeadUnmoved(c, read[c])
    /\ \A o \in Writes[e] \cap Object :
          LET new == Result(e, read)[o]
          IN  TransitionValid(read[o], new) /\ VersionFree(o, read[o], new)

CommittableAgain(e, read) ==
    /\ e \in Bare => seq < MaxSeq
    /\ \A k \in Reads[e] \cap Key : RowUnmoved(k, read[k])
    /\ \A o \in Reads[e] \cap Object : HeadUnmoved(o, read[o])
    /\ \A o \in Writes[e] \cap Object :
          LET new == Result(e, read)[o]
          IN  TransitionValid(read[o], new) /\ VersionFree(o, read[o], new)

\* What a commit checks in its transaction (commit_invocation, commit_durable).
Committable(e, read) ==
    /\ e \in Bare => seq < MaxSeq
    /\ e \notin Bare => receipts[IdOf[e]] = None
    /\ \A k \in Reads[e] \cap Key : RowUnmoved(k, read[k])
    /\ \A o \in Reads[e] \cap Object : HeadUnmoved(o, read[o])
    /\ \A o \in Writes[e] \cap Object :
          LET new == Result(e, read)[o]
          IN  TransitionValid(read[o], new) /\ VersionFree(o, read[o], new)

\* apply_state_mutations
NewRow(row, new) == [rev |-> row.rev + 1, val |-> new, ver |-> row.ver]

\* Mutant: an object that is created, also anew, starts at the first version.
NewHeadAfresh(row, new) ==
    [rev |-> row.rev + 1, val |-> new,
     ver |-> IF new = None THEN row.ver ELSE IF row.val = None THEN 1 ELSE row.ver + 1]

\* apply_object_mutations: a deletion leaves a tombstone with the last version.
NewHead(row, new) ==
    [rev |-> row.rev + 1, val |-> new, ver |-> IF new = None THEN row.ver ELSE row.ver + 1]

NewVersionsDeleted(o, new) == Append(versions[o], new)

\* insert_object_version
NewVersions(o, new) == IF new = None THEN versions[o] ELSE Append(versions[o], new)

\* insert_structured_invocation
NewReceipts(e, new) ==
    [i \in Id |-> IF e \notin Bare /\ i = IdOf[e] THEN [event |-> e, result |-> new] ELSE receipts[i]]

Write(e, read) ==
    LET new == Result(e, read)
    IN  /\ seq' = seq + 1
        /\ cells' = [c \in Cell |->
               IF c \notin Writes[e] THEN cells[c]
               ELSE IF c \in Key THEN NewRow(read[c], new[c])
               ELSE NewHead(read[c], new[c])]
        /\ versions' = [o \in Object |->
               IF o \in Writes[e] THEN NewVersions(o, new[o]) ELSE versions[o]]
        /\ receipts' = NewReceipts(e, new)

-------------------------------------------------------------------------------
(* Request handlers *)

Reply(e, result) == replies' = replies \cup {[event |-> e, result |-> result]}

\* reconcile_receipt answers a request that is already committed, whatever
\* became of the namespace since; another event with its identity is refused.
Replay(h, e) ==
    LET receipt == receipts[IdOf[e]]
    IN  /\ handler[h].pc = "idle" /\ Authorized(h)
        /\ e \notin Bare /\ receipt # None /\ receipt.event = e
        /\ Reply(e, receipt.result)
        /\ UNCHANGED <<meta, content, blobs, config, handler, capture, import>>

\* A request without a receipt is admitted by the lifecycle of the namespace.
Receive(h, e) ==
    /\ handler[h].pc = "idle" /\ Authorized(h)
    /\ e \notin Bare => receipts[IdOf[e]] = None
    /\ Admits(serving)
    /\ handler' = [handler EXCEPT ![h] =
           [pc |-> "reading", event |-> e, serving |-> serving, read |-> Nothing]]
    /\ UNCHANGED <<meta, content, blobs, config, capture, replies, import>>

Observe(h, c) ==
    LET w == handler[h]
    IN  /\ w.pc = "reading" /\ Authorized(h)
        /\ c \in Reads[w.event] \ DOMAIN w.read
        /\ handler' = [handler EXCEPT ![h].read =
               [d \in DOMAIN w.read \cup {c} |-> IF d = c THEN cells[c] ELSE w.read[d]]]
        /\ UNCHANGED <<meta, content, blobs, config, capture, replies, import>>

\* Rows and heads are read one by one, each in a transaction of its own.
ReadRow(h) == \E k \in Key : Observe(h, k)

ReadHead(h) == \E o \in Object : Observe(h, o)

PublishLater(h) ==
    LET w == handler[h]
    IN  /\ w.pc = "reading" /\ DOMAIN w.read = Reads[w.event]
        /\ handler' = [handler EXCEPT ![h].pc = "publishing"]
        /\ UNCHANGED <<meta, content, blobs, config, capture, replies, import>>

\* The transition is computed, and the bodies it creates go to the blob store
\* before the rows that reference them are committed.
Publish(h) ==
    LET w == handler[h] new == Result(w.event, w.read)
    IN  /\ w.pc = "reading" /\ DOMAIN w.read = Reads[w.event]
        /\ blobs' = blobs \cup {<<o, new[o]>> : o \in {x \in Writes[w.event] \cap Object : new[x] # None}}
        /\ handler' = [handler EXCEPT ![h].pc = "publishing"]
        /\ UNCHANGED <<meta, content, config, capture, replies, import>>

CommitBy(h) ==
    LET w == handler[h]
    IN  /\ w.pc = "publishing" /\ Authorized(h) /\ Admits(w.serving)
        /\ Committable(w.event, w.read)
        /\ Write(w.event, w.read)
        /\ handler' = [handler EXCEPT ![h] = Idle]
        /\ UNCHANGED <<fence, life, serving, sealed, blobs, config, capture, import>>

\* The client hears the result, or of an indeterminate commit when the answer
\* of the store is lost.
CommitInvocation(h) ==
    LET w == handler[h]
    IN  /\ w.event \notin Bare
        /\ CommitBy(h)
        /\ Reply(w.event, Result(w.event, w.read)) \/ UNCHANGED replies

\* A metadata transaction leaves no receipt to ask for afterwards.
CommitDurable(h) == handler[h].event \in Bare /\ CommitBy(h) /\ UNCHANGED replies

\* committed_output of a rejected commit: a conflict, and nothing is written.
Conflict(h) ==
    LET w == handler[h]
    IN  /\ w.pc = "publishing" /\ Authorized(h)
        /\ ~(Admits(w.serving) /\ Committable(w.event, w.read))
        /\ handler' = [handler EXCEPT ![h] = Idle]
        /\ UNCHANGED <<meta, content, blobs, config, capture, replies, import>>

\* A deadline, an error or a crash, at any point before the commit.
Fail(h) ==
    /\ handler[h].pc # "idle"
    /\ handler' = [handler EXCEPT ![h] = Idle]
    /\ UNCHANGED <<meta, content, blobs, config, capture, replies, import>>

-------------------------------------------------------------------------------
(* The portable capture and the Seal *)

\* The record of a key in one of the collections a scan goes through: states,
\* heads, receipts and object versions.
Stored(x) ==
    IF x \in Cell THEN cells[x]
    ELSE IF x \in Id THEN receipts[x]
    ELSE IF x[2] \in DOMAIN versions[x[1]] THEN versions[x[1]][x[2]] ELSE None

BeginCapture ==
    /\ capture.pc = "idle" /\ Authorized(Capturer) /\ seq \in CaptureAt
    /\ capture' = [pc |-> "copying", token |-> CurrentToken, copy |-> Nothing]
    /\ UNCHANGED <<meta, content, blobs, config, handler, replies, import>>

\* portable_snapshot_read serves a page only while the token is current.
CapturePage(p) ==
    /\ capture.pc = "copying" /\ Authorized(Capturer) /\ capture.token = CurrentToken
    /\ p \cap DOMAIN capture.copy = {}
    /\ \A n \in DOMAIN Scan : Scan[n] = p =>
          \A m \in 1..n-1 : Scan[m] \subseteq DOMAIN capture.copy
    /\ capture' = [capture EXCEPT !.copy =
           [x \in DOMAIN capture.copy \cup p |-> IF x \in p THEN Stored(x) ELSE capture.copy[x]]]
    /\ UNCHANGED <<meta, content, blobs, config, handler, replies, import>>

\* The last check of capture_scoped, under the token of the first.
EndCapture ==
    /\ capture.pc = "copying" /\ Authorized(Capturer) /\ capture.token = CurrentToken
    /\ DOMAIN capture.copy = Item
    /\ capture' = [capture EXCEPT !.pc = "captured"]
    /\ UNCHANGED <<meta, content, blobs, config, handler, replies, import>>

\* The token moved, or the capturer stopped.
AbandonCapture ==
    /\ capture.pc # "idle"
    /\ capture' = NoCapture
    /\ UNCHANGED <<meta, content, blobs, config, handler, replies, import>>

\* A transaction of the capturer: the token of its capture is still current.
TokenWrite(e) ==
    /\ capture.pc = "captured" /\ Authorized(Capturer) /\ capture.token = CurrentToken
    /\ Committable(e, capture.copy)
    /\ Write(e, capture.copy)
    /\ capture' = NoCapture
    /\ UNCHANGED <<fence, life, serving, blobs, config, handler, replies, import>>

SealRetention == Admits(serving) /\ serving = None /\ TokenWrite(Retention) /\ UNCHANGED sealed

SealCompletion == Admits(serving) /\ serving = None /\ TokenWrite(Seal) /\ sealed' = TRUE

SuccessorSealRetention ==
    Admits(serving) /\ serving # None /\ TokenWrite(Retention) /\ UNCHANGED sealed

SuccessorSealCompletion ==
    Admits(serving) /\ serving # None /\ TokenWrite(Seal) /\ sealed' = TRUE

-------------------------------------------------------------------------------
(* Failover *)

\* advance_writer_fence, by the operator.
AdvanceFence ==
    /\ fence < MaxFence
    /\ fence' = fence + 1
    /\ UNCHANGED <<seq, life, serving, sealed, content, blobs, config, handler, capture, replies, import>>

\* A process is started again with the fence of the namespace.
Restart(p) ==
    /\ config[p] # fence
    /\ config' = [config EXCEPT ![p] = fence]
    /\ handler' = [h \in Handler |-> IF h = p THEN Idle ELSE handler[h]]
    /\ capture' = IF p = Capturer THEN NoCapture ELSE capture
    /\ UNCHANGED <<meta, content, blobs, replies, import>>

Handle(h) ==
    \/ \E e \in Request : Replay(h, e) \/ Receive(h, e)
    \/ ReadRow(h) \/ ReadHead(h) \/ Publish(h)
    \/ CommitInvocation(h) \/ CommitDurable(h) \/ Conflict(h) \/ Fail(h)

Export ==
    \/ BeginCapture \/ EndCapture \/ AbandonCapture
    \/ \E p \in Page : CapturePage(p)
    \/ SealRetention \/ SealCompletion
    \/ SuccessorSealRetention \/ SuccessorSealCompletion

Next ==
    \/ \E h \in Handler : Handle(h)
    \/ Export
    \/ AdvanceFence
    \/ \E p \in Process : Restart(p)

Spec == Init /\ [][Next]_vars

-------------------------------------------------------------------------------
(* Correctness *)

Serial == INSTANCE SerialStore WITH
    Closing <- Seal,
    val <- [c \in Cell |-> cells[c].val],
    done <- [i \in Id |-> IF receipts[i] = None THEN None ELSE receipts[i].event],
    closed <- sealed

\* Handlers that read row by row and commit against revisions behave as if
\* every transaction ran alone, each request at most once, none after the Seal.
RefinesSerialStore == Serial!Spec

\* Every successful answer to a request, first or replayed, by whichever
\* process, is the result of the one execution its receipt records.
OneAnswer ==
    \A r \in replies : receipts[IdOf[r.event]] = r

\* The head of an object names its newest version, across deletion and
\* creation again (load_object_head refuses to load anything else).
HeadsNameVersions ==
    \A o \in Object :
        /\ cells[o].ver = Len(versions[o]) /\ cells[o].ver <= MaxVersion
        /\ cells[o].val # None => cells[o].val = versions[o][cells[o].ver]

\* No row ever references a body that the blob store does not have.
BodiesStored ==
    \A o \in Object : \A n \in DOMAIN versions[o] : <<o, versions[o][n]>> \in blobs

\* A capture that completes holds the namespace as it is at one moment, that of
\* its token, although its pages are read in transactions of their own.
CaptureIsExact ==
    capture.pc = "captured" /\ capture.token = CurrentToken =>
        \A x \in Item : capture.copy[x] = Stored(x)

\* The Seal is committed over exactly what was captured, and afterwards no
\* commit in flight, of whichever process, changes the namespace.
SealIsFinal ==
    [][/\ sealed => UNCHANGED <<seq, sealed, content>>
       /\ sealed' # sealed => \A x \in Item : capture.copy[x] = Stored(x)]_vars

-------------------------------------------------------------------------------
(* Progress *)

\* Clients send a request, to any server, until it is answered; servers and the
\* operator act; and invocations fail only for a while, except by a conflict.
Fairness ==
    /\ \A e \in Request : SF_vars(\E h \in Handler : Receive(h, e))
    /\ \A h \in Handler :
          /\ WF_vars(ReadRow(h) \/ ReadHead(h) \/ Publish(h)
                     \/ CommitInvocation(h) \/ CommitDurable(h) \/ Conflict(h))
          /\ <>[][Fail(h) => Conflict(h)]_vars
    /\ \A p \in Process : WF_vars(Restart(p))

FairSpec == Spec /\ Fairness

\* Conflicting requests do not block each other for ever: each identity gets
\* its receipt unless the namespace is sealed first.
AllAnswered == \A e \in Request : <>(sealed \/ receipts[IdOf[e]] # None)
===============================================================================
