---------------------------- MODULE NamespaceImport ----------------------------
(***************************************************************************)
(* The namespace of a successor epoch: it starts empty, is filled with the  *)
(* rows of a verified plan in bounded batches, is verified as a whole, and  *)
(* is activated, after which it serves like an ordinary namespace (module   *)
(* DurableNamespace).  Importers are invocations of                         *)
(* VerifiedImportPlan::advance and of activate_successor: any number of     *)
(* them, interleaved, stopped at any point, with answers of the store lost. *)
(***************************************************************************)
EXTENDS DurableNamespace

CONSTANTS
    Importer,
    Plan,       \* the rows to install: [kind, at, ver, val]
    BatchEnd,   \* for the ordinal at which a batch starts, where it ends
    Activation  \* the transaction that installs the successor's authority

Total == Len(Plan)

Batch == {BatchEnd[n] : n \in DOMAIN BatchEnd}

NextBatch(n) == BatchEnd[n]

ImportRow == [kind : {"state", "version", "head", "receipt"}, at : Item, ver : Nat,
              val : Value \cup {None} \cup Receipt]

\* Where a row belongs (ImportRow::locator); only versions are numbered.
Locator(i) == <<Plan[i].kind, Plan[i].at, IF Plan[i].kind = "version" THEN Plan[i].ver ELSE 0>>

\* What raw_rows makes of a snapshot: rows of the four kinds, one per locator,
\* versions before heads; in batches that are not empty and adjoin.
ASSUME PlanAssumption ==
    /\ Plan \in Seq(ImportRow)
    /\ \A i \in 1..Total :
          /\ Plan[i].kind = "state" =>
                Plan[i].at \in Key /\ Plan[i].val \in Value \cup {None} /\ Plan[i].ver = 0
          /\ Plan[i].kind = "version" =>
                Plan[i].at \in Object /\ Plan[i].val \in Value /\ Plan[i].ver \in 1..MaxVersion
          /\ Plan[i].kind = "head" => Plan[i].at \in Object /\ Plan[i].val \in Value \cup {None}
          /\ Plan[i].kind = "receipt" => Plan[i].at \in Id /\ Plan[i].val \in Receipt
    /\ \A i, j \in 1..Total :
          /\ Locator(i) = Locator(j) => i = j
          /\ Plan[i].kind = "version" /\ Plan[j].kind = "head" => i < j
    /\ Batch \subseteq 1..Total /\ Total \in Batch
    /\ DOMAIN BatchEnd = ({0} \cup Batch) \ {Total}
    /\ \A n \in DOMAIN BatchEnd : n < BatchEnd[n]
    /\ Activation \in Event \ (Bare \cup Request \cup {Seal}) /\ Reads[Activation] \subseteq Key

\* The ordinals of the rows of the given kinds at x, among the rows m+1 to n.
RowsAt(x, kinds, m, n) == {i \in m+1..n : Plan[i].at = x /\ Plan[i].kind \in kinds}

VersionRows(o, m, n) == RowsAt(o, {"version"}, m, n)

\* The snapshot is a capture of a namespace, sorted: the versions of an object
\* are numbered from 1 on, in the order of the rows, and an object that has
\* versions has a head (HeadsNameVersions).
ASSUME CaptureAssumption ==
    \A o \in Object :
        /\ \A n \in 0..Total : \E last \in 0..Total :
              {Plan[i].ver : i \in VersionRows(o, 0, n)} = 1..last
        /\ VersionRows(o, 0, Total) # {} => RowsAt(o, {"head"}, 0, Total) # {}

outside == <<config, handler, capture, replies>>

NoJob == [pc |-> "idle", fence |-> 1, at |-> 0, token |-> None]

ImportTypeOK ==
    /\ progress \in {0} \cup Batch
    /\ \A p \in Importer :
          /\ job[p].pc \in {"idle", "verify", "verifying", "publish", "commit",
                            "finish", "observing", "activate"}
          /\ job[p].fence \in Nat /\ job[p].at \in {0} \cup Batch
          /\ job[p].token \in Token \cup {None}

\* bootstrap_import_namespace
ImportInit ==
    /\ Empty /\ life = "FreshImport"
    /\ progress = 0
    /\ job = [p \in Importer |-> NoJob]

-------------------------------------------------------------------------------
(* Rows of the plan *)

\* A row or head is installed at revision 1; verifications read no revisions.
PlannedCell(i) == [rev |-> 1, val |-> Plan[i].val, ver |-> Plan[i].ver]

Matches(row, i) == row.rev > 0 /\ row.val = Plan[i].val /\ row.ver = Plan[i].ver

\* The content of the namespace is exactly the first n rows (raw_rows).
Holds(n) ==
    /\ \A c \in Cell :
          LET rows == RowsAt(c, {"state", "head"}, 0, n)
          IN  IF rows = {} THEN cells[c] = Absent ELSE \A i \in rows : Matches(cells[c], i)
    /\ \A o \in Object :
          /\ DOMAIN versions[o] = {Plan[i].ver : i \in VersionRows(o, 0, n)}
          /\ \A i \in VersionRows(o, 0, n) : versions[o][Plan[i].ver] = Plan[i].val
    /\ \A x \in Id :
          LET rows == RowsAt(x, {"receipt"}, 0, n)
          IN  IF rows = {} THEN receipts[x] = None ELSE \A i \in rows : receipts[x] = Plan[i].val

\* required_blobs of the rows m+1 to n
Bodies(m, n) == {<<Plan[i].at, Plan[i].val>> : i \in {j \in m+1..n : Plan[j].kind = "version"}}

-------------------------------------------------------------------------------
(* VerifiedImportPlan::advance *)

Holder(p) == job[p].fence = fence

Goto(p, pc) == job' = [job EXCEPT ![p].pc = pc]

\* The namespace of a capture or verification is read under one token; the
\* pages are those of module DurableNamespace, whose token shows them exact.
StartVerify(p) ==
    /\ job[p].pc = "verify" /\ Holder(p)
    /\ job' = [job EXCEPT ![p].pc = "verifying", ![p].token = CurrentToken]
    /\ UNCHANGED <<meta, content, blobs, outside, progress>>

\* verify_prefix: bodies and rows are those of the prefix, and no others.
Verified(p, n) ==
    /\ Holder(p) /\ job[p].token = CurrentToken
    /\ Bodies(0, n) \subseteq blobs
    /\ Holds(n)

EndVerify(p) ==
    /\ job[p].pc = "verifying" /\ Verified(p, job[p].at)
    /\ Goto(p, IF job[p].at = Total THEN "finish" ELSE "publish")
    /\ UNCHANGED <<meta, content, blobs, outside, progress>>

\* begin_import.  An importer whose answer is lost goes on if it then reads the
\* progress it wanted, and stops otherwise.
BeginImport(p) ==
    /\ job[p].pc = "idle" /\ Holder(p) /\ life = "FreshImport"
    /\ Holds(0)
    /\ life' = "Importing" /\ progress' = 0 /\ seq' = seq + 1
    /\ \/ job' = [job EXCEPT ![p].pc = "verify", ![p].at = 0]
       \/ UNCHANGED job
    /\ UNCHANGED <<fence, serving, sealed, content, blobs, outside>>

\* An invocation that finds an import under way, or complete, starts there.
Resume(p) ==
    /\ job[p].pc = "idle" /\ Holder(p) /\ life \in {"Importing", "CompleteInactive"}
    /\ job' = [job EXCEPT ![p].pc = "verify", ![p].at = progress]
    /\ UNCHANGED <<meta, content, blobs, outside, progress>>

\* The bodies of the next batch go to the blob store before its rows.
PublishBodies(p) ==
    /\ job[p].pc = "publish" /\ Holder(p)
    /\ blobs' = blobs \cup Bodies(job[p].at, NextBatch(job[p].at))
    /\ Goto(p, "commit")
    /\ UNCHANGED <<meta, content, outside, progress>>

\* install_rows: a row that is there must be the row of the plan, and in a
\* retry every row must be there.
Fits(m, n, retry) ==
    /\ \A c \in Cell : \A i \in RowsAt(c, {"state", "head"}, m, n) :
          IF cells[c].rev = 0 THEN ~retry
          ELSE cells[c].val = Plan[i].val /\ (c \in Object => cells[c] = PlannedCell(i))
    /\ \A x \in Id : \A i \in RowsAt(x, {"receipt"}, m, n) :
          IF receipts[x] = None THEN ~retry ELSE receipts[x] = Plan[i].val
    /\ \A o \in Object : \A i \in VersionRows(o, m, n) :
          IF Plan[i].ver \in DOMAIN versions[o] THEN versions[o][Plan[i].ver] = Plan[i].val
          ELSE ~retry

\* What is missing is inserted.
InstallRows(m, n) ==
    /\ cells' = [c \in Cell |->
           LET rows == RowsAt(c, {"state", "head"}, m, n)
           IN  IF rows = {} \/ cells[c].rev > 0 THEN cells[c]
               ELSE PlannedCell(CHOOSE i \in rows : TRUE)]
    /\ receipts' = [x \in Id |->
           LET rows == RowsAt(x, {"receipt"}, m, n)
           IN  IF rows = {} \/ receipts[x] # None THEN receipts[x]
               ELSE Plan[CHOOSE i \in rows : TRUE].val]
    /\ versions' = [o \in Object |->
           [v \in DOMAIN versions[o] \cup {Plan[i].ver : i \in VersionRows(o, m, n)} |->
               IF v \in DOMAIN versions[o] THEN versions[o][v]
               ELSE Plan[CHOOSE i \in VersionRows(o, m, n) : Plan[i].ver = v].val]]

\* expected_head: a head names the newest version that is there before it.
HeadsExpected(m, n) ==
    \A o \in Object : \A i \in RowsAt(o, {"head"}, m, n) :
        /\ Plan[i].ver > 0 /\ Plan[i].ver = Len(versions'[o])
        /\ Plan[i].val \in {None, versions'[o][Plan[i].ver]}

\* The importer goes on to the next batch, or to the verification of the whole;
\* after a lost answer it verifies first.  It stops when its budget is spent,
\* and where the lost answer stays unclear.
AfterBatch(p, n) ==
    \/ job' = [job EXCEPT ![p].at = n, ![p].pc = IF n = Total THEN "verify" ELSE "publish"]
    \/ job' = [job EXCEPT ![p].at = n, ![p].pc = "verify"]
    \/ job' = [job EXCEPT ![p].pc = "idle"]

CommitAnyBatch(p) ==
    LET n == NextBatch(job[p].at)
    IN  /\ job[p].pc = "commit" /\ Holder(p) /\ life = "Importing"
        /\ Fits(job[p].at, n, FALSE)
        /\ InstallRows(job[p].at, n) /\ HeadsExpected(job[p].at, n)
        /\ progress' = n /\ seq' = seq + 1
        /\ AfterBatch(p, n)
        /\ UNCHANGED <<fence, life, serving, sealed, blobs, outside>>

\* commit_import_batch: the rows and the progress in one transaction.
CommitBatch(p) ==
    LET n == NextBatch(job[p].at)
    IN  /\ job[p].pc = "commit" /\ Holder(p) /\ life = "Importing"
        /\ progress = job[p].at
        /\ Fits(job[p].at, n, FALSE)
        /\ InstallRows(job[p].at, n) /\ HeadsExpected(job[p].at, n)
        /\ progress' = n /\ seq' = seq + 1
        /\ AfterBatch(p, n)
        /\ UNCHANGED <<fence, life, serving, sealed, blobs, outside>>

\* The batch was committed already, by another invocation or by a commit whose
\* answer was lost.
RetryBatch(p) ==
    LET n == NextBatch(job[p].at)
    IN  /\ job[p].pc = "commit" /\ Holder(p) /\ life = "Importing"
        /\ progress = n
        /\ Fits(job[p].at, n, TRUE)
        /\ UNCHANGED <<meta, content, blobs, outside, progress>>
        /\ HeadsExpected(job[p].at, n)
        /\ AfterBatch(p, n)

\* finish_import, under the token of the verification of the whole plan.
FinishImport(p) ==
    /\ job[p].pc = "finish" /\ Holder(p)
    /\ progress = Total /\ job[p].token = CurrentToken
    /\ \/ life = "Importing" /\ life' = "CompleteInactive" /\ seq' = seq + 1
       \/ life = "CompleteInactive" /\ UNCHANGED <<life, seq>>
    /\ Goto(p, "idle")
    /\ UNCHANGED <<fence, serving, sealed, content, blobs, outside, progress>>

\* An error or a crash, at any point.
StopImport(p) ==
    /\ job[p].pc # "idle"
    /\ Goto(p, "idle")
    /\ UNCHANGED <<meta, content, blobs, outside, progress>>

\* An importer is started again with the fence of the namespace.
RestartImporter(p) ==
    /\ ~Holder(p)
    /\ job' = [job EXCEPT ![p] = [NoJob EXCEPT !.fence = fence]]
    /\ UNCHANGED <<meta, content, blobs, outside, progress>>

-------------------------------------------------------------------------------
(* activate_successor *)

\* The slot is Inactive; observe_complete takes a token ...
ObserveComplete(p) ==
    /\ job[p].pc = "idle" /\ Holder(p)
    /\ serving = None /\ life = "CompleteInactive" /\ progress = Total
    /\ job' = [job EXCEPT ![p].pc = "observing", ![p].token = CurrentToken]
    /\ UNCHANGED <<meta, content, blobs, outside, progress>>

\* ... and compares the whole inventory with the plan.
ObservedComplete(p) ==
    /\ job[p].pc = "observing" /\ Verified(p, Total)
    /\ Goto(p, "activate")
    /\ UNCHANGED <<meta, content, blobs, outside, progress>>

ActivateStale(p) ==
    /\ job[p].pc = "activate" /\ Holder(p)
    /\ life = "CompleteInactive" /\ ~sealed
    /\ Write(Activation, cells)
    /\ serving' = job[p].token
    /\ Goto(p, "idle")
    /\ UNCHANGED <<fence, life, sealed, blobs, outside, progress>>

\* commit_successor_activation
Activate(p) ==
    /\ job[p].pc = "activate" /\ Holder(p) /\ job[p].token = CurrentToken
    /\ life = "CompleteInactive" /\ ~sealed /\ serving = None
    /\ Committable(Activation, cells)
    /\ Write(Activation, cells)
    /\ serving' = job[p].token
    /\ Goto(p, "idle")
    /\ UNCHANGED <<fence, life, sealed, blobs, outside, progress>>

\* advance: what is installed differs from the plan, or the store refuses the
\* batch or the completion.
ImportRefused(p) ==
    LET w == job[p]
    IN  /\ Holder(p)
        /\ \/ w.pc = "verifying" /\ ~Verified(p, w.at)
           \/ w.pc = "commit" /\ (life # "Importing" \/ progress \notin {w.at, NextBatch(w.at)})
           \/ w.pc = "finish" /\ (progress # Total \/ w.token # CurrentToken)
        /\ Goto(p, "idle")
        /\ UNCHANGED <<meta, content, blobs, outside, progress>>

\* activate_verified: the inventory differs, or the token is not current any
\* more, or another invocation has activated the successor.
ActivationRefused(p) ==
    LET w == job[p]
    IN  /\ Holder(p)
        /\ \/ w.pc = "observing" /\ ~Verified(p, Total)
           \/ w.pc = "activate" /\ (w.token # CurrentToken \/ serving # None)
        /\ Goto(p, "idle")
        /\ UNCHANGED <<meta, content, blobs, outside, progress>>

Proceed(p) ==
    \/ BeginImport(p) \/ StartVerify(p) \/ EndVerify(p) \/ PublishBodies(p)
    \/ CommitBatch(p) \/ RetryBatch(p) \/ FinishImport(p)
    \/ ObservedComplete(p) \/ Activate(p) \/ ImportRefused(p) \/ ActivationRefused(p)

ImportNext ==
    \/ Next
    \/ \E p \in Importer :
          Proceed(p) \/ Resume(p) \/ ObserveComplete(p) \/ StopImport(p) \/ RestartImporter(p)

ImportSpec == ImportInit /\ [][ImportNext]_vars

-------------------------------------------------------------------------------
(* Correctness *)

\* Until the successor serves, what is installed is exactly the prefix of the
\* plan that the recorded progress names, the whole plan once complete, however
\* invocations interleave, stop and retry; and nothing else writes.
InstalledIsPrefix ==
    serving = None =>
        /\ life = "FreshImport" => Holds(0)
        /\ life = "Importing" => Holds(progress)
        /\ life = "CompleteInactive" => progress = Total /\ Holds(Total)

\* The successor is activated once, over the whole verified plan, and from then
\* on no importer still at work touches the namespace.
ActivatedOnce ==
    [][/\ serving' # serving => serving = None /\ Holds(Total)
       /\ serving # None =>
             /\ UNCHANGED <<serving, life, progress>>
             /\ job' # job => UNCHANGED <<seq, content>>]_vars
===============================================================================
