# A TLA+ development of sunrise-edge

This directory models how sunrise-edge orders, certifies, executes, stores and hands
over transactions: the validator set and the chained HotStuff engine, the
ordered-economics engine that drives it through a durable store, the fast path and
its locks, the end of an epoch, the durable namespace that all of them write to, its
outbox, and the import of a successor namespace. TLC checks the modules on small
instances. TLAPS proves nearly all of the safety properties for every instance.
`PROJECT.json` lists the components, runs, mutants, the source lines of every
definition, the hazards and the theorems.

## The system

A validator node is a set of handlers over one transactional store. A handler
authenticates its input, reads rows with their revisions, computes, and commits its
writes in one transaction that asserts the revisions it read. Nothing it decides on
lives in memory between two calls: a crash loses at most a reply.

| Part | State | Operations | Interacts with |
| --- | --- | --- | --- |
| Validator set (`validator-set`) | identifiers and powers, fixed for an epoch | threshold, leader of a view | all certificates |
| Chained HotStuff (`consensus`) | `ConsensusState`: view, last vote, high and locked certificate, committed height, known proposals, certificates | `propose`; events Proposal, Vote, Certificate, Tick; observer events; pruning; validation of a loaded row | the ordered engine, which persists its state |
| Ordered economics (`ordered_economics/engine.rs`, `identity.rs`) | consensus row, leader and vote rows per view, request headers and bytes, outcomes, applied height, archived commit proofs | `propose`, `process_proposal`, `observe_proposal`, `process_certificate`, `process_tick` | HotStuff, reservations, execution |
| Reservations, preflight, completion | object and nonce locks, bond, fee and nonce rows, receipts | acquire with a signature, verify, execute and release with the commit | lock rows are shared with the fast path |
| Fast path (`fast_path.rs`, `consensus/fast_vote.rs`, `mutation_fence.rs`) | locks, prepared records, certificates | prepare, apply, certified recovery; direct execution beside it | the epoch fence |
| Epoch transition (`epoch_transition.rs`) | epoch row, transition record | propose and vote, activate | fast path |
| Controls (`freeze.rs`, `frontier.rs`, `drain_union.rs`, `drain_set.rs`, `seal.rs`) | admission closure, frontier, drain set, seal | ordered candidates that end an epoch | fast path, serving authority |
| Durable runtime (`runtime`, `runtime-sql-durable`) | rows with revisions, objects and their versions, receipts, fence, mutation sequence | revision-checked commit, capture, Seal, failover | all handlers |
| Outbox (`runtime-sql-durable/src/engine.rs`, `native-http`) | delivery cursor and attempts per request | claim, send, acknowledge under a lease | handlers, recovery workers |
| Successor handoff (`business_reconstruction`, `serving_authority`) | import progress, lifecycle, serving slot | import in batches, verify, activate | the durable runtime |
| Bonds, fees, assets, evidence, governance, genesis, wire, adapters, CLI, encodings, crypto, bytecode | see *Not modelled* | | |

What is hard here: two calls of one handler in flight; a proposal, vote or
certificate lost, repeated, delayed or delivered before what it depends on; a reply
lost after the commit; pruning under a lock that must survive it; several heights
committed by one event that may execute only one candidate; a candidate placed twice;
one request claimed by two candidates; a lock that outlives its request; an epoch that
ends at each replica at another time; rows read one by one and written together; a
lease that runs out under its holder; an import that stops anywhere. The hazards in
`PROJECT.json` name the lines.

## Modules

| Module | Models |
| --- | --- |
| `ValidatorSet` | Voting powers, quorums, committees, leaders. The power of a set is the number of its power units, which makes quorum intersection a statement about cardinalities. |
| `ChainedHotStuff` | The engine as pure functions from a `ConsensusState` and an event to the next one, as the crate is written. |
| `SafeVoting` | Abstract: what a replica promises when it votes. One variable, the vote rows. |
| `OrderedEconomics` | A network of replicas: one action per handler, both admission profiles. Its `Spec` implements `SafeVotingSpec`; the mapping is the identity on `voteRecord`. |
| `OwnedLedger` | Abstract: requests that are decided and then executed, each spending object references once. |
| `FastPath`, `FastPathLedger` | Prepare, apply, recovery, direct execution and epoch activation; and the mapping of that state to `OwnedLedger`. |
| `EpochHandoff` | `FastPath` under the handoff-capable profile, composed with publication, Freeze, frontiers, DrainSet, drain, readiness of the incoming validators and Seal. |
| `SerialStore` | Abstract: a store that runs one transaction at a time. |
| `DurableNamespace` | One namespace, its request handlers and the capturer that copies and seals it. Implements `SerialStore`. |
| `NamespaceImport` | `DurableNamespace` of a successor: import and activation, then ordinary service. |
| `Outbox` | Delivery of emitted messages by handlers and recovery workers. |
| `MC*` | Instances for TLC. |
| `*Proofs` | Theorems: see *Proofs*. |

### Blocks, signatures, messages

A block is the sequence of headers (view, transaction) from the genesis anchor to
itself. Its digest covers its certificate, which covers its parent's digest, so the
digest determines that path; height, parent and ancestry become functions of the
block. A certificate is the block it certifies. Two blocks that differ only in a
leader's signature bytes are one block here; the models tell two proposals of a
leader in one view apart by their transaction or their parent. Digests do not
collide and signatures are not forged.

Messages are sets that only grow. A transport that loses, repeats, delays or reorders
a message is one that delivers any subset in any order. Faulty validators have signed
every block in `FaultySigns`, and vote for every fast-path request, from the start.

### Ordered economics: from handlers to actions

| Code | Action |
| --- | --- |
| `propose` without the causal profile | `Draft` (load the row, build and sign) and `Propose` (commit): its commit does not assert the consensus row |
| `propose_causal` | `Propose` in one step; completing the prefix of the high certificate first is a `ProcessCertificate` step and a guard, `PrefixCompleted` |
| `propose` when the view has a row | `ReproposeRetained` |
| `process_proposal` | `Vote`, `ProcessCertifiedProposal` or `ReplayVote`, by the vote row and the certificates held |
| `observe_proposal` | `ObserveProposal`, with or without the candidate's bytes |
| `process_certificate` | `ProcessCertificate` |
| `process_tick` | `Tick`, when the deadline has passed; otherwise nothing changes |
| `prepare_event` and its confirmation | `FinalizeEvent`: one conjunct per check, one primed variable per row family |
| a reply lost after the commit | `sent = FALSE` in `Vote` and `Propose` |

A handler that returns an error commits nothing and is not a step. `load_state`
validates the stored row on every call; `Loaded` is a guard of every action, and
`PersistedStateValid` says when it can block one.

A candidate answers a request, supersedes one shared row (a bond or escrow
generation) and may spend one nonce of one sender. Acceptance depends on that row and
nonce only; amounts are data. The nonce lock stands for the whole reservation,
because the owned objects of a reservation come with the nonce of their owner. A
`Replace` reserves two consecutive nonces in one lock; here it is one. In the causal
profile a head-reading candidate whose own certificate is already held stops without
a vote; `ProcessCertifiedProposal` allows the step for every candidate, which adds
behaviours and removes none.

### Fast path and the end of an epoch

A request is an intent: an identity, a sender with a nonce, an epoch, object
references that it pins, and the objects that it rewrites. A reference is the request
that wrote the object last, or `Genesis`. `Prepare` takes the nonce lock and an object
lock per input and records the vote; `ApplyPrepared` and `ApplyRecovery` are the two
branches of apply; `Direct` is the paid path without a certificate; `ProposeAndVote`
and `Activate` are the epoch transition, which is local to each replica.

In `EpochHandoff` a request is applied only when a quorum retains it (`Retain`,
`ApplyPublished`). `Freeze` closes admission at a replica; `IndexNext` and
`SignFrontier` build its frontier; `Gather`, `CommitDrainSet` and `InstallDrainSet`
choose a quorum of frontiers; `DrainApply` applies their union over partial prepares.
An incoming validator that has imported the cut of a drained replica signs readiness
for it (`SignReadiness`): it replays the committed history and refuses a saved cut that
differs, so that the cut it signs is one that a replica has reached. `Seal` compares the
resulting cuts and requires a readiness certificate, votes of a quorum of the `Incoming`
set, for the same cut. The weights of the incoming set are those of the validators; how
the set is chosen and its eligibility are data. The log that delivers the three controls
in one order to every replica is `OrderedEconomics`, and is not composed here.

### Namespace, import, outbox

`DurableNamespace` has one action for each transaction and each read outside one:
`Receive` (receipt lookup), `ReadRow`, `ReadHead`, `Publish` (bodies go to the blob
store first), `CommitInvocation` or `CommitDurable`, `Conflict`, `Fail` (an
indeterminate outcome), `Restart`, `AdvanceFence`; and for the capturer `BeginCapture`,
`CapturePage`, `EndCapture`, `AbandonCapture`, retention and completion of the Seal.
What a transition computes is the constant operator `Apply`. A capture goes through the
pages of `Scan` in their order; what is scanned (`Stored`) are the four collections:
states, receipts, object heads and object versions, each version a record of its own.
Versions are numbered up to `MaxVersion`, the largest u64 of the code, where the next
creation or update is refused (`TransitionValid`). `NamespaceImport` adds
the steps of `advance`, `observe_complete` and the activation, one per transaction.
The plan is a constant sequence of rows with the kinds and locators of `ImportRow`.
`PlanAssumption` says what `raw_rows` and `batches` make of any snapshot: one row per
locator, versions before heads, and batches that adjoin (`BatchEnd`).
`CaptureAssumption` says what the capture of a namespace adds: the versions of an object
are numbered from 1 on in the order of the rows, as each is numbered one after the
head's, and it has a head (`HeadsAreNewest`, of the predecessor). `Holds(n)` compares
the whole content with the first n rows; `HeadsExpected` is the comparison of a head
with the newest version installed before it.

`Outbox` has a worker read its clock and take a lease identity (`Begin`), claim, send
and acknowledge; `ClaimIndeterminate` and `AckIndeterminate` are answers that are lost,
after which the worker repeats the operation once under the same identity.

## Runs

Each run finishes within five minutes with two workers.

| Run | Instance | Shows |
| --- | --- | --- |
| `replica` | causal profile; one replica, six faulty validators that are a quorum, six views, a chain of two windows and a fork, the replica leads view 6 | `PersistedStateValid`, `LocksAreLive`, `ReleasedOnlyByCompletion`, and `SafeVotingSpec`: the replica implements the abstract specification |
| `leader` | without the causal profile; two propose calls in flight, lost replies, two candidates for one request, the end of the view counter | `TypeOK`, `NoEquivocation`, `CompletedAsBound` |
| `observer` | recovery of a nine-block chain (three windows) in every order | `LocalPrefixIsChain`, `ExecutedOnceInOrder`, `SpentOnce` |
| `safe_voting` | every block over five views, powers 2, 1, 1, one faulty | `OneCertificatePerView`, `ConsecutiveCommitIsFinal` |
| `fork` | two honest replicas, powers 3 and 1, eight views | `CommitAgreement` fails |
| `fast_path` | three honest validators and a faulty one, four requests that compete for a nonce and for object versions, direct path on | `OneCertifiedPerNonce`, `ConsumedOncePerEpoch`, `ExactlyOnce`, `VotedCanFinish`, `ReplicasAgree` |
| `fast_path_epochs` | two epochs, a validator retires and one joins | `NoOrphanLock`, `LeftEpochIsClosed`, `RefinesLedger` |
| `stale_lock` | the same without the direct path | `ConflictingAppliesNever` fails |
| `handoff` | two honest validators and a faulty one, also the incoming set, three requests, the Freeze arrives at different times | `AppliedIsDrained`, `DisplacedNeverCertified`, `DrainNeverStuck`, `OneCut`, `RefinesLedger`, `HandoffCompletes` |
| `outbox` | two workers, two messages, six leases, a lost answer or crash, a fence | `AcknowledgedWasSent`, `TablesAgree`, `OneHolder`, `SealStrandsNothing`, `AllDelivered` |
| `namespace` | two handlers, three requests with read-write conflicts in both directions that create, delete and create again one object, a capturer, a page for each collection | `OneAnswer`, `HeadsNameVersions`, `BodiesStored`, `CaptureIsExact`, `RefinesSerialStore`, `SealIsFinal`, `AllAnswered` |
| `import` | two importers, a plan of two batches, then a handler and a capturer | `InstalledIsPrefix`, `ActivatedOnce` |

### Bounds

Replicas of the ordered engine share nothing but signed artifacts, so a replica among
faulty validators that can certify anything meets whatever an honest network could
send it, and more; the properties of one replica need no second one. Four blocks are
a window of three heights and the start of the next, the first point where a commit,
a repeated placement and pruning meet a vote. The observer's nine blocks reach the
third window, where pruning has removed the first and one event may commit several
heights. `RetainCommittedHeights` keeps its real value 2; `MaxFutureViewGap` and
`MaxVoteAncestorWalk` are reduced so that they bind. `MaxView` stands for the largest
u64, so the end of the counter is reached. The `fork` run confines the search by a
constraint to two chains of three blocks; for a counterexample that loses nothing.

The requests of the fast path are chosen so that every pair conflicts in another way:
one nonce, one object version, a version the other one produces, one object version in
two epochs. Symmetry is over validators whose power and committees agree.

The outbox run has leases of two ticks, attempts of one tick and eight ticks, so that
leases expire under workers that are still sending and takeovers happen for both
messages; an answer is lost or a process crashes once (`MaxFaults`) and is fenced once
(`MaxFence`). The workers' clocks agree with the store's there (`Skew = 0`). In the
namespace runs `MaxSeq` bounds the mutation sequence at which a metadata transaction,
which leaves no receipt and may be repeated, still starts; `namespace` has no failover
(`MaxFence = 1`) and `import` has one. `CaptureAt` names the sequence numbers at which a
capture may begin: in `namespace` it begins after two commits, so that a third one, which
may create again what the second deleted, is tried between its pages, after them or
after the Seal; in `import` it begins anywhere. The three versions of `namespace` are as many as its requests
can write. The time, fence, capture and fault bounds occur in the theorems as arbitrary
constants.

### Deadlock and fairness

Where a cfg says `CHECK_DEADLOCK FALSE` the system may stop: a replica to which nothing
is delivered, or that reached the last view, has nothing to do, and neither has a sealed
namespace with no answer to repeat. `import` checks for deadlock.

No fairness is assumed of the ordered engine and none of its runs claims liveness: the
code leaves delivery and clocks to its callers. Three runs assume what the code's own
loops and callers do:

* `handoff`: once a Freeze has committed, each honest validator's operator keeps
  delivering the bounded continuation calls and the ordered log goes on (weak fairness
  of each continuation); each honest incoming validator imports and signs once there is
  something to import. Faulty signers sign one frontier (`OneFrontier`): a replica
  keeps the first frontier it stages of a signer (`drain_union.rs:609`), so a signer
  with two could keep a replica from the selected one.
* `outbox`: the scheduler keeps calling the recovery of one message, a worker goes on
  with what it began, the operator replaces a fenced process, and time passes. The
  number of faults is bounded by `MaxFaults`.
* `namespace`: clients send a request, to whichever server is free, until it is answered
  (strong fairness of `Receive` by some handler, which is disabled while all are busy),
  handlers go on, a fenced process is restarted, and invocations fail only for a while
  (`<>[][Fail(h) => Conflict(h)]_vars`). Conflicts are not assumed to end: a conflict
  costs one invocation its commit only because another one has committed.

### What the two violations mean

*Commit without consecutive views* (`fork`). `apply_certificate` commits the
grandparent of a certified block when the three heights are consecutive. Two chains
compete: views 1, 3, 6 and views 4, 5, 7. A validator votes 1, then 3; its lock is
genesis. It votes 4 (on genesis, the lock allows it), then 5, which still locks only
genesis. Block 6 on top of 3 is then allowed: its certificate has view 3, above the
lock. Block 7 on top of 5 is allowed too, for 5 is above the lock on 1. Whoever sees 6
certified commits block 1, whoever sees 7 certified commits block 4. In the run the
powers are 3 and 1, so that one validator is a quorum; any set of validators voting
alike does the same. Both validators are honest. `ConsecutiveCommitIsFinal` shows what
the missing comparison would give.

*A stale lock* (`stale_lock`). A lock of an older epoch may be overwritten by a request
of the new one. Activation is local: a replica that has not activated yet applies the
older certificate while the new request is certified elsewhere, so two certificates
consume one object version. The handoff-capable profile replaces the rule, and
`EpochHandoff` shows what that gives.

### Other behaviour met while modelling

These are reachable in the models and no document contradicts them; they are the
reason why some tempting properties are not stated.

* After a fork of its commits a replica can write a consensus row that `validate_state`
  refuses (`consensus/src/durable.rs:1452`). `PersistedStateValid` excepts exactly this.
* Without the causal profile one commit may both reserve a candidate, for its second
  placement, and complete it. The release looks up the reservation stored before the
  event (`engine.rs:3072`), finds none, and the new lock stays. `LocksAreLive` is
  therefore about the causal profile.
* A transition vote is signed and not stored (`epoch_transition.rs:757`): a validator
  may sign two next sets, and two sets may be activated.
* Prepare reads the receipt of its request id before execution and does not assert it
  (`fast_path.rs:812`): if the direct path finalizes the id in between, the prepared
  intent and its locks stay until the epoch ends. The theorems that need it assume
  `UniqueIds`: no two intents carry one request id.

## Proofs

Each theorem module extends the module it is about.

| Module | About | Rests on |
| --- | --- | --- |
| `ValidatorSetProofs` | quorum and committee intersection | cardinalities of power units |
| `SafeVotingProofs` | the functions of `ChainedHotStuff`; unique certificates, final commits | `Promise` |
| `OrderedEconomicsProofs` | types, signing once, refinement of `SafeVotingSpec`; one committed chain, rows that load | `IInv`, `PrefixInv` |
| `OrderedExecutionProofs` | execution once and in order, spending once, bound requests, reservations | `ExecutionInv`, `LiveOf` |
| `FastPathProofs` | all safety properties of the fast path, refinement of `OwnedLedger` | `IInv` of `FastPath` |
| `EpochHandoffProofs` | all safety properties of the handoff, refinement of `OwnedLedger` | `FrozenInv`, `HandoffInv`, `ReadyInv` |
| `NamespaceProofs` | all safety properties of the namespace and of the import, refinement of `SerialStore`, a successor after its activation | `NamespaceInv`, `ActivationInv`, `ImportInv` |
| `OutboxProofs` | all safety properties of the outbox | `OutboxInv` |

The proofs use the named assumptions of the modules: finitely many validators with
positive powers, and the types and disjointness of the constants. What else a theorem
needs is a hypothesis in its statement: `FaultBound` (at most (W - 1) div 3 of the
power W is faulty), `UniqueIds`, `Causal`, or for `HoldersAreAlone` that operation
timeout and clock error fit in a lease.

A leaf names `Zenon` where that prover finds it: in modules of this size most of the
time of the default order goes into the translation for SMT. `SMTT(20)` marks the leaves
that need SMT and more than its default time when the whole module is checked.

### Ordering

* `QuorumIntersection`: two quorums share a validator outside any set within the fault
  bound. The units of two sets intersect in the units of the intersection; inclusion
  and exclusion over cardinalities does the rest.
* `CertificatesAreUnique`, `ConsecutiveCommitsAreFinal`: `Promise` says of the votes of
  one validator that no two have the same view, that the parent of each block voted for
  is certified, and that a later vote's certificate is at least as high as the lock
  every earlier vote left. Uniqueness follows from the first part and a common honest
  voter. Finality needs all three: among the certified blocks that do not descend from
  the committed one, take one of the lowest view. It is not one of the three views of
  the chain, by uniqueness; so a common voter of it and of the last block of the chain
  voted for it later, its parent's view is not below the committed one, the parent is
  certified and of a lower view, hence a descendant, and so is the block.
* `TypeCorrect`, `SignsOncePerView`, `VotesSafely`, and with them the two theorems about
  certificates for the network. `IInv` adds to the types what makes them inductive: the
  certificates a replica holds are for views it has left (else applying one could take
  the view past `MaxView`); its drafts and leader rows are of views it leads; every vote
  on record is no later than `lastVoted`, and the lock it left is no higher than
  `lockedQC`. The persisted state, which is pruned, thus still bounds the votes, which
  are not.
* `CommitsOneChain`, `LoadsWhatItWrote`: any number of faulty validators. `PrefixInv`
  says that the archived commits of a replica are the walk from genesis to one tip, at
  the committed and applied height, that each is of a lower view than the lock, and that
  what the pruned row calls committed is archived. A commit extends the tip because
  `apply_certificate` walks down to the committed height and compares the parent.
* `ExecutesOnceInOrder`, `SpendsOnce`, `CompletesAsBound`: `ExecutionInv` says that the
  outcomes follow the archive in the order of first placement, and that the accepted
  outcomes of a sender, finite in number, spend exactly the nonces below that number.
  The count is needed because a candidate is compared with the next nonce only, and
  ties the row to the outcomes without an induction over the sequence.
* `ReleasesByCompletion`, and `HoldsLiveLocks` for the causal profile, where `LiveOf`
  holds of each replica: the prefix is completed before a reservation is acquired, so no
  commit does both for one request.

### Fast path and handoff

* `FastPathTypes`, `EpochsStayClosed` need no hypothesis. The others follow from `IInv`:
  the heads and nonces of a replica are what its receipts make them (`LedgerInv`), a
  vote of the current epoch is final or still holds its locks and pins (`VoteInv`), and
  a lock belongs to such a vote (`LockInv`). Two certificates that compete have a common
  honest voter, which would have held two locks on one row.
* `FastPathRefinesLedger`: a vote that completes a certificate is `Decide`, a
  finalization is `Execute`, every other step a stutter.
* `HandoffLosesNothing`: what is retained by a quorum is retained by an honest member of
  the selected quorum before it closed, hence indexed, hence in its frontier. The cursor
  of the index runs in the order of request ids, and `FrontierInv` says that nothing is
  retained behind it. `DisplacedVotesAreLost`, `DrainIsNeverRefused`, `CutIsUnique` and
  `HandoffRefinesLedger` follow from `HandoffInv`, which adds that only certified
  requests are retained or drained and what each lock stands for. For `CutIsUnique`,
  `ReadyInv` adds that readiness was signed for the cut of a drained replica, whose cut
  cannot move any more (`DrainedStays`).

### Durable namespace

* `NamespaceInv` says that every row a process has read is the row as it is or has a
  lower revision than the row now (`Seen`), that the bodies of an invocation that is about
  to commit are published, and that a capture whose token is current holds what is
  stored. `HeadsAreNewest`, `BodiesComeFirst`, `AnswersAgree`, `CapturesExactly` and
  `SealsForGood` follow.
* `NamespaceIsSerial`: a commit checks that all revisions are unmoved; by `NamespaceInv`
  what was read row by row is then one state, the current one, and the commit is the
  transaction of `SerialStore` on it. Everything else is a stutter.
* `ActivatesOnce`: an importer that is about to activate holds a token, and as long as
  that token is current the whole plan is installed (`ActivationInv`), because whatever
  writes a row moves the mutation sequence.
* `InstallsPrefix`: `ImportInv` says that before the activation the content is the
  prefix of the plan that the progress names, that no handler is at work, that each
  installed head names the newest version of its object, and that an importer that is
  about to commit a batch has published its bodies. A batch is committed only at the
  progress it was computed for, so that its rows are disjoint from what is there: one
  row per locator makes the union of the two the longer prefix (`BatchInstalls`). The
  versions of an object stay a sequence because every prefix of the plan numbers them
  from 1 on (`CaptureAssumption`).
* `SuccessorIsSound`, `SuccessorSealsForGood`, `SuccessorIsSerial`: from its activation
  on `ImportInv` contains `NamespaceInv`, so that a successor keeps every guarantee of
  the namespace it was captured from, imported receipts included, while importers may
  still be at work. `HeadsNameVersions` is claimed of a serving namespace only: between
  two batches an object may have versions and no head yet. It holds at the activation
  because every object of the complete plan has its head.

### Outbox

`OutboxInv` relates the delivery row, all attempts and all workers. The attempts for one
message expire at least a lease apart (`Apart`): a claim takes over only what has
expired by its own clock, and its lease counts from that clock. `HoldersAreAlone`
follows: two holders of one message have clocks a lease apart, yet the later clock is at
most `Skew` ahead of the store's, which is before the earlier one's deadline. With a
larger clock error the two could overlap; nothing is lost even then
(`NothingIsSkipped`, `OutboxTablesAgree`, `SealLeavesNothing` have no such hypothesis).

### Only model-checked

* `HandoffCompletes`, `AllDelivered`, `AllAnswered`: liveness under fairness.
* That every run's instance satisfies the named assumptions (TLC evaluates them).

## Not modelled

The modules name about 12,600 lines of source, out of some 290,000 under `src/` that are
not tests: a small share of the whole. Most of the rest is codecs and their bounds,
digests, the verification of signed evidence, SQL dialects, HTTP, command-line and
operator tools, contracts, and client libraries. Within the files that the modules are
about the share is far higher, but there too every handler is mostly decoding,
authentication and error conversion, which the models take as done.

Left out of the modelled parts: the Vote event of the consensus crate (no route of the
ordered engine delivers it; operators' tools assemble certificates), the view deadline
(a tick may come at any time), the preview that decides whether a control is voted for
or observed, the length of the ancestor walk as a progress condition, object locks of a
reservation apart from its nonce lock, unpaid local execution, and the evidence checked
before an activation. Bonds, fees and standard assets are arithmetic inside one
transaction and are data here. Evidence, governance, genesis, wire formats, adapters and
the execution engine have no protocol state of their own. `PROJECT.json` gives the
reason for each.

## Plan

1. Freeze, DrainSet and Seal as candidates of `OrderedEconomics`, composed with
   `EpochHandoff`, instead of an assumed order.
2. Vote aggregation and the pacemaker, with a liveness run under fair delivery.
3. Bonds, fees and standard assets: conservation with the overflow checks of the code.
