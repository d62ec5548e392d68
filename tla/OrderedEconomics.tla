--------------------------- MODULE OrderedEconomics ---------------------------
(***************************************************************************)
(* A network of validator stores that order economic candidates            *)
(* (node-core's ordered_economics).  Every replica drives the chained      *)
(* HotStuff engine through its own durable store, keeps the proposals and  *)
(* votes it signed as immutable rows keyed by view, reserves a candidate's *)
(* sender nonce together with its signature, and executes a committed      *)
(* candidate in the same commit that advances the consensus state.         *)
(*                                                                         *)
(* A handler reads its rows, computes, and commits once under the          *)
(* revisions it read, so it is one step.  The exceptions are Draft/Propose *)
(* (the consensus row is read but not asserted) and the causal profile's   *)
(* completion of a justified prefix, a commit of its own that is a         *)
(* ProcessCertificate step here.  All of this state is durable: a crash    *)
(* loses only a handler's reply.  Messages form a growing set of signed    *)
(* artifacts: a transport may lose, delay, repeat and reorder them.        *)
(*                                                                         *)
(* Faulty validators may propose and vote for any blocks in any view; what *)
(* they sign is available from the start and needs no step.                *)
(*                                                                         *)
(* A candidate answers a request, names the shared row (an escrow or bond  *)
(* generation) it supersedes, and may spend one sender nonce.  The owned   *)
(* objects of a reservation always come with the nonce of their owner, so  *)
(* the nonce lock stands for the whole reservation.                        *)
(***************************************************************************)
EXTENDS SafeVoting

CONSTANTS
    FaultySigns,         \* what they sign: the blocks among it matter
    Causal,              \* whether the causal admission profile is installed
    Request, RequestOf,  \* [Tx -> Request]
    Row, RowOf,          \* [Tx -> Row]
    Sender, NoSender,
    SenderOf,            \* [Tx -> Sender or NoSender]
    NonceOf,             \* [Tx -> Nat]
    NoRequest,
    MaxVoteAncestorWalk, \* MAX_VOTE_ANCESTOR_WALK
    MaxInFlight,         \* bound on the propose calls a replica has in flight
    Replies              \* subset of BOOLEAN: may a handler's reply be lost?

ASSUME OrderedEconomicsAssumption ==
    /\ Causal \in BOOLEAN
    /\ RequestOf \in [Tx -> Request]
    /\ RowOf \in [Tx -> Row]
    /\ NoSender \notin Sender
    /\ SenderOf \in [Tx -> Sender \cup {NoSender}]
    /\ NonceOf \in [Tx -> Nat]
    /\ NoRequest \notin Request
    /\ MaxVoteAncestorWalk \in Nat
    /\ MaxInFlight \in Nat
    /\ Replies \subseteq BOOLEAN

VARIABLES
    state,         \* [Honest -> ConsensusState]: the consensus row
    leaderRecord,  \* [Honest -> SUBSET Block]: signed proposals, keyed by view
    voteHigh,      \* [Honest -> 0..MaxView]: the vote high-water row
    header,        \* [Honest -> [Request -> Tx or NoTx]]: header and bytes rows
    nonceLock,     \* [Honest -> [Sender -> Request or NoRequest]]
    applied,       \* [Honest -> Nat]: the applied-height row
    archive,       \* [Honest -> SUBSET Block]: commit proofs, keyed by height
    outcomes,      \* [Honest -> Seq(Outcome)]: completed candidates, in order
    drafts,        \* [Honest -> SUBSET Block]: propose calls in flight
    proposals,     \* proposals honest leaders have exposed
    votes          \* [Honest -> SUBSET Block]: votes exposed

identityVars == <<leaderRecord, voteRecord, voteHigh>>
economicVars == <<header, nonceLock, applied, archive, outcomes>>
networkVars == <<drafts, proposals, votes>>
vars == <<state, identityVars, economicVars, networkVars>>

Outcome == [tx : Tx, accepted : BOOLEAN]

-------------------------------------------------------------------------------
(***************************************************************************)
(* Signed artifacts.                                                       *)
(***************************************************************************)
TxOf(b) == b[Len(b)].tx

\* require_profile_shape: every third height may carry a candidate.
ProfileShape(b) == TxOf(b) = NoTx \/ Height(b) % 3 = 1

FaultyBlock == {b \in FaultySigns : b \in Block /\ b # Genesis}

FaultyProposal == {b \in FaultyBlock : Leader(View(b)) \in Faulty}

Voters(b) ==
    {v \in Honest : b \in votes[v]} \cup (IF b \in FaultyBlock THEN Faulty ELSE {})

\* verify_certificate: a quorum of signatures over b can be assembled.
Certified(b) == b = Genesis \/ Voters(b) \in Quorum

\* verify_proposal: the leader's signature and the justify certificate.
Verified(b) ==
    /\ b \in proposals \cup FaultyProposal
    /\ Certified(Justify(b))
    /\ ProfileShape(b)

\* load_state: a replica refuses to act on a row that does not validate.
Loaded(r) ==
    /\ ValidState(state[r])
    /\ \A qc \in StoredCertificates(state[r]) : Certified(qc)

-------------------------------------------------------------------------------
(***************************************************************************)
(* Candidates on one replica.                                              *)
(***************************************************************************)
Completions(r) == {outcomes[r][i] : i \in DOMAIN outcomes[r]}

\* read_outcome_row: the request has a retained outcome.
Completed(r, req) == \E o \in Completions(r) : RequestOf[o.tx] = req

\* An accepted candidate advances its sender's nonce and supersedes its row.
NextNonce(r, s) ==
    Cardinality({o \in Completions(r) : o.accepted /\ SenderOf[o.tx] = s})

\* Mutant: nonces are not compared.
NonceUnchecked(r, tx) == TRUE

NonceIsNext(r, tx) ==
    SenderOf[tx] # NoSender => NextNonce(r, SenderOf[tx]) = NonceOf[tx]

RowIsCurrent(r, tx) ==
    \A o \in Completions(r) : o.accepted => RowOf[o.tx] # RowOf[tx]

\* Mutant: a later candidate may claim a bound request.
HeaderUnchecked(r, tx) == TRUE

\* reconcile_candidate: the request is unbound or bound to this candidate.
HeaderAgrees(r, tx) == tx # NoTx => header[r][RequestOf[tx]] \in {NoTx, tx}

BytesPresent(r, tx) == tx # NoTx => header[r][RequestOf[tx]] = tx

Reserves(tx) == tx # NoTx /\ SenderOf[tx] # NoSender

LockHolder(r, tx) == nonceLock[r][SenderOf[tx]]

\* Mutant: a reservation may be overwritten.
LockIgnored(r, tx) == TRUE

\* acquire_reservations: an exact retained reservation, or a free lock.
\* mutation_fence: execution honours the same two cases.
LockUsable(r, tx) ==
    Reserves(tx) => LockHolder(r, tx) \in {NoRequest, RequestOf[tx]}

\* admit_candidate_for_signer.
AdmitForSigning(r, tx) ==
    tx # NoTx =>
        /\ HeaderAgrees(r, tx)
        /\ ~Completed(r, RequestOf[tx])
        /\ Causal => NonceIsNext(r, tx)
        /\ LockUsable(r, tx)

WithHeader(r, tx) ==
    IF tx = NoTx THEN header
    ELSE [header EXCEPT ![r][RequestOf[tx]] = tx]

WithReservation(r, tx) ==
    IF Reserves(tx)
    THEN [nonceLock EXCEPT ![r][SenderOf[tx]] = RequestOf[tx]]
    ELSE nonceLock

\* preflight: a superseded row is refused; a stale nonce is refused, and in the
\* causal profile stops the event.  An accepted candidate must pass the fence.
Refuses(r, tx) == ~RowIsCurrent(r, tx) \/ ~NonceIsNext(r, tx)

CanExecute(r, tx) ==
    /\ Causal => NonceIsNext(r, tx)
    /\ Refuses(r, tx) \/ LockUsable(r, tx)

-------------------------------------------------------------------------------
(***************************************************************************)
(* prepare_event and its confirmation: check what an engine output commits *)
(* against the replica's own prefix, execute at most one candidate, and    *)
(* write everything at once.  A conjunct that fails stops the event and    *)
(* discards the output.  The candidate's bytes and its reservation are the *)
(* ones stored before the event, not the ones the event itself admits.     *)
(***************************************************************************)
Economic(o) == {b \in o.newly : TxOf(b) # NoTx}

ExtendsLocalPrefix(r, o) ==
    \A b \in o.newly :
        /\ \A p \in archive[r] : Height(p) # Height(b)
        /\ \/ Justify(b) \in o.newly \cup {Genesis}
           \/ Justify(b) \in state[r].known \cap state[r].committed

Executable(r, o) ==
    \A b \in Economic(o) :
        /\ applied[r] = state[r].committedHeight
        /\ BytesPresent(r, TxOf(b))
        /\ Completed(r, RequestOf[TxOf(b)]) \/ CanExecute(r, TxOf(b))

\* Mutant: a candidate placed again is executed again.
CompletedAgain(r, o) == {TxOf(b) : b \in Economic(o)}

\* The candidates an output executes for the first time (at most one).
FirstCompleted(r, o) ==
    {tx \in {TxOf(b) : b \in Economic(o)} : ~Completed(r, RequestOf[tx])}

NewOutcomes(r, o) ==
    LET fresh == FirstCompleted(r, o)
        tx == CHOOSE t \in fresh : TRUE
    IN  IF fresh = {} THEN << >>
        ELSE << [tx |-> tx, accepted |-> ~Refuses(r, tx)] >>

\* Mutant: completion forgets its reservation.
ReleasedNever(r, o, locks) == locks

\* release_reservations: exactly the lock the completed request holds.
Released(r, o, locks) ==
    [locks EXCEPT ![r] = [s \in Sender |->
        IF \E tx \in FirstCompleted(r, o) :
              Reserves(tx) /\ SenderOf[tx] = s /\ LockHolder(r, tx) = RequestOf[tx]
        THEN NoRequest ELSE locks[r][s]]]

\* Mutant: one height is applied per event.
AppliedByOne(r, o) == IF o.newly = {} THEN applied[r] ELSE applied[r] + 1

NewAppliedHeight(r, o) ==
    IF o.newly = {} THEN applied[r] ELSE o.state.committedHeight

\* admitted is the candidate whose header this event writes; reserving says
\* whether it also reserves the nonce.
FinalizeEvent(r, o, admitted, reserving) ==
    /\ applied[r] <= state[r].committedHeight
    /\ Cardinality(Economic(o)) <= 1
    /\ ExtendsLocalPrefix(r, o)
    /\ Executable(r, o)
    /\ state' = [state EXCEPT ![r] = o.state]
    /\ archive' = [archive EXCEPT ![r] = @ \cup o.newly]
    /\ applied' = [applied EXCEPT ![r] = NewAppliedHeight(r, o)]
    /\ outcomes' = [outcomes EXCEPT ![r] = @ \o NewOutcomes(r, o)]
    /\ header' = WithHeader(r, admitted)
    /\ nonceLock' = Released(r, o,
           IF reserving THEN WithReservation(r, admitted) ELSE nonceLock)

-------------------------------------------------------------------------------
(***************************************************************************)
(* The handlers.                                                           *)
(***************************************************************************)
Init ==
    /\ state = [r \in Honest |-> GenesisState]
    /\ leaderRecord = [r \in Honest |-> {}]
    /\ voteRecord = [r \in Honest |-> {}]
    /\ voteHigh = [r \in Honest |-> 0]
    /\ header = [r \in Honest |-> [q \in Request |-> NoTx]]
    /\ nonceLock = [r \in Honest |-> [s \in Sender |-> NoRequest]]
    /\ applied = [r \in Honest |-> 0]
    /\ archive = [r \in Honest |-> {}]
    /\ outcomes = [r \in Honest |-> << >>]
    /\ drafts = [r \in Honest |-> {}]
    /\ proposals = {}
    /\ votes = [r \in Honest |-> {}]

\* The causal profile completes the prefix that b's certificate justifies in
\* commits of their own before it signs b or a vote for b.
PrefixCompleted(r, b) ==
    Causal => CertificateApplied(state[r], Justify(b)).newly = {}

\* propose up to the commit: build a block on the loaded consensus row.
CanDraft(r, tx) ==
    /\ Loaded(r)
    /\ Leader(state[r].currentView) = r
    /\ ProfileShape(ProposalOn(state[r], tx))
    /\ AdmitForSigning(r, tx)

Draft(r, tx) ==
    /\ ~Causal
    /\ Cardinality(drafts[r]) < MaxInFlight
    /\ CanDraft(r, tx)
    /\ drafts' = [drafts EXCEPT ![r] = @ \cup {ProposalOn(state[r], tx)}]
    /\ UNCHANGED <<state, identityVars, economicVars, proposals, votes>>

\* Mutant: the leader row of the view is overwritten.
LeaderIdentityIgnored(r, b) == TRUE

\* reconcile_leader_proposal, when no proposal is retained for the view.
LeaderIdentityFree(r, b) == \A p \in leaderRecord[r] : View(p) # View(b)

\* The commit of propose: the leader row of the view must still be absent and
\* the admission rows unchanged; the consensus row may have moved on, except in
\* the causal profile, which asserts it.
RecordProposal(r, b, sent) ==
    /\ LeaderIdentityFree(r, b)
    /\ AdmitForSigning(r, TxOf(b))
    /\ leaderRecord' = [leaderRecord EXCEPT ![r] = @ \cup {b}]
    /\ header' = WithHeader(r, TxOf(b))
    /\ nonceLock' = WithReservation(r, TxOf(b))
    /\ proposals' = IF sent THEN proposals \cup {b} ELSE proposals
    /\ UNCHANGED <<state, voteRecord, voteHigh, applied, archive, outcomes, votes>>

Propose(r, sent) ==
    \/ \E b \in drafts[r] :
          /\ RecordProposal(r, b, sent)
          /\ drafts' = [drafts EXCEPT ![r] = @ \ {b}]
    \/ \E tx \in Tx \cup {NoTx} :
          /\ Causal
          /\ CanDraft(r, tx)
          /\ PrefixCompleted(r, ProposalOn(state[r], tx))
          /\ RecordProposal(r, ProposalOn(state[r], tx), sent)
          /\ UNCHANGED drafts

\* propose again for work already recorded: the retained proposal is returned.
ReproposeRetained(r, b) ==
    /\ Loaded(r)
    /\ b \in leaderRecord[r]
    /\ b = ProposalOn(state[r], TxOf(b))
    /\ TxOf(b) # NoTx => ~Completed(r, RequestOf[TxOf(b)])
    /\ Causal \/ AdmitForSigning(r, TxOf(b))
    /\ PrefixCompleted(r, b)
    /\ proposals' = proposals \cup {b}
    /\ UNCHANGED <<state, identityVars, economicVars, drafts, votes>>

\* Mutant: the ancestors of the block need not be known.
VoteReadyAlone(r, b) == applied[r] = state[r].committedHeight

\* require_vote_readiness.
VoteReady(r, b) ==
    LET s == state[r]
        top == Height(b) - 1
        low == IF s.committedHeight < top THEN s.committedHeight ELSE top
    IN  /\ applied[r] = s.committedHeight
        /\ top - low < MaxVoteAncestorWalk
        /\ \A h \in 1..top : h >= low => Ancestor(b, h) \in s.known
        /\ \A h \in (low + 1)..top : BytesPresent(r, TxOf(Ancestor(b, h)))

\* reconcile_local_vote, when no vote is retained for the view.
VoteIdentityFree(r, b) ==
    /\ \A v \in voteRecord[r] : View(v) # View(b)
    /\ View(b) >= voteHigh[r]

\* process_proposal: sign, record and expose a fresh vote.
Vote(r, b, sent) ==
    /\ Verified(b)
    /\ Loaded(r)
    /\ VoteIdentityFree(r, b)
    /\ AdmitForSigning(r, TxOf(b))
    /\ PrefixCompleted(r, b)
    /\ VoteReady(r, b)
    /\ CanVote(state[r], b)
    /\ FinalizeEvent(r, VotedProposal(state[r], b), TxOf(b), TRUE)
    /\ voteRecord' = [voteRecord EXCEPT ![r] = @ \cup {b}]
    /\ voteHigh' = [voteHigh EXCEPT ![r] = Max2(@, View(b))]
    /\ votes' = IF sent THEN [votes EXCEPT ![r] = @ \cup {b}] ELSE votes
    /\ UNCHANGED <<leaderRecord, drafts, proposals>>

\* process_proposal of a block whose own certificate is held: no vote is
\* signed, but the candidate is admitted as for signing.
ProcessCertifiedProposal(r, b) ==
    /\ Verified(b)
    /\ Loaded(r)
    /\ VoteIdentityFree(r, b)
    /\ AdmitForSigning(r, TxOf(b))
    /\ PrefixCompleted(r, b)
    /\ VoteReady(r, b)
    /\ b \in state[r].certificates
    /\ Causal \/ TxOf(b) # NoTx => WithinFutureGap(state[r], b)
    /\ LET o == ObservedProposal(state[r], b) IN
          /\ Causal => Economic(o) = {}
          /\ FinalizeEvent(r, o, TxOf(b), TRUE)
    /\ UNCHANGED <<identityVars, networkVars>>

\* process_proposal of a block this replica voted for: the retained vote is
\* exposed again and nothing is written.
ReplayVote(r, b) ==
    /\ Verified(b)
    /\ Loaded(r)
    /\ b \in voteRecord[r]
    /\ Causal => /\ TxOf(b) # NoTx => ~Completed(r, RequestOf[TxOf(b)])
                 /\ VoteReady(r, b)
                 /\ WithinFutureGap(state[r], b)
                 /\ PrefixCompleted(r, b)
    /\ votes' = [votes EXCEPT ![r] = @ \cup {b}]
    /\ UNCHANGED <<state, identityVars, economicVars, drafts, proposals>>

\* observe_proposal: signerless recovery, with or without the candidate's bytes.
ObserveProposal(r, b, delivered) ==
    /\ Verified(b)
    /\ Loaded(r)
    /\ WithinFutureGap(state[r], b)
    /\ delivered => HeaderAgrees(r, TxOf(b))
    /\ FinalizeEvent(r, ObservedProposal(state[r], b),
                     IF delivered THEN TxOf(b) ELSE NoTx, FALSE)
    /\ UNCHANGED <<identityVars, networkVars>>

ProcessCertificate(r, qc) ==
    /\ Certified(qc)
    /\ Loaded(r)
    /\ ViewHasSuccessor(qc)
    /\ FinalizeEvent(r, CertificateApplied(state[r], qc), NoTx, FALSE)
    /\ UNCHANGED <<identityVars, networkVars>>

\* Mutant: the view overflows.
TickPastEnd(r) ==
    /\ Loaded(r)
    /\ FinalizeEvent(r, TickApplied(state[r]), NoTx, FALSE)
    /\ UNCHANGED <<identityVars, networkVars>>

\* process_tick, when the trusted clock has passed the view's deadline.
Tick(r) ==
    /\ Loaded(r)
    /\ state[r].currentView < MaxView
    /\ FinalizeEvent(r, TickApplied(state[r]), NoTx, FALSE)
    /\ UNCHANGED <<identityVars, networkVars>>

Deliver(r, b) ==
    \/ \E sent \in Replies : Vote(r, b, sent)
    \/ ProcessCertifiedProposal(r, b)
    \/ ReplayVote(r, b)
    \/ \E delivered \in BOOLEAN : ObserveProposal(r, b, delivered)

Lead(r) ==
    \/ \E tx \in Tx \cup {NoTx} : Draft(r, tx)
    \/ \E sent \in Replies : Propose(r, sent)
    \/ \E b \in leaderRecord[r] : ReproposeRetained(r, b)

Next ==
    \E r \in Honest :
        \/ Lead(r)
        \/ \E b \in proposals \cup FaultyProposal : Deliver(r, b)
        \/ \E qc \in proposals \cup FaultyBlock : ProcessCertificate(r, qc)
        \/ Tick(r)

Spec == Init /\ [][Next]_vars

-------------------------------------------------------------------------------
(***************************************************************************)
(* Properties.                                                             *)
(***************************************************************************)
\* Every row has its type, and heights and views stay within their bounds.
TypeOK ==
    /\ state \in [Honest -> ConsensusState]
    /\ leaderRecord \in [Honest -> SUBSET Block]
    /\ voteRecord \in [Honest -> SUBSET Block]
    /\ voteHigh \in [Honest -> 0..MaxView]
    /\ header \in [Honest -> [Request -> Tx \cup {NoTx}]]
    /\ nonceLock \in [Honest -> [Sender -> Request \cup {NoRequest}]]
    /\ applied \in [Honest -> Nat]
    /\ archive \in [Honest -> SUBSET Block]
    /\ outcomes \in [Honest -> Seq(Outcome)]
    /\ drafts \in [Honest -> SUBSET Block]
    /\ proposals \subseteq Block
    /\ votes \in [Honest -> SUBSET Block]

\* An honest validator never signs two blocks in one view, as a leader or as a
\* voter, whatever is replayed, retried, drafted concurrently or lost, and
\* exposes only signatures it has recorded.
NoEquivocation ==
    \A r \in Honest :
        /\ \A b, c \in leaderRecord[r] : View(b) = View(c) => b = c
        /\ \A b, c \in voteRecord[r] : View(b) = View(c) => b = c
        /\ votes[r] \subseteq voteRecord[r]
        /\ \A b \in proposals : Leader(View(b)) = r => b \in leaderRecord[r]

\* No view has two certified blocks.
UniqueCertificate ==
    \A b, c \in proposals \cup FaultyBlock :
        Certified(b) /\ Certified(c) /\ View(b) = View(c) => b = c

\* The archived commit proofs of a replica are one chain without gaps that ends
\* at its committed height, and every committed height is applied.
LocalPrefixIsChain ==
    \A r \in Honest :
        /\ applied[r] = state[r].committedHeight
        /\ {Height(b) : b \in archive[r]} = 1..applied[r]
        /\ \A b \in archive[r] :
              \A c \in archive[r] :
                 Height(c) <= Height(b) => c = Ancestor(b, Height(c))

\* The completed candidates are those of the archived chain, each once, in the
\* order of their first placement.
FirstPlacement(r, tx) ==
    {b \in archive[r] : /\ TxOf(b) = tx
                        /\ \A c \in archive[r] : TxOf(c) = tx => Height(b) <= Height(c)}

ExecutedOnceInOrder ==
    \A r \in Honest :
        /\ {o.tx : o \in Completions(r)} = {TxOf(b) : b \in archive[r]} \ {NoTx}
        /\ \A i, j \in DOMAIN outcomes[r] : i < j =>
              \A b \in FirstPlacement(r, outcomes[r][i].tx),
                 c \in FirstPlacement(r, outcomes[r][j].tx) :
                    Height(b) < Height(c)

\* The replica holds a certificate, later than a block it has committed, for a
\* block that does not descend from it.
SeesFork(r) ==
    \E qc \in state[r].certificates \cup {state[r].lockedQC} : \E b \in archive[r] :
        View(qc) > View(b) /\ ~Descends(qc, b)

\* The row a handler persists is one the next handler accepts, whatever is
\* pruned, locked or committed in whichever order: validate_state rejects what
\* the engine itself wrote only at a replica that sees a fork of its commits.
PersistedStateValid == \A r \in Honest : Loaded(r) \/ SeesFork(r)

\* Two replicas never commit different blocks at one height.
CommitAgreement ==
    \A q, r \in Honest :
        \A b \in archive[q], c \in archive[r] : Height(b) = Height(c) => b = c

\* No double spend: two accepted candidates never supersede one row, and the
\* accepted candidates of a sender spend its nonces in order from 0, each once.
SpentOnce ==
    \A r \in Honest : \A i \in DOMAIN outcomes[r] :
        LET o == outcomes[r][i]
            earlier == {outcomes[r][j] : j \in 1..(i - 1)}
            accepted == {p \in earlier : p.accepted}
        IN  o.accepted =>
                /\ \A p \in accepted : RowOf[p.tx] # RowOf[o.tx]
                /\ SenderOf[o.tx] # NoSender =>
                      {NonceOf[p.tx] : p \in {q \in accepted : SenderOf[q.tx] = SenderOf[o.tx]}}
                          = 0..(NonceOf[o.tx] - 1)

\* What is executed for a request is the candidate its header row binds, then
\* and ever after: no later admission rebinds a request.
CompletedAsBound ==
    \A r \in Honest : \A o \in Completions(r) : header[r][RequestOf[o.tx]] = o.tx

\* A nonce lock is held only for a request that is bound to a candidate of that
\* sender and has no outcome yet: completion releases it.
LocksAreLive ==
    \A r \in Honest : \A s \in Sender :
        nonceLock[r][s] # NoRequest =>
            /\ ~Completed(r, nonceLock[r][s])
            /\ header[r][nonceLock[r][s]] \in {tx \in Tx : SenderOf[tx] = s}

\* A step that takes a nonce lock away from a request completes that request:
\* no other candidate, timeout or recovery frees it.
ReleasedOnlyByCompletion ==
    [][\A r \in Honest : \A s \in Sender :
          nonceLock[r][s] \notin {NoRequest, nonceLock'[r][s]} =>
              /\ ~Completed(r, nonceLock[r][s])
              /\ \E o \in Completions(r)' : RequestOf[o.tx] = nonceLock[r][s]]_vars
===============================================================================
